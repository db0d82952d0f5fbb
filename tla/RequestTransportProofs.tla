------------------------ MODULE RequestTransportProofs ------------------------
(***************************************************************************)
(* Proofs about RequestTransport, for any number of clients, commands,     *)
(* retries, pages and sessions.  IInv is inductive together with TypeOK:   *)
(* a command that still runs has carried nothing out and told nothing, its *)
(* remaining requests are a rest of its plan, a client's cookies are of a  *)
(* session D2L has issued, and a list knows every page it holds.           *)
(***************************************************************************)
EXTENDS RequestTransport, SequenceTheorems, TLAPS

Writers == {"start", "create", "submit"}
Writing == {"post", "once"}
Places  == {"idle", "open", "migrate", "ready", "check", "renew", "browser", "save"}
Results == {"none", "done", "failed", "unknown", "cancelled", "refused"}

\* What may be left of a command: its plan, or what follows some of its requests.
Rest(command) ==
    CASE command = "show"   -> {<<"get">>}
      [] command = "list"   -> {<<"pages">>}
      [] command = "status" -> {<<"whoami">>}
      [] command = "start"  -> {<<"once">>}
      [] command = "create" -> {<<"token", "post">>, <<"post">>}
      [] command = "submit" -> {<<"courses", "folders", "peek", "confirm", "post">>,
                                <<"folders", "peek", "confirm", "post">>,
                                <<"peek", "confirm", "post">>,
                                <<"confirm", "post">>, <<"post">>}
      [] command = "tryout" -> {<<"courses", "folders", "peek">>, <<"folders", "peek">>,
                                <<"peek">>}

\* OutcomeIsTrue of one client.
Truthful(c) ==
    /\ outcome[c] = "done" /\ cmd[c] \in Writers => applied[c] = 1
    /\ outcome[c] = "failed" /\ cmd[c] = "create" => applied[c] = 0 \/ answered[c]
    /\ outcome[c] \in {"cancelled", "refused"} => applied[c] = 0

\* A running command has carried nothing out yet, and told nothing.
RunInv(c) ==
    /\ pc[c] # "idle" =>
          /\ cmd[c] \in CommandNames
          /\ todo[c] \in Rest(cmd[c])
          /\ outcome[c] = "none"
          /\ applied[c] = 0
    /\ applied[c] \in {0, 1}
    /\ Truthful(c)

\* Cookies are of sessions that were issued; recovery is for one that is over.
SessionInv(c) ==
    /\ mine[c] <= issued
    /\ copied[c] <= issued
    /\ token[c] \in {0, mine[c]}
    /\ pc[c] \in {"renew", "browser", "save"} => mine[c] \notin alive

\* A list has seen each page it holds, holds it once, and follows a link to another.
ListInv(c) ==
    /\ \A i \in 1 .. Len(got[c]) : [page |-> got[c][i], form |-> "absolute"] \in seen[c]
    /\ \A i, j \in 1 .. Len(got[c]) : got[c][i] = got[c][j] => i = j
    /\ pc[c] \notin {"idle", "open", "migrate"} /\ Op(c) \in Lists =>
          \A i \in 1 .. Len(got[c]) : got[c][i] # link[c].page

IInv ==
    /\ disk.session <= issued
    /\ \A c \in Clients : RunInv(c) /\ SessionInv(c) /\ ListInv(c)

-----------------------------------------------------------------------------
(* The requests of a command.                                              *)

\* A sequence written out: its first element, its length and what follows.
LEMMA Literals ==
    /\ \A x : <<x>> # <<>> /\ Head(<<x>>) = x /\ Len(<<x>>) = 1
    /\ \A x, y : /\ <<x, y>> # <<>> /\ Head(<<x, y>>) = x
                 /\ Len(<<x, y>>) = 2 /\ Tail(<<x, y>>) = <<y>>
    /\ \A x, y, z : /\ <<x, y, z>> # <<>> /\ Head(<<x, y, z>>) = x
                    /\ Len(<<x, y, z>>) = 3 /\ Tail(<<x, y, z>>) = <<y, z>>
  OBVIOUS

\* The same of four and five elements.
LEMMA LongLiterals ==
    /\ \A w, x, y, z : /\ <<w, x, y, z>> # <<>> /\ Head(<<w, x, y, z>>) = w
                       /\ Len(<<w, x, y, z>>) = 4 /\ Tail(<<w, x, y, z>>) = <<x, y, z>>
    /\ \A v, w, x, y, z : /\ <<v, w, x, y, z>> # <<>> /\ Head(<<v, w, x, y, z>>) = v
                          /\ Len(<<v, w, x, y, z>>) = 5
                          /\ Tail(<<v, w, x, y, z>>) = <<w, x, y, z>>
  OBVIOUS

\* The first three of five elements.
LEMMA FirstThree ==
    ASSUME NEW S, NEW s \in Seq(S), Len(s) = 5
    PROVE  <<s[1], s[2], s[3]>> = SubSeq(s, 1, 3)
  OBVIOUS

\* A submission's plan, and a tryout's, written out.
LEMMA LongPlans ==
    /\ SubmitPlan = <<"courses", "folders", "peek", "confirm", "post">>
    /\ TryoutPlan = <<"courses", "folders", "peek">>
<1> DEFINE t == <<"courses", "folders", "peek", "confirm">>
           s == <<"courses", "folders", "peek", "confirm", "post">>
<1>1. /\ t \in Seq(Ops) /\ Len(t) = 4 /\ s \in Seq(Ops) /\ Len(s) = 5
      /\ UploadPlan \in Seq(Ops) /\ Len(UploadPlan) = 1 /\ UploadPlan[1] = "post"
  BY DEF UploadPlan, Ops, Lists
<1>2. /\ \A i \in 1 .. 4 : t[i] = s[i]
      /\ s[5] = "post"
  OBVIOUS
<1> HIDE DEF t, s
<1>3. SubmitPlan = t \o UploadPlan
  BY DEF SubmitPlan, t
<1>4. /\ SubmitPlan \in Seq(Ops) /\ Len(SubmitPlan) = 5
      /\ \A i \in 1 .. 5 : SubmitPlan[i] = IF i <= 4 THEN t[i] ELSE UploadPlan[i - 4]
  <2>1. /\ t \o UploadPlan \in Seq(Ops)
        /\ Len(t \o UploadPlan) = Len(t) + Len(UploadPlan)
        /\ \A i \in 1 .. Len(t) + Len(UploadPlan) :
              (t \o UploadPlan)[i] = IF i <= Len(t) THEN t[i] ELSE UploadPlan[i - Len(t)]
    BY <1>1, ConcatProperties, Zenon
  <2> QED BY <1>1, <1>3, <2>1
<1>5. SubmitPlan = s
  <2>1. \A i \in 1 .. 5 : SubmitPlan[i] = s[i]
    BY <1>1, <1>2, <1>4
  <2> QED BY <1>1, <1>4, <2>1, SeqEqual
<1>6. TryoutPlan = <<s[1], s[2], s[3]>>
  BY <1>1, <1>5, FirstThree DEF TryoutPlan
<1> QED BY <1>5, <1>6 DEF s

\* A command starts with all of its plan ahead.
LEMMA PlanIsRest ==
    ASSUME NEW command \in CommandNames
    PROVE  Plan(command) \in Rest(command)
  BY LongPlans DEF CommandNames, Plan, Rest, StatusPlan, CreatePlan

\* What is left of a command is requests; of one that writes, the write comes last,
\* and is all that is left then.
LEMMA RestIsRequests ==
    ASSUME NEW command \in CommandNames, NEW t \in Rest(command)
    PROVE  /\ t \in Seq(Ops) /\ t # <<>> /\ Head(t) \in Ops
           /\ Len(t) # 1 => Tail(t) \in Rest(command)
           /\ Head(t) \in Writing => Len(t) = 1 /\ command \in Writers
           /\ Len(t) = 1 /\ command \in Writers => Head(t) \in Writing
<1> USE DEF Ops, Lists, Writing, Writers
<1>1. CASE command \in {"show", "list", "status", "start"}
  <2>1. PICK op \in {"get", "pages", "whoami", "once"} :
           t = <<op>> /\ (op = "once" <=> command = "start")
    BY <1>1 DEF Rest
  <2> QED BY <1>1, <2>1, Literals
<1>2. CASE command = "create"
  <2>1. Rest(command) = {<<"token", "post">>, <<"post">>}
    BY <1>2 DEF Rest
  <2>2. CASE t = <<"token", "post">>
    BY <1>2, <2>1, <2>2, Literals
  <2>3. CASE t = <<"post">>
    BY <1>2, <2>3, Literals
  <2> QED BY <2>1, <2>2, <2>3
<1>3. CASE command = "submit"
  <2>1. Rest(command) = {<<"courses", "folders", "peek", "confirm", "post">>,
                         <<"folders", "peek", "confirm", "post">>,
                         <<"peek", "confirm", "post">>, <<"confirm", "post">>, <<"post">>}
    BY <1>3 DEF Rest
  <2>2. CASE t = <<"courses", "folders", "peek", "confirm", "post">>
    BY <1>3, <2>1, <2>2, LongLiterals
  <2>3. CASE t = <<"folders", "peek", "confirm", "post">>
    BY <1>3, <2>1, <2>3, LongLiterals
  <2>4. CASE t = <<"peek", "confirm", "post">>
    BY <1>3, <2>1, <2>4, Literals
  <2>5. CASE t = <<"confirm", "post">>
    BY <1>3, <2>1, <2>5, Literals
  <2>6. CASE t = <<"post">>
    BY <1>3, <2>6, Literals
  <2> QED BY <2>1, <2>2, <2>3, <2>4, <2>5, <2>6
<1>4. CASE command = "tryout"
  <2>1. Rest(command) = {<<"courses", "folders", "peek">>, <<"folders", "peek">>, <<"peek">>}
    BY <1>4 DEF Rest
  <2>2. CASE t = <<"courses", "folders", "peek">>
    BY <1>4, <2>1, <2>2, Literals
  <2>3. CASE t = <<"folders", "peek">>
    BY <1>4, <2>1, <2>3, Literals
  <2>4. CASE t = <<"peek">>
    BY <1>4, <2>4, Literals
  <2> QED BY <2>1, <2>2, <2>3, <2>4
<1> QED BY <1>1, <1>2, <1>3, <1>4 DEF CommandNames

-----------------------------------------------------------------------------
(* Where a request takes its command.                                      *)

\* The variables that say where a command is keep their types, and only the client's
\* values change.
Placed(c) ==
    /\ pc' \in [Clients -> Places]
    /\ todo' \in [Clients -> Seq(Ops)]
    /\ outcome' \in [Clients -> Results]
    /\ \A d \in Clients \ {c} : pc'[d] = pc[d] /\ todo'[d] = todo[d] /\ outcome'[d] = outcome[d]

\* The command goes on to its next request, or ends and says done of a read only.
Moved(c) ==
    /\ Placed(c)
    /\ pc'[c] \in {"idle", "open"}
    /\ pc'[c] = "idle" /\ outcome'[c] = "done" => cmd[c] \notin Writers
    /\ pc'[c] # "idle" => todo'[c] \in Rest(cmd[c]) /\ outcome'[c] = "none"

\* The command stays with its request, at another place.
Went(c, place) ==
    /\ Placed(c)
    /\ pc'[c] = place
    /\ todo'[c] = todo[c] /\ outcome'[c] = outcome[c]

\* A command that runs.
Running(c) ==
    /\ TypeOK
    /\ c \in Clients
    /\ pc[c] # "idle"
    /\ cmd[c] \in CommandNames
    /\ todo[c] \in Rest(cmd[c])
    /\ outcome[c] = "none"

\* A running command has a request, and its rest of the plan.
LEMMA RunningHasOp ==
    ASSUME NEW c, Running(c)
    PROVE  /\ c \in Clients
           /\ pc \in [Clients -> Places]
           /\ todo \in [Clients -> Seq(Ops)]
           /\ outcome \in [Clients -> Results]
           /\ Op(c) \in Ops
           /\ Len(todo[c]) # 1 => Tail(todo[c]) \in Rest(cmd[c]) /\ Tail(todo[c]) \in Seq(Ops)
           /\ Op(c) \in Writing => Len(todo[c]) = 1 /\ cmd[c] \in Writers
           /\ Len(todo[c]) = 1 /\ cmd[c] \in Writers => Op(c) \in Writing
<1>1. /\ c \in Clients /\ pc \in [Clients -> Places] /\ todo \in [Clients -> Seq(Ops)]
      /\ outcome \in [Clients -> Results]
  BY DEF Running, TypeOK, Places, Results
<1>2. /\ Op(c) \in Ops
      /\ Len(todo[c]) # 1 => Tail(todo[c]) \in Rest(cmd[c])
      /\ Op(c) \in Writing => Len(todo[c]) = 1 /\ cmd[c] \in Writers
      /\ Len(todo[c]) = 1 /\ cmd[c] \in Writers => Op(c) \in Writing
  BY RestIsRequests DEF Running, Op
<1>3. Tail(todo[c]) \in Rest(cmd[c]) => Tail(todo[c]) \in Seq(Ops)
  BY RestIsRequests DEF Running
<1> QED BY <1>1, <1>2, <1>3

\* The end of a command.
LEMMA Finishes ==
    ASSUME NEW c, Running(c), NEW r \in Results, Finish(c, r)
    PROVE  Placed(c) /\ pc'[c] = "idle" /\ outcome'[c] = r
<1>1. <<>> \in Seq(Ops)
  OBVIOUS
<1> QED BY <1>1, RunningHasOp DEF Finish, Placed, Places

\* Finishing with anything but done is a move.
LEMMA FinishMoves ==
    ASSUME NEW c, Running(c), NEW r \in Results \ {"done"}, Finish(c, r)
    PROVE  Moved(c)
  BY Finishes DEF Moved

\* The next request of a command, unless it was the write that has come last.
LEMMA Proceeds ==
    ASSUME NEW c, Running(c), Op(c) \notin Writing, Proceed(c)
    PROVE  Moved(c)
<1>1. CASE Len(todo[c]) = 1
  <2>1. Finish(c, "done")
    BY <1>1 DEF Proceed
  <2> QED BY <1>1, <2>1, Finishes, RunningHasOp DEF Moved, Results
<1>2. CASE Len(todo[c]) # 1
  <2>1. /\ todo' = [todo EXCEPT ![c] = Tail(todo[c])]
        /\ pc' = [pc EXCEPT ![c] = "open"]
        /\ outcome' = outcome
    BY <1>2 DEF Proceed
  <2> QED BY <1>2, <2>1, RunningHasOp DEF Moved, Placed, Places, Running
<1> QED BY <1>1, <1>2

\* What is reported is a failure, or that the outcome is unknown.
LEMMA Reports ==
    ASSUME NEW command, NEW op, NEW why
    PROVE  Report(command, op, why) \in {"failed", "unknown"}
  BY DEF Report, CreationFailed, UploadFailed

\* A failed request ends its command, or is ignored.
LEMMA Fails ==
    ASSUME NEW c, Running(c), NEW why, Fail(c, why)
    PROVE  Moved(c)
<1>1. CASE Op(c) = "peek"
  BY <1>1, Proceeds DEF Fail, Writing
<1>2. CASE Op(c) # "peek"
  <2>1. Report(cmd[c], Op(c), why) \in Results \ {"done"}
    BY Reports DEF Results
  <2>2. Finish(c, Report(cmd[c], Op(c), why))
    BY <1>2 DEF Fail
  <2> QED BY <2>1, <2>2, FinishMoves
<1> QED BY <1>1, <1>2

\* A failed write ends its command with its report.
LEMMA FailedWrite ==
    ASSUME NEW c, Running(c), Op(c) \in Writing, NEW why, Fail(c, why)
    PROVE  Placed(c) /\ pc'[c] = "idle" /\ outcome'[c] = Report(cmd[c], Op(c), why)
<1>1. Report(cmd[c], Op(c), why) \in Results
  BY Reports DEF Results
<1>2. Finish(c, Report(cmd[c], Op(c), why))
  BY DEF Fail, Writing
<1> QED BY <1>1, <1>2, Finishes

\* A request that goes on elsewhere.
LEMMA Goes ==
    ASSUME NEW c, Running(c), NEW place \in Places, Goto(c, place)
    PROVE  Went(c, place)
  BY RunningHasOp DEF Goto, Went, Placed

\* An expired session is recovered, or fails the request.
LEMMA Expires ==
    ASSUME NEW c, Running(c), Expired(c)
    PROVE  /\ Moved(c) \/ (Went(c, "renew") /\ CanRecover(c))
           /\ refreshed' \in [Clients -> BOOLEAN]
<1>1. refreshed \in [Clients -> BOOLEAN]
  BY DEF Running, TypeOK
<1>2. CASE CanRecover(c) /\ ~refreshed[c]
  BY <1>1, <1>2, Goes DEF Expired, Places
<1>3. CASE ~(CanRecover(c) /\ ~refreshed[c])
  BY <1>1, <1>3, Fails DEF Expired
<1> QED BY <1>2, <1>3

\* A refusal is checked, taken for an expired session, or fails the request.
LEMMA Denies ==
    ASSUME NEW c, Running(c), Denied(c)
    PROVE  /\ \/ Moved(c)
              \/ Went(c, "renew") /\ CanRecover(c) /\ Op(c) = "whoami"
              \/ Went(c, "check")
           /\ refreshed' \in [Clients -> BOOLEAN]
<1>1. refreshed \in [Clients -> BOOLEAN]
  BY DEF Running, TypeOK
<1>2. CASE Op(c) = "whoami"
  <2>1. Expired(c)
    BY <1>2 DEF Denied
  <2> QED BY <1>2, <2>1, Expires
<1>3. CASE Op(c) # "whoami" /\ CanRecover(c)
  BY <1>1, <1>3, Goes DEF Denied, Places
<1>4. CASE Op(c) # "whoami" /\ ~CanRecover(c)
  BY <1>1, <1>4, Fails DEF Denied
<1> QED BY <1>2, <1>3, <1>4

-----------------------------------------------------------------------------
(* What a step of one client leaves of the others.                         *)

\* Only the client's own values change.
Frame(c) ==
    \A d \in Clients \ {c} :
        /\ cmd'[d] = cmd[d] /\ applied'[d] = applied[d] /\ answered'[d] = answered[d]
        /\ mine'[d] = mine[d] /\ token'[d] = token[d] /\ copied'[d] = copied[d]
        /\ got'[d] = got[d] /\ seen'[d] = seen[d] /\ link'[d] = link[d]

\* Sessions are only issued and ended.
Later ==
    /\ issued' \in Nat /\ issued <= issued'
    /\ \A s \in alive' : s \in alive \/ s > issued

\* Sessions are numbers, those that live have been issued.
LEMMA SessionNumbers ==
    ASSUME TypeOK
    PROVE  /\ issued \in Nat /\ browser \in Nat /\ browser <= issued
           /\ \A s \in Sessions \union {0} : s \in Nat
           /\ \A s \in alive : s \in Nat /\ s <= issued /\ s # 0
           /\ \A s \in 0 .. issued : s \in Sessions \union {0}
           /\ disk.session \in Sessions \union {0}
           /\ \A c \in Clients : mine[c] \in Sessions \union {0} /\ copied[c] \in Sessions \union {0}
<1>1. issued \in 0 .. MaxSessions /\ MaxSessions \in Nat
  BY SizeAssumption DEF TypeOK, Sessions
<1> QED BY <1>1 DEF TypeOK, Sessions

\* When nothing is issued or ended, nothing is later.
LEMMA SameIsLater ==
    ASSUME TypeOK, issued' = issued, alive' \subseteq alive
    PROVE  Later
  BY SessionNumbers DEF Later

\* A client that does not step keeps its part of the invariant.
LEMMA OthersKeep ==
    ASSUME TypeOK, IInv, NEW c, Placed(c), Frame(c), Later,
           NEW d \in Clients, d # c
    PROVE  RunInv(d)' /\ SessionInv(d)' /\ ListInv(d)'
<1>1. RunInv(d) /\ SessionInv(d) /\ ListInv(d)
  BY DEF IInv
<1>2. /\ pc'[d] = pc[d] /\ todo'[d] = todo[d] /\ outcome'[d] = outcome[d]
      /\ cmd'[d] = cmd[d] /\ applied'[d] = applied[d] /\ answered'[d] = answered[d]
      /\ mine'[d] = mine[d] /\ token'[d] = token[d] /\ copied'[d] = copied[d]
      /\ got'[d] = got[d] /\ seen'[d] = seen[d] /\ link'[d] = link[d]
  BY DEF Placed, Frame
<1>3. RunInv(d)'
  BY <1>1, <1>2 DEF RunInv, Truthful
<1>4. SessionInv(d)'
  <2>1. /\ mine[d] \in Nat /\ copied[d] \in Nat /\ issued \in Nat
        /\ issued' \in Nat /\ issued <= issued'
    BY SessionNumbers DEF Later
  <2>2. mine[d] \notin alive => mine[d] \notin alive'
    BY <1>1, <2>1 DEF SessionInv, Later
  <2> QED BY <1>1, <1>2, <2>1, <2>2 DEF SessionInv
<1>5. ListInv(d)'
  BY <1>1, <1>2 DEF ListInv, Op
<1> QED BY <1>3, <1>4, <1>5

\* So a client that steps answers for itself.
LEMMA OneClient ==
    ASSUME TypeOK, IInv, NEW c, Placed(c), Frame(c), Later,
           disk'.session <= issued', RunInv(c)', SessionInv(c)', ListInv(c)'
    PROVE  IInv'
<1>1. ASSUME NEW d \in Clients
      PROVE  RunInv(d)' /\ SessionInv(d)' /\ ListInv(d)'
  <2>1. CASE d = c
    BY <2>1
  <2>2. CASE d # c
    BY <2>2, OthersKeep
  <2> QED BY <2>1, <2>2
<1> QED BY <1>1 DEF IInv

\* A command that is not idle runs.
LEMMA Runs ==
    ASSUME TypeOK, IInv, NEW c \in Clients, pc[c] # "idle"
    PROVE  Running(c) /\ applied[c] = 0
  BY DEF IInv, RunInv, Running

\* A command that goes on, or ends, without a write.
LEMMA RunKept ==
    ASSUME NEW c, Running(c), NEW place \in Places \ {"idle"},
           Moved(c) \/ Went(c, place),
           cmd'[c] = cmd[c], applied'[c] = 0
    PROVE  RunInv(c)' /\ Placed(c)
<1>1. CASE Moved(c)
  BY <1>1 DEF Moved, RunInv, Truthful, Running, Writers
<1>2. CASE Went(c, place)
  BY <1>2 DEF Went, RunInv, Truthful, Running, Writers
<1> QED BY <1>1, <1>2

\* A client that keeps its cookies, and recovers only when it did before.
LEMMA SessionKept ==
    ASSUME TypeOK, NEW c \in Clients, SessionInv(c), Later,
           mine'[c] = mine[c], token'[c] = token[c],
           copied'[c] \in Nat, copied'[c] <= issued',
           \/ pc'[c] \notin {"renew", "browser", "save"}
           \/ pc[c] \in {"renew", "browser", "save"}
           \/ mine[c] \notin alive
    PROVE  SessionInv(c)'
<1>1. /\ mine[c] \in Nat /\ issued \in Nat /\ issued' \in Nat /\ issued <= issued'
  BY SessionNumbers DEF Later
<1>2. mine[c] \notin alive => mine[c] \notin alive'
  BY <1>1 DEF SessionInv, Later
<1> QED BY <1>1, <1>2 DEF SessionInv

\* A client that got other cookies holds no token, and recovers nothing.
LEMMA SessionInstalled ==
    ASSUME NEW c \in Clients, NEW s \in Nat, s <= issued', mine'[c] = s, token'[c] = 0,
           copied'[c] <= issued', pc'[c] \notin {"renew", "browser", "save"}
    PROVE  SessionInv(c)'
  BY DEF SessionInv

\* A list that is not being read stays as it is.
LEMMA ListKept ==
    ASSUME TypeOK, NEW c \in Clients, ListInv(c),
           got'[c] = got[c], seen'[c] = seen[c], link'[c] = link[c],
           \/ pc'[c] \in {"idle", "open", "migrate"}
           \/ todo'[c] = todo[c] /\ pc[c] \notin {"idle", "open", "migrate"}
           \/ todo'[c] = todo[c] /\ Op(c) \notin Lists
    PROVE  ListInv(c)'
  BY DEF ListInv, Op

\* The cookies keep their types, and only the client's change.
Cookied(c) ==
    /\ mine' \in [Clients -> Sessions \union {0}]
    /\ token' \in [Clients -> Sessions \union {0}]
    /\ loaded' \in [Clients -> BOOLEAN]
    /\ \A d \in Clients \ {c} : mine'[d] = mine[d] /\ token'[d] = token[d]

\* A client gets a session's cookies.
LEMMA Installs ==
    ASSUME TypeOK, NEW c \in Clients, NEW s \in Sessions \union {0}, Install(c, s)
    PROVE  Cookied(c) /\ mine'[c] = s /\ token'[c] = 0
  BY DEF Install, TypeOK, Cookied

-----------------------------------------------------------------------------
(* The steps.                                                              *)

\* Begin: a client takes up a command, with nothing carried out yet.
LEMMA BeginStep ==
    ASSUME TypeOK, IInv, NEW c \in Clients, Begin(c)
    PROVE  TypeOK' /\ IInv' /\ Placed(c)
<1>1. PICK command \in Commands[c] :
         /\ cmd' = [cmd EXCEPT ![c] = command]
         /\ todo' = [todo EXCEPT ![c] = Plan(command)]
  BY DEF Begin
<1>2. command \in CommandNames /\ Plan(command) \in Rest(command) /\ Plan(command) \in Seq(Ops)
  <2>1. command \in CommandNames
    BY <1>1, CommandAssumption DEF CommandNames
  <2> QED BY <2>1, PlanIsRest, RestIsRequests
<1>3. /\ pc' = [pc EXCEPT ![c] = "open"] /\ outcome' = [outcome EXCEPT ![c] = "none"]
      /\ applied' = [applied EXCEPT ![c] = 0] /\ answered' = [answered EXCEPT ![c] = FALSE]
      /\ calls < MaxCalls /\ calls' = calls + 1
      /\ UNCHANGED <<disk, server, mine, loaded, token, tries, refreshed, link, seen, got,
                     copied>>
  BY DEF Begin
<1>4. Placed(c) /\ pc'[c] = "open" /\ todo'[c] = Plan(command) /\ outcome'[c] = "none"
      /\ applied'[c] = 0 /\ applied' \in [Clients -> Nat]
  BY <1>1, <1>2, <1>3 DEF Placed, Places, Results, TypeOK
<1>5. Frame(c) /\ Later /\ disk' = disk /\ issued' = issued
  BY <1>1, <1>3, SameIsLater DEF Frame, TypeOK, server, IInv
<1>6. TypeOK'
  <2>1. calls' \in 0 .. MaxCalls /\ cmd' \in [Clients -> CommandNames \union {"none"}]
    BY <1>1, <1>2, <1>3, SizeAssumption DEF TypeOK
  <2> QED BY <1>3, <1>4, <2>1 DEF TypeOK, Placed, Places, Results, server
<1>7. RunInv(c)'
  <2>1. cmd'[c] = command
    BY <1>1 DEF TypeOK
  <2> QED BY <1>2, <1>4, <2>1 DEF RunInv, Truthful
<1>8. SessionInv(c)' /\ ListInv(c)'
  BY <1>3, <1>4, <1>5, SessionKept, ListKept, SessionNumbers DEF IInv, server, SessionInv
<1> QED BY <1>4, <1>5, <1>6, <1>7, <1>8, OneClient DEF IInv

\* Open: cookies are read on first use; a list starts empty.
LEMMA OpenStep ==
    ASSUME TypeOK, IInv, NEW c \in Clients, Open(c)
    PROVE  TypeOK' /\ IInv' /\ Placed(c)
<1> DEFINE s == IF loaded[c] THEN mine[c] ELSE Load
<1>1. Running(c) /\ applied[c] = 0
  BY Runs DEF Open
<1>2. s \in Sessions \union {0} /\ s \in Nat /\ s <= issued
  BY SessionNumbers DEF Load, IInv, SessionInv
<1>3. /\ UNCHANGED <<disk, server, cmd, copied, applied, answered, calls>>
      /\ tries' = [tries EXCEPT ![c] = 0]
      /\ pc[c] = "open"
  BY DEF Open
<1>4. /\ Cookied(c) /\ refreshed' \in [Clients -> BOOLEAN]
      /\ \/ mine'[c] = mine[c] /\ token'[c] = token[c]
         \/ mine'[c] = s /\ token'[c] = 0
      /\ \/ Moved(c) \/ Went(c, "migrate") \/ Went(c, "ready")
         \/ Went(c, "renew") /\ mine'[c] = 0
  <2>1. CASE ~loaded[c] /\ Legacy /\ ~ReadOnly(cmd[c])
    <3>1. Goto(c, "migrate") /\ UNCHANGED <<mine, loaded, token, refreshed>>
      BY <2>1 DEF Open
    <3> QED BY <1>1, <3>1, Goes DEF TypeOK, Places, Cookied
  <2>2. CASE ~(~loaded[c] /\ Legacy /\ ~ReadOnly(cmd[c]))
    <3>1. /\ IF loaded[c] THEN UNCHANGED <<mine, loaded, token>> ELSE Install(c, s)
          /\ refreshed' = [refreshed EXCEPT ![c] = (s = 0)]
      BY <2>2 DEF Open
    <3>2. /\ Cookied(c)
          /\ mine'[c] = s
          /\ (mine'[c] = mine[c] /\ token'[c] = token[c]) \/ token'[c] = 0
      <4>1. CASE loaded[c]
        BY <3>1, <4>1 DEF TypeOK, Cookied
      <4>2. CASE ~loaded[c]
        <5>1. Install(c, s)
          BY <3>1, <4>2
        <5> HIDE DEF s
        <5> QED BY <1>2, <5>1, Installs
      <4> QED BY <4>1, <4>2
    <3>3. refreshed' \in [Clients -> BOOLEAN]
      BY <3>1 DEF TypeOK
    <3>4. CASE Op(c) = "token" /\ loaded[c] /\ token[c] # 0 /\ Proceed(c)
      BY <1>1, <3>2, <3>3, <3>4, Proceeds DEF Writing
    <3>5. CASE Goto(c, "renew") /\ s = 0
      BY <1>1, <3>2, <3>3, <3>5, Goes DEF Places
    <3>6. CASE Fail(c, "expired")
      BY <1>1, <3>2, <3>3, <3>6, Fails
    <3>7. CASE Goto(c, "ready")
      BY <1>1, <3>2, <3>3, <3>7, Goes DEF Places
    <3> QED
      <4>1. \/ Op(c) = "token" /\ loaded[c] /\ token[c] # 0 /\ Proceed(c)
            \/ Goto(c, "renew") /\ s = 0
            \/ Fail(c, "expired")
            \/ Goto(c, "ready")
        BY <2>2 DEF Open
      <4> QED BY <3>4, <3>5, <3>6, <3>7, <4>1
  <2> QED BY <2>1, <2>2
<1>5. /\ link' \in [Clients -> Links] /\ seen' \in [Clients -> SUBSET Links]
      /\ got' \in [Clients -> Seq(Pages)]
      /\ \A d \in Clients \ {c} : got'[d] = got[d] /\ seen'[d] = seen[d] /\ link'[d] = link[d]
      /\ Op(c) \in Lists => got'[c] = <<>>
      /\ Op(c) \notin Lists => got'[c] = got[c] /\ seen'[c] = seen[c] /\ link'[c] = link[c]
  <2>1. CASE Op(c) \in Lists
    <3>1. /\ link' = [link EXCEPT ![c] = [page |-> FirstPage, form |-> "relative"]]
          /\ seen' = [seen EXCEPT ![c] = {}]
          /\ got' = [got EXCEPT ![c] = <<>>]
      BY <2>1 DEF Open
    <3>2. [page |-> FirstPage, form |-> "relative"] \in Links
      BY SizeAssumption DEF Links, FirstPage
    <3>3. <<>> \in Seq(Pages)
      OBVIOUS
    <3> QED BY <2>1, <3>1, <3>2, <3>3 DEF TypeOK
  <2>2. CASE Op(c) \notin Lists
    BY <2>2 DEF Open, TypeOK
  <2> QED BY <2>1, <2>2
<1> HIDE DEF s
<1>6. RunInv(c)' /\ Placed(c)
  BY <1>1, <1>3, <1>4, RunKept DEF Places
<1>7. Frame(c) /\ Later /\ disk' = disk /\ issued' = issued
  BY <1>3, <1>4, <1>5, SameIsLater DEF Frame, Cookied, server
<1>8. SessionInv(c)'
  <2>1. /\ mine[c] \in Nat /\ copied[c] \in Nat /\ copied'[c] <= issued' /\ SessionInv(c)
    BY <1>3, SessionNumbers DEF IInv, SessionInv, server
  <2>2. CASE Went(c, "renew") /\ mine'[c] = 0
    BY <1>3, <1>4, <2>1, <2>2, SessionNumbers DEF SessionInv, server
  <2>3. CASE pc'[c] \notin {"renew", "browser", "save"}
    <3>1. CASE mine'[c] = mine[c] /\ token'[c] = token[c]
      BY <1>3, <1>7, <2>1, <2>3, <3>1, SessionKept
    <3>2. CASE mine'[c] = s /\ token'[c] = 0
      BY <1>2, <1>7, <2>1, <2>3, <3>2, SessionInstalled
    <3> QED BY <1>4, <3>1, <3>2
  <2> QED BY <1>4, <2>2, <2>3 DEF Moved, Went
<1>9. ListInv(c)'
  <2>1. CASE Op(c) \in Lists
    BY <1>5, <2>1 DEF ListInv
  <2>2. CASE Op(c) \notin Lists
    <3>1. pc'[c] \in {"idle", "open", "migrate"} \/ todo'[c] = todo[c]
      BY <1>4 DEF Moved, Went
    <3> QED BY <1>5, <2>2, <3>1, ListKept DEF IInv
  <2> QED BY <2>1, <2>2
<1>10. TypeOK'
  <2>1. tries' \in [Clients -> 0 .. Retries]
    BY <1>3, SizeAssumption DEF TypeOK
  <2> QED BY <1>3, <1>4, <1>5, <1>6, <2>1 DEF TypeOK, Cookied, Placed, Places, Results, server
<1> QED BY <1>6, <1>7, <1>8, <1>9, <1>10, OneClient DEF IInv

\* Migrate: the file's cookies, or none; the request starts again or fails.
LEMMA MigrateStep ==
    ASSUME TypeOK, IInv, NEW c \in Clients, Migrate(c)
    PROVE  TypeOK' /\ IInv' /\ Placed(c)
<1>1. Running(c) /\ applied[c] = 0
  BY Runs DEF Migrate
<1>2. /\ UNCHANGED <<server, cmd, tries, refreshed, link, seen, got, copied, applied, answered, calls>>
      /\ pc[c] = "migrate"
  BY DEF Migrate
<1>3. /\ disk' \in [session : Sessions \union {0}, sealed : BOOLEAN]
      /\ disk'.session = disk.session
      /\ Moved(c) \/ Went(c, "open")
      /\ \/ \E s \in {0, disk.session} : Install(c, s)
         \/ UNCHANGED <<mine, loaded, token>>
  <2>1. CASE Fail(c, "expired") /\ UNCHANGED <<disk, mine, loaded, token>>
    BY <1>1, <2>1, Fails DEF TypeOK
  <2>2. CASE \E s \in {0, disk.session} : Install(c, s) /\ Goto(c, "open") /\ UNCHANGED disk
    BY <1>1, <2>2, Goes DEF Places, TypeOK
  <2>3. CASE SaveCookies(disk.session) /\ Install(c, disk.session) /\ Goto(c, "open")
    BY <1>1, <2>3, Goes DEF SaveCookies, Places, TypeOK
  <2> QED BY <2>1, <2>2, <2>3 DEF Migrate, Upgrade
<1>4. RunInv(c)' /\ Placed(c) /\ pc'[c] \in {"idle", "open"}
  <2>1. pc'[c] \in {"idle", "open"}
    BY <1>3 DEF Moved, Went
  <2> QED BY <1>1, <1>2, <1>3, <2>1, RunKept DEF Places
<1>5. Later /\ issued' = issued /\ disk'.session <= issued'
  BY <1>2, <1>3, SameIsLater DEF server, IInv
<1>6. Cookied(c) /\ SessionInv(c)'
  <2>1. SessionInv(c) /\ copied'[c] = copied[c] /\ copied[c] \in Nat /\ copied'[c] <= issued'
    BY <1>2, <1>5, SessionNumbers DEF IInv, SessionInv
  <2>2. CASE UNCHANGED <<mine, loaded, token>>
    BY <1>4, <1>5, <2>1, <2>2, SessionKept DEF TypeOK, Cookied
  <2>3. ASSUME NEW s \in {0, disk.session}, Install(c, s)
        PROVE  Cookied(c) /\ SessionInv(c)'
    <3>1. s \in Sessions \union {0} /\ s \in Nat /\ s <= issued'
      BY <1>5, SessionNumbers DEF IInv
    <3> QED BY <1>4, <2>1, <2>3, <3>1, Installs, SessionInstalled
  <2> QED BY <1>3, <2>2, <2>3
<1>7. Frame(c)
  BY <1>2, <1>6 DEF Frame, Cookied
<1>8. ListInv(c)'
  BY <1>2, <1>4, ListKept DEF IInv
<1>9. TypeOK'
  BY <1>2, <1>3, <1>4, <1>6 DEF TypeOK, Cookied, Placed, Places, Results, server
<1> QED BY <1>4, <1>5, <1>6, <1>7, <1>8, <1>9, OneClient

\* Check: only a session that is over is recovered.
LEMMA CheckStep ==
    ASSUME TypeOK, IInv, NEW c \in Clients, Check(c)
    PROVE  TypeOK' /\ IInv' /\ Placed(c)
<1>1. Running(c) /\ applied[c] = 0
  BY Runs DEF Check
<1>2. /\ UNCHANGED <<disk, server, mine, loaded, token, cmd, tries, link, seen, got, copied,
                     applied, answered, calls>>
      /\ pc[c] = "check"
  BY DEF Check
<1>3. /\ Moved(c) \/ (Went(c, "renew") /\ mine[c] \notin alive)
      /\ refreshed' \in [Clients -> BOOLEAN]
  <2>1. CASE mine[c] \notin alive /\ Expired(c)
    BY <1>1, <2>1, Expires
  <2>2. CASE Fail(c, "denied") /\ UNCHANGED refreshed
    BY <1>1, <2>2, Fails DEF TypeOK
  <2> QED BY <2>1, <2>2 DEF Check
<1>4. RunInv(c)' /\ Placed(c)
  BY <1>1, <1>2, <1>3, RunKept DEF Places
<1>5. Frame(c) /\ Later /\ disk' = disk /\ issued' = issued
  BY <1>2, SameIsLater DEF Frame, server
<1>6. SessionInv(c)'
  <2>1. SessionInv(c) /\ copied'[c] = copied[c] /\ copied[c] \in Nat /\ copied'[c] <= issued'
    BY <1>2, <1>5, SessionNumbers DEF IInv, SessionInv
  <2>2. pc'[c] \notin {"renew", "browser", "save"} \/ mine[c] \notin alive
    BY <1>3 DEF Moved, Went
  <2> QED BY <1>2, <1>5, <2>1, <2>2, SessionKept
<1>7. ListInv(c)'
  <2>1. pc'[c] \in {"idle", "open"} \/ todo'[c] = todo[c]
    BY <1>3 DEF Moved, Went
  <2> QED BY <1>2, <2>1, ListKept DEF IInv
<1>8. TypeOK'
  BY <1>2, <1>3, <1>4 DEF TypeOK, Placed, Places, Results, server
<1> QED BY <1>4, <1>5, <1>6, <1>7, <1>8, OneClient DEF IInv

\* Renew: another's session, a new one, the browser's turn, or a failure.
LEMMA RenewStep ==
    ASSUME TypeOK, IInv, NEW c \in Clients, Renew(c)
    PROVE  TypeOK' /\ IInv' /\ Placed(c)
<1>1. Running(c) /\ applied[c] = 0
  BY Runs DEF Renew
<1>2. /\ UNCHANGED <<browser, cmd, tries, refreshed, link, seen, got, copied, applied, answered, calls>>
      /\ pc[c] = "renew"
  BY DEF Renew
<1>3. /\ issued \in Nat /\ disk.session \in Sessions \union {0} /\ disk.session \in Nat
      /\ disk.session <= issued
  BY SessionNumbers DEF IInv
<1>4. \/ /\ UNCHANGED <<disk, alive, issued>>
         /\ Install(c, disk.session) /\ Goto(c, "ready")
      \/ /\ issued < MaxSessions /\ issued' = issued + 1 /\ alive' = alive \union {issued'}
         /\ SaveCookies(issued') /\ Install(c, issued') /\ Goto(c, "ready")
      \/ /\ UNCHANGED <<disk, alive, issued, mine, loaded, token>>
         /\ Fail(c, "expired") \/ Goto(c, "browser")
  BY DEF Renew
<1>5. /\ disk' \in [session : Sessions \union {0}, sealed : BOOLEAN]
      /\ disk'.session <= issued'
      /\ issued' \in Sessions \union {0} /\ alive' \subseteq 1 .. issued'
      /\ browser' \in 0 .. issued'
      /\ Later
  <2>1. CASE UNCHANGED <<disk, alive, issued>>
    BY <1>2, <1>3, <2>1, SameIsLater DEF TypeOK
  <2>2. CASE /\ issued < MaxSessions /\ issued' = issued + 1 /\ alive' = alive \union {issued'}
             /\ SaveCookies(issued')
    <3>1. issued' \in Sessions /\ issued' \in Nat
      BY <1>3, <2>2, SizeAssumption DEF Sessions
    <3> QED BY <1>2, <1>3, <2>2, <3>1 DEF TypeOK, SaveCookies, Later
  <2> QED BY <1>4, <2>1, <2>2
<1>6. /\ Cookied(c)
      /\ Moved(c) \/ Went(c, "ready") \/ Went(c, "browser")
      /\ \/ UNCHANGED <<mine, token>>
         \/ /\ pc'[c] = "ready" /\ token'[c] = 0
            /\ mine'[c] \in Nat /\ mine'[c] <= issued'
  <2>1. CASE \E s \in {disk.session, issued'} : Install(c, s) /\ Goto(c, "ready") /\ s <= issued'
    <3>1. PICK s \in {disk.session, issued'} : Install(c, s) /\ Goto(c, "ready") /\ s <= issued'
      BY <2>1
    <3>2. s \in Sessions \union {0} /\ s \in Nat
      BY <1>3, <1>5, SessionNumbers
    <3> QED BY <1>1, <3>1, <3>2, Goes, Installs DEF Places, Went
  <2>2. CASE /\ UNCHANGED <<mine, loaded, token>>
             /\ Fail(c, "expired") \/ Goto(c, "browser")
    BY <1>1, <2>2, Fails, Goes DEF Places, TypeOK, Cookied
  <2>3. issued' <= issued'
    BY <1>5, SessionNumbers DEF Later
  <2> QED BY <1>3, <1>4, <2>1, <2>2, <2>3
<1>7. RunInv(c)' /\ Placed(c)
  BY <1>1, <1>2, <1>6, RunKept DEF Places
<1>8. Frame(c)
  BY <1>2, <1>6 DEF Frame, Cookied
<1>9. SessionInv(c)'
  <2>1. SessionInv(c) /\ copied'[c] = copied[c] /\ copied[c] \in Nat /\ copied'[c] <= issued'
    <3>1. SessionInv(c) /\ copied[c] \in Nat /\ copied'[c] = copied[c]
      BY <1>2, SessionNumbers DEF IInv
    <3>2. issued' \in Nat /\ issued <= issued'
      BY <1>5 DEF Later
    <3> QED BY <1>3, <3>1, <3>2 DEF SessionInv
  <2>2. CASE UNCHANGED <<mine, token>>
    BY <1>2, <1>5, <2>1, <2>2, SessionKept
  <2>3. CASE pc'[c] = "ready" /\ token'[c] = 0 /\ mine'[c] \in Nat /\ mine'[c] <= issued'
    BY <2>1, <2>3, SessionInstalled
  <2> QED BY <1>6, <2>2, <2>3
<1>10. ListInv(c)'
  <2>1. pc'[c] \in {"idle", "open"} \/ todo'[c] = todo[c]
    BY <1>6 DEF Moved, Went
  <2> QED BY <1>2, <2>1, ListKept DEF IInv
<1>11. TypeOK'
  BY <1>2, <1>5, <1>6, <1>7 DEF TypeOK, Cookied, Placed, Places, Results
<1> QED BY <1>5, <1>7, <1>8, <1>9, <1>10, <1>11, OneClient

\* Copy: the browser's session is extracted, or the request fails.
LEMMA CopyStep ==
    ASSUME TypeOK, IInv, NEW c \in Clients, Copy(c)
    PROVE  TypeOK' /\ IInv' /\ Placed(c)
<1>1. Running(c) /\ applied[c] = 0
  BY Runs DEF Copy
<1>2. /\ UNCHANGED <<disk, server, mine, loaded, token, cmd, tries, refreshed, link, seen, got,
                     applied, answered, calls>>
      /\ pc[c] = "browser"
  BY DEF Copy
<1>3. /\ browser \in Nat /\ browser <= issued /\ browser \in Sessions \union {0}
      /\ issued \in Nat
  BY SessionNumbers DEF TypeOK
<1>4. /\ Moved(c) \/ Went(c, "save")
      /\ copied' \in [Clients -> Sessions \union {0}]
      /\ \A d \in Clients \ {c} : copied'[d] = copied[d]
      /\ copied'[c] \in Nat /\ copied'[c] <= issued'
  <2>1. PICK s \in {browser, 0} :
           IF s = 0 THEN Fail(c, "expired") /\ UNCHANGED copied
           ELSE copied' = [copied EXCEPT ![c] = s] /\ Goto(c, "save")
    BY DEF Copy, HarnessCookies, PortCookies
  <2>2. CASE Fail(c, "expired") /\ UNCHANGED copied
    BY <1>1, <1>2, <2>2, Fails, SessionNumbers DEF TypeOK, server, IInv, SessionInv
  <2>3. CASE copied' = [copied EXCEPT ![c] = s] /\ Goto(c, "save") /\ s # 0
    <3>1. copied' = [copied EXCEPT ![c] = s] /\ s \in Sessions \union {0} /\ s <= issued'
          /\ s \in Nat /\ copied \in [Clients -> Sessions \union {0}]
      BY <1>2, <1>3, <2>3 DEF server, TypeOK
    <3>2. Went(c, "save")
      BY <1>1, <2>3, Goes DEF Places
    <3> QED BY <3>1, <3>2
  <2> QED BY <2>1, <2>2, <2>3
<1>5. RunInv(c)' /\ Placed(c)
  BY <1>1, <1>2, <1>4, RunKept DEF Places
<1>6. Frame(c) /\ Later /\ disk' = disk /\ issued' = issued
  BY <1>2, <1>4, SameIsLater DEF Frame, server
<1>7. SessionInv(c)' /\ ListInv(c)'
  <2>1. pc'[c] \in {"idle", "open"} \/ todo'[c] = todo[c]
    BY <1>4 DEF Moved, Went
  <2>2. mine'[c] = mine[c] /\ token'[c] = token[c]
    BY <1>2
  <2> QED BY <1>2, <1>4, <1>6, <2>1, <2>2, SessionKept, ListKept DEF IInv
<1>8. TypeOK'
  BY <1>2, <1>4, <1>5 DEF TypeOK, Placed, Places, Results, server
<1> QED BY <1>5, <1>6, <1>7, <1>8, OneClient DEF IInv

\* Save: the copied cookies are saved and used, or the request fails.
LEMMA SaveStep ==
    ASSUME TypeOK, IInv, NEW c \in Clients, Save(c)
    PROVE  TypeOK' /\ IInv' /\ Placed(c)
<1>1. Running(c) /\ applied[c] = 0
  BY Runs DEF Save
<1>2. /\ UNCHANGED <<server, cmd, tries, refreshed, link, seen, got, applied, answered, calls>>
      /\ pc[c] = "save"
      /\ copied' = [copied EXCEPT ![c] = 0]
      /\ \/ SaveCookies(copied[c]) /\ Install(c, copied[c]) /\ Goto(c, "ready")
         \/ Fail(c, "expired") /\ UNCHANGED <<disk, mine, loaded, token>>
  BY DEF Save
<1>3. /\ issued \in Nat /\ copied[c] \in Nat /\ copied[c] \in Sessions \union {0}
      /\ copied[c] <= issued /\ disk.session <= issued
  BY SessionNumbers DEF IInv, SessionInv
<1>4. /\ copied' \in [Clients -> Sessions \union {0}]
      /\ copied'[c] = 0
      /\ \A d \in Clients \ {c} : copied'[d] = copied[d]
  BY <1>2 DEF TypeOK
<1>5. /\ disk' \in [session : Sessions \union {0}, sealed : BOOLEAN]
      /\ disk'.session <= issued
      /\ Cookied(c)
      /\ Moved(c) \/ Went(c, "ready")
      /\ \/ UNCHANGED <<mine, token>>
         \/ pc'[c] = "ready" /\ token'[c] = 0 /\ mine'[c] = copied[c]
  <2>1. CASE SaveCookies(copied[c]) /\ Install(c, copied[c]) /\ Goto(c, "ready")
    BY <1>1, <1>3, <2>1, Goes, Installs DEF Places, Went, SaveCookies
  <2>2. CASE Fail(c, "expired") /\ UNCHANGED <<disk, mine, loaded, token>>
    BY <1>1, <1>3, <2>2, Fails DEF TypeOK, Cookied
  <2> QED BY <1>2, <2>1, <2>2
<1>6. RunInv(c)' /\ Placed(c)
  BY <1>1, <1>2, <1>5, RunKept DEF Places
<1>7. Frame(c) /\ Later /\ issued' = issued
  BY <1>2, <1>4, <1>5, SameIsLater DEF Frame, server, Cookied
<1>8. SessionInv(c)'
  <2>1. SessionInv(c)
    BY DEF IInv
  <2>2. CASE UNCHANGED <<mine, token>>
    BY <1>2, <1>3, <1>4, <1>7, <2>1, <2>2, SessionKept
  <2>3. CASE pc'[c] = "ready" /\ token'[c] = 0 /\ mine'[c] = copied[c]
    BY <1>3, <1>4, <1>7, <2>3, SessionInstalled
  <2> QED BY <1>5, <2>2, <2>3
<1>9. ListInv(c)'
  <2>1. pc'[c] \in {"idle", "open"} \/ todo'[c] = todo[c]
    BY <1>5 DEF Moved, Went
  <2> QED BY <1>2, <2>1, ListKept DEF IInv
<1>10. TypeOK'
  BY <1>2, <1>4, <1>5, <1>6 DEF TypeOK, Cookied, Placed, Places, Results, server
<1> QED BY <1>5, <1>6, <1>7, <1>8, <1>9, <1>10, OneClient

\* Confirm: the upload goes on, or ends with nothing sent.
LEMMA ConfirmStep ==
    ASSUME TypeOK, IInv, NEW c \in Clients, Confirm(c)
    PROVE  TypeOK' /\ IInv' /\ Placed(c)
<1>1. Running(c) /\ applied[c] = 0
  BY Runs DEF Confirm
<1>2. /\ UNCHANGED <<disk, server, mine, loaded, token, cmd, tries, refreshed, link, seen, got,
                     copied, applied, answered, calls>>
      /\ Op(c) = "confirm"
  BY DEF Confirm
<1>3. Moved(c)
  <2>1. CASE Proceed(c)
    BY <1>1, <1>2, <2>1, Proceeds DEF Writing
  <2>2. ASSUME NEW result \in {"cancelled", "failed"}, Finish(c, result)
        PROVE  Moved(c)
    BY <1>1, <2>2, FinishMoves DEF Results
  <2> QED BY <2>1, <2>2 DEF Confirm
<1>4. RunInv(c)' /\ Placed(c) /\ pc'[c] \in {"idle", "open"}
  <2>1. pc'[c] \in {"idle", "open"} /\ "open" \in Places \ {"idle"}
    BY <1>3 DEF Moved, Places
  <2> QED BY <1>1, <1>2, <1>3, <2>1, RunKept
<1>5. Frame(c) /\ Later /\ disk' = disk /\ issued' = issued
  BY <1>2, SameIsLater DEF Frame, server
<1>6. SessionInv(c)' /\ ListInv(c)'
  <2>1. SessionInv(c) /\ copied'[c] = copied[c] /\ copied[c] \in Nat /\ copied'[c] <= issued'
    BY <1>2, <1>5, SessionNumbers DEF IInv, SessionInv
  <2> QED BY <1>2, <1>4, <1>5, <2>1, SessionKept, ListKept DEF IInv
<1>7. TypeOK'
  BY <1>2, <1>4 DEF TypeOK, Placed, Places, Results, server
<1> QED BY <1>4, <1>5, <1>6, <1>7, OneClient DEF IInv

\* NewClient: a client without cookies, and a command that is over.
LEMMA NewClientStep ==
    ASSUME TypeOK, IInv, NEW c \in Clients, NewClient(c)
    PROVE  TypeOK' /\ IInv' /\ Placed(c)
<1>1. /\ pc[c] = "idle"
      /\ loaded' = [loaded EXCEPT ![c] = FALSE]
      /\ mine' = [mine EXCEPT ![c] = 0] /\ token' = [token EXCEPT ![c] = 0]
      /\ UNCHANGED <<disk, server, cmd, todo, pc, tries, refreshed, link, seen, got, copied,
                     outcome, applied, answered, calls>>
  BY DEF NewClient
<1>2. /\ Cookied(c) /\ Placed(c) /\ Frame(c) /\ Later /\ disk' = disk /\ issued' = issued
      /\ mine'[c] = 0 /\ token'[c] = 0
  BY <1>1, SameIsLater DEF TypeOK, Cookied, Placed, Places, Results, Frame, server
<1>3. RunInv(c)' /\ ListInv(c)'
  BY <1>1 DEF IInv, RunInv, Truthful, ListInv
<1>4. SessionInv(c)'
  BY <1>1, <1>2, SessionNumbers, SessionInstalled DEF IInv, SessionInv, server
<1>5. TypeOK'
  BY <1>1, <1>2 DEF TypeOK, Cookied, server
<1> QED BY <1>2, <1>3, <1>4, <1>5, OneClient DEF IInv

\* A step of no client keeps the invariant when sessions are only issued and ended.
LEMMA NoClient ==
    ASSUME TypeOK, IInv, Later, disk'.session <= issued',
           UNCHANGED <<mine, token, cmd, todo, pc, link, seen, got, copied, outcome, applied,
                       answered>>
    PROVE  IInv'
<1>1. ASSUME NEW d \in Clients
      PROVE  RunInv(d)' /\ SessionInv(d)' /\ ListInv(d)'
  <2>1. PICK c : c # d
    <3>1. 0 # d \/ 1 # d
      OBVIOUS
    <3> QED BY <3>1
  <2>2. Placed(c) /\ Frame(c)
    BY DEF TypeOK, Placed, Places, Results, Frame
  <2> QED BY <2>1, <2>2, OthersKeep
<1> QED BY <1>1 DEF IInv

\* SessionEnds: D2L forgets a session.
LEMMA SessionEndsStep ==
    ASSUME TypeOK, IInv, SessionEnds
    PROVE  TypeOK' /\ IInv'
<1>1. /\ alive' \subseteq alive
      /\ UNCHANGED <<disk, issued, browser, mine, loaded, token, cmd, todo, pc, tries, refreshed,
                     link, seen, got, copied, outcome, applied, answered, calls>>
  BY DEF SessionEnds
<1> QED BY <1>1, SameIsLater, NoClient DEF TypeOK, IInv

\* SignInElsewhere: a session is issued to somebody else.
LEMMA SignInElsewhereStep ==
    ASSUME TypeOK, IInv, SignInElsewhere
    PROVE  TypeOK' /\ IInv'
<1>1. /\ issued < MaxSessions /\ issued' = issued + 1 /\ alive' = alive \union {issued'}
      /\ \/ SaveCookies(issued') /\ UNCHANGED browser
         \/ browser' = issued' /\ UNCHANGED disk
      /\ UNCHANGED <<mine, loaded, token, cmd, todo, pc, tries, refreshed, link, seen, got,
                     copied, outcome, applied, answered, calls>>
  BY DEF SignInElsewhere
<1>2. issued \in Nat /\ issued' \in Nat /\ issued' \in Sessions /\ disk.session \in Nat
  BY <1>1, SessionNumbers, SizeAssumption DEF Sessions
<1>3. /\ disk' \in [session : Sessions \union {0}, sealed : BOOLEAN]
      /\ disk'.session <= issued'
      /\ browser' \in 0 .. issued'
  <2>1. CASE SaveCookies(issued') /\ UNCHANGED browser
    <3>1. browser' \in 0 .. issued'
      BY <1>1, <1>2, <2>1 DEF TypeOK
    <3> QED BY <1>2, <2>1, <3>1 DEF SaveCookies
  <2>2. CASE browser' = issued' /\ UNCHANGED disk
    BY <1>1, <1>2, <2>2 DEF TypeOK, IInv
  <2> QED BY <1>1, <2>1, <2>2
<1>4. Later /\ alive' \subseteq 1 .. issued'
  <2>1. \A s \in alive' : s \in alive \/ s = issued'
    BY <1>1
  <2>2. \A s \in alive : s \in 1 .. issued
    BY DEF TypeOK
  <2>3. Later
    BY <1>1, <1>2, <2>1 DEF Later
  <2>4. \A s \in alive' : s \in 1 .. issued'
    BY <1>1, <1>2, <2>1, <2>2
  <2> QED BY <2>3, <2>4
<1> QED BY <1>1, <1>2, <1>3, <1>4, NoClient DEF TypeOK

-----------------------------------------------------------------------------
(* Exchange.                                                               *)

\* What a list has read, with one more page: nothing twice, if the page is new.
LEMMA OneMorePage ==
    ASSUME NEW s \in Seq(Pages), NEW p \in Pages, NEW t, t = Append(s, p),
           \A i \in 1 .. Len(s) : s[i] # p,
           \A i, j \in 1 .. Len(s) : s[i] = s[j] => i = j
    PROVE  /\ t \in Seq(Pages)
           /\ \A i \in 1 .. Len(t) : t[i] = p \/ \E j \in 1 .. Len(s) : t[i] = s[j]
           /\ \A i, j \in 1 .. Len(t) : t[i] = t[j] => i = j
<1>1. /\ t \in Seq(Pages)
      /\ Len(t) = Len(s) + 1 /\ Len(s) \in Nat
      /\ \A i \in 1 .. Len(s) : t[i] = s[i]
      /\ t[Len(s) + 1] = p
  BY AppendProperties
<1>2. \A i \in 1 .. Len(t) : i \in 1 .. Len(s) \/ i = Len(s) + 1
  BY <1>1
<1>3. \A i \in 1 .. Len(t) : t[i] = p \/ \E j \in 1 .. Len(s) : t[i] = s[j]
  BY <1>1, <1>2
<1>4. ASSUME NEW i \in 1 .. Len(t), NEW j \in 1 .. Len(t), t[i] = t[j]
      PROVE  i = j
  <2>1. CASE i \in 1 .. Len(s) /\ j \in 1 .. Len(s)
    BY <1>1, <1>4, <2>1
  <2>2. CASE i = Len(s) + 1 /\ j \in 1 .. Len(s)
    BY <1>1, <1>4, <2>2
  <2>3. CASE i \in 1 .. Len(s) /\ j = Len(s) + 1
    BY <1>1, <1>4, <2>3
  <2> QED BY <1>2, <2>1, <2>2, <2>3
<1> QED BY <1>1, <1>3, <1>4

\* PageRead: the page is new to the list, and so is the one its link names.
LEMMA PageReads ==
    ASSUME TypeOK, NEW c, Running(c), ListInv(c), pc[c] = "ready", Op(c) \in Lists, PageRead(c)
    PROVE  /\ Moved(c) \/ Went(c, "ready")
           /\ link' \in [Clients -> Links] /\ seen' \in [Clients -> SUBSET Links]
           /\ got' \in [Clients -> Seq(Pages)]
           /\ \A d \in Clients \ {c} :
                 got'[d] = got[d] /\ seen'[d] = seen[d] /\ link'[d] = link[d]
           /\ ListInv(c)'
<1> DEFINE page(p) == [page |-> p, form |-> "absolute"]
<1>1. /\ c \in Clients /\ Op(c) \notin Writing
      /\ link[c] \in Links /\ link[c].page \in Pages
      /\ \A l \in Links : Canonical(l) \in Links /\ Canonical(l) = page(l.page)
  BY DEF Running, TypeOK, Links, Canonical, Lists, Writing
<1>2. /\ got' = [got EXCEPT ![c] = Append(got[c], link[c].page)]
      /\ seen' = [seen EXCEPT ![c] = seen[c] \union {Canonical(link[c])}]
  BY DEF PageRead
<1>3. /\ got' \in [Clients -> Seq(Pages)]
      /\ \A i \in 1 .. Len(got'[c]) :
            \/ got'[c][i] = link[c].page
            \/ \E j \in 1 .. Len(got[c]) : got'[c][i] = got[c][j]
      /\ \A i, j \in 1 .. Len(got'[c]) : got'[c][i] = got'[c][j] => i = j
      /\ \A d \in Clients \ {c} : got'[d] = got[d]
  <2>1. got[c] \in Seq(Pages) /\ got'[c] = Append(got[c], link[c].page)
    BY <1>1, <1>2 DEF TypeOK
  <2>2. /\ \A i \in 1 .. Len(got[c]) : got[c][i] # link[c].page
        /\ \A i, j \in 1 .. Len(got[c]) : got[c][i] = got[c][j] => i = j
    BY DEF ListInv
  <2>3. /\ got'[c] \in Seq(Pages)
        /\ \A i \in 1 .. Len(got'[c]) :
              \/ got'[c][i] = link[c].page
              \/ \E j \in 1 .. Len(got[c]) : got'[c][i] = got[c][j]
        /\ \A i, j \in 1 .. Len(got'[c]) : got'[c][i] = got'[c][j] => i = j
    BY <1>1, <2>1, <2>2, OneMorePage
  <2>4. /\ got' \in [Clients -> Seq(Pages)]
        /\ \A d \in Clients \ {c} : got'[d] = got[d]
    BY <1>1, <1>2, <2>1, <2>3 DEF TypeOK
  <2> QED BY <2>3, <2>4
<1>4. /\ seen' \in [Clients -> SUBSET Links]
      /\ \A d \in Clients \ {c} : seen'[d] = seen[d]
      /\ \A i \in 1 .. Len(got'[c]) : page(got'[c][i]) \in seen'[c]
  <2>1. /\ seen' \in [Clients -> SUBSET Links]
        /\ \A d \in Clients \ {c} : seen'[d] = seen[d]
        /\ seen'[c] = seen[c] \union {Canonical(link[c])}
    BY <1>1, <1>2 DEF TypeOK
  <2>2. \A j \in 1 .. Len(got[c]) : page(got[c][j]) \in seen[c]
    BY DEF ListInv
  <2> QED BY <1>1, <1>3, <2>1, <2>2
<1>5. CASE UNCHANGED link /\ Moved(c)
  <2>1. pc'[c] \in {"idle", "open", "migrate"}
    BY <1>5 DEF Moved
  <2> QED BY <1>3, <1>4, <1>5, <2>1 DEF TypeOK, ListInv
<1>6. ASSUME NEW next \in Links, Canonical(next) \notin seen'[c],
             link' = [link EXCEPT ![c] = next], Went(c, "ready")
      PROVE  /\ link' \in [Clients -> Links]
             /\ \A d \in Clients \ {c} : link'[d] = link[d]
             /\ ListInv(c)'
  <2>1. /\ link' \in [Clients -> Links] /\ link'[c] = next
        /\ \A d \in Clients \ {c} : link'[d] = link[d]
    BY <1>1, <1>6 DEF TypeOK
  <2>2. \A i \in 1 .. Len(got'[c]) : got'[c][i] # next.page
    BY <1>1, <1>4, <1>6
  <2> QED BY <1>3, <1>4, <2>1, <2>2 DEF ListInv
<1>7. \/ UNCHANGED link /\ Moved(c)
      \/ \E next \in Links : /\ Canonical(next) \notin seen'[c]
                             /\ link' = [link EXCEPT ![c] = next] /\ Went(c, "ready")
  <2>1. CASE Listed(c) /\ UNCHANGED link
    <3>1. Proceed(c) \/ Finish(c, "refused")
      BY <2>1 DEF Listed, ResolveCourse, ResolveFolder
    <3> QED BY <1>1, <2>1, <3>1, Proceeds, FinishMoves DEF Results
  <2>2. ASSUME NEW next \in Links, Fail(c, "network") /\ UNCHANGED link
        PROVE  UNCHANGED link /\ Moved(c)
    BY <2>2, Fails
  <2>3. ASSUME NEW next \in Links, Canonical(next) \notin seen'[c],
               link' = [link EXCEPT ![c] = next] /\ Goto(c, "ready")
        PROVE  Went(c, "ready")
    BY <2>3, Goes DEF Places
  <2> QED BY <2>1, <2>2, <2>3 DEF PageRead
<1> QED BY <1>3, <1>4, <1>5, <1>6, <1>7

\* A creation's write is a POST.
LEMMA CreatePosts ==
    ASSUME NEW c, Running(c), cmd[c] = "create", Op(c) \in Writing
    PROVE  Op(c) = "post"
  BY Literals DEF Running, Rest, Op, Writing

\* The answer to a write, and what it leaves to say: done only when D2L has done it,
\* and of a creation failed only when D2L has not, or its whole reply came.
LEMMA WriteEnds ==
    ASSUME TypeOK, NEW c, Running(c), Op(c) \in Writing, applied'[c] \in {0, 1},
           cmd'[c] = cmd[c],
           NEW reply \in {"ok", "shape", "network", "limited", "error", "expired", "denied"},
           reply = "ok" => applied'[c] = 1,
           reply = "denied" => applied'[c] = 0,
           reply = "ok" => answered'[c],
           NEW result \in {"done", "failed"},
           IF reply = "ok" THEN Finish(c, result) ELSE Fail(c, reply)
    PROVE  RunInv(c)' /\ Placed(c) /\ pc'[c] = "idle"
<1>1. CASE reply = "ok"
  <2>1. Placed(c) /\ pc'[c] = "idle" /\ outcome'[c] = result
    BY <1>1, Finishes DEF Results
  <2> QED BY <1>1, <2>1 DEF RunInv, Truthful, Running
<1>2. CASE reply # "ok"
  <2>1. Placed(c) /\ pc'[c] = "idle" /\ outcome'[c] = Report(cmd[c], Op(c), reply)
    BY <1>2, FailedWrite
  <2>2. outcome'[c] \in {"failed", "unknown"}
    BY <2>1, Reports
  <2>3. cmd[c] = "create" /\ outcome'[c] = "failed" => reply = "denied"
    BY <1>2, <2>1, CreatePosts DEF Report, CreationFailed
  <2> QED BY <2>1, <2>2, <2>3 DEF RunInv, Truthful, Running
<1> QED BY <1>1, <1>2

\* D2L carries out one write of a request at most, and nothing of a read.
LEMMA Applies ==
    ASSUME NEW c, NEW reply, Apply(c, reply)
    PROVE  \E n \in {0, 1} : /\ applied' = [applied EXCEPT ![c] = @ + n]
                             /\ Op(c) \notin Writing => n = 0
<1> DEFINE sure == Op(c) \notin {"post", "once"} \/ mine[c] \notin alive \/ reply = "denied"
           times == IF sure THEN {0} ELSE IF reply \in Bodies THEN {1} ELSE {0, 1}
<1>1. PICK n \in times : applied' = [applied EXCEPT ![c] = @ + n]
  BY DEF Apply
<1>2. n \in {0, 1} /\ (Op(c) \notin Writing => n = 0)
  BY DEF Writing
<1> QED BY <1>1, <1>2

\* What an exchange leaves alone, and what D2L does in it: a write is carried out at
\* most once, surely when its answer says so, and not when it was refused.
LEMMA ExchangeAtServer ==
    ASSUME TypeOK, NEW c, Running(c), applied[c] = 0, Exchange(c)
    PROVE  /\ UNCHANGED <<disk, issued, browser, mine, loaded, cmd, copied, calls>>
           /\ tries' \in [Clients -> 0 .. Retries]
           /\ applied' \in [Clients -> Nat] /\ answered' \in [Clients -> BOOLEAN]
           /\ \A d \in Clients \ {c} : applied'[d] = applied[d] /\ answered'[d] = answered[d]
           /\ alive' \subseteq alive
           /\ applied'[c] \in {0, 1}
           /\ Op(c) \notin Writing => applied'[c] = 0
<1>1. PICK reply \in Replies(c) :
         /\ Apply(c, reply)
         /\ answered' = [answered EXCEPT ![c] = @ \/ (reply = "ok" /\ Op(c) \in {"post", "once"})]
         /\ alive' = IF reply = "expired" THEN alive \ {mine[c]} ELSE alive
         /\ tries' = [tries EXCEPT ![c] =
                         IF reply \in {"network", "limited"} /\ tries[c] < MoreTries(Op(c))
                         THEN @ + 1 ELSE 0]
  BY DEF Exchange
<1>2. UNCHANGED <<disk, issued, browser, mine, loaded, cmd, copied, calls>>
  BY DEF Exchange
<1>3. PICK n \in {0, 1} : /\ applied' = [applied EXCEPT ![c] = @ + n]
                          /\ Op(c) \notin Writing => n = 0
  BY <1>1, Applies
<1>4. /\ applied' \in [Clients -> Nat]
      /\ \A d \in Clients \ {c} : applied'[d] = applied[d]
      /\ applied'[c] = n
  BY <1>3 DEF TypeOK, Running
<1>6. /\ answered' \in [Clients -> BOOLEAN]
      /\ \A d \in Clients \ {c} : answered'[d] = answered[d]
  BY <1>1 DEF TypeOK
<1>5. tries' \in [Clients -> 0 .. Retries]
  <2>1. tries[c] \in 0 .. Retries /\ Retries \in Nat /\ MoreTries(Op(c)) <= Retries
    BY SizeAssumption DEF TypeOK, Running, MoreTries
  <2>2. tries \in [Clients -> 0 .. Retries]
    BY DEF TypeOK
  <2>3. PICK m \in 0 .. Retries : tries' = [tries EXCEPT ![c] = m]
    <3>1. CASE reply \in {"network", "limited"} /\ tries[c] < MoreTries(Op(c))
      <4>1. tries' = [tries EXCEPT ![c] = tries[c] + 1]
        BY <1>1, <3>1
      <4>2. tries[c] + 1 \in 0 .. Retries
        BY <2>1, <3>1 DEF MoreTries
      <4> QED BY <4>1, <4>2
    <3>2. CASE ~(reply \in {"network", "limited"} /\ tries[c] < MoreTries(Op(c)))
      <4>1. tries' = [tries EXCEPT ![c] = 0]
        BY <1>1, <3>2
      <4>2. 0 \in 0 .. Retries
        BY <2>1
      <4> QED BY <4>1, <4>2
    <3> QED BY <3>1, <3>2
  <2> QED BY <2>2, <2>3
<1> QED BY <1>1, <1>2, <1>3, <1>4, <1>5, <1>6

\* Success of a read: a list grows, a token is that of the client's session.
LEMMA Succeeds ==
    ASSUME TypeOK, NEW c, Running(c), ListInv(c), pc[c] = "ready",
           Op(c) \notin Writing, Success(c)
    PROVE  /\ Moved(c) \/ Went(c, "ready")
           /\ link' \in [Clients -> Links] /\ seen' \in [Clients -> SUBSET Links]
           /\ got' \in [Clients -> Seq(Pages)]
           /\ \A d \in Clients \ {c} :
                 got'[d] = got[d] /\ seen'[d] = seen[d] /\ link'[d] = link[d]
           /\ ListInv(c)'
<1>1. CASE Op(c) \in Lists
  <2>1. PageRead(c)
    BY <1>1 DEF Success
  <2> QED BY <1>1, <2>1, PageReads
<1>2. CASE Op(c) \notin Lists
  <2>1. UNCHANGED <<link, seen, got>> /\ (Proceed(c) \/ Finish(c, "refused"))
    BY <1>2 DEF Success, FolderRead, Writing
  <2>2. Moved(c)
    BY <2>1, Proceeds, FinishMoves DEF Results
  <2>3. pc'[c] \in {"idle", "open", "migrate"}
    BY <2>2 DEF Moved
  <2>4. ListInv(c)'
    BY <2>1, <2>3, ListKept DEF Running
  <2> QED BY <2>1, <2>2, <2>4 DEF TypeOK
<1> QED BY <1>1, <1>2

\* An answer that is no success: the attempt is repeated, the session recovered, the
\* refusal checked, or the request fails.
LEMMA Disappoints ==
    ASSUME TypeOK, NEW c, Running(c), NEW reply \in Replies(c), reply # "ok",
           Op(c) \notin Writing, alive' = IF reply = "expired" THEN alive \ {mine[c]} ELSE alive,
           \/ Goto(c, "ready") /\ UNCHANGED refreshed
           \/ reply = "expired" /\ Expired(c)
           \/ reply = "denied" /\ Denied(c)
           \/ Fail(c, reply) /\ UNCHANGED refreshed
    PROVE  /\ \/ Moved(c) \/ Went(c, "ready") \/ Went(c, "check")
              \/ Went(c, "renew") /\ mine[c] \notin alive'
           /\ refreshed' \in [Clients -> BOOLEAN]
<1>1. refreshed \in [Clients -> BOOLEAN]
  BY DEF TypeOK
<1>2. CASE Goto(c, "ready") /\ UNCHANGED refreshed
  BY <1>1, <1>2, Goes DEF Places
<1>3. CASE reply = "expired" /\ Expired(c)
  BY <1>3, Expires
<1>4. CASE reply = "denied" /\ Denied(c)
  <2>1. Op(c) = "whoami" => mine[c] \notin alive'
    BY <1>4 DEF Replies, Bodies
  <2> QED BY <1>4, <2>1, Denies
<1>5. CASE Fail(c, reply) /\ UNCHANGED refreshed
  BY <1>1, <1>5, Fails
<1> QED BY <1>2, <1>3, <1>4, <1>5

\* The answer to a request that cannot write.
LEMMA ReadAnswered ==
    ASSUME TypeOK, IInv, NEW c \in Clients, Running(c), applied[c] = 0, Op(c) \notin Writing,
           Exchange(c)
    PROVE  /\ RunInv(c)' /\ Placed(c)
           /\ token' \in [Clients -> Sessions \union {0}]
           /\ \A d \in Clients \ {c} : token'[d] = token[d]
           /\ token'[c] \in {0, mine[c]}
           /\ refreshed' \in [Clients -> BOOLEAN]
           /\ pc'[c] \in {"renew", "browser", "save"} => mine[c] \notin alive'
           /\ link' \in [Clients -> Links] /\ seen' \in [Clients -> SUBSET Links]
           /\ got' \in [Clients -> Seq(Pages)]
           /\ \A d \in Clients \ {c} :
                 got'[d] = got[d] /\ seen'[d] = seen[d] /\ link'[d] = link[d]
           /\ ListInv(c)'
<1>1. PICK reply \in Replies(c) :
         /\ alive' = IF reply = "expired" THEN alive \ {mine[c]} ELSE alive
         /\ IF reply = "ok" THEN Success(c)
            ELSE /\ \/ Goto(c, "ready") /\ UNCHANGED refreshed
                    \/ reply = "expired" /\ Expired(c)
                    \/ reply = "denied" /\ Denied(c)
                    \/ Fail(c, reply) /\ UNCHANGED refreshed
                 /\ UNCHANGED <<token, link, seen, got>>
  BY DEF Exchange
<1>2. /\ cmd'[c] = cmd[c] /\ applied'[c] = 0 /\ pc[c] = "ready"
  BY ExchangeAtServer DEF Exchange
<1>3. /\ ListInv(c) /\ token[c] \in {0, mine[c]} /\ mine[c] \in Sessions \union {0}
  BY DEF IInv, SessionInv, TypeOK
<1>4. CASE reply = "ok"
  <2>1. Success(c)
    BY <1>1, <1>4
  <2>2. /\ token' = [token EXCEPT ![c] = IF Op(c) = "token" THEN mine[c] ELSE token[c]]
        /\ refreshed' = [refreshed EXCEPT ![c] = FALSE]
    BY <2>1 DEF Success
  <2>3. /\ token' \in [Clients -> Sessions \union {0}]
        /\ \A d \in Clients \ {c} : token'[d] = token[d]
        /\ token'[c] \in {0, mine[c]}
        /\ refreshed' \in [Clients -> BOOLEAN]
    BY <1>3, <2>2 DEF TypeOK
  <2>4. Moved(c) \/ Went(c, "ready")
    BY <1>2, <1>3, <2>1, Succeeds
  <2>5. pc'[c] \notin {"renew", "browser", "save"}
    BY <2>4 DEF Moved, Went
  <2>6. RunInv(c)' /\ Placed(c)
    BY <1>2, <2>4, RunKept DEF Places
  <2> QED BY <1>2, <1>3, <2>1, <2>3, <2>5, <2>6, Succeeds
<1>5. CASE reply # "ok"
  <2>1. /\ UNCHANGED <<token, link, seen, got>>
        /\ \/ Goto(c, "ready") /\ UNCHANGED refreshed
           \/ reply = "expired" /\ Expired(c)
           \/ reply = "denied" /\ Denied(c)
           \/ Fail(c, reply) /\ UNCHANGED refreshed
    BY <1>1, <1>5
  <2>2. /\ \/ Moved(c) \/ Went(c, "ready") \/ Went(c, "check")
           \/ Went(c, "renew") /\ mine[c] \notin alive'
        /\ refreshed' \in [Clients -> BOOLEAN]
    BY <1>1, <1>5, <2>1, Disappoints
  <2>3. pc'[c] \in {"renew", "browser", "save"} => mine[c] \notin alive'
    BY <2>2 DEF Moved, Went
  <2>4. RunInv(c)' /\ Placed(c)
    BY <1>2, <2>2, RunKept DEF Places
  <2>5. pc'[c] \in {"idle", "open"} \/ todo'[c] = todo[c]
    BY <2>2 DEF Moved, Went
  <2>6. ListInv(c)'
    BY <1>2, <1>3, <2>1, <2>5, ListKept
  <2> QED BY <1>3, <2>1, <2>2, <2>3, <2>4, <2>6 DEF TypeOK
<1> QED BY <1>4, <1>5

\* The answer to a write ends its command: it is never sent again.
LEMMA WriteAnswered ==
    ASSUME TypeOK, NEW c \in Clients, Running(c), applied[c] = 0, Op(c) \in Writing, Exchange(c)
    PROVE  /\ RunInv(c)' /\ Placed(c) /\ pc'[c] = "idle"
           /\ token' = token
           /\ refreshed' \in [Clients -> BOOLEAN]
           /\ UNCHANGED <<link, seen, got>>
<1> DEFINE again(reply) == reply \in {"network", "limited"} /\ tries[c] < MoreTries(Op(c))
<1>1. PICK reply \in Replies(c) :
         /\ Apply(c, reply)
         /\ answered' = [answered EXCEPT ![c] = @ \/ (reply = "ok" /\ Op(c) \in {"post", "once"})]
         /\ IF reply = "ok" THEN Success(c)
            ELSE /\ CASE again(reply) -> Goto(c, "ready") /\ UNCHANGED refreshed
                      [] reply = "expired" -> Expired(c)
                      [] reply = "denied" -> Denied(c)
                      [] OTHER -> Fail(c, reply) /\ UNCHANGED refreshed
                 /\ UNCHANGED <<token, link, seen, got>>
  BY DEF Exchange
<1>2. /\ Op(c) \notin Lists /\ Op(c) \notin {"peek", "token", "whoami"}
      /\ ~CanRecover(c) /\ MoreTries(Op(c)) = 0
      /\ Len(todo[c]) = 1
  BY RunningHasOp DEF Writing, Lists, CanRecover, Replayable, MoreTries
<1>3. ~again(reply)
  <2>1. tries[c] \in 0 .. Retries /\ Retries \in Nat
    BY SizeAssumption DEF TypeOK
  <2> QED BY <1>2, <2>1
<1>4. /\ applied'[c] \in {0, 1}
      /\ reply = "ok" => applied'[c] = 1
      /\ reply = "denied" => applied'[c] = 0
      /\ reply = "ok" => answered'[c]
  <2>1. PICK n \in {0, 1} :
           /\ applied' = [applied EXCEPT ![c] = @ + n]
           /\ reply = "ok" /\ mine[c] \in alive => n = 1
           /\ reply = "denied" => n = 0
    BY <1>1 DEF Apply, Bodies, Writing
  <2>2. reply = "ok" => mine[c] \in alive
    BY <1>1 DEF Replies, Bodies
  <2>3. reply = "ok" => answered'[c]
    BY <1>1 DEF TypeOK, Writing
  <2> QED BY <2>1, <2>2, <2>3 DEF TypeOK
<1>5. CASE reply = "ok"
  <2>1. /\ token' = [token EXCEPT ![c] = token[c]]
        /\ refreshed' = [refreshed EXCEPT ![c] = FALSE]
        /\ UNCHANGED <<link, seen, got>>
        /\ Proceed(c) \/ Shown(c)
    BY <1>1, <1>2, <1>5 DEF Success
  <2>2. PICK result \in {"done", "failed"} : Finish(c, result)
    BY <1>2, <2>1 DEF Proceed, Shown
  <2> QED BY <1>4, <1>5, <2>1, <2>2, WriteEnds, ExchangeAtServer DEF TypeOK
<1>6. CASE reply # "ok"
  <2>1. /\ UNCHANGED <<token, link, seen, got, refreshed>>
        /\ Fail(c, reply)
    <3>1. CASE reply = "expired"
      BY <1>1, <1>2, <1>3, <1>6, <3>1 DEF Expired
    <3>2. CASE reply = "denied"
      BY <1>1, <1>2, <1>3, <1>6, <3>2 DEF Denied
    <3>3. CASE reply \notin {"expired", "denied"}
      BY <1>1, <1>3, <1>6, <3>3
    <3> QED BY <3>1, <3>2, <3>3
  <2>2. reply \in {"ok", "shape", "network", "limited", "error", "expired", "denied"}
    BY DEF Replies, Bodies
  <2>3. cmd'[c] = cmd[c] /\ "done" \in {"done", "failed"}
    BY ExchangeAtServer
  <2>4. RunInv(c)' /\ Placed(c) /\ pc'[c] = "idle"
    BY <1>4, <1>6, <2>1, <2>2, <2>3, WriteEnds
  <2> QED BY <2>1, <2>4 DEF TypeOK
<1> QED BY <1>5, <1>6

\* Exchange: one request and its answer.
LEMMA ExchangeStep ==
    ASSUME TypeOK, IInv, NEW c \in Clients, Exchange(c)
    PROVE  TypeOK' /\ IInv' /\ Placed(c)
<1>1. Running(c) /\ applied[c] = 0
  BY Runs DEF Exchange
<1>2. /\ UNCHANGED <<disk, issued, browser, mine, loaded, cmd, copied, calls>>
      /\ tries' \in [Clients -> 0 .. Retries]
      /\ applied' \in [Clients -> Nat] /\ answered' \in [Clients -> BOOLEAN]
      /\ \A d \in Clients \ {c} : applied'[d] = applied[d] /\ answered'[d] = answered[d]
      /\ alive' \subseteq alive
  BY <1>1, ExchangeAtServer
<1>3. /\ RunInv(c)' /\ Placed(c)
      /\ token' \in [Clients -> Sessions \union {0}]
      /\ \A d \in Clients \ {c} : token'[d] = token[d]
      /\ token'[c] \in {0, mine[c]}
      /\ refreshed' \in [Clients -> BOOLEAN]
      /\ pc'[c] \in {"renew", "browser", "save"} => mine[c] \notin alive'
      /\ link' \in [Clients -> Links] /\ seen' \in [Clients -> SUBSET Links]
      /\ got' \in [Clients -> Seq(Pages)]
      /\ \A d \in Clients \ {c} :
            got'[d] = got[d] /\ seen'[d] = seen[d] /\ link'[d] = link[d]
      /\ ListInv(c)'
  <2>1. CASE Op(c) \notin Writing
    BY <1>1, <2>1, ReadAnswered
  <2>2. CASE Op(c) \in Writing
    <3>1. /\ RunInv(c)' /\ Placed(c) /\ pc'[c] = "idle" /\ token' = token
          /\ refreshed' \in [Clients -> BOOLEAN] /\ UNCHANGED <<link, seen, got>>
      BY <1>1, <2>2, WriteAnswered
    <3>2. ListInv(c) /\ token[c] \in {0, mine[c]}
      BY DEF IInv, SessionInv
    <3>3. ListInv(c)'
      BY <3>1, <3>2, ListKept
    <3> QED BY <3>1, <3>2, <3>3 DEF TypeOK
  <2> QED BY <2>1, <2>2
<1>4. Frame(c) /\ Later
  BY <1>2, <1>3, SameIsLater DEF Frame
<1>5. SessionInv(c)'
  <2>1. mine[c] <= issued /\ copied[c] <= issued
    BY DEF IInv, SessionInv
  <2> QED BY <1>2, <1>3, <2>1 DEF SessionInv
<1>6. TypeOK'
  BY <1>2, <1>3 DEF TypeOK, Placed, Places, Results
<1> QED BY <1>2, <1>3, <1>4, <1>5, <1>6, OneClient DEF IInv

-----------------------------------------------------------------------------
(* The theorems.                                                           *)

\* Before the first command nothing has been carried out, told or read.
LEMMA InitHolds ==
    ASSUME Init
    PROVE  TypeOK /\ IInv
<1>1. issued \in {0, 1} /\ issued <= MaxSessions /\ MaxSessions \in Nat /\ Retries \in Nat
      /\ MaxCalls \in Nat
  BY SizeAssumption DEF Init
<1>2. [page |-> FirstPage, form |-> "relative"] \in Links
  BY SizeAssumption DEF Links, FirstPage
<1>3. disk \in [session : Sessions \union {0}, sealed : BOOLEAN] /\ disk.session = issued
      /\ issued \in Sessions \union {0}
  BY <1>1 DEF Init, Sessions
<1>4. /\ <<>> \in Seq(Ops) /\ <<>> \in Seq(Pages) /\ 0 \in 0 .. Retries /\ 0 \in 0 .. MaxCalls
      /\ 0 \in 0 .. issued
  BY <1>1
<1>5. TypeOK
  BY <1>2, <1>3, <1>4 DEF Init, TypeOK
<1>6. ASSUME NEW c \in Clients
      PROVE  RunInv(c) /\ SessionInv(c) /\ ListInv(c)
  <2>1. pc[c] = "idle" /\ applied[c] = 0 /\ outcome[c] = "none"
        /\ mine[c] = 0 /\ copied[c] = 0 /\ token[c] = 0 /\ got[c] = <<>>
    BY DEF Init
  <2> QED BY <1>1, <2>1 DEF RunInv, Truthful, SessionInv, ListInv
<1> QED BY <1>1, <1>3, <1>5, <1>6 DEF IInv

\* Every step keeps the invariant.
LEMMA NextHolds ==
    ASSUME TypeOK, IInv, [Next]_vars
    PROVE  TypeOK' /\ IInv'
<1>1. ASSUME NEW c \in Clients, Begin(c) \/ Advance(c) \/ Confirm(c) \/ NewClient(c)
      PROVE  TypeOK' /\ IInv'
  BY <1>1, BeginStep, OpenStep, MigrateStep, ExchangeStep, CheckStep, RenewStep, CopyStep,
     SaveStep, ConfirmStep, NewClientStep
     DEF Advance
<1>2. CASE UNCHANGED vars
  <2>1. TypeOK'
    BY <1>2 DEF vars, server, TypeOK
  <2>2. IInv'
    BY <1>2 DEF vars, server, IInv, RunInv, Truthful, SessionInv, ListInv, Op
  <2> QED BY <2>1, <2>2
<1> QED BY <1>1, <1>2, SessionEndsStep, SignInElsewhereStep DEF Next

\* The types and the invariant hold of every state the client, its cookies and D2L
\* reach, however many clients and commands there are.
THEOREM Invariance == Spec => [](TypeOK /\ IInv)
<1>1. Init => TypeOK /\ IInv
  BY InitHolds
<1>2. TypeOK /\ IInv /\ [Next]_vars => TypeOK' /\ IInv'
  BY NextHolds
<1> QED BY <1>1, <1>2, PTL DEF Spec

\* No command carries its write out twice: a lost, limited, refused or expired answer
\* to a write ends the command (api.py, _request and replayable).
THEOREM AtMostOnce == Spec => []WrittenOnce
<1>1. TypeOK /\ IInv => WrittenOnce
  BY DEF IInv, RunInv, WrittenOnce
<1> QED BY <1>1, Invariance, PTL

\* A command says done of a write that D2L has carried out, cancelled or refused only
\* when nothing was carried out, and failed of a creation only when nothing was, or
\* D2L's whole reply came and could not be shown (AssessmentAPI.write, submit_file, _run).
THEOREM ToldTruly == Spec => []OutcomeIsTrue
<1>1. TypeOK /\ IInv => OutcomeIsTrue
  BY DEF IInv, RunInv, Truthful, Writers, OutcomeIsTrue
<1> QED BY <1>1, Invariance, PTL

\* Only a session that is over is recovered (_whoami_signed_out, _recover_session).
THEOREM RecoversTheDead == Spec => []RecoveryIsDue
<1>1. TypeOK /\ IInv => RecoveryIsDue
  BY DEF IInv, SessionInv, RecoveryIsDue
<1> QED BY <1>1, Invariance, PTL

\* A new session takes the token of the old one with it (_recover_session).
THEOREM TokensAreCurrent == Spec => []TokenOfSession
<1>1. TypeOK /\ IInv => TokenOfSession
  BY DEF IInv, SessionInv, TokenOfSession
<1> QED BY <1>1, Invariance, PTL

\* A list holds no page twice (_paginate_list).
THEOREM PagesOnce == Spec => []EachPageOnce
<1>1. ASSUME TypeOK, IInv, NEW c \in Clients
      PROVE  IsInjective(got[c])
  <2>1. DOMAIN got[c] = 1 .. Len(got[c])
    BY DEF TypeOK
  <2>2. \A i, j \in 1 .. Len(got[c]) : got[c][i] = got[c][j] => i = j
    BY <1>1 DEF IInv, ListInv
  <2> QED BY <2>1, <2>2 DEF IsInjective
<1>2. TypeOK /\ IInv => EachPageOnce
  BY <1>1 DEF EachPageOnce
<1> QED BY <1>2, Invariance, PTL

\* A step of one client leaves the others where they are.
LEMMA OthersStay ==
    ASSUME TypeOK, IInv, NEW d \in Clients,
           Begin(d) \/ Advance(d) \/ Confirm(d) \/ NewClient(d),
           NEW c \in Clients \ {d}
    PROVE  pc'[c] = pc[c]
<1>1. Placed(d)
  BY BeginStep, OpenStep, MigrateStep, ExchangeStep, CheckStep, RenewStep, CopyStep,
     SaveStep, ConfirmStep, NewClientStep
     DEF Advance
<1> QED BY <1>1 DEF Placed

\* A step that ends a client's migration is that client's: it leaves sealed cookies alone.
LEMMA MigrationKeepsSealed ==
    ASSUME TypeOK, IInv, Next, NEW c \in Clients,
           pc[c] = "migrate", pc'[c] # "migrate", disk.sealed
    PROVE  disk' = disk
<1>1. CASE Migrate(c)
  BY <1>1 DEF Migrate
<1>2. ASSUME NEW d \in Clients \ {c}, Begin(d) \/ Advance(d) \/ Confirm(d) \/ NewClient(d)
      PROVE  FALSE
  <2>1. pc'[c] = pc[c]
    BY <1>2, OthersStay
  <2> QED BY <2>1
<1>3. CASE SessionEnds \/ SignInElsewhere
  BY <1>3 DEF SessionEnds, SignInElsewhere
<1>4. Running(c) /\ Op(c) \in Ops
  BY Runs, RunningHasOp
<1>5. ~(Begin(c) \/ Open(c) \/ Exchange(c) \/ Check(c) \/ Renew(c) \/ Copy(c) \/ Save(c)
         \/ Confirm(c) \/ NewClient(c))
  BY DEF Begin, Open, Exchange, Check, Renew, Copy, Save, Confirm, NewClient
<1> QED BY <1>1, <1>2, <1>3, <1>5 DEF Next, Advance

\* Cookies that another process sealed while a client was about to seal the legacy
\* ones are the ones that stay (_load_migrating_legacy_cookies).
THEOREM UpgradesKeepNewer == Spec => UpgradeKeepsNewer
<1>1. TypeOK /\ IInv /\ [Next]_vars =>
         [\A c \in Clients :
             pc[c] = "migrate" /\ pc'[c] # "migrate" /\ disk.sealed => disk' = disk]_vars
  BY MigrationKeepsSealed
<1> QED BY <1>1, Invariance, PTL DEF Spec, UpgradeKeepsNewer
=============================================================================
