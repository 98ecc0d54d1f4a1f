-------------------------- MODULE TriageDeskProofs --------------------------
(***************************************************************************)
(* Proofs about TriageDesk: for any number of requests, alerts, servers'   *)
(* environments and provider exchanges, verdicts are about what they are   *)
(* shown for, come from the model that is shown, and were given by it.     *)
(***************************************************************************)
EXTENDS TriageDesk, TLAPS

-----------------------------------------------------------------------------
(* The inductive invariant: what the record of a request tells at each stage, *)
(* and what a key of the cache tells about the verdict under it.              *)

StageOfKind(q) ==
  /\ q.stage = "decide" => q.kind = "status"
  /\ q.stage = "get" => q.kind \in {"triage", "investigate"}
  /\ q.stage = "activity" => q.kind = "investigate"
  /\ q.stage = "call" => q.kind \in {"triage", "investigate", "rule"}
  /\ q.stage \in {"lookup", "keep", "store"} => q.kind = "triage"
  /\ q.stage = "compile" => q.kind = "rule"

\* A request that is being served is served by the running server, and one whose
\* alert was read names an alert.
ServedHere(q) ==
  /\ q.stage \notin {"idle", "done"} => q.by = client /\ client.kind # "error"
  /\ q.stage \in {"lookup", "activity", "call", "keep", "store"} /\ q.kind # "rule" => q.alert \in Alerts

\* Nothing is known before the call, and an answer and a cached result exclude
\* each other.
ToldOnce(q) ==
  /\ q.stage \in {"idle", "decide", "get", "lookup", "activity", "call"} =>
       ~q.answered /\ ~q.hit /\ q.verdict = NoVerdict
  /\ q.stage \in {"keep", "compile"} => q.answered /\ ~q.hit
  /\ q.hit => ~q.answered

Fits(q) ==
  /\ q.verdict.alert = q.alert /\ q.verdict.evidence = q.row.evidence
  /\ q.verdict.model = q.by.model /\ (q.verdict.mock <=> q.by.kind = "mock")

Succeeded(q, kind) == q.kind = kind /\ q.stage = "done" /\ q.reply = 200

VerdictFits(q) == q.stage \in {"keep", "store"} \/ Succeeded(q, "triage") => Fits(q)

RuleVetted(q) == Succeeded(q, "rule") => q.rule \in {"rejected", "sound"}

Sane(q) == StageOfKind(q) /\ ServedHere(q) /\ ToldOnce(q) /\ VerdictFits(q) /\ RuleVetted(q)

CacheFits ==
  \A k \in DOMAIN cache :
    /\ cache[k].alert = k[1] /\ cache[k].evidence = k[2]
    /\ cache[k].model = k[3] /\ (cache[k].mock <=> k[3] = "mock")

\* v is what a client answered to some request.
GivenByClient(v) == \E r \in Requests : req[r].answered /\ ~req[r].hit /\ req[r].verdict = v

VerdictsGiven ==
  /\ \A r \in Requests : req[r].verdict # NoVerdict => GivenByClient(req[r].verdict)
  /\ \A k \in DOMAIN cache : cache[k] # NoVerdict => GivenByClient(cache[k])
  /\ \A a \in Alerts : alerts[a].triage # NoVerdict => GivenByClient(alerts[a].triage)

DeskInv ==
  /\ TypeOK
  /\ \A r \in Requests : Sane(req[r])
  /\ CacheFits /\ VerdictsGiven /\ UsageIsReal /\ DecisionStands

-----------------------------------------------------------------------------
(* Clients *)

LEMMA EnvType == ASSUME TypeOK PROVE env \in Env
  BY DeskAssumption DEF TypeOK

LEMMA ClientType == ASSUME NEW e \in Env PROVE NewClient(Load(e)) \in Client
  <1> DEFINE cfg == Load(e)
  <1>1. cfg.model \in {"", "custom"}
    <2>1. cfg.model = e.model
      BY DEF Load
    <2>2. e.model \in {"", "custom"}
      BY DEF Env
    <2>3. QED
      BY <2>1, <2>2
  <1>2. DefaultModel(cfg.provider) \in Models
    BY DEF DefaultModel, Models
  <1> HIDE DEF cfg
  <1>3. Refused \in Client /\ Mock \in Client
    BY DEF Refused, Mock, Client, Models
  <1>4. ASSUME cfg.provider \in Providers
        PROVE  [kind  |-> cfg.provider,
                model |-> IF cfg.model = "" THEN DefaultModel(cfg.provider) ELSE cfg.model] \in Client
    BY <1>1, <1>2, <1>4 DEF Client, Models
  <1>5. NewClient(cfg) \in Client
    BY <1>3, <1>4 DEF NewClient
  <1>6. QED
    BY <1>5 DEF cfg

\* A client can be told by the name of its model: only the mock's is "mock".
LEMMA ModelTells ==
  ASSUME NEW e \in Env
  PROVE  NewClient(Load(e)).model = "mock" <=> NewClient(Load(e)).kind = "mock"
  BY DEF Env, Load, NewClient, Refused, Mock, DefaultModel, Providers

LEMMA KeysOf == ASSUME env \in Env PROVE KeysStayHome
  BY DEF KeysStayHome, client, Env, Load, Live, LLMLive, NewClient, Refused, Mock, Providers

-----------------------------------------------------------------------------
(* A request is changed field by field; each lemma says what one change sets *)
(* and what it leaves.                                                        *)

Stages == {"idle", "decide", "get", "lookup", "activity", "call", "keep", "store", "compile", "done"}
Kinds  == {"triage", "investigate", "status", "rule"}
Codes  == {0, 200, 400, 404, 500, 502}
Tries  == 0 .. Attempts - 1
Rows   == [evidence : 0 .. MaxEvidence, status : Statuses]

SameCase(p, q) == p.kind = q.kind /\ p.alert = q.alert /\ p.row = q.row /\ p.by = q.by

\* What is left of the case of request q when it has ended with code c.
Settled(p, q, c) == p.kind = q.kind /\ (c = 200 /\ q.kind = "triage" => SameCase(p, q))

\* What Arrive makes of an idle request.
Assigned(q, k, a, b, s) == [q EXCEPT !.kind = k, !.alert = a, !.by = b, !.stage = s]

SameAnswer(p, q) == p.answered = q.answered /\ p.verdict = q.verdict /\ p.hit = q.hit

LEMMA Values ==
  /\ {"done", "lookup", "store", "keep", "compile", "call", "decide", "get"} \subseteq Stages
  /\ 0 \in Tries /\ TRUE \in BOOLEAN /\ FALSE \in BOOLEAN
  BY DEF Stages, Tries, Attempts

LEMMA SetStage == ASSUME NEW q \in Request, NEW s \in Stages PROVE [q EXCEPT !.stage = s] \in Request
  BY DEF Request, Stages

LEMMA SetFlags ==
  ASSUME NEW q \in Request, NEW b \in BOOLEAN
  PROVE  /\ [q EXCEPT !.gone = b] \in Request
         /\ [q EXCEPT !.answered = b] \in Request
         /\ [q EXCEPT !.hit = b] \in Request
  BY DEF Request

LEMMA SetTries == ASSUME NEW q \in Request, NEW n \in Tries PROVE [q EXCEPT !.tries = n] \in Request
  BY DEF Request, Tries

LEMMA SetVerdict == ASSUME NEW q \in Request, NEW v \in Verdict PROVE [q EXCEPT !.verdict = v] \in Request
  BY DEF Request

LEMMA SetRow == ASSUME NEW q \in Request, NEW w \in Rows PROVE [q EXCEPT !.row = w] \in Request
  BY DEF Request, Rows

LEMMA SetRule ==
  ASSUME NEW q \in Request, NEW u \in Rules \cup {"none", "rejected"} PROVE [q EXCEPT !.rule = u] \in Request
  BY DEF Request

LEMMA SetReply == ASSUME NEW q \in Request, NEW c \in Codes PROVE [q EXCEPT !.reply = c] \in Request
  BY DEF Request, Codes

LEMMA SetCaller ==
  ASSUME NEW q \in Request, NEW k \in Kinds, NEW a \in Alerts \cup {Unknown}, NEW b \in Client
  PROVE  /\ [q EXCEPT !.kind = k] \in Request
         /\ [q EXCEPT !.alert = a] \in Request
         /\ [q EXCEPT !.by = b] \in Request
  BY DEF Request, Kinds, Unknown

LEMMA Ends ==
  ASSUME NEW q \in Request, NEW c \in Codes
  PROVE  LET p == Ended(q, c)
         IN /\ p \in Request
            /\ p.stage = "done" /\ p.reply = c
            /\ Settled(p, q, c)
            /\ SameAnswer(p, q)
            /\ p.rule = q.rule
  <1> DEFINE p == Ended(q, c)
  <1>1. p \in Request
    <2> DEFINE q1 == [q EXCEPT !.stage = "done"]
               q2 == [q1 EXCEPT !.tries = 0]
               q3 == [q2 EXCEPT !.gone = FALSE]
               q4 == [q3 EXCEPT !.reply = c]
               q5 == [q4 EXCEPT !.alert = "none"]
               q6 == [q5 EXCEPT !.row = NoRow]
               q7 == [q6 EXCEPT !.by = Mock]
    <2>1. q1 \in Request
      BY Values, SetStage
    <2>2. q2 \in Request
      BY <2>1, Values, SetTries
    <2>3. q3 \in Request
      BY <2>2, Values, SetFlags
    <2>4. q4 \in Request
      BY <2>3, SetReply
    <2>5. /\ NoRow \in Rows
          /\ Mock \in Client
          /\ "none" \in Alerts \cup {Unknown} /\ "rule" \in Kinds
      <3>1. NoRow \in Rows
        BY DeskAssumption DEF NoRow, Rows, Statuses
      <3>2. Mock \in Client
        BY DEF Mock, Client, Models
      <3>3. QED
        BY <3>1, <3>2 DEF Unknown, Kinds
    <2> HIDE DEF q4
    <2>6. q5 \in Request
      BY <2>4, <2>5, SetCaller
    <2> HIDE DEF q5
    <2>7. q6 \in Request
      BY <2>5, <2>6, SetRow
    <2> HIDE DEF q6
    <2>8. q7 \in Request
      BY <2>5, <2>7, SetCaller
    <2>9. p = q4 \/ p = q7
      BY DEF Ended, q4, q5, q6
    <2>10. QED
      BY <2>4, <2>8, <2>9
  <1>2. p.stage = "done" /\ p.reply = c
    BY DEF Ended, Request
  <1>3. Settled(p, q, c)
    BY DEF Ended, Settled, SameCase, Request
  <1>4. SameAnswer(p, q)
    BY DEF Ended, SameAnswer
  <1>5. p.rule = q.rule
    BY DEF Ended, Request
  <1> HIDE DEF p
  <1>6. QED
    BY <1>1, <1>2, <1>3, <1>4, <1>5 DEF p

LEMMA Goes ==
  ASSUME NEW q \in Request, NEW s \in Stages
  PROVE  LET p == [q EXCEPT !.stage = s]
         IN /\ p \in Request
            /\ p.stage = s
            /\ SameCase(p, q)
            /\ SameAnswer(p, q)
  <1> DEFINE p == [q EXCEPT !.stage = s]
  <1>1. p \in Request
    BY SetStage
  <1>2. p.stage = s
    BY DEF Request
  <1>3. SameCase(p, q)
    BY DEF SameCase
  <1>4. SameAnswer(p, q)
    BY DEF SameAnswer
  <1> HIDE DEF p
  <1>5. QED
    BY <1>1, <1>2, <1>3, <1>4 DEF p

LEMMA LooksUp ==
  ASSUME NEW q \in Request, NEW w \in Rows
  PROVE  LET p == [q EXCEPT !.stage = "lookup", !.row = w]
         IN /\ p \in Request
            /\ p.stage = "lookup"
            /\ p.kind = q.kind /\ p.alert = q.alert /\ p.by = q.by
            /\ SameAnswer(p, q)
  <1> DEFINE p == [q EXCEPT !.stage = "lookup", !.row = w]
  <1>1. p \in Request
    <2> DEFINE q1 == [q EXCEPT !.stage = "lookup"]
               q2 == [q1 EXCEPT !.row = w]
    <2>1. q1 \in Request
      BY Values, SetStage
    <2>2. q2 \in Request
      BY <2>1, SetRow
    <2>3. p = q2
      OBVIOUS
    <2>4. QED
      BY <2>2, <2>3
  <1>2. p.stage = "lookup"
    BY DEF Request
  <1>3. p.kind = q.kind /\ p.alert = q.alert /\ p.by = q.by
    BY DEF Request
  <1>4. SameAnswer(p, q)
    BY DEF SameAnswer
  <1> HIDE DEF p
  <1>5. QED
    BY <1>1, <1>2, <1>3, <1>4 DEF p

LEMMA Hits ==
  ASSUME NEW q \in Request, NEW v \in Verdict
  PROVE  LET p == [q EXCEPT !.stage = "store", !.verdict = v, !.hit = TRUE]
         IN /\ p \in Request
            /\ p.stage = "store"
            /\ p.verdict = v /\ p.hit
            /\ SameCase(p, q)
            /\ p.answered = q.answered
  <1> DEFINE p == [q EXCEPT !.stage = "store", !.verdict = v, !.hit = TRUE]
  <1>1. p \in Request
    <2> DEFINE q1 == [q EXCEPT !.stage = "store"]
               q2 == [q1 EXCEPT !.verdict = v]
               q3 == [q2 EXCEPT !.hit = TRUE]
    <2>1. q1 \in Request
      BY Values, SetStage
    <2>2. q2 \in Request
      BY <2>1, SetVerdict
    <2>3. q3 \in Request
      BY <2>2, Values, SetFlags
    <2>4. p = q3
      OBVIOUS
    <2>5. QED
      BY <2>3, <2>4
  <1>2. p.stage = "store"
    BY DEF Request
  <1>3. p.verdict = v /\ p.hit
    BY DEF Request
  <1>4. SameCase(p, q)
    BY DEF SameCase
  <1>5. p.answered = q.answered
    BY DEF Request
  <1> HIDE DEF p
  <1>6. QED
    BY <1>1, <1>2, <1>3, <1>4, <1>5 DEF p

LEMMA IsAnswered ==
  ASSUME NEW q \in Request
  PROVE  LET p == [q EXCEPT !.answered = TRUE]
         IN /\ p \in Request
            /\ p.answered
            /\ p.stage = q.stage
            /\ p.verdict = q.verdict /\ p.hit = q.hit
            /\ SameCase(p, q)
  <1> DEFINE p == [q EXCEPT !.answered = TRUE]
  <1>1. p \in Request
    BY Values, SetFlags
  <1>2. p.answered
    BY DEF Request
  <1>3. p.stage = q.stage
    BY DEF Request
  <1>4. p.verdict = q.verdict /\ p.hit = q.hit
    BY DEF Request
  <1>5. SameCase(p, q)
    BY DEF SameCase
  <1> HIDE DEF p
  <1>6. QED
    BY <1>1, <1>2, <1>3, <1>4, <1>5 DEF p

LEMMA Compiles ==
  ASSUME NEW q \in Request
  PROVE  LET p == [q EXCEPT !.stage = "compile", !.tries = 0]
         IN /\ p \in Request
            /\ p.stage = "compile"
            /\ SameCase(p, q)
            /\ SameAnswer(p, q)
  <1> DEFINE p == [q EXCEPT !.stage = "compile", !.tries = 0]
  <1>1. p \in Request
    <2> DEFINE q1 == [q EXCEPT !.stage = "compile"]
               q2 == [q1 EXCEPT !.tries = 0]
    <2>1. q1 \in Request
      BY Values, SetStage
    <2>2. q2 \in Request
      BY <2>1, Values, SetTries
    <2>3. p = q2
      OBVIOUS
    <2>4. QED
      BY <2>2, <2>3
  <1>2. p.stage = "compile"
    BY DEF Request
  <1>3. SameCase(p, q)
    BY DEF SameCase
  <1>4. SameAnswer(p, q)
    BY DEF SameAnswer
  <1> HIDE DEF p
  <1>5. QED
    BY <1>1, <1>2, <1>3, <1>4 DEF p

LEMMA Keeps ==
  ASSUME NEW q \in Request, NEW v \in Verdict
  PROVE  LET p == [q EXCEPT !.stage = "keep", !.tries = 0, !.verdict = v]
         IN /\ p \in Request
            /\ p.stage = "keep"
            /\ p.verdict = v
            /\ p.answered = q.answered /\ p.hit = q.hit
            /\ SameCase(p, q)
  <1> DEFINE p == [q EXCEPT !.stage = "keep", !.tries = 0, !.verdict = v]
  <1>1. p \in Request
    <2> DEFINE q1 == [q EXCEPT !.stage = "keep"]
               q2 == [q1 EXCEPT !.tries = 0]
               q3 == [q2 EXCEPT !.verdict = v]
    <2>1. q1 \in Request
      BY Values, SetStage
    <2>2. q2 \in Request
      BY <2>1, Values, SetTries
    <2>3. q3 \in Request
      BY <2>2, SetVerdict
    <2>4. p = q3
      OBVIOUS
    <2>5. QED
      BY <2>3, <2>4
  <1>2. p.stage = "keep"
    BY DEF Request
  <1>3. p.verdict = v
    BY DEF Request
  <1>4. p.answered = q.answered /\ p.hit = q.hit
    BY DEF Request
  <1>5. SameCase(p, q)
    BY DEF SameCase
  <1> HIDE DEF p
  <1>6. QED
    BY <1>1, <1>2, <1>3, <1>4, <1>5 DEF p

LEMMA Retries ==
  ASSUME NEW q \in Request, q.tries + 1 < Attempts
  PROVE  LET p == [q EXCEPT !.tries = @ + 1]
         IN /\ p \in Request
            /\ p.stage = q.stage
            /\ SameCase(p, q)
            /\ SameAnswer(p, q)
  <1> DEFINE p == [q EXCEPT !.tries = @ + 1]
  <1>1. p \in Request
    <2>1. q.tries \in Tries
      BY DEF Request, Tries
    <2>2. q.tries + 1 \in Tries
      BY <2>1 DEF Tries, Attempts
    <2>3. QED
      BY <2>2, SetTries
  <1>2. p.stage = q.stage
    BY DEF Request
  <1>3. SameCase(p, q)
    BY DEF SameCase
  <1>4. SameAnswer(p, q)
    BY DEF SameAnswer
  <1> HIDE DEF p
  <1>5. QED
    BY <1>1, <1>2, <1>3, <1>4 DEF p

LEMMA HangsUp ==
  ASSUME NEW q \in Request
  PROVE  LET p == [q EXCEPT !.gone = TRUE]
         IN /\ p \in Request
            /\ p.stage = q.stage
            /\ SameCase(p, q)
            /\ SameAnswer(p, q)
  <1> DEFINE p == [q EXCEPT !.gone = TRUE]
  <1>1. p \in Request
    BY Values, SetFlags
  <1>2. p.stage = q.stage
    BY DEF Request
  <1>3. SameCase(p, q)
    BY DEF SameCase
  <1>4. SameAnswer(p, q)
    BY DEF SameAnswer
  <1> HIDE DEF p
  <1>5. QED
    BY <1>1, <1>2, <1>3, <1>4 DEF p

LEMMA IsVetted ==
  ASSUME NEW q \in Request, NEW u \in Rules \cup {"none", "rejected"}
  PROVE  LET p == [q EXCEPT !.rule = u]
         IN /\ p \in Request
            /\ p.stage = q.stage /\ p.rule = u
            /\ SameCase(p, q)
            /\ SameAnswer(p, q)
  <1> DEFINE p == [q EXCEPT !.rule = u]
  <1>1. p \in Request
    BY SetRule
  <1>2. p.stage = q.stage /\ p.rule = u
    BY DEF Request
  <1>3. SameCase(p, q)
    BY DEF SameCase
  <1>4. SameAnswer(p, q)
    BY DEF SameAnswer
  <1> HIDE DEF p
  <1>5. QED
    BY <1>1, <1>2, <1>3, <1>4 DEF p

LEMMA Arrives ==
  ASSUME NEW q \in Request, NEW k \in Kinds, NEW a \in Alerts \cup {Unknown}, NEW b \in Client,
         NEW s \in Stages
  PROVE  LET p == Assigned(q, k, a, b, s)
         IN /\ p \in Request
            /\ p.stage = s
            /\ p.kind = k /\ p.alert = a /\ p.by = b
            /\ p.row = q.row
            /\ SameAnswer(p, q)
  <1> DEFINE p == Assigned(q, k, a, b, s)
  <1>1. p \in Request
    <2> DEFINE q1 == [q EXCEPT !.kind = k]
               q2 == [q1 EXCEPT !.alert = a]
               q3 == [q2 EXCEPT !.by = b]
               q4 == [q3 EXCEPT !.stage = s]
    <2>1. q1 \in Request
      BY SetCaller
    <2>2. q2 \in Request
      BY <2>1, SetCaller
    <2>3. q3 \in Request
      BY <2>2, SetCaller
    <2>4. q4 \in Request
      BY <2>3, SetStage
    <2>5. p = q4
      BY DEF Assigned
    <2>6. QED
      BY <2>4, <2>5
  <1>2. p.stage = s
    BY DEF Assigned, Request
  <1>3. p.kind = k /\ p.alert = a /\ p.by = b
    BY DEF Assigned, Request
  <1>4. p.row = q.row
    BY DEF Assigned, Request
  <1>5. SameAnswer(p, q)
    BY DEF Assigned, SameAnswer
  <1> HIDE DEF p
  <1>6. QED
    BY <1>1, <1>2, <1>3, <1>4, <1>5 DEF p

-----------------------------------------------------------------------------
(* The invariant's frame: what a step of one request has to show.            *)

LEMMA ClientOK ==
  ASSUME TypeOK
  PROVE  client \in Client /\ (client.model = "mock" <=> client.kind = "mock") /\ KeysStayHome
  BY EnvType, ClientType, ModelTells, KeysOf DEF client

\* What is known of a request stays known: an answer is never taken back, and a
\* request that found a cached result never calls.
StaysTold(q, p) ==
  /\ q.answered /\ ~q.hit => p.answered /\ ~p.hit /\ p.verdict = q.verdict
  /\ q.hit => p.hit /\ ~p.answered

FromSomewhere(q, p) ==
  \/ p.verdict \in {NoVerdict, q.verdict}
  \/ p.answered /\ ~p.hit
  \/ \E k \in DOMAIN cache : p.verdict = cache[k]

Moves(r, p) ==
  p \in Request /\ Become(r, p) /\ Sane(p) /\ StaysTold(req[r], p) /\ FromSomewhere(req[r], p)

LEMMA OneRequest ==
  ASSUME DeskInv, NEW r \in Requests, NEW p, Moves(r, p)
  PROVE  /\ req' \in [Requests -> Request] /\ req'[r] = p
         /\ \A j \in Requests : j # r => req'[j] = req[j]
  BY DEF DeskInv, TypeOK, Moves, Become

LEMMA StaysGiven ==
  ASSUME DeskInv, NEW r \in Requests, NEW p, Moves(r, p), NEW v, GivenByClient(v)
  PROVE  GivenByClient(v)'
  <1>1. PICK j \in Requests : req[j].answered /\ ~req[j].hit /\ req[j].verdict = v
    BY DEF GivenByClient
  <1>2. req'[j].answered /\ ~req'[j].hit /\ req'[j].verdict = v
    BY <1>1, OneRequest DEF Moves, StaysTold
  <1>3. QED
    BY <1>2 DEF GivenByClient

LEMMA RequestsGiven ==
  ASSUME DeskInv, NEW r \in Requests, NEW p, Moves(r, p),
         NEW j \in Requests, NEW v, v = req'[j].verdict, v # NoVerdict
  PROVE  GivenByClient(v)'
  <1>1. CASE j # r
    <2>1. v = req[j].verdict
      BY <1>1, OneRequest
    <2>2. GivenByClient(v)
      BY <2>1 DEF DeskInv, VerdictsGiven
    <2>3. QED
      BY <2>2, StaysGiven
  <1>2. CASE j = r
    <2>1. req'[j] = p
      BY <1>2, OneRequest
    <2>2. CASE p.answered /\ ~p.hit
      BY <2>1, <2>2 DEF GivenByClient
    <2>3. CASE p.verdict = req[r].verdict
      <3>1. GivenByClient(v)
        BY <2>1, <2>3 DEF DeskInv, VerdictsGiven
      <3>2. QED
        BY <3>1, StaysGiven
    <2>4. CASE \E k \in DOMAIN cache : p.verdict = cache[k]
      <3>1. GivenByClient(v)
        BY <2>1, <2>4 DEF DeskInv, VerdictsGiven
      <3>2. QED
        BY <3>1, StaysGiven
    <2>5. QED
      BY <2>1, <2>2, <2>3, <2>4 DEF Moves, FromSomewhere
  <1>3. QED
    BY <1>1, <1>2

AlertFine(a) ==
  /\ alerts'[a].status = decided'[a] /\ decided'[a] \in Statuses
  /\ alerts'[a].triage # NoVerdict => GivenByClient(alerts'[a].triage)

EntryFine(k) ==
  /\ cache'[k] \in Verdict
  /\ cache'[k].alert = k[1] /\ cache'[k].evidence = k[2]
  /\ cache'[k].model = k[3] /\ (cache'[k].mock <=> k[3] = "mock")
  /\ cache'[k] # NoVerdict => GivenByClient(cache'[k])

RowFine(r, p, u) ==
  /\ u \in [request : Requests, model : Models, cached : BOOLEAN] /\ u.request = r
  /\ IF u.cached THEN p.hit /\ ~p.answered ELSE p.answered /\ ~p.hit

LEMMA MovesKeepInv ==
  ASSUME DeskInv, NEW r \in Requests, NEW p, Moves(r, p), env' = env,
         alerts' \in [Alerts -> [evidence : 1 .. MaxEvidence, status : Statuses, triage : Verdict]],
         decided' \in [Alerts -> Statuses],
         \A a \in Alerts : AlertFine(a),
         \A k \in DOMAIN cache' : EntryFine(k),
         \A u \in usage' : u \in usage \/ RowFine(r, p, u)
  PROVE  DeskInv'
  <1>1. TypeOK'
    <2>1. \A u \in usage' : u \in [request : Requests, model : Models, cached : BOOLEAN]
      BY DEF DeskInv, TypeOK, RowFine
    <2>2. \A k \in DOMAIN cache' : cache'[k] \in Verdict
      BY DEF EntryFine
    <2>3. env' \in Envs
      BY DEF DeskInv, TypeOK
    <2>4. QED
      BY <2>1, <2>2, <2>3, OneRequest DEF TypeOK
  <1>2. ASSUME NEW j \in Requests
        PROVE  Sane(req[j])'
    <2>1. client' = client
      BY DEF client
    <2>2. Sane(req'[j])
      BY OneRequest DEF Moves, DeskInv
    <2>3. QED
      BY <2>1, <2>2 DEF Sane, ServedHere, StageOfKind, ToldOnce, VerdictFits, RuleVetted, Fits, Succeeded
  <1>3. CacheFits'
    BY DEF CacheFits, EntryFine
  <1>4. VerdictsGiven'
    <2>1. ASSUME NEW j \in Requests, req'[j].verdict # NoVerdict
          PROVE  GivenByClient(req[j].verdict)'
      <3>1. \A v : v = req'[j].verdict => GivenByClient(v)'
        BY <2>1, RequestsGiven
      <3>2. QED
        BY <3>1 DEF GivenByClient
    <2>2. ASSUME NEW k \in DOMAIN cache', cache'[k] # NoVerdict
          PROVE  GivenByClient(cache[k])'
      <3>1. \A v : v = cache'[k] => GivenByClient(v)
        BY <2>2 DEF EntryFine
      <3>2. \A v : v = cache'[k] => GivenByClient(v)'
        BY <3>1, StaysGiven
      <3>3. QED
        BY <3>2 DEF GivenByClient
    <2>3. ASSUME NEW a \in Alerts, alerts'[a].triage # NoVerdict
          PROVE  GivenByClient(alerts[a].triage)'
      <3>1. \A v : v = alerts'[a].triage => GivenByClient(v)
        BY <2>3 DEF AlertFine
      <3>2. \A v : v = alerts'[a].triage => GivenByClient(v)'
        BY <3>1, StaysGiven
      <3>3. QED
        BY <3>2 DEF GivenByClient
    <2>4. QED
      BY <2>1, <2>2, <2>3 DEF VerdictsGiven
  <1>5. UsageIsReal'
    <2> SUFFICES ASSUME NEW u \in usage'
                 PROVE  IF u.cached THEN req'[u.request].hit /\ ~req'[u.request].answered
                        ELSE req'[u.request].answered /\ ~req'[u.request].hit
      BY DEF UsageIsReal
    <2>1. CASE u \in usage
      <3>1. u.request \in Requests
        BY <2>1 DEF DeskInv, TypeOK
      <3>2. IF u.cached THEN req[u.request].hit /\ ~req[u.request].answered
            ELSE req[u.request].answered /\ ~req[u.request].hit
        BY <2>1 DEF DeskInv, UsageIsReal
      <3>3. QED
        BY <3>1, <3>2, OneRequest DEF Moves, StaysTold
    <2>2. CASE RowFine(r, p, u)
      BY <2>2, OneRequest DEF RowFine
    <2>3. QED
      BY <2>1, <2>2
  <1>6. DecisionStands'
    BY DEF DecisionStands, AlertFine
  <1>7. QED
    BY <1>1, <1>2, <1>3, <1>4, <1>5, <1>6 DEF DeskInv

\* Nothing but requests is touched.
LEMMA StillFine ==
  ASSUME DeskInv
  PROVE  /\ UNCHANGED <<alerts, decided>> =>
              /\ alerts' \in [Alerts -> [evidence : 1 .. MaxEvidence, status : Statuses, triage : Verdict]]
              /\ decided' \in [Alerts -> Statuses] /\ \A a \in Alerts : AlertFine(a)
         /\ UNCHANGED cache => \A k \in DOMAIN cache' : EntryFine(k)
  <1>1. ASSUME UNCHANGED <<alerts, decided>>, NEW a \in Alerts
        PROVE  AlertFine(a)
    BY <1>1 DEF DeskInv, TypeOK, DecisionStands, VerdictsGiven, AlertFine
  <1>2. ASSUME UNCHANGED cache, NEW k \in DOMAIN cache'
        PROVE  EntryFine(k)
    BY <1>2 DEF DeskInv, TypeOK, CacheFits, VerdictsGiven, EntryFine
  <1>3. QED
    BY <1>1, <1>2 DEF DeskInv, TypeOK

LEMMA QuietMove ==
  ASSUME DeskInv, NEW r \in Requests, NEW p, Moves(r, p), UNCHANGED <<env, alerts, cache, usage, decided>>
  PROVE  DeskInv'
  BY StillFine, MovesKeepInv

-----------------------------------------------------------------------------
(* The handlers *)

LEMMA EndsBadly ==
  ASSUME DeskInv, NEW r \in Requests, NEW c \in Codes \ {200}, Reply(r, c)
  PROVE  Moves(r, Ended(req[r], c))
  <1> DEFINE q == req[r]
             p == Ended(q, c)
  <1>1. q \in Request /\ Sane(q)
    BY DEF DeskInv, TypeOK
  <1>2. /\ p \in Request /\ p.stage = "done" /\ p.reply = c
        /\ Settled(p, q, c) /\ SameAnswer(p, q)
    BY <1>1, Ends
  <1>3. Become(r, p)
    BY DEF Reply
  <1> HIDE DEF p, q
  <1>4. Sane(p) /\ StaysTold(q, p) /\ FromSomewhere(q, p)
    BY <1>1, <1>2 DEF Sane, StageOfKind, ServedHere, ToldOnce, VerdictFits, RuleVetted, Succeeded,
                      StaysTold, FromSomewhere, Settled, SameCase, SameAnswer
  <1>5. QED
    BY <1>2, <1>3, <1>4 DEF Moves, p, q

LEMMA EndsWithNothing ==
  ASSUME DeskInv, NEW r \in Requests, NEW c \in Codes \ {200}, Reply(r, c),
         UNCHANGED <<env, alerts, cache, usage, decided>>
  PROVE  DeskInv'
  BY EndsBadly, QuietMove

LEMMA ArriveStep ==
  ASSUME DeskInv, NEW r \in Requests, NEW k \in Kinds, NEW a \in Alerts \cup {Unknown},
         Arrive(r, k, a)
  PROVE  DeskInv'
  <1> DEFINE q == req[r]
             s == IF k = "rule" THEN "call" ELSE IF k = "status" THEN "decide" ELSE "get"
             p == Assigned(q, k, a, client, s)
  <1>1. q \in Request /\ Sane(q) /\ q.stage = "idle"
    BY DEF DeskInv, TypeOK, Arrive, At
  <1>2. client \in Client
    BY ClientOK DEF DeskInv
  <1>3. Become(r, p) /\ client.kind # "error"
    BY DEF Arrive, Assigned
  <1>4. s \in Stages
    BY DEF Stages
  <1>5. /\ p \in Request /\ p.stage = s /\ p.kind = k /\ p.alert = a /\ p.by = client
        /\ SameAnswer(p, q)
    <2> HIDE DEF s, q
    <2>1. QED
      BY <1>1, <1>2, <1>4, Arrives
  <1> HIDE DEF p, q
  <1>6. Sane(p) /\ StaysTold(q, p) /\ FromSomewhere(q, p)
    BY <1>1, <1>3, <1>5 DEF Kinds, Sane, StageOfKind, ServedHere, ToldOnce, VerdictFits, RuleVetted,
                            Succeeded, StaysTold, FromSomewhere, SameAnswer
  <1>7. Moves(r, p)
    BY <1>3, <1>5, <1>6 DEF Moves, q
  <1>8. QED
    BY <1>7, QuietMove DEF Arrive

LEMMA GoesOn ==
  ASSUME DeskInv, NEW r \in Requests, NEW s \in {"activity", "call"}, Goto(r, s),
         \/ s = "activity" /\ At(r, "get") /\ req[r].kind # "triage" /\ req[r].alert \in Alerts
         \/ s = "call" /\ (At(r, "lookup") \/ At(r, "activity"))
  PROVE  Moves(r, [req[r] EXCEPT !.stage = s])
  <1> DEFINE q == req[r]
             p == [q EXCEPT !.stage = s]
  <1>1. q \in Request /\ Sane(q)
    BY DEF DeskInv, TypeOK
  <1>2. s \in Stages
    BY DEF Stages
  <1>3. p \in Request /\ p.stage = s /\ SameCase(p, q) /\ SameAnswer(p, q)
    BY <1>1, <1>2, Goes
  <1>4. Become(r, p)
    BY DEF Goto
  <1>5. \/ s = "activity" /\ q.stage = "get" /\ q.kind # "triage" /\ q.alert \in Alerts
        \/ s = "call" /\ q.stage \in {"lookup", "activity"}
    BY DEF At
  <1> HIDE DEF p, q
  <1>6. Sane(p) /\ StaysTold(q, p) /\ FromSomewhere(q, p)
    BY <1>1, <1>3, <1>5 DEF Sane, StageOfKind, ServedHere, ToldOnce, VerdictFits, RuleVetted, Succeeded,
                            StaysTold, FromSomewhere, SameCase, SameAnswer
  <1>7. QED
    BY <1>3, <1>4, <1>6 DEF Moves, p, q

LEMMA GetAlertStep ==
  ASSUME DeskInv, NEW r \in Requests, GetAlert(r)
  PROVE  DeskInv'
  <1> DEFINE q == req[r]
             a == alerts[q.alert]
             w == [evidence |-> a.evidence, status |-> a.status]
             p == [q EXCEPT !.stage = "lookup", !.row = w]
  <1>1. q \in Request /\ Sane(q) /\ q.stage = "get"
    BY DEF DeskInv, TypeOK, GetAlert, At
  <1>2. CASE q.alert \in Alerts /\ q.kind = "triage" /\ Become(r, p)
    <2>1. a \in [evidence : 1 .. MaxEvidence, status : Statuses, triage : Verdict]
      BY <1>1, <1>2 DEF DeskInv, TypeOK
    <2>2. w \in Rows
      <3> HIDE DEF a
      <3>1. QED
        BY <2>1, DeskAssumption DEF Rows
    <2>3. /\ p \in Request /\ p.stage = "lookup" /\ p.kind = q.kind /\ p.alert = q.alert /\ p.by = q.by
          /\ SameAnswer(p, q)
      <3> HIDE DEF w
      <3>1. QED
        BY <1>1, <2>2, LooksUp
    <2> HIDE DEF p, q
    <2>4. Sane(p) /\ StaysTold(q, p) /\ FromSomewhere(q, p)
      BY <1>1, <1>2, <2>3 DEF Sane, StageOfKind, ServedHere, ToldOnce, VerdictFits, RuleVetted, Succeeded,
                              StaysTold, FromSomewhere, SameAnswer
    <2>5. Moves(r, p)
      BY <1>2, <2>3, <2>4 DEF Moves, q
    <2>6. QED
      BY <2>5, QuietMove DEF GetAlert
  <1>3. CASE q.alert \in Alerts /\ q.kind # "triage" /\ Goto(r, "activity")
    BY <1>1, <1>3, GoesOn, QuietMove DEF GetAlert, At
  <1>4. CASE Reply(r, 404)
    BY <1>4, EndsWithNothing DEF GetAlert, Codes
  <1>5. QED
    BY <1>2, <1>3, <1>4 DEF GetAlert

LEMMA SetAlertStatusStep ==
  ASSUME DeskInv, NEW r \in Requests, NEW status \in Decisions, SetAlertStatus(r, status)
  PROVE  DeskInv'
  <1> DEFINE q == req[r]
             a == q.alert
  <1>1. q \in Request /\ Sane(q) /\ q.stage = "decide" /\ q.kind = "status"
    BY DEF DeskInv, TypeOK, SetAlertStatus, At, Sane, StageOfKind
  <1>2. status \in Statuses
    BY DeskAssumption
  <1>3. CASE (Reply(r, 404) \/ Reply(r, 500)) /\ UNCHANGED <<alerts, decided>>
    BY <1>3, EndsWithNothing DEF SetAlertStatus, Codes
  <1>4. ASSUME NEW code \in {200, 500}, Reply(r, code), a \in Alerts,
               alerts' = [alerts EXCEPT ![a].status = status],
               decided' = [decided EXCEPT ![a] = status]
        PROVE  DeskInv'
    <2> DEFINE p == Ended(q, code)
    <2>1. code \in Codes
      BY DEF Codes
    <2>2. /\ p \in Request /\ p.stage = "done" /\ p.reply = code
          /\ Settled(p, q, code) /\ SameAnswer(p, q)
      BY <1>1, <2>1, Ends
    <2>3. Become(r, p)
      BY <1>4 DEF Reply
    <2> HIDE DEF p, q
    <2>4. Sane(p) /\ StaysTold(q, p) /\ FromSomewhere(q, p)
      BY <1>1, <2>2 DEF Sane, StageOfKind, ServedHere, ToldOnce, VerdictFits, RuleVetted, Succeeded,
                        StaysTold, FromSomewhere, Settled, SameCase, SameAnswer
    <2>5. Moves(r, p)
      BY <2>2, <2>3, <2>4 DEF Moves, q
    <2> HIDE DEF a
    <2>6. /\ alerts' \in [Alerts -> [evidence : 1 .. MaxEvidence, status : Statuses, triage : Verdict]]
          /\ decided' \in [Alerts -> Statuses]
      BY <1>1, <1>2, <1>4 DEF DeskInv, TypeOK
    <2>7. ASSUME NEW b \in Alerts
          PROVE  AlertFine(b)
      BY <1>1, <1>2, <1>4 DEF DeskInv, TypeOK, DecisionStands, VerdictsGiven, AlertFine
    <2>8. \A k \in DOMAIN cache' : EntryFine(k)
      BY StillFine DEF SetAlertStatus
    <2>9. QED
      BY <2>5, <2>6, <2>7, <2>8, MovesKeepInv DEF SetAlertStatus
  <1>5. QED
    BY <1>3, <1>4 DEF SetAlertStatus

LEMMA StoreTriageStep ==
  ASSUME DeskInv, NEW r \in Requests, StoreTriage(r)
  PROVE  DeskInv'
  <1> DEFINE q == req[r]
             a == q.alert
             v == q.verdict
  <1>1. /\ q \in Request /\ Sane(q) /\ q.stage = "store" /\ a \in Alerts /\ q.kind = "triage"
        /\ v \in Verdict
    BY DEF DeskInv, TypeOK, StoreTriage, At, Sane, ServedHere, StageOfKind, Request
  <1>2. CASE Reply(r, 500) /\ UNCHANGED alerts
    BY <1>2, EndsWithNothing DEF StoreTriage, Codes
  <1>3. ASSUME NEW code \in {200, 500}, Reply(r, code),
               alerts' = [alerts EXCEPT ![a] = [alerts[a] EXCEPT !.triage = v]]
        PROVE  DeskInv'
    <2> DEFINE p == Ended(q, code)
    <2>1. code \in Codes
      BY DEF Codes
    <2>2. /\ p \in Request /\ p.stage = "done" /\ p.reply = code
          /\ Settled(p, q, code) /\ SameAnswer(p, q)
      BY <1>1, <2>1, Ends
    <2>3. Become(r, p)
      BY <1>3 DEF Reply
    <2>4. v # NoVerdict => GivenByClient(v)
      BY DEF DeskInv, VerdictsGiven
    <2> HIDE DEF p, q
    <2>5. Sane(p) /\ StaysTold(q, p) /\ FromSomewhere(q, p)
      BY <1>1, <2>2 DEF Sane, StageOfKind, ServedHere, ToldOnce, VerdictFits, RuleVetted, Succeeded,
                        StaysTold, FromSomewhere, Settled, SameCase, SameAnswer, Fits
    <2>6. Moves(r, p)
      BY <2>2, <2>3, <2>5 DEF Moves, q
    <2> HIDE DEF a, v
    <2>7. /\ alerts' \in [Alerts -> [evidence : 1 .. MaxEvidence, status : Statuses, triage : Verdict]]
          /\ alerts'[a].triage = v /\ alerts'[a].status = alerts[a].status
          /\ \A b \in Alerts : b # a => alerts'[b] = alerts[b]
      BY <1>1, <1>3 DEF DeskInv, TypeOK
    <2>8. decided' = decided /\ decided' \in [Alerts -> Statuses]
      BY DEF DeskInv, TypeOK, StoreTriage
    <2>9. ASSUME NEW b \in Alerts
          PROVE  AlertFine(b)
      BY <1>1, <2>4, <2>7, <2>8 DEF DeskInv, DecisionStands, VerdictsGiven, AlertFine
    <2>10. \A k \in DOMAIN cache' : EntryFine(k)
      BY StillFine DEF StoreTriage
    <2>11. QED
      BY <2>6, <2>7, <2>8, <2>9, <2>10, MovesKeepInv DEF StoreTriage
  <1>4. QED
    BY <1>2, <1>3 DEF StoreTriage, SetTriage

-----------------------------------------------------------------------------
(* The service *)

LEMMA RecordFine ==
  ASSUME DeskInv, NEW r \in Requests, NEW p, NEW cached \in BOOLEAN,
         Record(r, cached) \/ UNCHANGED usage,
         IF cached THEN p.hit /\ ~p.answered ELSE p.answered /\ ~p.hit
  PROVE  \A u \in usage' : u \in usage \/ RowFine(r, p, u)
  <1> DEFINE row == [request |-> r, model |-> client.model, cached |-> cached]
  <1>1. client.model \in Models
    BY ClientOK DEF DeskInv, Client
  <1>2. RowFine(r, p, row)
    BY <1>1 DEF RowFine
  <1>3. usage' \subseteq usage \cup {row}
    BY DEF Record
  <1> HIDE DEF row
  <1>4. QED
    BY <1>2, <1>3

LEMMA LookupStep ==
  ASSUME DeskInv, NEW r \in Requests, Lookup(r)
  PROVE  DeskInv'
  <1> DEFINE q == req[r]
             k == HashKey(q.alert, q.row)
             v == cache[k]
             p == [q EXCEPT !.stage = "store", !.verdict = v, !.hit = TRUE]
  <1>1. /\ q \in Request /\ Sane(q) /\ q.stage = "lookup" /\ q.kind = "triage" /\ q.by = client
        /\ ~q.answered
    BY DEF DeskInv, TypeOK, Lookup, At, Sane, ServedHere, StageOfKind, ToldOnce
  <1>2. k[1] = q.alert /\ k[2] = q.row.evidence /\ k[3] = client.model
    BY DEF HashKey
  <1>3. ASSUME k \in DOMAIN cache, Become(r, p), Record(r, TRUE)
        PROVE  DeskInv'
    <2> HIDE DEF k
    <2>1. /\ v \in Verdict /\ v.alert = q.alert /\ v.evidence = q.row.evidence
          /\ v.model = client.model /\ (v.mock <=> client.kind = "mock")
      BY <1>2, <1>3, ClientOK DEF DeskInv, TypeOK, CacheFits
    <2>2. \E c \in DOMAIN cache : v = cache[c]
      BY <1>3
    <2> HIDE DEF v
    <2>3. /\ p \in Request /\ p.stage = "store" /\ p.verdict = v /\ p.hit
          /\ SameCase(p, q) /\ p.answered = q.answered
      BY <1>1, <2>1, Hits
    <2> HIDE DEF p, q
    <2>4. Sane(p) /\ StaysTold(q, p) /\ FromSomewhere(q, p)
      BY <1>1, <2>1, <2>2, <2>3 DEF Sane, StageOfKind, ServedHere, ToldOnce, VerdictFits, RuleVetted,
                                    Succeeded, StaysTold, FromSomewhere, SameCase, Fits
    <2>5. Moves(r, p)
      BY <1>3, <2>3, <2>4 DEF Moves, q
    <2>6. \A u \in usage' : u \in usage \/ RowFine(r, p, u)
      BY <1>1, <1>3, <2>3, RecordFine
    <2>7. QED
      BY <2>5, <2>6, StillFine, MovesKeepInv DEF Lookup
  <1>4. CASE Goto(r, "call") /\ UNCHANGED usage
    BY <1>4, GoesOn, QuietMove DEF Lookup
  <1>5. QED
    BY <1>3, <1>4 DEF Lookup

LEMMA ReadActivityStep ==
  ASSUME DeskInv, NEW r \in Requests, ReadActivity(r)
  PROVE  DeskInv'
  <1>1. CASE Goto(r, "call")
    BY <1>1, GoesOn, QuietMove DEF ReadActivity
  <1>2. CASE Reply(r, 502)
    BY <1>2, EndsWithNothing DEF ReadActivity, Codes
  <1>3. QED
    BY <1>1, <1>2 DEF ReadActivity

\* What a client answers fits the request it answers.
LEMMA JudgementFits ==
  ASSUME DeskInv, NEW r \in Requests, At(r, "call"), req[r].kind = "triage"
  PROVE  /\ Judgement(r) \in Verdict
         /\ Judgement(r).alert = req[r].alert /\ Judgement(r).evidence = req[r].row.evidence
         /\ Judgement(r).model = client.model /\ (Judgement(r).mock <=> client.kind = "mock")
  <1>1. /\ req[r] \in Request /\ req[r].alert \in Alerts \cup {"none"} /\ client.kind # "error"
    BY DEF DeskInv, TypeOK, Sane, ServedHere, At, Request
  <1>2. client.kind \in Providers \cup {"mock"} /\ client.model \in Models
    BY <1>1, ClientOK DEF DeskInv, Client
  <1>3. req[r].row.evidence \in 0 .. MaxEvidence
    BY <1>1 DEF Request
  <1>4. Judgement(r) \in Verdict
    BY <1>1, <1>2, <1>3 DEF Judgement, Verdict, Live
  <1>5. QED
    BY <1>2, <1>4 DEF Judgement, Live, Providers

LEMMA AnsweredStep ==
  ASSUME DeskInv, NEW r \in Requests, NEW parses \in BOOLEAN, At(r, "call"), Answered(r, parses),
         UNCHANGED <<env, alerts, cache, decided>>
  PROVE  DeskInv'
  <1> DEFINE o == req[r]
             q == [o EXCEPT !.answered = TRUE]
  <1>1. /\ o \in Request /\ Sane(o) /\ o.stage = "call" /\ o.by = client /\ ~o.hit
        /\ ~o.answered /\ o.verdict = NoVerdict
    BY DEF DeskInv, TypeOK, Sane, ServedHere, StageOfKind, ToldOnce, At
  <1>2. /\ q \in Request /\ q.answered /\ q.stage = o.stage /\ q.verdict = o.verdict /\ q.hit = o.hit
        /\ SameCase(q, o)
    BY <1>1, IsAnswered
  <1>3. ASSUME NEW p \in Request, Become(r, p), Sane(p), p.answered, ~p.hit,
               Record(r, FALSE) \/ UNCHANGED usage
        PROVE  DeskInv'
    <2>1. Moves(r, p)
      BY <1>1, <1>3 DEF Moves, StaysTold, FromSomewhere
    <2>2. \A u \in usage' : u \in usage \/ RowFine(r, p, u)
      BY <1>3, RecordFine
    <2>3. QED
      BY <2>1, <2>2, StillFine, MovesKeepInv
  <1> HIDE DEF q
  <1>4. ASSUME q.kind = "rule", Become(r, [q EXCEPT !.stage = "compile", !.tries = 0]), Record(r, FALSE)
        PROVE  DeskInv'
    <2> DEFINE p == [q EXCEPT !.stage = "compile", !.tries = 0]
    <2>1. p \in Request /\ p.stage = "compile" /\ SameCase(p, q) /\ SameAnswer(p, q)
      BY <1>2, Compiles
    <2> HIDE DEF p, o
    <2>2. Sane(p) /\ p.answered /\ ~p.hit
      BY <1>1, <1>2, <1>4, <2>1 DEF Sane, StageOfKind, ServedHere, ToldOnce, VerdictFits, RuleVetted,
                                    Succeeded, SameCase, SameAnswer
    <2>3. QED
      BY <1>3, <1>4, <2>1, <2>2 DEF p
  <1>5. ASSUME NEW code \in {200, 502}, Become(r, Ended(q, code)), Record(r, FALSE) \/ UNCHANGED usage,
               q.kind # "rule", code = 200 => q.kind = "investigate"
        PROVE  DeskInv'
    <2> DEFINE p == Ended(q, code)
    <2>1. code \in Codes
      BY DEF Codes
    <2>2. /\ p \in Request /\ p.stage = "done" /\ p.reply = code
          /\ Settled(p, q, code) /\ SameAnswer(p, q)
      BY <1>2, <2>1, Ends
    <2> HIDE DEF p, o
    <2>3. Sane(p) /\ p.answered /\ ~p.hit
      BY <1>1, <1>2, <1>5, <2>2 DEF Sane, StageOfKind, ServedHere, ToldOnce, VerdictFits, RuleVetted,
                                    Succeeded, Settled, SameCase, SameAnswer
    <2>4. QED
      BY <1>3, <1>5, <2>2, <2>3 DEF p
  <1>6. ASSUME q.kind = "triage", UNCHANGED usage,
               Become(r, [q EXCEPT !.stage = "keep", !.tries = 0, !.verdict = Judgement(r)])
        PROVE  DeskInv'
    <2> DEFINE v == Judgement(r)
               p == [q EXCEPT !.stage = "keep", !.tries = 0, !.verdict = v]
    <2>1. /\ v \in Verdict /\ v.alert = o.alert /\ v.evidence = o.row.evidence
          /\ v.model = client.model /\ (v.mock <=> client.kind = "mock")
      BY <1>2, <1>6, JudgementFits DEF SameCase
    <2> HIDE DEF v
    <2>2. /\ p \in Request /\ p.stage = "keep" /\ p.verdict = v /\ p.answered = q.answered /\ p.hit = q.hit
          /\ SameCase(p, q)
      BY <1>2, <2>1, Keeps
    <2> HIDE DEF p, o
    <2>3. Sane(p) /\ p.answered /\ ~p.hit
      BY <1>1, <1>2, <1>6, <2>1, <2>2 DEF Sane, StageOfKind, ServedHere, ToldOnce, VerdictFits, RuleVetted,
                                          Succeeded, SameCase, Fits
    <2>4. QED
      BY <1>3, <1>6, <2>2, <2>3 DEF p, v
  <1>7. \/ q.kind = "rule" /\ Become(r, [q EXCEPT !.stage = "compile", !.tries = 0]) /\ Record(r, FALSE)
        \/ q.kind # "rule" /\ Become(r, Ended(q, 502)) /\ UNCHANGED usage
        \/ /\ q.kind = "triage" /\ UNCHANGED usage
           /\ Become(r, [q EXCEPT !.stage = "keep", !.tries = 0, !.verdict = Judgement(r)])
        \/ q.kind = "investigate" /\ Become(r, Ended(q, 200)) /\ Record(r, FALSE)
    BY ZenonT(60) DEF Answered, q
  <1>8. CASE q.kind # "rule" /\ Become(r, Ended(q, 502)) /\ UNCHANGED usage
    BY <1>5, <1>8
  <1>9. CASE q.kind = "investigate" /\ Become(r, Ended(q, 200)) /\ Record(r, FALSE)
    BY <1>5, <1>9
  <1>10. QED
    BY <1>4, <1>6, <1>7, <1>8, <1>9

LEMMA FailedStep ==
  ASSUME DeskInv, NEW r \in Requests, Failed(r), UNCHANGED <<env, alerts, cache, decided>>
  PROVE  DeskInv'
  BY EndsWithNothing DEF Failed, Codes

LEMMA RetryStep ==
  ASSUME DeskInv, NEW r \in Requests, At(r, "call"), Retry(r), UNCHANGED <<env, alerts, cache, decided>>
  PROVE  DeskInv'
  <1> DEFINE q == req[r]
             p == [q EXCEPT !.tries = @ + 1]
  <1>1. q \in Request /\ Sane(q) /\ q.stage = "call"
    BY DEF DeskInv, TypeOK, At
  <1>2. ASSUME q.tries + 1 < Attempts, Become(r, p), UNCHANGED usage
        PROVE  DeskInv'
    <2>1. p \in Request /\ p.stage = q.stage /\ SameCase(p, q) /\ SameAnswer(p, q)
      BY <1>1, <1>2, Retries
    <2> HIDE DEF p, q
    <2>2. Sane(p) /\ StaysTold(q, p) /\ FromSomewhere(q, p)
      BY <1>1, <2>1 DEF Sane, StageOfKind, ServedHere, ToldOnce, VerdictFits, RuleVetted, Succeeded,
                        Fits, StaysTold, FromSomewhere, SameCase, SameAnswer
    <2>3. Moves(r, p)
      BY <1>2, <2>1, <2>2 DEF Moves, q
    <2>4. QED
      BY <1>2, <2>3, QuietMove
  <1>3. QED
    BY <1>2, FailedStep DEF Retry, Again

LEMMA CallStep ==
  ASSUME DeskInv, NEW r \in Requests, Call(r)
  PROVE  DeskInv'
  <1>1. CASE Answered(r, TRUE)
    BY <1>1, AnsweredStep DEF Call
  <1>2. CASE Failed(r)
    BY <1>2, FailedStep DEF Call
  <1>3. CASE Retry(r)
    BY <1>3, RetryStep DEF Call
  <1>4. ASSUME NEW x \in Exchanges, Answered(r, x.says = "result")
        PROVE  DeskInv'
    <2> DEFINE parses == x.says = "result"
    <2>1. parses \in BOOLEAN /\ Answered(r, parses)
      BY <1>4
    <2> HIDE DEF parses
    <2>2. QED
      BY <2>1, AnsweredStep DEF Call
  <1>5. QED
    BY <1>1, <1>2, <1>3, <1>4 DEF Call

LEMMA KeepStep ==
  ASSUME DeskInv, NEW r \in Requests, Keep(r)
  PROVE  DeskInv'
  <1> DEFINE q == req[r]
             p == [q EXCEPT !.stage = "store"]
             k == HashKey(q.alert, q.row)
             v == q.verdict
  <1>1. /\ q \in Request /\ Sane(q) /\ q.stage = "keep" /\ q.kind = "triage" /\ q.by = client
        /\ q.answered /\ ~q.hit /\ Fits(q) /\ v \in Verdict
    BY DEF DeskInv, TypeOK, Keep, At, Sane, ServedHere, StageOfKind, ToldOnce, VerdictFits, Request
  <1>2. p \in Request /\ p.stage = "store" /\ SameCase(p, q) /\ SameAnswer(p, q)
    BY <1>1, Values, Goes
  <1>3. k[1] = q.alert /\ k[2] = q.row.evidence /\ k[3] = client.model
    BY DEF HashKey
  <1>4. v # NoVerdict => GivenByClient(v)
    BY DEF DeskInv, VerdictsGiven
  <1>5. \/ cache' = [c \in DOMAIN cache \cup {k} |-> IF c = k THEN v ELSE cache[c]]
        \/ cache' = cache
    BY DEF Keep
  <1>6. Become(r, p)
    BY DEF Keep, Goto
  <1> HIDE DEF p, k
  <1>7. \A c \in DOMAIN cache' : EntryFine(c)
    <2>1. CASE cache' = cache
      BY <2>1, StillFine
    <2>2. ASSUME cache' = [c \in DOMAIN cache \cup {k} |-> IF c = k THEN v ELSE cache[c]],
                 NEW c \in DOMAIN cache'
          PROVE  EntryFine(c)
      <3>1. CASE c = k
        <4>1. cache'[c] = v
          BY <2>2, <3>1
        <4>2. QED
          BY <1>1, <1>3, <1>4, <3>1, <4>1, ClientOK DEF DeskInv, EntryFine, Fits
      <3>2. CASE c # k
        <4>1. c \in DOMAIN cache /\ cache'[c] = cache[c]
          BY <2>2, <3>2
        <4>2. QED
          BY <4>1 DEF DeskInv, TypeOK, CacheFits, VerdictsGiven, EntryFine
      <3>3. QED
        BY <3>1, <3>2
    <2>3. QED
      BY <1>5, <2>1, <2>2
  <1> HIDE DEF q
  <1>8. Sane(p) /\ StaysTold(q, p) /\ FromSomewhere(q, p)
    BY <1>1, <1>2 DEF Sane, StageOfKind, ServedHere, ToldOnce, VerdictFits, RuleVetted, Succeeded,
                      StaysTold, FromSomewhere, SameCase, SameAnswer, Fits
  <1>9. Moves(r, p)
    BY <1>2, <1>6, <1>8 DEF Moves, q
  <1>10. \A u \in usage' : u \in usage \/ RowFine(r, p, u)
    BY <1>1, <1>2, RecordFine DEF Keep, SameAnswer
  <1>11. QED
    BY <1>7, <1>9, <1>10, StillFine, MovesKeepInv DEF Keep

LEMMA CompileStep ==
  ASSUME DeskInv, NEW r \in Requests, Compile(r)
  PROVE  DeskInv'
  <1>1. PICK rule \in Rules, inTime \in BOOLEAN, code \in {200, 500} :
          LET ok == /\ rule # "empty" /\ checkImports(rule) /\ code = 200 /\ inTime /\ Works(r)
                    /\ Builds(rule)
          IN Become(r, Ended([req[r] EXCEPT !.rule = IF ok THEN rule ELSE "rejected"], code))
    BY DEF Compile
  <1> DEFINE ok == /\ rule # "empty" /\ checkImports(rule) /\ code = 200 /\ inTime /\ Works(r)
                   /\ Builds(rule)
             u == IF ok THEN rule ELSE "rejected"
             o == req[r]
             q == [o EXCEPT !.rule = u]
             p == Ended(q, code)
  <1>2. o \in Request /\ Sane(o) /\ o.stage = "compile" /\ o.kind = "rule"
    BY DEF DeskInv, TypeOK, Compile, At, Sane, StageOfKind
  <1>3. u \in {"rejected", "sound"} /\ u \in Rules \cup {"none", "rejected"}
    BY DEF Rules, checkImports, Builds
  <1>4. Become(r, p)
    BY <1>1
  <1> HIDE DEF ok, u
  <1>5. q \in Request /\ q.stage = o.stage /\ q.rule = u /\ SameCase(q, o) /\ SameAnswer(q, o)
    BY <1>2, <1>3, IsVetted
  <1>6. code \in Codes
    BY DEF Codes
  <1> HIDE DEF q
  <1>7. /\ p \in Request /\ p.stage = "done" /\ p.reply = code
        /\ Settled(p, q, code) /\ SameAnswer(p, q) /\ p.rule = q.rule
    BY <1>5, <1>6, Ends
  <1> HIDE DEF p, o
  <1>8. Sane(p) /\ StaysTold(o, p) /\ FromSomewhere(o, p)
    BY <1>2, <1>3, <1>5, <1>7 DEF Sane, StageOfKind, ServedHere, ToldOnce, VerdictFits, RuleVetted,
                                  Succeeded, StaysTold, FromSomewhere, Settled, SameCase, SameAnswer
  <1>9. Moves(r, p)
    BY <1>4, <1>7, <1>8 DEF Moves, o
  <1>10. QED
    BY <1>9, QuietMove DEF Compile

-----------------------------------------------------------------------------
(* Around the requests *)

LEMMA BadRequestStep ==
  ASSUME DeskInv, NEW r \in Requests, BadRequest(r)
  PROVE  DeskInv'
  BY EndsWithNothing DEF BadRequest, Codes

LEMMA HangupStep ==
  ASSUME DeskInv, NEW r \in Requests, Hangup(r)
  PROVE  DeskInv'
  <1> DEFINE q == req[r]
             p == [q EXCEPT !.gone = TRUE]
  <1>1. q \in Request /\ Sane(q) /\ q.stage \notin {"idle", "done"}
    BY DEF DeskInv, TypeOK, Hangup, At
  <1>2. p \in Request /\ p.stage = q.stage /\ SameCase(p, q) /\ SameAnswer(p, q)
    BY <1>1, HangsUp
  <1>3. Become(r, p)
    BY DEF Hangup
  <1> HIDE DEF p, q
  <1>4. Sane(p) /\ StaysTold(q, p) /\ FromSomewhere(q, p)
    BY <1>1, <1>2 DEF Sane, StageOfKind, ServedHere, ToldOnce, VerdictFits, RuleVetted, Succeeded,
                      Fits, StaysTold, FromSomewhere, SameCase, SameAnswer
  <1>5. Moves(r, p)
    BY <1>2, <1>3, <1>4 DEF Moves, q
  <1>6. QED
    BY <1>5, QuietMove DEF Hangup

\* Neither the requests nor the server change.
LEMMA RequestsStay ==
  ASSUME DeskInv, UNCHANGED <<env, req, usage>>
  PROVE  /\ \A r \in Requests : Sane(req[r])'
         /\ \A v : GivenByClient(v) => GivenByClient(v)'
         /\ UsageIsReal'
  <1>1. client' = client
    BY DEF client
  <1>2. ASSUME NEW r \in Requests
        PROVE  Sane(req[r])'
    BY <1>1 DEF DeskInv, Sane, StageOfKind, ServedHere, ToldOnce, VerdictFits, RuleVetted, Fits, Succeeded
  <1>3. QED
    BY <1>2 DEF DeskInv, GivenByClient, UsageIsReal

LEMMA MergeStep ==
  ASSUME DeskInv, NEW a \in Alerts, Merge(a)
  PROVE  DeskInv'
  <1>1. alerts[a].evidence + 1 \in 1 .. MaxEvidence
    BY DeskAssumption DEF DeskInv, TypeOK, Merge
  <1>2. alerts' \in [Alerts -> [evidence : 1 .. MaxEvidence, status : Statuses, triage : Verdict]]
    BY <1>1 DEF DeskInv, TypeOK, Merge
  <1>3. \A b \in Alerts : alerts'[b].status = alerts[b].status /\ alerts'[b].triage = alerts[b].triage
    BY DEF DeskInv, TypeOK, Merge
  <1>4. VerdictsGiven'
    BY <1>3 DEF DeskInv, VerdictsGiven, GivenByClient, Merge
  <1>5. QED
    BY <1>2, <1>3, <1>4, RequestsStay DEF DeskInv, TypeOK, CacheFits, DecisionStands, Merge

LEMMA ExpireStep ==
  ASSUME DeskInv, Expire
  PROVE  DeskInv'
  <1>1. DOMAIN cache' \subseteq DOMAIN cache /\ \A k \in DOMAIN cache' : cache'[k] = cache[k]
    BY DEF Expire
  <1>2. VerdictsGiven'
    BY <1>1 DEF DeskInv, VerdictsGiven, GivenByClient, Expire
  <1>3. CacheFits' /\ TypeOK'
    BY <1>1 DEF DeskInv, CacheFits, TypeOK, Expire
  <1>4. QED
    BY <1>2, <1>3, RequestsStay DEF DeskInv, DecisionStands, Expire

\* The requests that the old server was serving end; what was answered stays.
LEMMA RestartStep ==
  ASSUME DeskInv, NEW e \in Envs, Restart(e)
  PROVE  DeskInv'
  <1>1. ASSUME NEW r \in Requests
        PROVE  /\ req'[r] \in Request /\ Sane(req[r])'
               /\ req'[r].answered = req[r].answered /\ req'[r].hit = req[r].hit
               /\ req'[r].verdict = req[r].verdict
    <2> DEFINE q == req[r]
    <2>1. q \in Request /\ Sane(q)
      BY DEF DeskInv, TypeOK
    <2>2. req'[r] = IF q.stage \in {"idle", "done"} THEN q ELSE Ended(q, 0)
      BY DEF Restart
    <2>3. CASE q.stage \in {"idle", "done"}
      <3>1. req'[r] = q
        BY <2>2, <2>3
      <3> HIDE DEF q
      <3>2. Sane(req[r])'
        BY <2>1, <2>3, <3>1 DEF Sane, StageOfKind, ServedHere, ToldOnce, VerdictFits, RuleVetted, Fits, Succeeded
      <3>3. QED
        BY <2>1, <3>1, <3>2 DEF q
    <2>4. CASE q.stage \notin {"idle", "done"}
      <3> DEFINE p == Ended(q, 0)
      <3>1. /\ p \in Request /\ p.stage = "done" /\ p.reply = 0
            /\ Settled(p, q, 0) /\ SameAnswer(p, q)
        BY <2>1, Ends DEF Codes
      <3>2. req'[r] = p
        BY <2>2, <2>4
      <3> HIDE DEF p
      <3>3. Sane(req[r])'
        BY <2>1, <3>1, <3>2 DEF Sane, StageOfKind, ServedHere, ToldOnce, VerdictFits, RuleVetted, Succeeded, SameAnswer
      <3>4. QED
        BY <3>1, <3>2, <3>3 DEF SameAnswer
    <2>5. QED
      BY <2>3, <2>4
  <1>2. TypeOK'
    BY <1>1 DEF DeskInv, TypeOK, Restart
  <1>3. VerdictsGiven'
    BY <1>1 DEF DeskInv, VerdictsGiven, GivenByClient, Restart
  <1>4. UsageIsReal'
    BY <1>1 DEF DeskInv, UsageIsReal, TypeOK, Restart
  <1>5. QED
    BY <1>1, <1>2, <1>3, <1>4 DEF DeskInv, CacheFits, DecisionStands, Restart

-----------------------------------------------------------------------------
(* The theorems *)

LEMMA DeskInit == Init => DeskInv
  <1> SUFFICES ASSUME Init PROVE DeskInv
    OBVIOUS
  <1>1. TypeOK
    <2>1. NoVerdict \in Verdict /\ NoRow \in Rows /\ Mock \in Client
      BY DeskAssumption DEF NoVerdict, Verdict, NoRow, Rows, Mock, Client, Models, Statuses
    <2>2. Idle \in Request
      BY <2>1 DEF Idle, Request, Rows, Attempts
    <2>3. [evidence |-> 1, status |-> "open", triage |-> NoVerdict]
            \in [evidence : 1 .. MaxEvidence, status : Statuses, triage : Verdict]
      BY <2>1, DeskAssumption DEF Statuses
    <2>4. req \in [Requests -> Request]
      BY <2>2 DEF Init
    <2>5. alerts \in [Alerts -> [evidence : 1 .. MaxEvidence, status : Statuses, triage : Verdict]]
      BY <2>3 DEF Init
    <2>6. QED
      BY <2>4, <2>5 DEF Init, TypeOK, Statuses
  <1>2. \A r \in Requests : Sane(req[r]) /\ req[r].verdict = NoVerdict
    BY DEF Init, Idle, Sane, StageOfKind, ServedHere, ToldOnce, VerdictFits, RuleVetted, Succeeded
  <1>3. CacheFits /\ VerdictsGiven /\ UsageIsReal /\ DecisionStands
    BY <1>2 DEF Init, CacheFits, VerdictsGiven, UsageIsReal, DecisionStands
  <1>4. QED
    BY <1>1, <1>2, <1>3 DEF DeskInv

LEMMA DeskStep == DeskInv /\ [Next]_vars => DeskInv'
  <1> SUFFICES ASSUME DeskInv, [Next]_vars PROVE DeskInv'
    OBVIOUS
  <1>1. ASSUME NEW r \in Requests, Serve(r)
        PROVE  DeskInv'
    BY <1>1, BadRequestStep, GetAlertStep, StoreTriageStep, SetAlertStatusStep, LookupStep,
       ReadActivityStep, CallStep, KeepStep, CompileStep DEF Serve
  <1>2. ASSUME NEW r \in Requests, NEW a \in Alerts \cup {Unknown}, NEW k \in Kinds, Arrive(r, k, a)
        PROVE  DeskInv'
    BY <1>2, ArriveStep
  <1>3. ASSUME UNCHANGED vars
        PROVE  DeskInv'
    BY <1>3, RequestsStay
       DEF vars, DeskInv, TypeOK, CacheFits, VerdictsGiven, GivenByClient, DecisionStands
  <1>4. QED
    BY <1>1, <1>2, <1>3, HangupStep, MergeStep, ExpireStep, RestartStep DEF Next, Kinds

\* Every variable keeps its type, and no request is tried more than three times.
THEOREM TypeCorrect == Spec => []TypeOK
  <1>1. DeskInv => TypeOK
    BY DEF DeskInv
  <1>2. QED
    BY <1>1, DeskInit, DeskStep, PTL DEF Spec

\* Whatever the environment, no key of another provider enables a live call, and
\* a server refuses to start only for a misspelled setting or a missing key.
THEOREM KeysNeverCross == Spec => []KeysStayHome
  <1>1. TypeOK => KeysStayHome
    BY ClientOK
  <1>2. QED
    BY <1>1, TypeCorrect, PTL

\* A decision of an analyst outlives every merge and every triage that was under
\* way, whatever the number of requests and their interleaving.
THEOREM DecisionsOutlive == Spec => []DecisionStands
  <1>1. DeskInv => DecisionStands
    BY DEF DeskInv
  <1>2. QED
    BY <1>1, DeskInit, DeskStep, PTL DEF Spec

\* The verdict that is shown is about the evidence that was read.
THEOREM VerdictsFit == Spec => []VerdictFitsEvidence
  <1>1. DeskInv => VerdictFitsEvidence
    BY DEF DeskInv, VerdictFitsEvidence, Given, At, Sane, VerdictFits, Succeeded, Fits
  <1>2. QED
    BY <1>1, DeskInit, DeskStep, PTL DEF Spec

\* ... and comes from the model of the server that shows it.
THEOREM VerdictsAreOwn == Spec => []VerdictOfOwnModel
  <1>1. DeskInv => VerdictOfOwnModel
    BY DEF DeskInv, VerdictOfOwnModel, Given, At, Sane, VerdictFits, Succeeded, Fits
  <1>2. QED
    BY <1>1, DeskInit, DeskStep, PTL DEF Spec

\* No verdict, shown, cached or stored, was made up by the server.
THEOREM NoVerdictInvented == Spec => []EveryVerdictWasGiven
  <1>1. ASSUME DeskInv
        PROVE  EveryVerdictWasGiven
    BY <1>1 DEF DeskInv, VerdictsGiven, GivenByClient, EveryVerdictWasGiven
  <1>2. QED
    BY <1>1, DeskInit, DeskStep, PTL DEF Spec

\* Every usage row is one answer or one cached result.
THEOREM UsageNeverInvented == Spec => []UsageIsReal
  <1>1. DeskInv => UsageIsReal
    BY DEF DeskInv
  <1>2. QED
    BY <1>1, DeskInit, DeskStep, PTL DEF Spec

\* A rule that is reported as compiled passed the import check.
THEOREM CompiledIsVetted == Spec => []CompiledMeansVetted
  <1>1. DeskInv => CompiledMeansVetted
    BY DEF DeskInv, CompiledMeansVetted, Given, At, Sane, RuleVetted, Succeeded
  <1>2. QED
    BY <1>1, DeskInit, DeskStep, PTL DEF Spec

=============================================================================
