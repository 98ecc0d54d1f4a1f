----------------------------- MODULE TriageDesk -----------------------------
(***************************************************************************)
(* The requests of analysts: the handlers of internal/api/api.go that      *)
(* triage and investigate an alert, set its status and generate a rule,    *)
(* with the LLM service under them (internal/llm/service.go), the Redis    *)
(* result cache, the usage table and the validation of generated rules.    *)
(* Every call to Postgres, Redis or the provider is a step, and any of     *)
(* them may fail; meanwhile sweeps merge findings into the alerts, browsers*)
(* hang up, cached results expire and the server restarts with another     *)
(* configuration beside the same Redis.                                    *)
(***************************************************************************)
EXTENDS LLMClient

CONSTANTS
  Requests, Alerts,
  Envs,          \* the environments a server may be started with
  Exchanges,     \* what may happen between the server and its provider
  Decisions,     \* the statuses analysts choose from
  MaxEvidence    \* bound on how often evidence is replaced

Statuses == {"open", "acknowledged", "resolved", "dismissed"}

ASSUME DeskAssumption ==
  /\ Decisions \subseteq Statuses
  /\ Envs \subseteq Env /\ Exchanges \subseteq Exchange /\ MaxEvidence \in Nat \ {0}

VARIABLES
  env,           \* the environment of the running server
  alerts,        \* the rows of alerts
  cache,         \* the Redis keys llm:triage:*
  usage,         \* the rows of llm_usage
  req,           \* the requests
  decided        \* the last status that an analyst was told is set

vars == <<env, alerts, cache, usage, req, decided>>

client == NewClient(Load(env))

NoVerdict == [alert |-> "none", evidence |-> 0, model |-> "", mock |-> FALSE]

NoRow == [evidence |-> 0, status |-> "open"]

Idle ==
  [kind |-> "none", stage |-> "idle", alert |-> "none", row |-> NoRow, by |-> Mock,
   tries |-> 0, answered |-> FALSE, verdict |-> NoVerdict, hit |-> FALSE,
   rule |-> "none", gone |-> FALSE, reply |-> 0]

Init ==
  /\ env \in Envs
  /\ alerts = [a \in Alerts |-> [evidence |-> 1, status |-> "open", triage |-> NoVerdict]]
  /\ cache = [k \in {} |-> NoVerdict]
  /\ usage = {}
  /\ req = [r \in Requests |-> Idle]
  /\ decided = [a \in Alerts |-> "open"]

Become(r, q) == req' = [req EXCEPT ![r] = q]

Goto(r, stage) == Become(r, [req[r] EXCEPT !.stage = stage])

\* The request ends, and what it no longer needs is forgotten.
Ended(q, code) ==
  LET done == [q EXCEPT !.stage = "done", !.tries = 0, !.gone = FALSE, !.reply = code]
  IN IF code = 200 /\ q.kind = "triage" THEN done ELSE [done EXCEPT !.alert = "none", !.row = NoRow, !.by = Mock]

Reply(r, code) == Become(r, Ended(req[r], code))

At(r, stage) == req[r].stage = stage

\* A call with the request's context does nothing once the browser is gone.
Works(r) == ~req[r].gone

-----------------------------------------------------------------------------
(* Handlers.  The provider's client is the one the server was started with. *)

\* A request may name an alert that no row has; one for a rule names none.
Unknown == "none"

Arrive(r, kind, a) ==
  /\ At(r, "idle") /\ client.kind # "error" /\ (kind = "rule" => a = Unknown)
  /\ Become(r, [req[r] EXCEPT !.kind = kind, !.alert = a, !.by = client,
                               !.stage = IF kind = "rule" THEN "call"
                                         ELSE IF kind = "status" THEN "decide" ELSE "get"])
  /\ UNCHANGED <<env, alerts, cache, usage, decided>>

\* A body that does not decode, an unknown status or an empty description
BadRequest(r) ==
  /\ At(r, "decide") \/ (At(r, "call") /\ req[r].kind = "rule" /\ req[r].tries = 0)
  /\ Reply(r, 400)
  /\ UNCHANGED <<env, alerts, cache, usage, decided>>

\* GetAlert.  Whatever its error is, also when no row has this id, the handlers
\* answer 404.
GetAlert(r) ==
  /\ At(r, "get")
  /\ \/ /\ Works(r) /\ req[r].alert \in Alerts
        /\ IF req[r].kind = "triage"
           THEN LET a == alerts[req[r].alert]
                IN Become(r, [req[r] EXCEPT !.stage = "lookup",
                                            !.row = [evidence |-> a.evidence, status |-> a.status]])
           ELSE Goto(r, "activity")
     \/ Reply(r, 404)
  /\ UNCHANGED <<env, alerts, cache, usage, decided>>

\* SetAlertStatus.  An UPDATE whose answer is lost may have been applied; one that
\* finds no row is answered with 404.
SetAlertStatus(r, status) ==
  /\ At(r, "decide")
  /\ LET a == req[r].alert
     IN \/ /\ Works(r) /\ a \in Alerts
           /\ alerts' = [alerts EXCEPT ![a].status = status]
           /\ decided' = [decided EXCEPT ![a] = status]
           /\ \E code \in {200, 500} : Reply(r, code)
        \/ Works(r) /\ a \notin Alerts /\ Reply(r, 404) /\ UNCHANGED <<alerts, decided>>
        \/ Reply(r, 500) /\ UNCHANGED <<alerts, decided>>
  /\ UNCHANGED <<env, cache, usage>>

\* Mutants of SetTriage and of HashKey: the row as it was read is written back;
\* the key leaves out the evidence; the key leaves out the model.
SetWholeRow(row, read, v)   == [evidence |-> read.evidence, status |-> read.status, triage |-> v]
KeyWithoutEvidence(a, row)  == <<a, 0, client.model>>
KeyWithoutModel(a, row)    == <<a, row.evidence, "">>

\* UPDATE alerts SET triage
SetTriage(row, read, v) == [row EXCEPT !.triage = v]

HashKey(a, row) == <<a, row.evidence, client.model>>

\* The handler stores the verdict, of a row it read before the call.
StoreTriage(r) ==
  /\ At(r, "store")
  /\ LET a == req[r].alert
     IN \/ /\ Works(r)
           /\ alerts' = [alerts EXCEPT ![a] = SetTriage(@, req[r].row, req[r].verdict)]
           /\ \E code \in {200, 500} : Reply(r, code)
        \/ Reply(r, 500) /\ UNCHANGED alerts
  /\ UNCHANGED <<env, cache, usage, decided>>

-----------------------------------------------------------------------------
(* Service *)

\* InsertLLMUsage, whose error nobody reads
Record(r, cached) ==
  \/ Works(r) /\ usage' = usage \cup {[request |-> r, model |-> client.model, cached |-> cached]}
  \/ UNCHANGED usage

\* Redis GET: a result, or none, or no answer from Redis
Lookup(r) ==
  /\ At(r, "lookup")
  /\ LET k == HashKey(req[r].alert, req[r].row)
     IN \/ /\ k \in DOMAIN cache /\ Works(r)
           /\ Become(r, [req[r] EXCEPT !.stage = "store", !.verdict = cache[k], !.hit = TRUE])
           /\ Record(r, TRUE)
        \/ Goto(r, "call") /\ UNCHANGED usage
  /\ UNCHANGED <<env, alerts, cache, decided>>

\* EntityActivity, for an investigation
ReadActivity(r) ==
  /\ At(r, "activity")
  /\ \/ Works(r) /\ Goto(r, "call")
     \/ Reply(r, 502)
  /\ UNCHANGED <<env, alerts, cache, usage, decided>>

Judgement(r) ==
  [alert |-> req[r].alert, evidence |-> req[r].row.evidence, model |-> client.model,
   mock |-> ~Live(client)]

\* The feature has an answer: text that it parses, or else an error.  A rule is
\* whatever the text is.
Answered(r, parses) ==
  LET q == [req[r] EXCEPT !.answered = TRUE]
  IN \/ /\ q.kind = "rule"
        /\ Become(r, [q EXCEPT !.stage = "compile", !.tries = 0]) /\ Record(r, FALSE)
     \/ /\ q.kind # "rule" /\ ~parses
        /\ Become(r, Ended(q, 502)) /\ UNCHANGED usage
     \/ /\ q.kind = "triage" /\ parses
        /\ Become(r, [q EXCEPT !.stage = "keep", !.tries = 0, !.verdict = Judgement(r)])
        /\ UNCHANGED usage
     \/ /\ q.kind = "investigate" /\ parses
        /\ Become(r, Ended(q, 200)) /\ Record(r, FALSE)

\* Mutants of Failed: the mock stands in for a provider that fails; a failed
\* call is recorded as one that was answered.
FallBackToMock(r) ==
  /\ IF req[r].kind = "triage"
     THEN Become(r, [req[r] EXCEPT !.stage = "keep", !.verdict = [Judgement(r) EXCEPT !.mock = TRUE]])
     ELSE Reply(r, 502)
  /\ UNCHANGED usage
FailedRecorded(r) == Reply(r, 502) /\ Record(r, FALSE)

\* Complete returns an error, and so does the feature.
Failed(r) == Reply(r, 502) /\ UNCHANGED usage

Again(r) == Become(r, [req[r] EXCEPT !.tries = @ + 1]) /\ UNCHANGED usage

\* Mutants of Retry: one attempt too many; no limit (the count is kept finite).
RetryOnceMore(r) == IF req[r].tries < Attempts THEN Again(r) ELSE Failed(r)

RetryForever(r) ==
  Become(r, [req[r] EXCEPT !.tries = (@ + 1) % Attempts]) /\ UNCHANGED usage

Retry(r) == IF req[r].tries + 1 < Attempts THEN Again(r) ELSE Failed(r)

\* Complete, one attempt at a time.  Once the context is cancelled no attempt
\* is made, and the one in flight fails.
Call(r) ==
  /\ At(r, "call")
  /\ \/ client.kind = "mock" /\ Answered(r, TRUE)
     \/ Live(client) /\ ~Works(r) /\ Failed(r)
     \/ /\ Live(client) /\ Works(r)
        /\ \E x \in Exchanges :
             \/ Once(client, x) = "answer" /\ Answered(r, x.says = "result")
             \/ Once(client, x) = "retry" /\ Retry(r)
             \/ Once(client, x) = "fail" /\ Failed(r)
  /\ UNCHANGED <<env, alerts, cache, decided>>

\* Redis SET, whose error nobody reads, and the usage record
Keep(r) ==
  /\ At(r, "keep")
  /\ LET k == HashKey(req[r].alert, req[r].row)
     IN \/ Works(r) /\ cache' = [c \in DOMAIN cache \cup {k} |-> IF c = k THEN req[r].verdict ELSE cache[c]]
        \/ UNCHANGED cache
  /\ Record(r, FALSE)
  /\ Goto(r, "store")
  /\ UNCHANGED <<env, alerts, decided>>

-----------------------------------------------------------------------------
(* rulegen.Validate: what the generated code may be, and its two gates.  It *)
(* is compiled and never run, so there is no action that runs it.           *)

Rules == {"empty", "unparsable", "package_main", "imports_os", "ill_typed", "sound"}

\* A mutant of checkImports: only the package clause is looked at.
CheckPackage(rule) == rule \notin {"unparsable", "package_main"}

checkImports(rule) == rule \notin {"unparsable", "package_main", "imports_os"}

\* go build takes whatever is well typed and of the package of the scaffold beside
\* it, and may be cut off by its timeout.
Builds(rule) == rule \in {"imports_os", "sound"}

\* The code is answered beside the verdict on it, whatever the verdict is.  500
\* is a temporary directory or file that cannot be written.
Compile(r) ==
  /\ At(r, "compile")
  /\ \E rule \in Rules, inTime \in BOOLEAN :
       LET vetted == rule # "empty" /\ checkImports(rule)
       IN \E code \in IF vetted THEN {200, 500} ELSE {200} :
            LET ok == vetted /\ code = 200 /\ inTime /\ Works(r) /\ Builds(rule)
            IN Become(r, Ended([req[r] EXCEPT !.rule = IF ok THEN rule ELSE "rejected"], code))
  /\ UNCHANGED <<env, alerts, cache, usage, decided>>

-----------------------------------------------------------------------------
(* Around the requests *)

\* UpsertAlert merges a finding: new evidence, whatever the status is.
Merge(a) ==
  /\ alerts[a].evidence < MaxEvidence
  /\ alerts' = [alerts EXCEPT ![a].evidence = @ + 1]
  /\ UNCHANGED <<env, cache, usage, req, decided>>

Hangup(r) ==
  /\ ~At(r, "idle") /\ ~At(r, "done") /\ Works(r)
  /\ Become(r, [req[r] EXCEPT !.gone = TRUE])
  /\ UNCHANGED <<env, alerts, cache, usage, decided>>

\* The TTL of a cached result runs out, or Redis restarts empty.
Expire ==
  /\ \E K \in SUBSET DOMAIN cache : K # {} /\ cache' = [k \in DOMAIN cache \ K |-> cache[k]]
  /\ UNCHANGED <<env, alerts, usage, req, decided>>

\* The server restarts; the requests it was serving are lost.
Restart(e) ==
  /\ e # env
  /\ env' = e
  /\ req' = [r \in Requests |->
               IF req[r].stage \in {"idle", "done"} THEN req[r] ELSE Ended(req[r], 0)]
  /\ UNCHANGED <<alerts, cache, usage, decided>>

Serve(r) ==
  \/ BadRequest(r) \/ GetAlert(r) \/ StoreTriage(r)
  \/ \E status \in Decisions : SetAlertStatus(r, status)
  \/ Lookup(r) \/ ReadActivity(r) \/ Call(r) \/ Keep(r) \/ Compile(r)

Next ==
  \/ \E r \in Requests : Serve(r) \/ Hangup(r)
  \/ \E r \in Requests, a \in Alerts \cup {Unknown}, kind \in {"triage", "investigate", "status", "rule"} :
       Arrive(r, kind, a)
  \/ \E a \in Alerts : Merge(a)
  \/ Expire
  \/ \E e \in Envs : Restart(e)

\* Every call ends: queries, Redis commands, the compiler and the provider's HTTP
\* client have time limits or fail with their connection.
Spec == Init /\ [][Next]_vars /\ \A r \in Requests : WF_vars(Serve(r))

-----------------------------------------------------------------------------
(* Properties *)

Models  == {"", "mock", "custom", "gpt-6.1-sol", "claude-opus-4-8"}
Client  == [kind : Providers \cup {"mock", "error"}, model : Models]
Verdict == [alert : Alerts \cup {"none"}, evidence : 0 .. MaxEvidence, model : Models, mock : BOOLEAN]
Request ==
  [kind     : {"none", "triage", "investigate", "status", "rule"},
   stage    : {"idle", "decide", "get", "lookup", "activity", "call", "keep", "store", "compile", "done"},
   alert    : Alerts \cup {"none"}, row : [evidence : 0 .. MaxEvidence, status : Statuses],
   by       : Client, tries : 0 .. Attempts - 1, answered : BOOLEAN, verdict : Verdict, hit : BOOLEAN,
   rule     : Rules \cup {"none", "rejected"}, gone : BOOLEAN, reply : {0, 200, 400, 404, 500, 502}]

\* At most three attempts are made for a request, and each ends in one of the
\* answers that the handlers document.
TypeOK ==
  /\ env \in Envs
  /\ alerts \in [Alerts -> [evidence : 1 .. MaxEvidence, status : Statuses, triage : Verdict]]
  /\ \A k \in DOMAIN cache : cache[k] \in Verdict
  /\ \A u \in usage : u \in [request : Requests, model : Models, cached : BOOLEAN]
  /\ req \in [Requests -> Request]
  /\ decided \in [Alerts -> Statuses]

Given(r, kind) == req[r].kind = kind /\ At(r, "done") /\ req[r].reply = 200

\* The verdict an analyst is given is about the alert and the evidence the
\* request read, although sweeps replace evidence and results stay cached
\* ("The cache key covers the alert's identity and evidence", Triage).
VerdictFitsEvidence ==
  \A r \in Requests : Given(r, "triage") =>
    req[r].verdict.alert = req[r].alert /\ req[r].verdict.evidence = req[r].row.evidence

\* ... and it is of the model this server runs, although servers started before
\* with another model, or with the mock, left their verdicts in Redis ("cached
\* in Redis, keyed by model and evidence", README): a demo answer never passes
\* for a real one.
VerdictOfOwnModel ==
  \A r \in Requests : Given(r, "triage") =>
    req[r].verdict.model = req[r].by.model /\ (req[r].verdict.mock <=> req[r].by.kind = "mock")

\* "provider errors never silently fall back to mock output" (README): a verdict
\* that is served, cached or stored is one that a client gave to some request,
\* also when the provider fails, the cache is lost or the server restarts.
EveryVerdictWasGiven ==
  \A v \in {req[r].verdict : r \in Requests} \cup {cache[k] : k \in DOMAIN cache}
            \cup {alerts[a].triage : a \in Alerts} :
    v # NoVerdict => \E r \in Requests : req[r].answered /\ ~req[r].hit /\ req[r].verdict = v

\* The usage panel shows no call that was not made: a paid row is one answer of
\* the client, a cached row a request that called nobody (LLMUsageSummary).  An
\* answer may lack its row: a write that fails is ignored, and so is an answer
\* that does not parse.
UsageIsReal ==
  \A u \in usage : IF u.cached THEN req[u.request].hit /\ ~req[u.request].answered
                   ELSE req[u.request].answered /\ ~req[u.request].hit

\* An analyst's decision stands: sweeps that merge into the alert, and triage
\* requests that read it before the decision and write after it, do not undo it.
DecisionStands == \A a \in Alerts : alerts[a].status = decided[a]

\* "A key for a different provider never enables live calls, and forcing live
\* mode without the selected key is an error" (NewClient); nothing else that is
\* spelled correctly keeps the server from starting.
KeysStayHome ==
  LET cfg == Load(env)
  IN /\ Live(client) => client.kind = cfg.provider /\ client.kind \in env.keys
     /\ client.kind = "error" <=>
          \/ cfg.provider \notin Providers \/ cfg.mode \notin {"auto", "mock", "live"}
          \/ cfg.mode = "live" /\ cfg.provider \notin env.keys

\* A rule is reported as compiled only if its imports are allowed as well: a rule
\* that imports os and builds is rejected (validate_test.go).
CompiledMeansVetted ==
  \A r \in Requests : Given(r, "rule") => req[r].rule \in {"rejected", "sound"}

\* Every request ends, however often the provider asks to try again.
EveryRequestEnds == \A r \in Requests : ~At(r, "idle") ~> At(r, "done")

=============================================================================
