------------------------------- MODULE Serving -------------------------------
(***************************************************************************)
(* Which model answers: the deployments build_deployment_registry makes of *)
(* the settings (src/backend/inference/registry.py, config.py), the        *)
(* capabilities they claim (capabilities.py), the identity they are found  *)
(* to have (deployment.py and the adapters under inference/engines), the   *)
(* check of it at a production startup (main.py) and at every attempt, and *)
(* the provenance of an answer (router.py).                                *)
(*                                                                         *)
(* A provider serves what its operator loads, and may be given something   *)
(* else at any time; every request to it can fail.  The ranking of the     *)
(* eligible deployments and the deadlines are in Router: here they are     *)
(* tried in any order and the call may be given up between two attempts.   *)
(***************************************************************************)
EXTENDS Integers, Sequences

CONSTANTS
  Configs,  \* Settings: the environment and each enabled engine's deployment
  Loads,    \* what a provider may serve
  Tasks,    \* InferenceTask: what it demands of a deployment, by requirement
  Nothing   \* None, or an empty setting

Engines == {"dynamo", "nim", "vllm", "sglang", "mock"}

\* ModelRef
Fields == {"artifact", "revision", "served"}
NoModel == [f \in Fields |-> Nothing]
MockModel == [artifact |-> "ryuk/mock", revision |-> Nothing, served |-> "mock"]

\* A ModelRef has an artifact, configured or observed; only SGLang's setting has
\* a served name.
ASSUME ServingConstants ==
  /\ \A c \in Configs :
       /\ c.env \in {"development", "test", "production"}
       /\ DOMAIN c.of \subseteq Engines
       /\ \A d \in DOMAIN c.of :
            /\ c.of[d].eligible \in BOOLEAN
            /\ c.of[d].model = NoModel \/ c.of[d].model.artifact # Nothing
            /\ d # "sglang" => c.of[d].model.served = Nothing
  /\ \A l \in Loads : l.artifact # Nothing
  /\ Nothing \notin {"ryuk/mock", "mock"}

VARIABLES
  config,      \* settings
  loaded,      \* what each provider serves now
  process,     \* its "building", "verifying", "up" or "refused"
  toVerify,    \* production candidates still to be inspected
  call         \* one generate_task; heard and seen are a history of its latest
               \* inspection: did the provider answer it, and serving what

servingVars == <<config, loaded, process, toVerify, call>>

NoCall == [at |-> "none", task |-> <<>>, left |-> {}, by |-> Nothing,
           identity |-> "none", model |-> NoModel, heard |-> FALSE, seen |-> NoModel]

ServingInit ==
  /\ config \in Configs
  /\ loaded \in [DOMAIN config.of -> Loads]
  /\ process = "building" /\ toVerify = <<>>
  /\ call = NoCall

Setting(d) == config.of[d]

-----------------------------------------------------------------------------
(* Settings and registry *)

\* The model validators.
ValidSettings ==
  /\ config.env = "production" => "mock" \notin DOMAIN config.of
  /\ \A d \in DOMAIN config.of \ {"sglang", "mock"} : Setting(d).model.artifact # Nothing
  /\ "dynamo" \in DOMAIN config.of => ~ Setting("dynamo").eligible

\* A registry lists deployments in the order of the if statements.
Listed(d, S) == IF d \in S THEN <<d>> ELSE <<>>

Registered(S) ==
  Listed("dynamo", S) \o Listed("nim", S) \o Listed("vllm", S)
    \o Listed("sglang", S) \o Listed("mock", S)

\* DeploymentRef.model
Expected(d) == IF d = "mock" THEN MockModel ELSE Setting(d).model

\* A claim is the set of demands it meets, empty when nothing is known; what is
\* configured does not expire.  site stands for accelerator, topology and
\* data location.
Claims(d) ==
  LET m == Expected(d)
  IN [task_kind |-> IF d = "sglang" THEN {"text"} ELSE {"text", "chat"},
      served_model |-> (IF d \in {"sglang", "mock"} THEN {m.artifact, m.served} ELSE {m.artifact})
                         \ {Nothing},
      context_capacity |-> IF d = "mock" THEN {} ELSE 1..Setting(d).context,
      structured_output |-> {FALSE},
      streaming |-> {FALSE},
      site |-> IF d = "mock" THEN {} ELSE Setting(d).sites,
      production_eligible |-> {IF d = "mock" THEN FALSE ELSE Setting(d).eligible}]

\* verify_production_deployments: candidates
Candidates == Registered({d \in DOMAIN config.of : TRUE \in Claims(d).production_eligible})

\* secret: the reference to the provider's key could be resolved
BuildRegistry(secret) ==
  LET ok == /\ ValidSettings
            /\ \A d, e \in DOMAIN config.of : Setting(d).id = Setting(e).id => d = e
            /\ "nim" \in DOMAIN config.of => secret
  IN /\ process = "building"
     /\ toVerify' = IF config.env = "production" THEN Candidates ELSE <<>>
     /\ process' = IF ~ ok \/ (config.env = "production" /\ Candidates = <<>>) THEN "refused"
                 ELSE IF config.env = "production" THEN "verifying" ELSE "up"
     /\ UNCHANGED <<config, loaded, call>>

-----------------------------------------------------------------------------
(* Identity *)

\* discover_model_identity of each adapter, when its requests succeed.
DiscoveredVLLM(l) == [artifact |-> l.artifact, revision |-> l.revision, served |-> Nothing]

\* The weight version is not taken for a revision.
DiscoveredSGLang(l) == [artifact |-> l.artifact, revision |-> Nothing, served |-> l.served]

\* A managed product lists what it serves: the configured model is among it or
\* the discovery fails.
DiscoveredManaged(d, l) ==
  IF l.artifact = Expected(d).artifact
  THEN [artifact |-> l.artifact, revision |-> Nothing, served |-> l.artifact]
  ELSE NoModel

\* The release and the profile must also be the pinned ones.
DiscoveredNIM(l) == IF l.pinned THEN DiscoveredManaged("nim", l) ELSE NoModel

Discovered(d) ==
  CASE d = "mock" -> MockModel
    [] d = "vllm" -> DiscoveredVLLM(loaded[d])
    [] d = "sglang" -> DiscoveredSGLang(loaded[d])
    [] d = "dynamo" -> DiscoveredManaged(d, loaded[d])
    [] d = "nim" -> DiscoveredNIM(loaded[d])

\* Mutant: a configured field that nobody observed is taken as confirmed.
AssessTrusting(expected, observed) ==
  LET stated == {f \in Fields : expected[f] # Nothing}
  IN IF expected = NoModel THEN "unverified"
     ELSE IF observed = NoModel THEN "configured_only"
     ELSE IF \E f \in stated : observed[f] \notin {Nothing, expected[f]} THEN "mismatch"
     ELSE "verified"

\* assess_model_identity; no registered adapter observes a catalogue only.
Assess(expected, observed) ==
  LET stated == {f \in Fields : expected[f] # Nothing}
  IN IF expected = NoModel THEN "unverified"
     ELSE IF observed = NoModel THEN "configured_only"
     ELSE IF \E f \in stated : observed[f] \notin {Nothing, expected[f]} THEN "mismatch"
     ELSE IF \E f \in stated : observed[f] = Nothing THEN "configured_only"
     ELSE "verified"

\* inspect_identity: a failed discovery leaves what is configured, whether the
\* provider could not be asked or answered what the adapter refuses.
Observed(d, reached) == IF reached THEN Discovered(d) ELSE NoModel

Verify(reached) ==
  /\ process = "verifying"
  /\ IF toVerify = <<>>
     THEN process' = "up" /\ UNCHANGED toVerify
     ELSE LET d == Head(toVerify)
          IN IF Assess(Expected(d), Observed(d, reached)) = "verified"
             THEN toVerify' = Tail(toVerify) /\ UNCHANGED process
             ELSE process' = "refused" /\ UNCHANGED toVerify
  /\ UNCHANGED <<config, loaded, call>>

-----------------------------------------------------------------------------
(* One call *)

\* The endpoints ask for a production deployment in production.
Demands(task) ==
  IF config.env # "production" THEN task
  ELSE [q \in DOMAIN task \cup {"production_eligible"} |->
          IF q = "production_eligible" THEN TRUE ELSE task[q]]

\* evaluate_capabilities
Rejections(task, d) ==
  {[requirement |-> q,
    reason |-> CASE Claims(d)[q] = {} -> "unknown"
                 [] Claims(d)[q] # {} /\ q = "served_model" -> "mismatch"
                 [] Claims(d)[q] # {} /\ q = "context_capacity" -> "insufficient"
                 [] OTHER -> "unsupported"] :
     q \in {q \in DOMAIN task : task[q] \notin Claims(d)[q]}}

Submit(task) ==
  LET eligible == {d \in DOMAIN config.of : Rejections(Demands(task), d) = {}}
  IN /\ process = "up"
     /\ call.at = "none"
     /\ call' = [NoCall EXCEPT !.task = Demands(task), !.left = eligible,
                               !.at = IF eligible = {} THEN "failed" ELSE "routing"]
     /\ UNCHANGED <<config, loaded, process, toVerify>>

Attempt(d) ==
  /\ call.at = "routing"
  /\ d \in call.left
  /\ call' = [call EXCEPT !.at = "inspecting", !.by = d, !.left = @ \ {d}]
  /\ UNCHANGED <<config, loaded, process, toVerify>>

\* Mutant: a deployment is used whatever was found.
RefusedNever(identity) == FALSE

\* _execute_task
Refused(identity) == identity = "mismatch"

\* _build_provenance: what was observed, else what is configured.
Inspect(reached) ==
  LET d == call.by
      o == Observed(d, reached)
      identity == Assess(Expected(d), o)
  IN /\ call.at = "inspecting"
     /\ call' = [call EXCEPT !.at = IF Refused(identity) THEN "routing" ELSE "generating",
                             !.identity = identity,
                             !.model = IF o = NoModel THEN Expected(d) ELSE o,
                             !.heard = reached,
                             !.seen = IF d = "mock" THEN MockModel ELSE loaded[d]]
     /\ UNCHANGED <<config, loaded, process, toVerify>>

\* What the adapters make of an HTTP status, a transport error, a timeout or a
\* body they cannot read.
HttpFailures ==
  {"capacity_exceeded", "deadline_exceeded", "generation_failure",
   "upstream_protocol_failure", "deployment_unavailable"}

\* A managed product may also accept the work for later.
ManagedFailures == HttpFailures \cup {"asynchronous_result_pending"}

Outcomes(d) ==
  {"answered"} \cup
  CASE d = "mock" -> {}
    [] d \in {"vllm", "sglang"} -> HttpFailures
    [] d \in {"dynamo", "nim"} -> ManagedFailures

\* Work that was accepted is not given to another deployment.
Generate(outcome) ==
  /\ call.at = "generating"
  /\ outcome \in Outcomes(call.by)
  /\ call' = [call EXCEPT !.at = CASE outcome = "answered" -> "answered"
                                   [] outcome = "asynchronous_result_pending" -> "failed"
                                   [] OTHER -> "routing"]
  /\ UNCHANGED <<config, loaded, process, toVerify>>

\* No deployment is left or routable, or the call ran out of time or attempts,
\* or its client is gone.
GiveUp ==
  /\ call.at \in {"routing", "inspecting", "generating"}
  /\ call' = [call EXCEPT !.at = "failed"]
  /\ UNCHANGED <<config, loaded, process, toVerify>>

\* The operator of a provider.
Redeploy(d, l) ==
  /\ process \in {"verifying", "up"} /\ call.at \notin {"answered", "failed"}
  /\ loaded' = [loaded EXCEPT ![d] = l]
  /\ UNCHANGED <<config, process, toVerify, call>>

ServingNext ==
  \/ \E secret \in BOOLEAN : BuildRegistry(secret)
  \/ \E reached \in BOOLEAN : Verify(reached) \/ Inspect(reached)
  \/ \E task \in Tasks : Submit(task)
  \/ \E d \in call.left : Attempt(d)
  \/ \E outcome \in Outcomes("nim") : Generate(outcome)
  \/ GiveUp
  \/ \E d \in DOMAIN config.of \ {"mock"}, l \in Loads : Redeploy(d, l)

ServingSpec == ServingInit /\ [][ServingNext]_servingVars

-----------------------------------------------------------------------------
\* What an inspection reports of a model as it is loaded.  A managed product
\* reports nothing: it confirms what is configured, or the discovery fails.
Reports(d) ==
  CASE d = "vllm" -> {"artifact", "revision"}
    [] d = "sglang" -> {"artifact", "served"}
    [] OTHER -> {}

\* ADR-002: production routing rejects mismatch and unverified.  Whatever is
\* enabled, asked for or loaded after startup, a call in production is answered
\* only by a deployment that is eligible for it and has a configured model; and
\* by one that reports what is loaded only if no configured field was loaded
\* differently when it answered the inspection.
ProductionIsVerified ==
  call.at = "answered" /\ config.env = "production" =>
    LET d == call.by
    IN /\ d # "mock" /\ Setting(d).eligible
       /\ Expected(d) # NoModel
       /\ call.heard => \A f \in Reports(d) :
            Expected(d)[f] # Nothing => call.seen[f] \in {Nothing, Expected(d)[f]}

\* docs/integrations/nim-compatibility.md: "Identity inspection fails closed when
\* the running release, profile, or served model differs."  In production a NIM
\* answers a call only if it was running as pinned and configured when it
\* answered the inspection.  The code does not keep this: inspect_identity takes
\* the adapter's refusal for a discovery that failed, and _execute_task goes on.
InspectionFailsClosed ==
  call.at = "answered" /\ config.env = "production" /\ call.by = "nim" /\ call.heard =>
    call.seen.pinned /\ call.seen.artifact = Expected("nim").artifact

\* ADR-002: an answer is reported as verified only if the provider was found to
\* serve every configured field of the model when it was inspected, what is
\* reported never contradicts the configuration, and a model the client
\* required is the one that is reported.
ProvenanceIsTrue ==
  call.at = "answered" =>
    LET expected == Expected(call.by)
    IN /\ \A f \in Fields : expected[f] # Nothing =>
            /\ call.identity = "verified" => call.seen[f] = expected[f]
            /\ call.model[f] \in {Nothing, expected[f]} \/ call.identity = "unverified"
       /\ "served_model" \in DOMAIN call.task =>
            /\ call.identity # "unverified"
            /\ call.task.served_model \in {expected.artifact, expected.served}
            /\ call.model.artifact = expected.artifact
=============================================================================
