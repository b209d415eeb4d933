----------------------------- MODULE ServingProofs -----------------------------
(***************************************************************************)
(* Proofs about Serving, for any settings, tasks and models that providers *)
(* may be given.                                                           *)
(***************************************************************************)
EXTENDS Serving, TLAPS

Holds(s, d) == \E i \in DOMAIN s : s[i] = d

LEMMA ConcatHolds ==
  ASSUME NEW s \in Seq(Engines), NEW t \in Seq(Engines), NEW d
  PROVE  s \o t \in Seq(Engines) /\ (Holds(s, d) \/ Holds(t, d) => Holds(s \o t, d))
<1>1. /\ s \o t \in Seq(Engines) /\ Len(s \o t) = Len(s) + Len(t)
      /\ \A i \in 1..Len(s) : (s \o t)[i] = s[i]
      /\ \A i \in 1..Len(t) : (s \o t)[Len(s) + i] = t[i]
      /\ Len(s) \in Nat /\ Len(t) \in Nat
      /\ DOMAIN s = 1..Len(s) /\ DOMAIN t = 1..Len(t) /\ DOMAIN (s \o t) = 1..Len(s \o t)
  OBVIOUS
<1>2. CASE Holds(s, d)
  <2>1. PICK i \in 1..Len(s) : s[i] = d
    BY <1>1, <1>2 DEF Holds
  <2>2. i \in DOMAIN (s \o t) /\ (s \o t)[i] = d
    BY <1>1, <2>1
  <2>3. QED
    BY <1>1, <2>2 DEF Holds
<1>3. CASE Holds(t, d)
  <2>1. PICK i \in 1..Len(t) : t[i] = d
    BY <1>1, <1>3 DEF Holds
  <2>2. Len(s) + i \in DOMAIN (s \o t) /\ (s \o t)[Len(s) + i] = d
    BY <1>1, <2>1
  <2>3. QED
    BY <1>1, <2>2 DEF Holds
<1>4. QED
  BY <1>1, <1>2, <1>3

LEMMA ListedHolds ==
  ASSUME NEW d \in Engines, NEW S
  PROVE  Listed(d, S) \in Seq(Engines) /\ (d \in S => Holds(Listed(d, S), d))
<1>1. CASE d \in S
  <2>1. Listed(d, S) = <<d>>
    BY <1>1 DEF Listed
  <2>2. <<d>> \in Seq(Engines) /\ 1 \in DOMAIN <<d>> /\ <<d>>[1] = d
    OBVIOUS
  <2>3. QED
    BY <2>1, <2>2 DEF Holds
<1>2. CASE d \notin S
  BY <1>2 DEF Listed
<1>3. QED
  BY <1>1, <1>2

\* The registry leaves nothing out.
LEMMA RegisteredHolds ==
  ASSUME NEW S \in SUBSET Engines
  PROVE  Registered(S) \in Seq(Engines) /\ \A d \in S : Holds(Registered(S), d)
<1>1. PICK a, b, c, e, f : /\ a = Listed("dynamo", S) /\ b = Listed("nim", S)
                           /\ c = Listed("vllm", S) /\ e = Listed("sglang", S)
                           /\ f = Listed("mock", S)
  OBVIOUS
<1>2. /\ a \in Seq(Engines) /\ b \in Seq(Engines) /\ c \in Seq(Engines)
      /\ e \in Seq(Engines) /\ f \in Seq(Engines)
      /\ "dynamo" \in S => Holds(a, "dynamo")
      /\ "nim" \in S => Holds(b, "nim")
      /\ "vllm" \in S => Holds(c, "vllm")
      /\ "sglang" \in S => Holds(e, "sglang")
      /\ "mock" \in S => Holds(f, "mock")
  BY <1>1, ListedHolds DEF Engines
<1>3. PICK ab : ab = a \o b
  OBVIOUS
<1>4. ab \in Seq(Engines) /\ \A d : Holds(a, d) \/ Holds(b, d) => Holds(ab, d)
  BY <1>2, <1>3, ConcatHolds
<1>5. PICK abc : abc = ab \o c
  OBVIOUS
<1>6. abc \in Seq(Engines) /\ \A d : Holds(ab, d) \/ Holds(c, d) => Holds(abc, d)
  BY <1>2, <1>4, <1>5, ConcatHolds
<1>7. PICK abce : abce = abc \o e
  OBVIOUS
<1>8. abce \in Seq(Engines) /\ \A d : Holds(abc, d) \/ Holds(e, d) => Holds(abce, d)
  BY <1>2, <1>6, <1>7, ConcatHolds
<1>9. PICK all : all = abce \o f
  OBVIOUS
<1>10. all \in Seq(Engines) /\ \A d : Holds(abce, d) \/ Holds(f, d) => Holds(all, d)
  BY <1>2, <1>8, <1>9, ConcatHolds
<1>11. Registered(S) = all
  BY <1>1, <1>3, <1>5, <1>7, <1>9 DEF Registered
<1>12. ASSUME NEW d \in S
       PROVE  Holds(all, d)
  <2>1. d \in {"dynamo", "nim", "vllm", "sglang", "mock"}
    BY DEF Engines
  <2>2. QED
    BY <1>2, <1>4, <1>6, <1>8, <1>10, <2>1
<1>13. QED
  BY <1>10, <1>11, <1>12

LEMMA TailHolds ==
  ASSUME NEW s \in Seq(Engines), s # <<>>, NEW d, Holds(s, d), d # Head(s)
  PROVE  Holds(Tail(s), d)
<1>1. PICK i \in 1..Len(s) : s[i] = d
  BY DEF Holds
<1>2. /\ Len(s) \in Nat /\ Len(s) > 0 /\ Head(s) = s[1] /\ Len(Tail(s)) = Len(s) - 1
      /\ \A j \in 1..(Len(s) - 1) : Tail(s)[j] = s[j + 1]
      /\ DOMAIN Tail(s) = 1..(Len(s) - 1)
  OBVIOUS
<1>3. i - 1 \in 1..(Len(s) - 1) /\ i - 1 + 1 = i
  BY <1>1, <1>2
<1>4. QED
  BY <1>1, <1>2, <1>3 DEF Holds

-----------------------------------------------------------------------------
\* The deployments evaluate_capabilities finds nothing against
Eligible(task) == {d \in DOMAIN config.of : \A q \in DOMAIN task : task[q] \in Claims(d)[q]}

\* What an inspection that did not end the attempt left: o is what it observed.
Inspection(o) ==
  /\ call.identity = Assess(Expected(call.by), o)
  /\ call.identity # "mismatch"
  /\ call.model = IF o = NoModel THEN Expected(call.by) ELSE o
  /\ o # NoModel => o["artifact"] # Nothing
  /\ \A f \in Fields : Expected(call.by)[f] # Nothing => o[f] \in {Nothing, call.seen[f]}
  /\ call.heard => \A f \in Reports(call.by) : o # NoModel /\ o[f] = call.seen[f]

CallShape ==
  call = [at |-> call.at, task |-> call.task, left |-> call.left, by |-> call.by,
          identity |-> call.identity, model |-> call.model, heard |-> call.heard,
          seen |-> call.seen]

\* A production process verifies every candidate before it is up.
StartupInv ==
  /\ config \in Configs
  /\ loaded \in [DOMAIN config.of -> Loads]
  /\ toVerify \in Seq(Engines)
  /\ config.env = "production" /\ process \in {"verifying", "up"} =>
       \A d \in DOMAIN config.of :
         TRUE \in Claims(d).production_eligible =>
           Holds(toVerify, d) \/ Expected(d) # NoModel
  /\ config.env = "production" /\ process = "up" => toVerify = <<>>

\* A call is served by what is eligible for all that it and the environment ask.
CallInv ==
  /\ CallShape
  /\ call.at \in {"none", "routing", "inspecting", "generating", "answered", "failed"}
  /\ call.at # "none" => process = "up"
  /\ call.at # "none" /\ config.env = "production" =>
       "production_eligible" \in DOMAIN call.task /\ call.task["production_eligible"] = TRUE
  /\ call.left \subseteq Eligible(call.task)
  /\ call.at \in {"inspecting", "generating", "answered"} => call.by \in Eligible(call.task)
  /\ call.at \in {"generating", "answered"} => \E o : Inspection(o)

ServingInv == StartupInv /\ CallInv

-----------------------------------------------------------------------------
LEMMA SettingsStay ==
  ASSUME UNCHANGED config
  PROVE  /\ \A d : Expected(d)' = Expected(d) /\ Claims(d)' = Claims(d)
         /\ \A t : Eligible(t)' = Eligible(t)
<1>1. \A d : Expected(d)' = Expected(d)
  BY DEF Expected, Setting
<1>2. \A d : Claims(d)' = Claims(d)
  BY <1>1 DEF Claims, Setting
<1>3. \A t : Eligible(t)' = Eligible(t)
  BY <1>2 DEF Eligible
<1>4. QED
  BY <1>1, <1>2, <1>3

LEMMA StartupStays ==
  ASSUME StartupInv, UNCHANGED <<config, loaded, process, toVerify>>
  PROVE  StartupInv'
BY SettingsStay DEF StartupInv

LEMMA CallStays ==
  ASSUME CallInv, UNCHANGED <<config, call>>, process = "up" => process' = "up"
  PROVE  CallInv'
<1>1. \A o : Inspection(o) => Inspection(o)'
  BY SettingsStay DEF Inspection
<1>2. CallShape'
  BY DEF CallInv, CallShape
<1>3. call.left \subseteq Eligible(call.task) => (call.left \subseteq Eligible(call.task))'
  BY SettingsStay
<1>4. call.by \in Eligible(call.task) => (call.by \in Eligible(call.task))'
  BY SettingsStay
<1>5. QED
  BY <1>1, <1>2, <1>3, <1>4 DEF CallInv

\* The claim of a deployment that is eligible for production
LEMMA ProductionClaim ==
  ASSUME StartupInv, NEW d \in DOMAIN config.of
  PROVE  /\ d \in Engines
         /\ Claims(d)["production_eligible"] = {IF d = "mock" THEN FALSE ELSE Setting(d).eligible}
         /\ TRUE \in Claims(d)["production_eligible"] => d # "mock" /\ Setting(d).eligible
<1>1. d \in Engines /\ Setting(d).eligible \in BOOLEAN
  BY ServingConstants DEF StartupInv, Setting
<1>2. Claims(d)["production_eligible"] = {IF d = "mock" THEN FALSE ELSE Setting(d).eligible}
  BY DEF Claims
<1>3. QED
  BY <1>1, <1>2

LEMMA NothingAgainst ==
  ASSUME NEW task, NEW d, Rejections(task, d) = {}
  PROVE  \A q \in DOMAIN task : task[q] \in Claims(d)[q]
<1> DEFINE R(q) == [requirement |-> q,
                    reason |-> CASE Claims(d)[q] = {} -> "unknown"
                                 [] Claims(d)[q] # {} /\ q = "served_model" -> "mismatch"
                                 [] Claims(d)[q] # {} /\ q = "context_capacity" -> "insufficient"
                                 [] OTHER -> "unsupported"]
           B == {q \in DOMAIN task : task[q] \notin Claims(d)[q]}
<1>1. Rejections(task, d) = {R(q) : q \in B}
  BY DEF Rejections
<1> HIDE DEF R
<1>2. B = {}
  <2> HIDE DEF B
  <2>1. QED
    BY <1>1
<1>3. QED
  BY <1>2

-----------------------------------------------------------------------------
LEMMA BuildStep ==
  ASSUME ServingInv, NEW secret \in BOOLEAN, BuildRegistry(secret)
  PROVE  ServingInv'
<1>1. CallInv'
  BY CallStays DEF ServingInv, BuildRegistry
<1>2. PICK S : S = {d \in DOMAIN config.of : TRUE \in Claims(d).production_eligible}
  OBVIOUS
<1>3. S \in SUBSET Engines
  BY <1>2, ServingConstants DEF ServingInv, StartupInv
<1>4. Candidates = Registered(S)
  BY <1>2 DEF Candidates
<1>5. Candidates \in Seq(Engines) /\ \A d \in S : Holds(Candidates, d)
  BY <1>3, <1>4, RegisteredHolds
<1>6. toVerify' \in Seq(Engines) /\ (config.env = "production" => toVerify' = Candidates)
  <2>1. <<>> \in Seq(Engines)
    OBVIOUS
  <2>2. QED
    BY <1>5, <2>1 DEF BuildRegistry
<1>7. ~ (config.env = "production" /\ process' = "up")
  BY DEF BuildRegistry
<1>8. config' = config /\ loaded' = loaded
  BY DEF BuildRegistry
<1>9. config.env = "production" =>
        \A d \in DOMAIN config.of :
          TRUE \in Claims(d).production_eligible => Holds(toVerify', d)
  BY <1>2, <1>5, <1>6
<1>10. StartupInv'
  BY <1>6, <1>7, <1>8, <1>9, SettingsStay DEF ServingInv, StartupInv
<1>11. QED
  BY <1>1, <1>10 DEF ServingInv

\* What is verified names a model.
LEMMA VerifiedNames ==
  ASSUME NEW expected, NEW observed, Assess(expected, observed) = "verified"
  PROVE  expected # NoModel
BY DEF Assess

LEMMA VerifyStep ==
  ASSUME ServingInv, NEW reached \in BOOLEAN, Verify(reached)
  PROVE  ServingInv'
<1>1. CallInv'
  BY CallStays DEF ServingInv, Verify
<1>2. /\ process = "verifying" /\ config' = config /\ loaded' = loaded
      /\ toVerify \in Seq(Engines) /\ StartupInv
  BY DEF Verify, ServingInv, StartupInv
<1>3. CASE toVerify = <<>>
  <2>1. process' = "up" /\ toVerify' = toVerify
    BY <1>3 DEF Verify
  <2>2. StartupInv'
    BY <1>2, <1>3, <2>1, SettingsStay DEF StartupInv
  <2>3. QED
    BY <1>1, <2>2 DEF ServingInv
<1>4. CASE toVerify # <<>> /\ Assess(Expected(Head(toVerify)), Observed(Head(toVerify), reached)) = "verified"
  <2>1. toVerify' = Tail(toVerify) /\ process' = "verifying"
    BY <1>2, <1>4 DEF Verify
  <2>2. Expected(Head(toVerify)) # NoModel
    BY <1>4, VerifiedNames
  <2>3. toVerify' \in Seq(Engines)
    BY <1>2, <1>4, <2>1
  <2>4. ASSUME config.env = "production", NEW d \in DOMAIN config.of,
               TRUE \in Claims(d).production_eligible
        PROVE  Holds(toVerify', d) \/ Expected(d) # NoModel
    <3>1. Holds(toVerify, d) \/ Expected(d) # NoModel
      BY <1>2, <2>4 DEF StartupInv
    <3>2. CASE Holds(toVerify, d) /\ d # Head(toVerify)
      BY <1>2, <1>4, <2>1, <3>2, TailHolds
    <3>3. CASE d = Head(toVerify)
      BY <2>2, <3>3
    <3>4. QED
      BY <3>1, <3>2, <3>3
  <2>5. StartupInv'
    BY <1>2, <2>1, <2>3, <2>4, SettingsStay DEF StartupInv
  <2>6. QED
    BY <1>1, <2>5 DEF ServingInv
<1>5. CASE toVerify # <<>> /\ Assess(Expected(Head(toVerify)), Observed(Head(toVerify), reached)) # "verified"
  <2>1. toVerify' = toVerify /\ process' = "refused"
    BY <1>2, <1>5 DEF Verify
  <2>2. StartupInv'
    BY <1>2, <2>1, SettingsStay DEF StartupInv
  <2>3. QED
    BY <1>1, <2>2 DEF ServingInv
<1>6. QED
  BY <1>3, <1>4, <1>5

LEMMA SubmitStep ==
  ASSUME ServingInv, NEW task \in Tasks, Submit(task)
  PROVE  ServingInv'
<1>1. PICK t, E : t = Demands(task) /\ E = {d \in DOMAIN config.of : Rejections(t, d) = {}}
  OBVIOUS
<1>2. E \subseteq Eligible(t)
  <2>1. SUFFICES ASSUME NEW d \in E
                 PROVE  d \in Eligible(t)
    OBVIOUS
  <2>2. d \in DOMAIN config.of /\ Rejections(t, d) = {}
    BY <1>1
  <2>3. \A q \in DOMAIN t : t[q] \in Claims(d)[q]
    BY <2>2, NothingAgainst
  <2>4. QED
    BY <2>2, <2>3 DEF Eligible
<1>3. config.env = "production" =>
        "production_eligible" \in DOMAIN t /\ t["production_eligible"] = TRUE
  BY <1>1 DEF Demands
<1>4. PICK at \in {"failed", "routing"} : at = IF E = {} THEN "failed" ELSE "routing"
  OBVIOUS
<1>5. call' = [NoCall EXCEPT !.task = t, !.left = E, !.at = at]
  BY <1>1, <1>4 DEF Submit
<1>6. call' = [at |-> at, task |-> t, left |-> E, by |-> Nothing,
               identity |-> "none", model |-> NoModel, heard |-> FALSE, seen |-> NoModel]
  BY <1>5 DEF NoCall
<1>7. process = "up" /\ UNCHANGED <<config, loaded, process, toVerify>>
  BY DEF Submit
<1>8. CallInv'
  <2>1. CallShape' /\ call'.at = at /\ call'.task = t /\ call'.left = E
    BY <1>6 DEF CallShape
  <2>2. (call.left \subseteq Eligible(call.task))'
    BY <1>2, <1>7, <2>1, SettingsStay
  <2>3. QED
    BY <1>3, <1>4, <1>7, <2>1, <2>2 DEF CallInv
<1>9. QED
  BY <1>7, <1>8, StartupStays DEF ServingInv

LEMMA AttemptStep ==
  ASSUME ServingInv, NEW d \in call.left, Attempt(d)
  PROVE  ServingInv'
<1>1. /\ CallInv /\ CallShape /\ d \in Eligible(call.task) /\ process = "up" /\ call.at = "routing"
      /\ UNCHANGED <<config, loaded, process, toVerify>>
  BY DEF ServingInv, CallInv, Attempt
<1>2. call' = [call EXCEPT !.at = "inspecting", !.by = d, !.left = @ \ {d}]
  BY DEF Attempt
<1>3. call' = [at |-> "inspecting", task |-> call.task, left |-> call.left \ {d}, by |-> d,
               identity |-> call.identity, model |-> call.model, heard |-> call.heard,
               seen |-> call.seen]
  BY <1>1, <1>2 DEF CallShape
<1>4. /\ CallShape' /\ call'.at = "inspecting" /\ call'.task = call.task
      /\ call'.left = call.left \ {d} /\ call'.by = d
  BY <1>3 DEF CallShape
<1>5. (call.left \subseteq Eligible(call.task))' /\ (call.by \in Eligible(call.task))'
  BY <1>1, <1>4, SettingsStay DEF CallInv
<1>6. CallInv'
  BY <1>1, <1>4, <1>5 DEF CallInv
<1>7. QED
  BY <1>1, <1>6, StartupStays DEF ServingInv

\* A step of the call that only moves it on
LEMMA MoveStep ==
  ASSUME ServingInv, NEW at, call.at # "none",
         at \in {"routing", "failed"} \/ (at = "answered" /\ call.at = "generating"),
         call' = [call EXCEPT !.at = at], UNCHANGED <<config, loaded, process, toVerify>>
  PROVE  ServingInv'
<1>1. CallInv /\ CallShape
  BY DEF ServingInv, CallInv
<1>2. call' = [at |-> at, task |-> call.task, left |-> call.left, by |-> call.by,
               identity |-> call.identity, model |-> call.model, heard |-> call.heard,
               seen |-> call.seen]
  BY <1>1 DEF CallShape
<1>3. /\ CallShape' /\ call'.at = at /\ call'.task = call.task
      /\ call'.left = call.left /\ call'.by = call.by /\ call'.identity = call.identity
      /\ call'.model = call.model /\ call'.heard = call.heard /\ call'.seen = call.seen
  BY <1>2 DEF CallShape
<1>4. \A o : Inspection(o) => Inspection(o)'
  BY <1>3, SettingsStay DEF Inspection
<1>5. /\ (call.left \subseteq Eligible(call.task))'
      /\ call.by \in Eligible(call.task) => (call.by \in Eligible(call.task))'
  BY <1>1, <1>3, SettingsStay DEF CallInv
<1>6. CallInv'
  BY <1>1, <1>3, <1>4, <1>5 DEF CallInv
<1>7. QED
  BY <1>6, StartupStays DEF ServingInv

\* No adapter reports a field that its provider does not serve, except a served
\* name where none is configured.
LEMMA ObservedTrue ==
  ASSUME StartupInv, NEW d \in DOMAIN config.of, NEW reached \in BOOLEAN,
         NEW o, o = Observed(d, reached)
  PROVE  /\ o # NoModel => o["artifact"] # Nothing
         /\ \A f \in Fields : Expected(d)[f] # Nothing =>
              o[f] \in {Nothing, IF d = "mock" THEN MockModel[f] ELSE loaded[d][f]}
         /\ reached => \A f \in Reports(d) : d # "mock" /\ o # NoModel /\ o[f] = loaded[d][f]
<1>1. d \in Engines /\ loaded[d] \in Loads /\ loaded[d]["artifact"] # Nothing
  BY ServingConstants DEF StartupInv
<1>2. d # "sglang" /\ d # "mock" => Expected(d)["served"] = Nothing
  BY ServingConstants DEF StartupInv, Expected, Setting
<1>3. \A f \in Fields : NoModel[f] = Nothing
  BY DEF NoModel
<1>4. CASE o = NoModel
  <2>1. ASSUME reached, d \in {"vllm", "sglang"}
        PROVE  FALSE
    <3>1. Discovered(d)["artifact"] = loaded[d]["artifact"]
      BY <2>1 DEF Discovered, DiscoveredVLLM, DiscoveredSGLang
    <3>2. QED
      BY <1>1, <1>3, <1>4, <2>1, <3>1 DEF Observed, Fields
  <2>2. d \notin {"vllm", "sglang"} => Reports(d) = {}
    BY DEF Reports
  <2>3. QED
    BY <1>3, <1>4, <2>1, <2>2
<1>5. CASE o # NoModel
  <2>1. o = Discovered(d)
    BY <1>5 DEF Observed
  <2>2. CASE d = "mock"
    <3>1. o = MockModel
      BY <2>1, <2>2 DEF Discovered
    <3>2. MockModel["artifact"] # Nothing
      BY ServingConstants DEF MockModel
    <3>3. QED
      BY <2>2, <3>1, <3>2 DEF Reports
  <2>3. CASE d = "vllm"
    <3>1. o = [artifact |-> loaded[d].artifact, revision |-> loaded[d].revision, served |-> Nothing]
      BY <2>1, <2>3 DEF Discovered, DiscoveredVLLM
    <3>2. QED
      BY <1>1, <1>5, <2>3, <3>1 DEF Fields, Reports
  <2>4. CASE d = "sglang"
    <3>1. o = [artifact |-> loaded[d].artifact, revision |-> Nothing, served |-> loaded[d].served]
      BY <2>1, <2>4 DEF Discovered, DiscoveredSGLang
    <3>2. QED
      BY <1>1, <1>5, <2>4, <3>1 DEF Fields, Reports
  <2>5. CASE d \in {"dynamo", "nim"}
    <3>1. o = DiscoveredManaged(d, loaded[d])
      BY <1>5, <2>1, <2>5 DEF Discovered, DiscoveredNIM
    <3>2. o = [artifact |-> loaded[d].artifact, revision |-> Nothing, served |-> loaded[d].artifact]
      BY <1>5, <3>1 DEF DiscoveredManaged
    <3>3. QED
      BY <1>1, <1>2, <2>5, <3>2 DEF Fields, Reports
  <2>6. QED
    BY <1>1, <2>2, <2>3, <2>4, <2>5 DEF Engines
<1>6. QED
  BY <1>4, <1>5

LEMMA InspectStep ==
  ASSUME ServingInv, NEW reached \in BOOLEAN, Inspect(reached)
  PROVE  ServingInv'
<1>1. /\ StartupInv /\ CallInv /\ CallShape /\ call.at = "inspecting" /\ process = "up"
      /\ call.by \in Eligible(call.task) /\ UNCHANGED <<config, loaded, process, toVerify>>
  BY DEF ServingInv, CallInv, Inspect
<1>2. PICK d, o, identity : /\ d = call.by /\ o = Observed(d, reached)
                            /\ identity = Assess(Expected(d), o)
  OBVIOUS
<1>3. d \in DOMAIN config.of
  BY <1>1, <1>2 DEF Eligible
<1>4. PICK at, model, seen :
        /\ at = IF Refused(identity) THEN "routing" ELSE "generating"
        /\ model = IF o = NoModel THEN Expected(d) ELSE o
        /\ seen = IF d = "mock" THEN MockModel ELSE loaded[d]
  OBVIOUS
<1>5. call' = [call EXCEPT !.at = at, !.identity = identity, !.model = model,
                           !.heard = reached, !.seen = seen]
  BY <1>2, <1>4 DEF Inspect
<1>6. call' = [at |-> at, task |-> call.task, left |-> call.left, by |-> d,
               identity |-> identity, model |-> model, heard |-> reached, seen |-> seen]
  BY <1>1, <1>2, <1>5 DEF CallShape
<1>7. /\ CallShape' /\ call'.at = at /\ call'.task = call.task /\ call'.left = call.left
      /\ call'.by = d /\ call'.identity = identity /\ call'.model = model
      /\ call'.heard = reached /\ call'.seen = seen
  BY <1>6 DEF CallShape
<1>8. at \in {"routing", "generating"} /\ (at = "generating" => identity # "mismatch")
  BY <1>4 DEF Refused
<1>9. /\ o # NoModel => o["artifact"] # Nothing
      /\ \A f \in Fields : Expected(d)[f] # Nothing => o[f] \in {Nothing, seen[f]}
      /\ reached => \A f \in Reports(d) : o # NoModel /\ o[f] = seen[f]
  BY <1>1, <1>2, <1>3, <1>4, ObservedTrue
<1>10. at = "generating" => Inspection(o)'
  <2>1. SUFFICES ASSUME at = "generating"
                 PROVE  Inspection(o)'
    OBVIOUS
  <2>2. Expected(d)' = Expected(d)
    BY <1>1, SettingsStay
  <2>3. call'.identity = Assess(Expected(d), o) /\ call'.identity # "mismatch"
    BY <1>2, <1>7, <1>8, <2>1
  <2>4. call'.model = IF o = NoModel THEN Expected(d) ELSE o
    BY <1>4, <1>7
  <2>5. QED
    BY <1>7, <1>9, <2>2, <2>3, <2>4 DEF Inspection, Expected, Setting
<1>11. /\ (call.left \subseteq Eligible(call.task))' /\ (call.by \in Eligible(call.task))'
  BY <1>1, <1>2, <1>7, SettingsStay DEF CallInv
<1>12. CallInv'
  BY <1>1, <1>7, <1>8, <1>10, <1>11 DEF CallInv
<1>13. QED
  BY <1>1, <1>12, StartupStays DEF ServingInv

LEMMA RedeployStep ==
  ASSUME ServingInv, NEW d \in DOMAIN config.of, NEW l \in Loads, Redeploy(d, l)
  PROVE  ServingInv'
<1>1. CallInv'
  BY CallStays DEF ServingInv, Redeploy
<1>2. loaded' \in [DOMAIN config.of -> Loads] /\ UNCHANGED <<config, process, toVerify>>
  BY DEF ServingInv, StartupInv, Redeploy
<1>3. StartupInv'
  BY <1>2, SettingsStay DEF ServingInv, StartupInv
<1>4. QED
  BY <1>1, <1>3 DEF ServingInv

LEMMA ServingStep ==
  ASSUME ServingInv, [ServingNext]_servingVars
  PROVE  ServingInv'
<1>1. CASE \E secret \in BOOLEAN : BuildRegistry(secret)
  BY <1>1, BuildStep
<1>2. CASE \E reached \in BOOLEAN : Verify(reached) \/ Inspect(reached)
  BY <1>2, VerifyStep, InspectStep
<1>3. CASE \E task \in Tasks : Submit(task)
  BY <1>3, SubmitStep
<1>4. CASE \E d \in call.left : Attempt(d)
  BY <1>4, AttemptStep
<1>5. ASSUME NEW outcome, Generate(outcome)
      PROVE  ServingInv'
  <2>1. PICK at \in {"answered", "failed", "routing"} :
          at = CASE outcome = "answered" -> "answered"
                 [] outcome = "asynchronous_result_pending" -> "failed"
                 [] OTHER -> "routing"
    OBVIOUS
  <2>2. /\ call.at = "generating" /\ call' = [call EXCEPT !.at = at]
        /\ UNCHANGED <<config, loaded, process, toVerify>>
    BY <1>5, <2>1 DEF Generate
  <2>3. QED
    BY <2>1, <2>2, MoveStep
<1>6. CASE GiveUp
  BY <1>6, MoveStep DEF GiveUp
<1>7. CASE \E d \in DOMAIN config.of \ {"mock"}, l \in Loads : Redeploy(d, l)
  BY <1>7, RedeployStep
<1>8. CASE UNCHANGED servingVars
  <2>1. CallInv' /\ StartupInv'
    BY <1>8, CallStays, StartupStays DEF ServingInv, servingVars
  <2>2. QED
    BY <2>1 DEF ServingInv
<1>9. QED
  BY <1>1, <1>2, <1>3, <1>4, <1>5, <1>6, <1>7, <1>8 DEF ServingNext

\* A production process is up only when every eligible deployment it registered
\* was verified to have a model; and a call is served by a deployment that is
\* eligible for all it asks and was inspected before it answers.
THEOREM ServingInvariant == ServingSpec => []ServingInv
<1>1. ServingInit => ServingInv
  <2>1. SUFFICES ASSUME ServingInit
                 PROVE  ServingInv
    OBVIOUS
  <2>2. StartupInv
    <3>1. <<>> \in Seq(Engines)
      OBVIOUS
    <3>2. QED
      BY <2>1, <3>1 DEF ServingInit, StartupInv
  <2>3. call = NoCall
    BY <2>1 DEF ServingInit
  <2>4. CallShape /\ call.at = "none" /\ call.left = {}
    BY <2>3 DEF NoCall, CallShape
  <2>5. CallInv
    BY <2>4 DEF CallInv
  <2>6. QED
    BY <2>2, <2>5 DEF ServingInv
<1>2. ServingInv /\ [ServingNext]_servingVars => ServingInv'
  BY ServingStep
<1>3. QED
  BY <1>1, <1>2, PTL DEF ServingSpec

\* ADR-002: production routing never uses the mock, a deployment that is not
\* eligible, or one without a configured model; nor a vLLM or an SGLang server
\* that, when inspected, had another model loaded than is configured.
THEOREM ProductionCorrect == ServingSpec => []ProductionIsVerified
<1>1. ASSUME ServingInv
      PROVE  ProductionIsVerified
  <2>1. SUFFICES ASSUME call.at = "answered", config.env = "production",
                        NEW d, d = call.by
                 PROVE  /\ d # "mock" /\ Setting(d).eligible
                        /\ Expected(d) # NoModel
                        /\ call.heard => \A f \in Reports(d) : Expected(d)[f] # Nothing =>
                             call.seen[f] \in {Nothing, Expected(d)[f]}
    BY DEF ProductionIsVerified
  <2>2. /\ StartupInv /\ process = "up" /\ d \in Eligible(call.task)
        /\ "production_eligible" \in DOMAIN call.task /\ call.task["production_eligible"] = TRUE
        /\ \E o : Inspection(o)
    BY <1>1, <2>1 DEF ServingInv, CallInv
  <2>3. d \in DOMAIN config.of /\ TRUE \in Claims(d)["production_eligible"]
    BY <2>2 DEF Eligible
  <2>4. d # "mock" /\ Setting(d).eligible
    BY <2>2, <2>3, ProductionClaim
  <2>5. Expected(d) # NoModel
    <3>1. Holds(toVerify, d) \/ Expected(d) # NoModel
      BY <2>1, <2>2, <2>3 DEF StartupInv
    <3>2. ~ Holds(toVerify, d)
      <4>1. toVerify = <<>>
        BY <2>1, <2>2 DEF StartupInv
      <4>2. DOMAIN toVerify = {}
        BY <4>1
      <4>3. QED
        BY <4>2 DEF Holds
    <3>3. QED
      BY <3>1, <3>2
  <2>6. ASSUME call.heard, NEW f \in Reports(d), Expected(d)[f] # Nothing
        PROVE  call.seen[f] \in {Nothing, Expected(d)[f]}
    <3>1. PICK o : Inspection(o)
      BY <2>2
    <3>2. Assess(Expected(d), o) # "mismatch" /\ o # NoModel /\ o[f] = call.seen[f]
      BY <2>1, <2>6, <3>1 DEF Inspection
    <3>3. f \in Fields
      BY DEF Reports, Fields
    <3>4. o[f] \in {Nothing, Expected(d)[f]}
      BY <2>5, <2>6, <3>2, <3>3 DEF Assess
    <3>5. QED
      BY <3>2, <3>4
  <2>7. QED
    BY <2>4, <2>5, <2>6
<1>2. QED
  BY <1>1, ServingInvariant, PTL

\* ADR-002: an answer is reported as verified only for a model that was served as
\* configured when it was inspected, and the reported model is the one the
\* client required.
THEOREM ProvenanceCorrect == ServingSpec => []ProvenanceIsTrue
<1>1. ASSUME ServingInv
      PROVE  ProvenanceIsTrue
  <2>1. SUFFICES ASSUME call.at = "answered", NEW expected, expected = Expected(call.by)
                 PROVE  /\ \A f \in Fields : expected[f] # Nothing =>
                             /\ call.identity = "verified" => call.seen[f] = expected[f]
                             /\ call.model[f] \in {Nothing, expected[f]} \/ call.identity = "unverified"
                        /\ "served_model" \in DOMAIN call.task =>
                             /\ call.identity # "unverified"
                             /\ call.task.served_model \in {expected.artifact, expected.served}
                             /\ call.model.artifact = expected.artifact
    BY DEF ProvenanceIsTrue
  <2>2. StartupInv /\ call.by \in Eligible(call.task) /\ \E o : Inspection(o)
    BY <1>1, <2>1 DEF ServingInv, CallInv
  <2>3. PICK o : Inspection(o)
    BY <2>2
  <2>4. /\ call.identity = Assess(expected, o) /\ call.identity # "mismatch"
        /\ call.model = IF o = NoModel THEN expected ELSE o
        /\ o # NoModel => o["artifact"] # Nothing
        /\ \A f \in Fields : expected[f] # Nothing => o[f] \in {Nothing, call.seen[f]}
    BY <2>1, <2>3 DEF Inspection
  <2>5. ASSUME NEW f \in Fields, expected[f] # Nothing
        PROVE  /\ expected # NoModel
               /\ o # NoModel => o[f] \in {Nothing, expected[f]}
               /\ call.identity = "verified" => o # NoModel /\ o[f] # Nothing
    <3>1. expected # NoModel
      BY <2>5 DEF NoModel
    <3>2. QED
      BY <2>4, <2>5, <3>1 DEF Assess
  <2>6. ASSUME NEW f \in Fields, expected[f] # Nothing
        PROVE  /\ call.identity = "verified" => call.seen[f] = expected[f]
               /\ call.model[f] \in {Nothing, expected[f]} \/ call.identity = "unverified"
    BY <2>4, <2>5, <2>6
  <2>7. ASSUME "served_model" \in DOMAIN call.task
        PROVE  /\ call.identity # "unverified"
               /\ call.task.served_model \in {expected.artifact, expected.served}
               /\ call.model.artifact = expected.artifact
    <3>1. call.by \in DOMAIN config.of /\ call.task["served_model"] \in Claims(call.by)["served_model"]
      BY <2>2, <2>7 DEF Eligible
    <3>2. /\ call.task["served_model"] \in {expected["artifact"], expected["served"]}
          /\ call.task["served_model"] # Nothing
      BY <2>1, <3>1 DEF Claims
    <3>3. expected # NoModel
      BY <3>2 DEF NoModel, Fields
    <3>4. expected["artifact"] # Nothing
      BY <2>1, <2>2, <3>1, <3>3, ServingConstants DEF StartupInv, Expected, Setting, MockModel
    <3>5. call.identity # "unverified"
      BY <2>4, <3>3 DEF Assess
    <3>6. call.model["artifact"] = expected["artifact"]
      <4>1. "artifact" \in Fields
        BY DEF Fields
      <4>2. o # NoModel => o["artifact"] \in {Nothing, expected["artifact"]}
        BY <2>5, <3>4, <4>1
      <4>3. QED
        BY <2>4, <4>2
    <3>7. QED
      BY <3>2, <3>5, <3>6
  <2>8. QED
    BY <2>6, <2>7
<1>2. QED
  BY <1>1, ServingInvariant, PTL
=============================================================================
