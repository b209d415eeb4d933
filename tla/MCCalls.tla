------------------------------- MODULE MCCalls -------------------------------
(***************************************************************************)
(* The parts of the code that are one call, each on every bounded input:   *)
(* a graph's construction and transition, a context built while others     *)
(* write and then fitted, a startup with an inference call on the          *)
(* deployments it registered.                                              *)
(***************************************************************************)
EXTENDS GraphTransition, ContextPreparation, Context, MCServing

\* Up to four segments of two texts, required or of two priorities; two of
\* them may share an id.
MCInputs ==
  LET texts == [trust : {"user"}, content : {"x", "y"}, required : BOOLEAN, priority : {0, 1}]
      named(s, last) == [i \in DOMAIN s |->
        [id |-> IF i = Len(s) THEN last ELSE i, trust |-> s[i].trust, content |-> s[i].content,
         required |-> s[i].required, priority |-> s[i].priority]]
  IN {named(s, Len(s)) : s \in BoundedSeq(texts, 4)} \cup {named(s, 1) : s \in BoundedSeq(texts, 2)}

\* The candidate's window: too small, tight, wide.
MCProfiles ==
  [max_context : {4, 6, 12}, reserved_output : {1}, margin : {1}]

\* The template costs a token, "y" twice as much as "x".
MCCount(chat) ==
  1 + Cardinality({i \in DOMAIN chat : chat[i].content = "x"})
    + 2 * Cardinality({i \in DOMAIN chat : chat[i].content = "y"})

\* Two members of one project, one of them also without the membership, and a
\* principal of another tenant with the same project name.
MCPrincipals ==
  {[tenant |-> "t1", user |-> "u1", projects |-> {"p"}],
   [tenant |-> "t1", user |-> "u1", projects |-> {"q"}],
   [tenant |-> "t1", user |-> "u2", projects |-> {"p"}],
   [tenant |-> "t2", user |-> "u1", projects |-> {"p"}]}

MCPolicies ==
  <<"t1", "p">> :> <<[id |-> "s0", rev |-> 1, trust |-> "policy", content |-> "rule",
                      required |-> TRUE, priority |-> 0]>>

Ref(id, rev, required, priority) ==
  [id |-> id, rev |-> rev, required |-> required, priority |-> priority]

MCSelections ==
  {<<Ref("s1", 1, FALSE, 2)>>,
   <<Ref("s2", 1, FALSE, 2), Ref("s1", 1, TRUE, 0)>>,
   <<Ref("s1", 1, TRUE, 0), Ref("s1", 1, FALSE, 2)>>}

\* A build that has ended has nothing left to race with.
SomeBuildRuns == \E b \in Builds : build[b].at \in {"idle", "resolve", "recent"}

NoTransition ==
  /\ at = "none" /\ deps = <<>> /\ remaining = {}
  /\ before = <<>> /\ node = 0 /\ target = "ready"
  /\ states = <<>> /\ next = 0 /\ changed = FALSE
  /\ pending = {} /\ ordered = <<>>

NoPreparation ==
  /\ phase = "none" /\ segments = <<>> /\ profile = <<>>
  /\ kept = {} /\ excluded = <<>>

NoServing ==
  /\ config = <<>> /\ loaded = <<>> /\ process = "none"
  /\ toVerify = <<>> /\ call = NoCall

NoContext == ContextInit

CallsInit ==
  \/ Init /\ NoPreparation /\ NoContext /\ NoServing
  \/ NoTransition /\ PrepareInit /\ NoContext /\ NoServing
  \/ NoTransition /\ NoPreparation /\ ContextInit /\ NoServing
  \/ NoTransition /\ NoPreparation /\ NoContext /\ ServingInit

CallsNext ==
  \/ Next /\ UNCHANGED <<preparationVars, contextVars, servingVars>>
  \/ PrepareNext /\ UNCHANGED <<transitionVars, contextVars, servingVars>>
  \/ /\ at = "none" /\ phase = "none" /\ process = "none"
     /\ ContextNext
     /\ UNCHANGED <<transitionVars, preparationVars, servingVars>>
  \/ process # "none" /\ ServingNext /\ UNCHANGED <<transitionVars, preparationVars, contextVars>>

CallsSpec ==
  CallsInit /\ [][CallsNext]_<<transitionVars, preparationVars, contextVars, servingVars>>
=============================================================================
