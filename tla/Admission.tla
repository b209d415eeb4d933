------------------------------ MODULE Admission ------------------------------
(***************************************************************************)
(* Admission control (src/backend/control/admission.py, AdmissionPermit in *)
(* control/api.py) under the endpoints of src/backend/main.py and the      *)
(* workflow APIs that use it.                                              *)
(*                                                                         *)
(* One module stands for both coordinators: the counters of one process    *)
(* behind a lock, and the Redis scripts that several processes share, whose *)
(* replies can be lost.  A lock section or a script is one action.  The    *)
(* terminal record of a request is written after its permit was released   *)
(* and changes only what the client is told, so it is left out.            *)
(***************************************************************************)
EXTENDS Integers, FiniteSets

CONSTANTS
  Requests, Tenants,
  Building,    \* requests of /inference/generate and /v1/inference/chat, whose endpoints
               \* build the task between taking the permit and entering the try block
  Estimates,   \* estimated_tokens
  Policy       \* QuotaPolicy of each tenant that has one

ASSUME AdmissionConstants ==
  /\ IsFiniteSet(Requests)
  /\ Building \subseteq Requests
  /\ Estimates \subseteq Nat
  /\ DOMAIN Policy \subseteq Tenants
  /\ \A t \in DOMAIN Policy :
       Policy[t] \in [requests : Nat \ {0}, concurrent : Nat \ {0}, tokens : Nat \ {0}]
  /\ "new" \notin Tenants
  /\ "over" \notin Tenants

VARIABLES
  shared,  \* which coordinator load_api_control built: Redis or this process
  usage,   \* _TenantUsage, or the Redis hash, of each tenant
  request  \* the tenant whose permit a request holds, "new" or "over"

admissionVars == <<shared, usage, request>>

\* over: the minute the counts belong to has passed
Fresh == [over |-> FALSE, requests |-> 0, tokens |-> 0, concurrent |-> 0]

AdmissionInit ==
  /\ shared \in BOOLEAN
  /\ usage = [t \in Tenants |-> Fresh]
  /\ request = [r \in Requests |-> "new"]

\* Mutant: a new minute also forgets the requests in progress.
WindowFresh(u) == IF u.over THEN Fresh ELSE u

\* The first request of a new minute resets the counts, admitted or not.
Window(u) == IF u.over THEN [Fresh EXCEPT !.concurrent = u.concurrent] ELSE u

Admissible(t, u, k) ==
  /\ u.requests < Policy[t].requests
  /\ u.tokens + k <= Policy[t].tokens
  /\ u.concurrent < Policy[t].concurrent

Charged(u, k) ==
  [over |-> u.over, requests |-> u.requests + 1, tokens |-> u.tokens + k,
   concurrent |-> u.concurrent + 1]

Goes(r, where) == request' = [request EXCEPT ![r] = where]

Reject(r, t, k) ==
  LET u == Window(usage[t])
  IN /\ request[r] = "new"
     /\ t \in DOMAIN Policy => ~ Admissible(t, u, k)
     /\ usage' = IF t \in DOMAIN Policy THEN [usage EXCEPT ![t] = u] ELSE usage
     /\ Goes(r, "over")
     /\ UNCHANGED shared

\* The permit is handed to the endpoint's try block, unless building the task
\* raises before it is entered: TextInput refuses a prompt, and TaskRequirements
\* a model, accelerator, topology or data location, that the request models of
\* the two inference endpoints accept.
Admit(r, t, k, raises) ==
  LET u == Window(usage[t])
  IN /\ request[r] = "new"
     /\ t \in DOMAIN Policy
     /\ Admissible(t, u, k)
     /\ raises => r \in Building
     /\ usage' = [usage EXCEPT ![t] = Charged(u, k)]
     /\ Goes(r, IF raises THEN "over" ELSE t)
     /\ UNCHANGED shared

\* The script ran, but its reply is lost: the request is refused all the same.
AdmitUnheard(r, t, k) ==
  LET u == Window(usage[t])
  IN /\ shared
     /\ request[r] = "new"
     /\ t \in DOMAIN Policy
     /\ Admissible(t, u, k)
     /\ usage' = [usage EXCEPT ![t] = Charged(u, k)]
     /\ Goes(r, "over")
     /\ UNCHANGED shared

\* Redis cannot be reached: nobody is admitted.
AdmitUnreached(r) ==
  /\ shared
  /\ request[r] = "new"
  /\ Goes(r, "over")
  /\ UNCHANGED <<shared, usage>>

\* The finally clause, whatever the outcome; AdmissionPermit releases once.
Release(r) ==
  /\ request[r] \in Tenants
  /\ usage' = [usage EXCEPT ![request[r]].concurrent = IF @ > 0 THEN @ - 1 ELSE 0]
  /\ Goes(r, "over")
  /\ UNCHANGED shared

\* The release script does not reach Redis, or the process dies before.
ReleaseLost(r) ==
  /\ shared
  /\ request[r] \in Tenants
  /\ Goes(r, "over")
  /\ UNCHANGED <<shared, usage>>

\* Every process ends with its requests; its own counters go with it, what Redis
\* counts does not.
Restart ==
  /\ usage' = IF shared THEN usage ELSE [t \in Tenants |-> Fresh]
  /\ request' = [r \in Requests |-> IF request[r] \in Tenants THEN "over" ELSE request[r]]
  /\ UNCHANGED shared

\* The EXPIRE of the release script, minutes later; an admission would have
\* revoked it.
ExpireIdle(t) ==
  /\ shared
  /\ usage[t].over
  /\ usage[t].concurrent = 0
  /\ usage' = [usage EXCEPT ![t] = Fresh]
  /\ UNCHANGED <<shared, request>>

MinuteEnds(t) ==
  /\ usage' = [usage EXCEPT ![t].over = TRUE]
  /\ UNCHANGED <<shared, request>>

AdmissionNext ==
  \/ \E r \in Requests, t \in Tenants, k \in Estimates :
       \/ Reject(r, t, k)
       \/ \E raises \in BOOLEAN : Admit(r, t, k, raises)
       \/ AdmitUnheard(r, t, k)
  \/ \E r \in Requests : AdmitUnreached(r) \/ Release(r) \/ ReleaseLost(r)
  \/ Restart
  \/ \E t \in Tenants : ExpireIdle(t) \/ MinuteEnds(t)

AdmissionSpec == AdmissionInit /\ [][AdmissionNext]_admissionVars

-----------------------------------------------------------------------------
InProgress(t) == {r \in Requests : request[r] = t}

\* Whatever is lost, released, restarted or carried over into a new minute, a
\* tenant never has more requests in progress than it may: each of them is
\* counted, so an error can cost capacity but never opens it.
ConcurrencyIsBounded ==
  \A t \in Tenants :
    /\ Cardinality(InProgress(t)) <= usage[t].concurrent
    /\ t \in DOMAIN Policy => usage[t].concurrent <= Policy[t].concurrent
    /\ t \notin DOMAIN Policy => InProgress(t) = {}

\* In one process every permit comes back: a tenant without requests in
\* progress has its whole concurrency.
PermitsComeBack ==
  ~ shared => \A t \in Tenants : usage[t].concurrent = Cardinality(InProgress(t))
=============================================================================
