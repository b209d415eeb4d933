--------------------------- MODULE ServiceProofs ----------------------------
(***************************************************************************)
(* The concurrency bound of admission control, for any finite number of    *)
(* requests, any tenants and any quotas; and then: the endpoints use the   *)
(* admission control as Admission says, let nobody past the guards of      *)
(* production and tell no client of a success that is not recorded, for    *)
(* any keys, quotas, operations and number of requests.                    *)
(***************************************************************************)
EXTENDS Service, FiniteSetTheorems, TLAPS

(* Admission *)

Usage == [over : BOOLEAN, requests : Nat, tokens : Nat, concurrent : Nat]

AdmissionTypeOK ==
  /\ shared \in BOOLEAN
  /\ usage \in [Tenants -> Usage]
  /\ request \in [Requests -> Tenants \cup {"new", "over"}]

\* The bound, for one tenant.
Bounded(t) ==
  /\ Cardinality(InProgress(t)) <= usage[t].concurrent
  /\ t \in DOMAIN Policy => usage[t].concurrent <= Policy[t].concurrent
  /\ t \notin DOMAIN Policy => InProgress(t) = {}

AdmissionInv == AdmissionTypeOK /\ \A t \in Tenants : Bounded(t)

-----------------------------------------------------------------------------
\* The requests in progress of a tenant are finitely many.
LEMMA ProgressFinite ==
  ASSUME NEW t
  PROVE  /\ IsFiniteSet(InProgress(t))
         /\ Cardinality(InProgress(t)) \in Nat
<1>1. InProgress(t) \subseteq Requests
  BY DEF InProgress
<1>2. QED
  BY <1>1, AdmissionConstants, FS_Subset, FS_CardinalityType

\* What the window and the charge of a permit make of a tenant's counters
\* (Window, Charged): a new minute keeps the concurrency, a permit raises it.
LEMMA WindowKeeps ==
  ASSUME NEW u \in Usage
  PROVE  Window(u) \in Usage /\ Window(u).concurrent = u.concurrent
BY DEF Window, Fresh, Usage

LEMMA ChargeRaises ==
  ASSUME NEW u \in Usage, NEW k \in Nat
  PROVE  Charged(u, k) \in Usage /\ Charged(u, k).concurrent = u.concurrent + 1
BY DEF Charged, Usage

\* A request that ends leaves the requests in progress of every tenant.
LEMMA Leaves ==
  ASSUME AdmissionTypeOK, NEW r \in Requests, Goes(r, "over"), NEW t \in Tenants
  PROVE  InProgress(t)' = InProgress(t) \ {r}
<1>1. "over" \notin Tenants
  BY AdmissionConstants
<1>2. \A s \in Requests : request'[s] = IF s = r THEN "over" ELSE request[s]
  BY DEF Goes, AdmissionTypeOK
<1>3. QED
  BY <1>1, <1>2 DEF InProgress

\* A request that a tenant starts joins the requests in progress of no other.
LEMMA Joins ==
  ASSUME AdmissionTypeOK, NEW r \in Requests, NEW s \in Tenants, Goes(r, s),
         request[r] = "new", NEW t \in Tenants
  PROVE  InProgress(t)' = IF t = s THEN InProgress(t) \cup {r} ELSE InProgress(t)
<1>1. "new" \notin Tenants
  BY AdmissionConstants
<1>2. \A q \in Requests : request'[q] = IF q = r THEN s ELSE request[q]
  BY DEF Goes, AdmissionTypeOK
<1>3. QED
  BY <1>1, <1>2 DEF InProgress

\* Ending a request never breaks the bound of a tenant whose count stays.
LEMMA EndKeeps ==
  ASSUME AdmissionInv, NEW r \in Requests, Goes(r, "over"), NEW t \in Tenants,
         usage'[t].concurrent = usage[t].concurrent
  PROVE  Bounded(t)'
<1>1. InProgress(t)' = InProgress(t) \ {r}
  BY Leaves DEF AdmissionInv
<1>2. Cardinality(InProgress(t) \ {r}) <= Cardinality(InProgress(t))
  BY ProgressFinite, FS_Subset, InProgress(t) \ {r} \subseteq InProgress(t)
<1>3. Cardinality(InProgress(t) \ {r}) \in Nat
  BY ProgressFinite, FS_RemoveElement, FS_CardinalityType
<1>4. usage[t].concurrent \in Nat
  BY DEF AdmissionInv, AdmissionTypeOK, Usage
<1>5. QED
  BY <1>1, <1>2, <1>3, <1>4, ProgressFinite DEF AdmissionInv, Bounded

-----------------------------------------------------------------------------
\* A refused request (Reject) may start a new minute, nothing else.
LEMMA RejectStep ==
  ASSUME AdmissionInv, NEW r \in Requests, NEW t \in Tenants, NEW k \in Estimates,
         Reject(r, t, k)
  PROVE  AdmissionInv'
<1>1. Goes(r, "over")
  BY DEF Reject
<1>2. usage[t] \in Usage
  BY DEF AdmissionInv, AdmissionTypeOK
<1>3. Window(usage[t]) \in Usage /\ Window(usage[t]).concurrent = usage[t].concurrent
  BY <1>2, WindowKeeps
<1>4. usage' \in [Tenants -> Usage]
  BY <1>3 DEF Reject, AdmissionInv, AdmissionTypeOK
<1>5. \A s \in Tenants : usage'[s].concurrent = usage[s].concurrent
  BY <1>3 DEF Reject, AdmissionInv, AdmissionTypeOK
<1>6. AdmissionTypeOK'
  BY <1>1, <1>4 DEF Reject, Goes, AdmissionInv, AdmissionTypeOK
<1>7. QED
  BY <1>1, <1>5, <1>6, EndKeeps DEF AdmissionInv

\* What an admission makes of the counters, whatever becomes of the request.
LEMMA ChargeStep ==
  ASSUME AdmissionInv, NEW t \in Tenants, NEW k \in Estimates, t \in DOMAIN Policy,
         Admissible(t, Window(usage[t]), k),
         usage' = [usage EXCEPT ![t] = Charged(Window(usage[t]), k)]
  PROVE  /\ usage' \in [Tenants -> Usage]
         /\ \A s \in Tenants \ {t} : usage'[s] = usage[s]
         /\ usage'[t].concurrent = usage[t].concurrent + 1
         /\ usage'[t].concurrent <= Policy[t].concurrent
<1>1. usage[t] \in Usage /\ k \in Nat /\ Policy[t].concurrent \in Nat
  BY AdmissionConstants DEF AdmissionInv, AdmissionTypeOK
<1>2. Window(usage[t]) \in Usage /\ Window(usage[t]).concurrent = usage[t].concurrent
  BY <1>1, WindowKeeps
<1>3. /\ Charged(Window(usage[t]), k) \in Usage
      /\ Charged(Window(usage[t]), k).concurrent = usage[t].concurrent + 1
  BY <1>1, <1>2, ChargeRaises
<1>4. usage[t].concurrent < Policy[t].concurrent
  BY <1>2 DEF Admissible
<1>5. usage[t].concurrent \in Nat
  BY <1>1 DEF Usage
<1>6. usage[t].concurrent + 1 <= Policy[t].concurrent
  BY <1>1, <1>4, <1>5
<1>7. /\ usage' \in [Tenants -> Usage]
      /\ \A s \in Tenants \ {t} : usage'[s] = usage[s]
      /\ usage'[t] = Charged(Window(usage[t]), k)
  BY <1>3 DEF AdmissionInv, AdmissionTypeOK
<1>8. QED
  BY <1>3, <1>6, <1>7

\* An admission whose request goes on (Admit) or is lost (Admit with an error,
\* AdmitUnheard) counts at least what is in progress.
LEMMA AdmitStep ==
  ASSUME AdmissionInv, NEW r \in Requests, NEW t \in Tenants, NEW k \in Estimates,
         NEW where \in {"over", t}, t \in DOMAIN Policy, request[r] = "new",
         Admissible(t, Window(usage[t]), k),
         usage' = [usage EXCEPT ![t] = Charged(Window(usage[t]), k)],
         Goes(r, where), UNCHANGED shared
  PROVE  AdmissionInv'
<1>1. /\ usage' \in [Tenants -> Usage]
      /\ \A s \in Tenants \ {t} : usage'[s] = usage[s]
      /\ usage'[t].concurrent = usage[t].concurrent + 1
      /\ usage'[t].concurrent <= Policy[t].concurrent
  BY ChargeStep
<1>2. AdmissionTypeOK'
  BY <1>1 DEF Goes, AdmissionInv, AdmissionTypeOK
<1>3. \A s \in Tenants : usage[s].concurrent \in Nat
  BY DEF AdmissionInv, AdmissionTypeOK, Usage
<1>4. ASSUME NEW s \in Tenants, s # t
      PROVE  Bounded(s)'
  <2>1. CASE where = "over"
    BY <1>1, <1>4, <2>1, EndKeeps
  <2>2. CASE where = t
    <3>1. InProgress(s)' = InProgress(s)
      BY <1>4, <2>2, Joins DEF AdmissionInv
    <3>2. QED
      BY <1>1, <1>4, <3>1 DEF AdmissionInv, Bounded
  <2>3. QED
    BY <2>1, <2>2
<1>5. Bounded(t)'
  <2>1. Cardinality(InProgress(t)') <= Cardinality(InProgress(t)) + 1
    <3>1. CASE where = "over"
      <4>1. InProgress(t)' = InProgress(t) \ {r}
        BY <3>1, Leaves DEF AdmissionInv
      <4>2. \/ Cardinality(InProgress(t)') = Cardinality(InProgress(t)) - 1
            \/ Cardinality(InProgress(t)') = Cardinality(InProgress(t))
        BY <4>1, ProgressFinite, FS_RemoveElement
      <4>3. QED
        BY <4>2, ProgressFinite
    <3>2. CASE where = t
      <4>1. InProgress(t)' = InProgress(t) \cup {r}
        BY <3>2, Joins DEF AdmissionInv
      <4>2. \/ Cardinality(InProgress(t)') = Cardinality(InProgress(t)) + 1
            \/ Cardinality(InProgress(t)') = Cardinality(InProgress(t))
        BY <4>1, ProgressFinite, FS_AddElement
      <4>3. QED
        BY <4>2, ProgressFinite
    <3>3. QED
      BY <3>1, <3>2
  <2>2. Cardinality(InProgress(t)') \in Nat
    <3>1. InProgress(t)' \subseteq Requests
      BY DEF InProgress
    <3>2. QED
      BY <3>1, AdmissionConstants, FS_Subset, FS_CardinalityType
  <2>3. Cardinality(InProgress(t)) <= usage[t].concurrent
    BY DEF AdmissionInv, Bounded
  <2>4. Cardinality(InProgress(t)') <= usage'[t].concurrent
    BY <1>1, <1>3, <2>1, <2>2, <2>3, ProgressFinite
  <2>5. QED
    BY <1>1, <2>4 DEF Bounded
<1>6. QED
  BY <1>2, <1>4, <1>5 DEF AdmissionInv

-----------------------------------------------------------------------------
\* A released permit (Release) was counted, so the count falls with it.
LEMMA ReleaseStep ==
  ASSUME AdmissionInv, NEW r \in Requests, Release(r)
  PROVE  AdmissionInv'
<1>1. PICK t \in Tenants : t = request[r]
  BY DEF Release
<1>2. Goes(r, "over") /\ r \in InProgress(t)
  BY <1>1 DEF Release, InProgress
<1>3. \A s \in Tenants : usage[s] \in Usage /\ usage[s].concurrent \in Nat
  BY DEF AdmissionInv, AdmissionTypeOK, Usage
<1>4. /\ Cardinality(InProgress(t)) \in Nat
      /\ Cardinality(InProgress(t)) # 0
      /\ Cardinality(InProgress(t)) <= usage[t].concurrent
  BY <1>2, ProgressFinite, FS_EmptySet DEF AdmissionInv, Bounded
<1>5. usage[t].concurrent > 0
  BY <1>3, <1>4
<1>6. usage' = [usage EXCEPT ![t].concurrent = usage[t].concurrent - 1]
  BY <1>1, <1>3, <1>5 DEF Release, AdmissionInv, AdmissionTypeOK
<1>7. usage[t].concurrent - 1 \in Nat
  BY <1>3, <1>5
<1>8. /\ usage' \in [Tenants -> Usage]
      /\ \A s \in Tenants \ {t} : usage'[s] = usage[s]
      /\ usage'[t].concurrent = usage[t].concurrent - 1
  BY <1>3, <1>6, <1>7 DEF AdmissionInv, AdmissionTypeOK, Usage
<1>9. AdmissionTypeOK'
  BY <1>2, <1>8 DEF Release, Goes, AdmissionInv, AdmissionTypeOK
<1>10. \A s \in Tenants \ {t} : Bounded(s)'
  BY <1>2, <1>8, EndKeeps
<1>11. Bounded(t)'
  <2>1. InProgress(t)' = InProgress(t) \ {r}
    BY <1>2, Leaves DEF AdmissionInv
  <2>2. Cardinality(InProgress(t)') = Cardinality(InProgress(t)) - 1
    BY <1>2, <2>1, ProgressFinite, FS_RemoveElement
  <2>3. Cardinality(InProgress(t)') <= usage'[t].concurrent
    BY <1>3, <1>4, <1>8, <2>2
  <2>4. t \in DOMAIN Policy
    BY <1>2 DEF AdmissionInv, Bounded
  <2>5. Policy[t].concurrent \in Nat /\ usage[t].concurrent <= Policy[t].concurrent
    BY <2>4, AdmissionConstants DEF AdmissionInv, Bounded
  <2>6. usage[t].concurrent - 1 <= Policy[t].concurrent
    BY <1>3, <2>5
  <2>7. QED
    BY <1>8, <2>3, <2>4, <2>6 DEF Bounded
<1>12. QED
  BY <1>9, <1>10, <1>11 DEF AdmissionInv

\* A request that ends without telling the counters (AdmitUnreached,
\* ReleaseLost) leaves them too high, never too low.
LEMMA SilentEnd ==
  ASSUME AdmissionInv, NEW r \in Requests, Goes(r, "over"), UNCHANGED <<shared, usage>>
  PROVE  AdmissionInv'
<1>1. AdmissionTypeOK'
  BY DEF Goes, AdmissionInv, AdmissionTypeOK
<1>2. \A t \in Tenants : Bounded(t)'
  BY EndKeeps
<1>3. QED
  BY <1>1, <1>2 DEF AdmissionInv

\* A tenant with no requests in progress keeps its bound with new counters.
LEMMA Emptied ==
  ASSUME NEW t \in Tenants, InProgress(t)' = {}, usage'[t] = Fresh
  PROVE  Bounded(t)'
<1>1. usage'[t].concurrent = 0
  BY DEF Fresh
<1>2. Cardinality(InProgress(t)') = 0
  BY FS_EmptySet
<1>3. t \in DOMAIN Policy => 0 <= Policy[t].concurrent
  BY AdmissionConstants
<1>4. QED
  BY <1>1, <1>2, <1>3 DEF Bounded

\* A restart (Restart) loses the requests, and counters no longer than those.
LEMMA RestartStep ==
  ASSUME AdmissionInv, Restart
  PROVE  AdmissionInv'
<1>1. Fresh \in Usage
  BY DEF Fresh, Usage
<1>2. AdmissionTypeOK'
  BY <1>1 DEF Restart, AdmissionInv, AdmissionTypeOK
<1>3. "over" \notin Tenants
  BY AdmissionConstants
<1>4. ASSUME NEW t \in Tenants
      PROVE  Bounded(t)'
  <2>1. \A r \in Requests : request'[r] # t
    BY <1>3 DEF Restart
  <2>2. InProgress(t)' = {}
    BY <2>1 DEF InProgress
  <2>3. CASE ~ shared
    BY <2>2, <2>3, Emptied DEF Restart
  <2>4. CASE shared
    <3>1. usage'[t] = usage[t] /\ usage[t].concurrent \in Nat
      BY <2>4 DEF Restart, AdmissionInv, AdmissionTypeOK, Usage
    <3>2. Cardinality(InProgress(t)') <= usage'[t].concurrent
      BY <2>2, <3>1, FS_EmptySet
    <3>3. QED
      BY <2>2, <3>1, <3>2 DEF AdmissionInv, Bounded
  <2>5. QED
    BY <2>3, <2>4
<1>5. QED
  BY <1>2, <1>4 DEF AdmissionInv

\* The key of an idle tenant expires (ExpireIdle): nothing was in progress.
LEMMA ExpireStep ==
  ASSUME AdmissionInv, NEW t \in Tenants, ExpireIdle(t)
  PROVE  AdmissionInv'
<1>1. Fresh \in Usage
  BY DEF Fresh, Usage
<1>2. AdmissionTypeOK'
  BY <1>1 DEF ExpireIdle, AdmissionInv, AdmissionTypeOK
<1>3. \A s \in Tenants : InProgress(s)' = InProgress(s)
  BY DEF ExpireIdle, InProgress
<1>4. Cardinality(InProgress(t)) = 0
  BY ProgressFinite DEF ExpireIdle, AdmissionInv, Bounded
<1>5. InProgress(t) = {}
  BY <1>4, ProgressFinite, FS_EmptySet
<1>6. Bounded(t)'
  BY <1>3, <1>5, Emptied DEF ExpireIdle, AdmissionInv, AdmissionTypeOK
<1>7. \A s \in Tenants \ {t} : usage'[s] = usage[s]
  BY DEF ExpireIdle, AdmissionInv, AdmissionTypeOK
<1>8. \A s \in Tenants \ {t} : Bounded(s)'
  BY <1>3, <1>7 DEF AdmissionInv, Bounded
<1>9. QED
  BY <1>2, <1>6, <1>8 DEF AdmissionInv

\* The minute of a tenant ends (MinuteEnds).
LEMMA MinuteStep ==
  ASSUME AdmissionInv, NEW t \in Tenants, MinuteEnds(t)
  PROVE  AdmissionInv'
<1>1. usage[t] \in Usage
  BY DEF AdmissionInv, AdmissionTypeOK
<1>2. /\ usage' \in [Tenants -> Usage]
      /\ \A s \in Tenants : usage'[s].concurrent = usage[s].concurrent
  BY <1>1 DEF MinuteEnds, AdmissionInv, AdmissionTypeOK, Usage
<1>3. AdmissionTypeOK'
  BY <1>2 DEF MinuteEnds, AdmissionInv, AdmissionTypeOK
<1>4. \A s \in Tenants : InProgress(s)' = InProgress(s)
  BY DEF MinuteEnds, InProgress
<1>5. \A s \in Tenants : Bounded(s)'
  BY <1>2, <1>4 DEF AdmissionInv, Bounded
<1>6. QED
  BY <1>3, <1>5 DEF AdmissionInv

-----------------------------------------------------------------------------
\* AdmissionInv is inductive: no admission, refusal, release, lost reply,
\* restart, expiry or new minute lets the counters fall behind.
THEOREM AdmissionInvariant == AdmissionSpec => []AdmissionInv
<1>1. AdmissionInit => AdmissionInv
  <2> SUFFICES ASSUME AdmissionInit PROVE AdmissionInv
    OBVIOUS
  <2>1. AdmissionTypeOK
    BY DEF AdmissionInit, AdmissionTypeOK, Fresh, Usage
  <2>2. ASSUME NEW t \in Tenants
        PROVE  Bounded(t)
    <3>1. InProgress(t) = {}
      BY AdmissionConstants DEF AdmissionInit, InProgress
    <3>2. usage[t].concurrent = 0
      BY DEF AdmissionInit, Fresh
    <3>3. t \in DOMAIN Policy => 0 <= Policy[t].concurrent
      BY AdmissionConstants
    <3>4. QED
      BY <3>1, <3>2, <3>3, FS_EmptySet DEF Bounded
  <2>3. QED
    BY <2>1, <2>2 DEF AdmissionInv
<1>2. AdmissionInv /\ [AdmissionNext]_admissionVars => AdmissionInv'
  <2> SUFFICES ASSUME AdmissionInv, [AdmissionNext]_admissionVars
               PROVE  AdmissionInv'
    OBVIOUS
  <2>1. ASSUME NEW r \in Requests, NEW t \in Tenants, NEW k \in Estimates,
               Reject(r, t, k)
        PROVE  AdmissionInv'
    BY <2>1, RejectStep
  <2>2. ASSUME NEW r \in Requests, NEW t \in Tenants, NEW k \in Estimates,
               NEW raises \in BOOLEAN, Admit(r, t, k, raises)
        PROVE  AdmissionInv'
    <3>1. CASE raises
      <4>1. Goes(r, "over")
        BY <2>2, <3>1 DEF Admit
      <4>2. QED
        BY <2>2, <4>1, AdmitStep DEF Admit
    <3>2. CASE ~ raises
      <4>1. Goes(r, t)
        BY <2>2, <3>2 DEF Admit
      <4>2. QED
        BY <2>2, <4>1, AdmitStep DEF Admit
    <3>3. QED
      BY <3>1, <3>2
  <2>3. ASSUME NEW r \in Requests, NEW t \in Tenants, NEW k \in Estimates,
               AdmitUnheard(r, t, k)
        PROVE  AdmissionInv'
    BY <2>3, AdmitStep DEF AdmitUnheard
  <2>4. ASSUME NEW r \in Requests, AdmitUnreached(r)
        PROVE  AdmissionInv'
    BY <2>4, SilentEnd DEF AdmitUnreached
  <2>5. ASSUME NEW r \in Requests, Release(r)
        PROVE  AdmissionInv'
    BY <2>5, ReleaseStep
  <2>6. ASSUME NEW r \in Requests, ReleaseLost(r)
        PROVE  AdmissionInv'
    BY <2>6, SilentEnd DEF ReleaseLost
  <2>7. CASE Restart
    BY <2>7, RestartStep
  <2>8. ASSUME NEW t \in Tenants, ExpireIdle(t)
        PROVE  AdmissionInv'
    BY <2>8, ExpireStep
  <2>9. ASSUME NEW t \in Tenants, MinuteEnds(t)
        PROVE  AdmissionInv'
    BY <2>9, MinuteStep
  <2>10. CASE UNCHANGED admissionVars
    BY <2>10 DEF admissionVars, AdmissionInv, AdmissionTypeOK, Bounded, InProgress
  <2>11. QED
    BY <2>1, <2>2, <2>3, <2>4, <2>5, <2>6, <2>7, <2>8, <2>9, <2>10 DEF AdmissionNext
<1>3. QED
  BY <1>1, <1>2, PTL DEF AdmissionSpec

\* With any quotas, any finite number of requests and either coordinator, a
\* tenant never has more requests in progress than its quota allows.
THEOREM ConcurrencyCorrect == AdmissionSpec => []ConcurrencyIsBounded
<1>1. AdmissionInv => ConcurrencyIsBounded
  BY DEF AdmissionInv, Bounded, ConcurrencyIsBounded
<1>2. QED
  BY <1>1, AdmissionInvariant, PTL

-----------------------------------------------------------------------------
(* Service *)

Packets == {o.packet : o \in Operations} \cup {NoPacket}

Handlings ==
  [at : {"new", "authorized", "working", "releasing", "recording", "answered"},
   key : DOMAIN ApiKeys \cup {Nobody},
   packet : Packets,
   status : {"none", "accepted", "failed", "rejected"},
   told : {"nothing", "too_large", "invalid_credentials", "forbidden", "unbuilt",
           "record_unavailable", "accepted", "failed", "rejected"}]

\* How far a request is tells what is known of it.
Placed(h) ==
  /\ h.at \in {"authorized", "working", "releasing", "recording"} => h.key \in DOMAIN ApiKeys
  /\ h.at \in {"new", "authorized", "working"} => h.status = "none"
  /\ h.at = "releasing" => h.status \in {"accepted", "failed"}
  /\ h.at = "recording" => h.status # "none"
  /\ h.at # "answered" => h.told = "nothing"
  /\ h.status # "none" => h.key \in DOMAIN ApiKeys
  /\ h.told = "accepted" => h.status = "accepted"
  /\ h.told = "record_unavailable" => h.status = "accepted"
  /\ h.at = "answered" /\ h.status = "failed" => h.told \in {"failed", "nothing"}

HandlingOK == handling \in [Requests -> Handlings] /\ \A r \in Requests : Placed(handling[r])

-----------------------------------------------------------------------------
\* Between a request's authorization and its answer it has a key, and the
\* key's principal a tenant (Principal).
LEMMA TenantType ==
  ASSUME HandlingOK, NEW r \in Requests, handling[r].key \in DOMAIN ApiKeys
  PROVE  Tenant(r) \in Tenants
BY ServiceConstants DEF Tenant

\* A step of one request that leaves it well placed keeps HandlingOK.
LEMMA OneHandled ==
  ASSUME HandlingOK, NEW r \in Requests, NEW h \in Handlings, Placed(h),
         handling' = [handling EXCEPT ![r] = h]
  PROVE  HandlingOK'
<1>1. handling' \in [Requests -> Handlings]
  BY DEF HandlingOK
<1>2. ASSUME NEW q \in Requests
      PROVE  Placed(handling'[q])
  <2>1. CASE q = r
    <3>1. handling'[q] = h
      BY <2>1 DEF HandlingOK
    <3>2. QED
      BY <3>1
  <2>2. CASE q # r
    <3>1. handling'[q] = handling[q]
      BY <2>2 DEF HandlingOK
    <3>2. Placed(handling[q])
      BY DEF HandlingOK
    <3>3. QED
      BY <3>1, <3>2
  <2>3. QED
    BY <2>1, <2>2
<1>3. QED
  BY <1>1, <1>2 DEF HandlingOK

\* The steps of a request: where each leads, and that it leads to a place.
\* Ending a request (Ended) changes its place and what the client is told.
LEMMA EndedPlace ==
  ASSUME NEW h \in Handlings, Placed(h),
         NEW told \in {"nothing", "too_large", "invalid_credentials", "forbidden", "unbuilt"},
         h.status = "none" \/ told = "nothing"
  PROVE  Ended(h, told) \in Handlings /\ Placed(Ended(h, told))
BY DEF Ended, Handlings, Placed

\* The answer that follows the terminal record (Told).
LEMMA RecordedPlace ==
  ASSUME NEW h \in Handlings, Placed(h), h.at = "recording",
         NEW written \in BOOLEAN
  PROVE  /\ Ended(h, Told(h.status, written)) \in Handlings
         /\ Placed(Ended(h, Told(h.status, written)))
<1>1. h.status \in {"accepted", "failed", "rejected"}
  BY DEF Handlings, Placed
<1>2. Told(h.status, written) \in {"record_unavailable", "accepted", "failed", "rejected"}
  BY <1>1 DEF Told
<1>3. Ended(h, Told(h.status, written)) \in Handlings
  BY <1>2 DEF Ended, Handlings
<1>4. Placed(Ended(h, Told(h.status, written)))
  BY <1>1 DEF Ended, Handlings, Placed, Told
<1>5. QED
  BY <1>3, <1>4

\* One request at a time: the value its record gets (handling' below), for each
\* of its steps.
LEMMA RefuseStep ==
  ASSUME HandlingOK, NEW r \in Requests, RefuseBody(r)
  PROVE  HandlingOK'
<1>1. handling[r] \in Handlings /\ Placed(handling[r])
  BY DEF HandlingOK
<1>2. handling[r].status = "none"
  BY DEF RefuseBody, Waiting
<1>3. Ended(handling[r], "too_large") \in Handlings /\ Placed(Ended(handling[r], "too_large"))
  BY <1>1, <1>2, EndedPlace
<1>4. handling' = [handling EXCEPT ![r] = Ended(handling[r], "too_large")]
  BY DEF RefuseBody
<1>5. QED
  BY <1>3, <1>4, OneHandled

LEMMA ArriveStep ==
  ASSUME HandlingOK, NEW r \in Requests, NEW k \in DOMAIN ApiKeys, NEW o \in Operations,
         NEW header \in Tenants, Arrive(r, k, o, header)
  PROVE  HandlingOK'
<1>1. handling[r] \in Handlings /\ Placed(handling[r])
  BY DEF HandlingOK
<1>2. handling[r].status = "none" /\ handling[r].told = "nothing"
  BY DEF Arrive, Waiting
<1>3. CASE ~ Authenticates(k)
  <2>1. handling' = [handling EXCEPT ![r] = Ended(handling[r], "invalid_credentials")]
    BY <1>3 DEF Arrive
  <2>2. Ended(handling[r], "invalid_credentials") \in Handlings
        /\ Placed(Ended(handling[r], "invalid_credentials"))
    BY <1>1, <1>2, EndedPlace
  <2>3. QED
    BY <2>1, <2>2, OneHandled
<1>4. CASE Authenticates(k) /\ ~ Authorized(k, o, header)
  <2>1. handling' = [handling EXCEPT ![r] = Ended(handling[r], "forbidden")]
    BY <1>4 DEF Arrive
  <2>2. Ended(handling[r], "forbidden") \in Handlings
        /\ Placed(Ended(handling[r], "forbidden"))
    BY <1>1, <1>2, EndedPlace
  <2>3. QED
    BY <2>1, <2>2, OneHandled
<1>5. CASE Authenticates(k) /\ Authorized(k, o, header)
  <2> DEFINE h == [handling[r] EXCEPT !.at = "authorized", !.key = k, !.packet = o.packet]
  <2>1. handling' = [handling EXCEPT ![r] = h]
    BY <1>5 DEF Arrive
  <2>2. o.packet \in Packets
    BY DEF Packets
  <2>3. h \in Handlings
    BY <1>1, <2>2 DEF Handlings
  <2>4. Placed(h)
    BY <1>1, <1>2, <2>3 DEF Handlings, Placed
  <2> HIDE DEF h
  <2>5. QED
    BY <2>1, <2>3, <2>4, OneHandled
<1>6. QED
  BY <1>3, <1>4, <1>5

LEMMA AskStep ==
  ASSUME HandlingOK, NEW r \in Requests, NEW k \in Estimates, AskAdmission(r, k)
  PROVE  HandlingOK'
<1>1. handling[r] \in Handlings /\ Placed(handling[r])
  BY DEF HandlingOK
<1>2. /\ handling[r].at = "authorized" /\ handling[r].status = "none"
      /\ handling[r].told = "nothing" /\ handling[r].key \in DOMAIN ApiKeys
  BY <1>1 DEF AskAdmission, Placed
<1> DEFINE Works == [handling[r] EXCEPT !.at = "working"]
           Rejected == [handling[r] EXCEPT !.at = "recording", !.status = "rejected"]
<1>3. Works \in Handlings /\ Placed(Works)
  BY <1>1, <1>2 DEF Handlings, Placed
<1>4. Rejected \in Handlings /\ Placed(Rejected)
  BY <1>1, <1>2 DEF Handlings, Placed
<1>5. Ended(handling[r], "unbuilt") \in Handlings /\ Placed(Ended(handling[r], "unbuilt"))
  BY <1>1, <1>2, EndedPlace
<1>6. handling \in [Requests -> Handlings]
  BY DEF HandlingOK
<1>7. \/ handling' = [handling EXCEPT ![r] = Works]
      \/ handling' = [handling EXCEPT ![r] = Ended(handling[r], "unbuilt")]
      \/ handling' = [handling EXCEPT ![r] = Rejected]
  BY <1>6 DEF AskAdmission
<1> HIDE DEF Works, Rejected
<1>8. QED
  BY <1>3, <1>4, <1>5, <1>7, OneHandled

\* The end of a try block (Worked) leads to the finally clause.
LEMMA WorkedStep ==
  ASSUME HandlingOK, NEW r \in Requests, NEW ok \in BOOLEAN,
         handling[r].at = "working", Worked(r, ok)
  PROVE  HandlingOK'
<1> DEFINE s == IF ok THEN "accepted" ELSE "failed"
           h == [handling[r] EXCEPT !.at = "releasing", !.status = s]
<1>1. handling[r] \in Handlings /\ Placed(handling[r]) /\ handling \in [Requests -> Handlings]
  BY DEF HandlingOK
<1>2. s \in {"accepted", "failed"}
  OBVIOUS
<1>3. handling' = [handling EXCEPT ![r] = h]
  BY <1>1 DEF Worked
<1> HIDE DEF s
<1>4. h \in Handlings /\ Placed(h)
  BY <1>1, <1>2 DEF Handlings, Placed
<1> HIDE DEF h
<1>5. QED
  BY <1>3, <1>4, OneHandled

LEMMA ReleasePermitStep ==
  ASSUME HandlingOK, NEW r \in Requests, ReleasePermit(r)
  PROVE  HandlingOK'
<1> DEFINE h == [handling[r] EXCEPT !.at = "recording"]
<1>1. handling[r] \in Handlings /\ Placed(handling[r]) /\ handling \in [Requests -> Handlings]
  BY DEF HandlingOK
<1>2. handling' = [handling EXCEPT ![r] = h]
  BY <1>1 DEF ReleasePermit
<1>3. h \in Handlings /\ Placed(h)
  BY <1>1 DEF Handlings, Placed, ReleasePermit
<1> HIDE DEF h
<1>4. QED
  BY <1>2, <1>3, OneHandled

\* Whether the record was written decides the answer.
LEMMA RecordAnswer ==
  ASSUME NEW r \in Requests, Record(r)
  PROVE  /\ handling[r].at = "recording"
         /\ \E written \in BOOLEAN :
              handling' = [handling EXCEPT ![r] = Ended(handling[r], Told(handling[r].status, written))]
BY DEF Record

LEMMA RecordStep ==
  ASSUME HandlingOK, NEW r \in Requests, Record(r)
  PROVE  HandlingOK'
<1>1. handling[r] \in Handlings /\ Placed(handling[r])
  BY DEF HandlingOK
<1>2. PICK written \in BOOLEAN :
        handling' = [handling EXCEPT ![r] = Ended(handling[r], Told(handling[r].status, written))]
  BY RecordAnswer
<1>3. handling[r].at = "recording"
  BY RecordAnswer
<1>4. /\ Ended(handling[r], Told(handling[r].status, written)) \in Handlings
      /\ Placed(Ended(handling[r], Told(handling[r].status, written)))
  BY <1>1, <1>3, RecordedPlace
<1>5. QED
  BY <1>2, <1>4, OneHandled

LEMMA ReplicaStep ==
  ASSUME HandlingOK, NEW r \in Requests, ReplicaDies(r)
  PROVE  HandlingOK'
<1>1. handling[r] \in Handlings /\ Placed(handling[r])
  BY DEF HandlingOK
<1>2. Ended(handling[r], "nothing") \in Handlings /\ Placed(Ended(handling[r], "nothing"))
  BY <1>1, EndedPlace
<1>3. handling' = [handling EXCEPT ![r] = Ended(handling[r], "nothing")]
  BY DEF ReplicaDies
<1>4. QED
  BY <1>2, <1>3, OneHandled

\* A crash ends the requests in progress and leaves the answered ones as they are.
LEMMA CrashStep ==
  ASSUME HandlingOK, Crash
  PROVE  /\ HandlingOK'
         /\ \A r \in Requests : handling[r].at = "answered" => handling'[r] = handling[r]
<1>1. ASSUME NEW r \in Requests
      PROVE  /\ handling'[r] \in Handlings /\ Placed(handling'[r])
             /\ handling[r].at = "answered" => handling'[r] = handling[r]
  <2>1. handling[r] \in Handlings /\ Placed(handling[r])
    BY DEF HandlingOK
  <2>2. CASE handling[r].at = "new"
    BY <2>1, <2>2 DEF Crash
  <2>3. CASE handling[r].at = "answered"
    <3>1. handling'[r] = Ended(handling[r], handling[r].told)
      BY <2>3 DEF Crash
    <3>2. Ended(handling[r], handling[r].told) = handling[r]
      BY <2>1, <2>3 DEF Ended, Handlings
    <3>3. QED
      BY <2>1, <3>1, <3>2
  <2>4. CASE handling[r].at \notin {"new", "answered"}
    <3>1. handling'[r] = Ended(handling[r], "nothing")
      BY <2>4 DEF Crash
    <3>2. QED
      BY <2>1, <2>4, <3>1, EndedPlace
  <2>5. QED
    BY <2>2, <2>3, <2>4
<1>2. handling' \in [Requests -> Handlings]
  <2>1. handling' = [r \in Requests |-> handling'[r]]
    BY DEF Crash
  <2>2. QED
    BY <1>1, <2>1
<1>3. QED
  BY <1>1, <1>2 DEF HandlingOK

-----------------------------------------------------------------------------
\* Every request is where its record says, for any number of requests: the
\* fields the endpoints fill in on the way (handling) agree with the place.
LEMMA HandlingNext ==
  ASSUME HandlingOK, [ServiceNext]_serviceVars
  PROVE  HandlingOK'
<1>1. ASSUME handling' = handling
      PROVE  HandlingOK'
  BY <1>1 DEF HandlingOK
<1>2. CASE UNCHANGED serviceVars
  BY <1>1, <1>2 DEF serviceVars
<1>3. ASSUME NEW verified \in [Eligible -> BOOLEAN], Startup(verified)
      PROVE  HandlingOK'
  BY <1>1, <1>3 DEF Startup
<1>4. CASE Crash
  BY <1>4, CrashStep
<1>5. ASSUME NEW k \in DOMAIN ApiKeys, KeyExpires(k)
      PROVE  HandlingOK'
  BY <1>1, <1>5 DEF KeyExpires
<1>6. ASSUME NEW t \in Tenants, Redis(t)
      PROVE  HandlingOK'
  BY <1>1, <1>6 DEF Redis
<1>7. ASSUME NEW r \in Requests, NEW ok \in BOOLEAN, Work(r, ok) \/ CreateWorkflow(r, ok)
      PROVE  HandlingOK'
  BY <1>7, WorkedStep DEF Work, CreateWorkflow
<1>8. QED
  BY <1>2, <1>3, <1>4, <1>5, <1>6, <1>7, RefuseStep, ArriveStep, AskStep,
     ReleasePermitStep, RecordStep, ReplicaStep DEF ServiceNext

\* A request has its place from the start.
LEMMA HandlingStart ==
  ASSUME ServiceInit
  PROVE  HandlingOK
<1>1. Waiting \in Handlings /\ Placed(Waiting)
  BY DEF Waiting, Handlings, Placed, Packets
<1>2. handling = [r \in Requests |-> Waiting]
  BY DEF ServiceInit
<1>3. QED
  BY <1>1, <1>2 DEF HandlingOK

\* The fields of a request agree with the handler's place in every reachable
\* state (the frame of the endpoints in main.py and the workflow routers).
THEOREM HandlingInvariant == ServiceSpec => []HandlingOK
<1>1. ServiceInit => HandlingOK
  BY HandlingStart
<1>2. HandlingOK /\ [ServiceNext]_serviceVars => HandlingOK'
  BY HandlingNext
<1>3. QED
  BY <1>1, <1>2, PTL DEF ServiceSpec

-----------------------------------------------------------------------------
\* admit_request asks for the tenant of the principal that was authorized.
LEMMA AskIsAdmission ==
  ASSUME HandlingOK, NEW r \in Requests, NEW k \in Estimates, AskAdmission(r, k)
  PROVE  AdmissionNext
<1>1. Tenant(r) \in Tenants
  <2>1. handling[r].key \in DOMAIN ApiKeys
    BY DEF HandlingOK, Placed, AskAdmission
  <2>2. QED
    BY <2>1, TenantType
<1>2. CASE \E raises \in BOOLEAN : Admit(r, Tenant(r), k, raises)
  BY <1>1, <1>2 DEF AdmissionNext
<1>3. CASE Reject(r, Tenant(r), k)
  BY <1>1, <1>3 DEF AdmissionNext
<1>4. CASE AdmitUnheard(r, Tenant(r), k)
  BY <1>1, <1>4 DEF AdmissionNext
<1>5. CASE AdmitUnreached(r)
  BY <1>5 DEF AdmissionNext
<1>6. QED
  BY <1>2, <1>3, <1>4, <1>5 DEF AskAdmission

LEMMA AdmissionStep ==
  ASSUME HandlingOK, [ServiceNext]_serviceVars
  PROVE  [AdmissionNext]_admissionVars
<1>1. CASE UNCHANGED serviceVars
  BY <1>1 DEF serviceVars
<1>2. ASSUME NEW verified \in [Eligible -> BOOLEAN], Startup(verified)
      PROVE  UNCHANGED admissionVars
  BY <1>2 DEF Startup
<1>3. CASE Crash
  BY <1>3 DEF Crash, AdmissionNext
<1>4. ASSUME NEW k \in DOMAIN ApiKeys, KeyExpires(k)
      PROVE  UNCHANGED admissionVars
  BY <1>4 DEF KeyExpires
<1>5. ASSUME NEW t \in Tenants, Redis(t)
      PROVE  AdmissionNext
  BY <1>5 DEF Redis, AdmissionNext
<1>6. ASSUME NEW r \in Requests, RefuseBody(r) \/ Record(r)
      PROVE  UNCHANGED admissionVars
  BY <1>6 DEF RefuseBody, Record
<1>7. ASSUME NEW r \in Requests, NEW k \in DOMAIN ApiKeys, NEW o \in Operations,
             NEW header \in Tenants, Arrive(r, k, o, header)
      PROVE  UNCHANGED admissionVars
  BY <1>7 DEF Arrive
<1>8. ASSUME NEW r \in Requests, NEW ok \in BOOLEAN, Work(r, ok) \/ CreateWorkflow(r, ok)
      PROVE  UNCHANGED admissionVars
  BY <1>8 DEF Work, CreateWorkflow
<1>9. ASSUME NEW r \in Requests, ReleasePermit(r) \/ ReplicaDies(r)
      PROVE  [AdmissionNext]_admissionVars
  BY <1>9 DEF ReleasePermit, ReplicaDies, AdmissionNext
<1>10. QED
  BY <1>1, <1>2, <1>3, <1>4, <1>5, <1>6, <1>7, <1>8, <1>9, AskIsAdmission DEF ServiceNext

\* The endpoints, crashes and lost replies use the counters and permits of
\* admission.py only through the steps of Admission, so what is proved of
\* Admission carries over.
LEMMA ServiceImplementsAdmission == ServiceSpec => AdmissionSpec
<1>1. ServiceInit => AdmissionInit
  BY DEF ServiceInit
<1>2. HandlingOK /\ [ServiceNext]_serviceVars => [AdmissionNext]_admissionVars
  BY AdmissionStep
<1>3. QED
  BY <1>1, <1>2, HandlingInvariant, PTL DEF ServiceSpec, AdmissionSpec

\* In the whole service, whatever its endpoints, crashes and lost replies do, no
\* tenant has more requests in progress than its quota allows.
THEOREM ServiceConcurrency == ServiceSpec => []ConcurrencyIsBounded
BY ServiceImplementsAdmission, ConcurrencyCorrect, PTL

-----------------------------------------------------------------------------
\* Every other step of a request: it stays, ends without an answer of its
\* operation, is admitted, rejected, or gives its permit back.
Moves(h, g) ==
  \/ g = h
  \/ h.at # "answered" /\ \E told \in {"nothing", "too_large", "unbuilt"} : g = Ended(h, told)
  \/ h.at = "authorized" /\ g = [h EXCEPT !.at = "working"]
  \/ h.at = "authorized" /\ g = [h EXCEPT !.at = "recording", !.status = "rejected"]
  \/ h.at = "releasing" /\ g = [h EXCEPT !.at = "recording"]

\* A step of one request is no step of another.
LEMMA OthersStay ==
  ASSUME HandlingOK, NEW q \in Requests, NEW r \in Requests, NEW h,
         handling' = [handling EXCEPT ![r] = h]
  PROVE  /\ q # r => Moves(handling[q], handling'[q])
         /\ q = r => handling'[q] = h
BY DEF HandlingOK, Moves

LEMMA AskMoves ==
  ASSUME HandlingOK, NEW q \in Requests, NEW r \in Requests, NEW k \in Estimates,
         AskAdmission(r, k)
  PROVE  Moves(handling[q], handling'[q])
<1>1. handling \in [Requests -> Handlings] /\ handling[r].at = "authorized"
  BY DEF HandlingOK, AskAdmission
<1> DEFINE Works == [handling[r] EXCEPT !.at = "working"]
           Rejected == [handling[r] EXCEPT !.at = "recording", !.status = "rejected"]
<1>2. \/ handling' = [handling EXCEPT ![r] = Works]
      \/ handling' = [handling EXCEPT ![r] = Ended(handling[r], "unbuilt")]
      \/ handling' = [handling EXCEPT ![r] = Rejected]
  BY <1>1 DEF AskAdmission
<1>3. CASE handling' = [handling EXCEPT ![r] = Works]
  <2>1. q = r => handling'[q] = Works
    BY <1>3, OthersStay
  <2>2. QED
    BY <1>1, <1>3, <2>1, OthersStay DEF Moves
<1>4. CASE handling' = [handling EXCEPT ![r] = Ended(handling[r], "unbuilt")]
  <2>1. q = r => handling'[q] = Ended(handling[r], "unbuilt")
    BY <1>4, OthersStay
  <2>2. QED
    BY <1>1, <1>4, <2>1, OthersStay DEF Moves
<1>5. CASE handling' = [handling EXCEPT ![r] = Rejected]
  <2>1. q = r => handling'[q] = Rejected
    BY <1>5, OthersStay
  <2>2. QED
    BY <1>1, <1>5, <2>1, OthersStay DEF Moves
<1>6. QED
  BY <1>2, <1>3, <1>4, <1>5

\* Each step of the service, seen by one request.
LEMMA RequestStep ==
  ASSUME HandlingOK, [ServiceNext]_serviceVars, NEW q \in Requests
  PROVE  \/ Moves(handling[q], handling'[q])
         \/ \E k \in DOMAIN ApiKeys, o \in Operations, header \in Tenants : Arrive(q, k, o, header)
         \/ \E ok \in BOOLEAN : Work(q, ok) \/ CreateWorkflow(q, ok)
         \/ Record(q)
<1>1. handling \in [Requests -> Handlings] /\ handling[q] \in Handlings
  BY DEF HandlingOK
<1>2. ASSUME handling' = handling
      PROVE  Moves(handling[q], handling'[q])
  BY <1>2 DEF Moves
<1>3. CASE Crash
  <2>1. CASE handling[q].at = "answered"
    BY <1>3, <2>1, CrashStep DEF Moves
  <2>2. CASE handling[q].at = "new"
    BY <1>3, <2>2 DEF Crash, Moves
  <2>3. CASE handling[q].at \notin {"new", "answered"}
    <3>1. handling'[q] = Ended(handling[q], "nothing")
      BY <1>3, <2>3 DEF Crash
    <3>2. QED
      BY <2>3, <3>1 DEF Moves
  <2>4. QED
    BY <2>1, <2>2, <2>3
<1>4. ASSUME NEW r \in Requests, RefuseBody(r)
      PROVE  Moves(handling[q], handling'[q])
  <2>1. handling' = [handling EXCEPT ![r] = Ended(handling[r], "too_large")]
    BY <1>4 DEF RefuseBody
  <2>2. handling[r].at # "answered"
    BY <1>4 DEF RefuseBody, Waiting
  <2>3. q = r => handling'[q] = Ended(handling[r], "too_large")
    BY <2>1, OthersStay
  <2>4. QED
    BY <2>1, <2>2, <2>3, OthersStay DEF Moves
<1>5. ASSUME NEW r \in Requests, ReplicaDies(r)
      PROVE  Moves(handling[q], handling'[q])
  <2>1. handling' = [handling EXCEPT ![r] = Ended(handling[r], "nothing")]
    BY <1>5 DEF ReplicaDies
  <2>2. handling[r].at # "answered"
    BY <1>5 DEF ReplicaDies
  <2>3. q = r => handling'[q] = Ended(handling[r], "nothing")
    BY <2>1, OthersStay
  <2>4. QED
    BY <2>1, <2>2, <2>3, OthersStay DEF Moves
<1>6. ASSUME NEW r \in Requests, ReleasePermit(r)
      PROVE  Moves(handling[q], handling'[q])
  <2>1. handling' = [handling EXCEPT ![r] = [handling[r] EXCEPT !.at = "recording"]]
    BY <1>1, <1>6 DEF ReleasePermit
  <2>2. handling[r].at = "releasing"
    BY <1>6 DEF ReleasePermit
  <2>3. q = r => handling'[q] = [handling[r] EXCEPT !.at = "recording"]
    BY <2>1, OthersStay
  <2>4. QED
    BY <2>1, <2>2, <2>3, OthersStay DEF Moves
<1>7. ASSUME NEW r \in Requests, q # r, \E h : handling' = [handling EXCEPT ![r] = h]
      PROVE  Moves(handling[q], handling'[q])
  BY <1>7, OthersStay
<1>8. ASSUME NEW r \in Requests, NEW k \in DOMAIN ApiKeys, NEW o \in Operations,
             NEW header \in Tenants, Arrive(r, k, o, header)
      PROVE  q = r \/ Moves(handling[q], handling'[q])
  <2>1. \E h : handling' = [handling EXCEPT ![r] = h]
    BY <1>8 DEF Arrive
  <2>2. QED
    BY <1>7, <2>1
<1>9. ASSUME NEW r \in Requests, NEW ok \in BOOLEAN, Work(r, ok) \/ CreateWorkflow(r, ok)
      PROVE  q = r \/ Moves(handling[q], handling'[q])
  <2>1. Worked(r, ok)
    BY <1>9 DEF Work, CreateWorkflow
  <2>2. q # r => handling'[q] = handling[q]
    BY <1>1, <2>1 DEF Worked
  <2>3. QED
    BY <2>2 DEF Moves
<1>10. ASSUME NEW r \in Requests, Record(r)
       PROVE  q = r \/ Moves(handling[q], handling'[q])
  BY <1>7, <1>10, RecordAnswer
<1>11. ASSUME NEW verified \in [Eligible -> BOOLEAN], Startup(verified)
       PROVE  handling' = handling
  BY <1>11 DEF Startup
<1>12. ASSUME NEW k \in DOMAIN ApiKeys, KeyExpires(k)
       PROVE  handling' = handling
  BY <1>12 DEF KeyExpires
<1>13. ASSUME NEW t \in Tenants, Redis(t)
       PROVE  handling' = handling
  BY <1>13 DEF Redis
<1>14. CASE UNCHANGED serviceVars
  BY <1>2, <1>14 DEF serviceVars
<1>15. QED
  BY <1>2, <1>3, <1>4, <1>5, <1>6, <1>8, <1>9, <1>10, <1>11, <1>12, <1>13, <1>14, AskMoves
     DEF ServiceNext

\* Only Arrive gives a request its key, one that is active then, and no step
\* changes the key, packet or status of a request whose operation has ended.
LEMMA KeyStep ==
  ASSUME HandlingOK, [ServiceNext]_serviceVars, NEW q \in Requests
  PROVE  \/ handling'[q].key = handling[q].key
         \/ up /\ handling'[q].key \in Active
<1>1. handling[q] \in Handlings /\ handling \in [Requests -> Handlings]
  BY DEF HandlingOK
<1>2. CASE Moves(handling[q], handling'[q])
  BY <1>1, <1>2 DEF Moves, Ended, Handlings
<1>3. ASSUME NEW k \in DOMAIN ApiKeys, NEW o \in Operations, NEW header \in Tenants,
             Arrive(q, k, o, header)
      PROVE  \/ handling'[q].key = handling[q].key
             \/ up /\ handling'[q].key \in Active
  <2>1. CASE Authenticates(k) /\ Authorized(k, o, header)
    <3>1. handling'[q] = [handling[q] EXCEPT !.at = "authorized", !.key = k, !.packet = o.packet]
      BY <1>1, <1>3, <2>1 DEF Arrive
    <3>2. up /\ k \in Active
      BY <1>3, <2>1 DEF Arrive, Authenticates
    <3>3. QED
      BY <1>1, <3>1, <3>2 DEF Handlings
  <2>2. CASE ~ (Authenticates(k) /\ Authorized(k, o, header))
    <3>1. \E told : handling'[q] = Ended(handling[q], told)
      BY <1>1, <1>3, <2>2 DEF Arrive
    <3>2. QED
      BY <1>1, <3>1 DEF Ended, Handlings
  <2>3. QED
    BY <2>1, <2>2
<1>4. ASSUME NEW ok \in BOOLEAN, Work(q, ok) \/ CreateWorkflow(q, ok)
      PROVE  handling'[q].key = handling[q].key
  <2>1. Worked(q, ok)
    BY <1>4 DEF Work, CreateWorkflow
  <2>2. QED
    BY <1>1, <2>1 DEF Worked, Handlings
<1>5. CASE Record(q)
  <2>1. \E told : handling'[q] = Ended(handling[q], told)
    BY <1>1, <1>5, RecordAnswer
  <2>2. QED
    BY <1>1, <2>1 DEF Ended, Handlings
<1>6. QED
  BY <1>2, <1>3, <1>4, <1>5, RequestStep

\* No step changes which environment, store and coordinator were configured,
\* while the service is open no key becomes active again, and Startup alone
\* opens it.
LEMMA ConfigStep ==
  ASSUME HandlingOK, [ServiceNext]_serviceVars
  PROVE  /\ production' = production /\ store' = store /\ shared' = shared
         /\ up' => Active' \subseteq Active
         /\ up' => up \/ \E verified \in [Eligible -> BOOLEAN] : Startup(verified)
<1>1. UNCHANGED configVars
  BY DEF ServiceNext, serviceVars, Startup, Crash, KeyExpires, RefuseBody, Arrive,
         AskAdmission, Work, CreateWorkflow, ReleasePermit, Record, ReplicaDies, Redis
<1>2. shared' = shared
  BY AdmissionStep DEF AdmissionNext, admissionVars, Reject, Admit, AdmitUnheard,
     AdmitUnreached, Release, ReleaseLost, Restart, ExpireIdle, MinuteEnds
<1>3. dead' = dead \/ ~ up' \/ \E k \in DOMAIN ApiKeys : KeyExpires(k)
  BY DEF ServiceNext, serviceVars, Startup, Crash, RefuseBody, Arrive,
         AskAdmission, Work, CreateWorkflow, ReleasePermit, Record, ReplicaDies, Redis
<1>4. up' => Active' \subseteq Active
  BY <1>3 DEF Active, KeyExpires
<1>5. up' => up \/ \E verified \in [Eligible -> BOOLEAN] : Startup(verified)
  BY DEF ServiceNext, serviceVars, Crash, KeyExpires, RefuseBody, Arrive,
         AskAdmission, Work, CreateWorkflow, ReleasePermit, Record, ReplicaDies, Redis
<1>6. QED
  BY <1>1, <1>2, <1>4, <1>5 DEF configVars

-----------------------------------------------------------------------------
\* What the startup checks of production leave behind: while the process is up
\* every active key's tenant has a quota, and nobody got past authentication
\* without one (verify_production_ready, authenticate_api_key).
GuardInv ==
  /\ production /\ up =>
       /\ \A k \in Active : ApiKeys[k].tenant \in DOMAIN Policy
       /\ store = "postgres" /\ shared
  /\ ProductionIsGuarded

LEMMA GuardNext ==
  ASSUME HandlingOK, GuardInv, [ServiceNext]_serviceVars
  PROVE  GuardInv'
<1>1. ASSUME production', up'
      PROVE  /\ \A k \in Active' : ApiKeys[k].tenant \in DOMAIN Policy
             /\ store' = "postgres" /\ shared'
  <2>1. CASE up
    BY <1>1, <2>1, ConfigStep DEF GuardInv
  <2>2. ASSUME NEW verified \in [Eligible -> BOOLEAN], Startup(verified)
        PROVE  /\ \A k \in Active : ApiKeys[k].tenant \in DOMAIN Policy
               /\ store = "postgres" /\ shared
    BY <1>1, <2>2, ConfigStep DEF Startup, VerifyProductionReady
  <2>3. CASE \E verified \in [Eligible -> BOOLEAN] : Startup(verified)
    <3>1. /\ \A k \in Active : ApiKeys[k].tenant \in DOMAIN Policy
          /\ store = "postgres" /\ shared
      BY <2>2, <2>3
    <3>2. store' = store /\ shared' = shared /\ Active' \subseteq Active
      BY <1>1, ConfigStep
    <3>3. QED
      BY <3>1, <3>2
  <2>4. up \/ \E verified \in [Eligible -> BOOLEAN] : Startup(verified)
    BY <1>1, ConfigStep
  <2>5. QED
    BY <2>1, <2>3, <2>4
<1>2. ASSUME production', NEW q \in Requests, handling'[q].key # Nobody
      PROVE  /\ ApiKeys[handling'[q].key].tenant \in DOMAIN Policy
             /\ store' = "postgres" /\ shared'
  <2>1. production /\ store' = store /\ shared' = shared
    BY <1>2, ConfigStep
  <2>2. CASE handling'[q].key = handling[q].key
    BY <1>2, <2>1, <2>2 DEF GuardInv, ProductionIsGuarded, Tenant
  <2>3. CASE up /\ handling'[q].key \in Active
    BY <2>1, <2>3 DEF GuardInv
  <2>4. QED
    BY <2>2, <2>3, KeyStep
<1>3. QED
  BY <1>1, <1>2 DEF GuardInv, ProductionIsGuarded, Tenant

\* ADR-007 for any keys, quotas and requests: in production whoever passed
\* authentication has a quota, a shared coordinator and a durable record store.
THEOREM ProductionGuarded == ServiceSpec => []ProductionIsGuarded
<1>1. ServiceInit => GuardInv
  BY DEF ServiceInit, GuardInv, ProductionIsGuarded, Waiting
<1>2. HandlingOK /\ GuardInv /\ [ServiceNext]_serviceVars => GuardInv'
  BY GuardNext
<1>3. GuardInv => ProductionIsGuarded
  BY DEF GuardInv
<1>4. QED
  BY <1>1, <1>2, <1>3, HandlingInvariant, PTL DEF ServiceSpec

-----------------------------------------------------------------------------
Records ==
  [request : Requests, tenant : Tenants, status : {"none", "accepted", "failed", "rejected"}]

RecordTypeOK ==
  /\ durable \in Seq(Records)
  /\ pending \in Seq(Records)
  /\ saved \in [Tenants -> Packets]

\* AcceptedIsRecorded, for one request.
Recorded(r) ==
  handling[r].told = "accepted" /\ store # "none" =>
    \E i \in DOMAIN durable : durable[i] = TerminalRecord(r)

Findable(r) ==
  handling[r].status = "accepted" /\ handling[r].packet # NoPacket =>
    saved[Tenant(r)] = handling[r].packet

RecordInv == RecordTypeOK /\ \A r \in Requests : Recorded(r) /\ Findable(r)

\* put: the committed records stay, and a commit that was heard holds the new one.
LEMMA DurableStep ==
  ASSUME HandlingOK, RecordTypeOK, NEW r \in Requests, Record(r)
  PROVE  /\ durable' \in Seq(Records) /\ pending' \in Seq(Records)
         /\ \A i \in DOMAIN durable : i \in DOMAIN durable' /\ durable'[i] = durable[i]
         /\ \/ store = "none"
            \/ \E i \in DOMAIN durable' : durable'[i] = TerminalRecord(r)
            \/ handling' = [handling EXCEPT ![r] = Ended(handling[r], Told(handling[r].status, FALSE))]
<1> DEFINE new == TerminalRecord(r)
<1>1. new \in Records
  <2>1. handling[r] \in Handlings /\ handling[r].key \in DOMAIN ApiKeys
    BY RecordAnswer DEF HandlingOK, Placed
  <2>2. QED
    BY <2>1, TenantType DEF TerminalRecord, Records, Handlings
<1>2. durable \in Seq(Records) /\ pending \in Seq(Records)
  BY DEF RecordTypeOK
<1>3. CASE durable' = durable /\ (pending' = pending \/ pending' = Append(pending, new))
           /\ (store = "none"
               \/ handling' = [handling EXCEPT ![r] = Ended(handling[r], Told(handling[r].status, FALSE))])
  <2> HIDE DEF new
  <2>1. pending' \in Seq(Records)
    BY <1>1, <1>2, <1>3
  <2>2. durable' \in Seq(Records)
    BY <1>2, <1>3
  <2>3. \A i \in DOMAIN durable : i \in DOMAIN durable' /\ durable'[i] = durable[i]
    BY <1>3
  <2>4. QED
    BY <1>3, <2>1, <2>2, <2>3
<1>4. CASE durable' = durable \o Append(pending, new) /\ pending' = <<>>
  <2>1. Append(pending, new) \in Seq(Records) /\ Len(Append(pending, new)) = Len(pending) + 1
        /\ Append(pending, new)[Len(pending) + 1] = new
    BY <1>1, <1>2
  <2> DEFINE tail == Append(pending, new)
  <2>2. tail \in Seq(Records) /\ Len(tail) = Len(pending) + 1 /\ tail[Len(pending) + 1] = new
    BY <2>1
  <2> HIDE DEF tail, new
  <2>3. durable' = durable \o tail
    BY <1>4 DEF tail
  <2>4. durable' \in Seq(Records)
    BY <1>2, <2>2, <2>3
  <2>5. Len(durable') = Len(durable) + Len(pending) + 1
    <3>1. Len(durable \o tail) = Len(durable) + Len(tail)
      BY <1>2, <2>2
    <3>2. Len(durable) \in Nat /\ Len(pending) \in Nat
      BY <1>2
    <3>3. QED
      BY <2>2, <2>3, <3>1, <3>2
  <2>6. \A i \in DOMAIN durable : i \in DOMAIN durable' /\ durable'[i] = durable[i]
    BY <1>2, <2>2, <2>3
  <2>7. /\ Len(durable) + Len(pending) + 1 \in DOMAIN durable'
        /\ durable'[Len(durable) + Len(pending) + 1] = new
    BY <1>2, <2>2, <2>3, <2>4, <2>5
  <2>8. pending' \in Seq(Records)
    BY <1>4
  <2>9. QED
    BY <2>4, <2>6, <2>7, <2>8 DEF new
<1>5. CASE durable' = Append(durable, new) /\ pending' = pending
           /\ handling' = [handling EXCEPT ![r] = Ended(handling[r], Told(handling[r].status, FALSE))]
  <2> HIDE DEF new
  <2>1. QED
    BY <1>1, <1>2, <1>5
<1>6. QED
  BY <1>3, <1>4, <1>5 DEF Record, recordVars

\* Every other step leaves what was committed, and loses at most what was not.
LEMMA RecordsStay ==
  ASSUME HandlingOK, RecordTypeOK, [ServiceNext]_serviceVars, \A r \in Requests : ~ Record(r)
  PROVE  durable' = durable /\ pending' \in Seq(Records)
<1>1. durable' = durable /\ pending' \in {pending, <<>>}
  BY DEF ServiceNext, serviceVars, recordVars, Startup, Crash, KeyExpires, RefuseBody, Arrive,
         AskAdmission, Work, CreateWorkflow, ReleasePermit, ReplicaDies, Redis
<1>2. pending \in Seq(Records) /\ <<>> \in Seq(Records)
  BY DEF RecordTypeOK
<1>3. QED
  BY <1>1, <1>2

\* A workflow that was created keeps its packet (store.create).
LEMMA SavedStep ==
  ASSUME HandlingOK, RecordTypeOK, [ServiceNext]_serviceVars
  PROVE  /\ saved' \in [Tenants -> Packets]
         /\ \A t \in Tenants : saved[t] # NoPacket => saved'[t] = saved[t]
<1>1. saved' = saved \/ \E r \in Requests, ok \in BOOLEAN : CreateWorkflow(r, ok)
  BY DEF ServiceNext, serviceVars, Startup, Crash, KeyExpires, RefuseBody, Arrive,
         AskAdmission, Work, ReleasePermit, Record, ReplicaDies, Redis
<1>2. saved \in [Tenants -> Packets]
  BY DEF RecordTypeOK
<1>3. ASSUME NEW r \in Requests, NEW ok \in BOOLEAN, CreateWorkflow(r, ok)
      PROVE  /\ saved' \in [Tenants -> Packets]
             /\ \A t \in Tenants : saved[t] # NoPacket => saved'[t] = saved[t]
  <2>1. handling[r].packet \in Packets
    BY DEF HandlingOK, Handlings
  <2>2. \/ saved' = saved
        \/ /\ saved[Tenant(r)] \in {NoPacket, handling[r].packet}
           /\ saved' = [saved EXCEPT ![Tenant(r)] = handling[r].packet]
    BY <1>3 DEF CreateWorkflow, Creates
  <2>3. QED
    BY <1>2, <2>1, <2>2
<1>4. QED
  BY <1>1, <1>2, <1>3

\* What a request keeps: an answer is final, and once its operation has ended
\* its key, packet and status are.
LEMMA EndedKeeps ==
  ASSUME HandlingOK, [ServiceNext]_serviceVars, NEW q \in Requests
  PROVE  /\ handling[q].told = "accepted" => handling'[q] = handling[q]
         /\ handling[q].status # "none" =>
              /\ handling'[q].key = handling[q].key
              /\ handling'[q].packet = handling[q].packet
              /\ handling'[q].status = handling[q].status
<1>1. handling[q] \in Handlings /\ Placed(handling[q]) /\ handling \in [Requests -> Handlings]
  BY DEF HandlingOK
<1>2. handling[q].told = "accepted" => handling[q].at = "answered"
  BY <1>1 DEF Placed
<1>3. CASE Moves(handling[q], handling'[q])
  <2>1. handling[q].status # "none" => handling[q].at \notin {"new", "authorized", "working"}
    BY <1>1 DEF Placed
  <2>2. QED
    BY <1>1, <1>2, <1>3, <2>1 DEF Moves, Ended, Handlings
<1>4. ASSUME NEW k \in DOMAIN ApiKeys, NEW o \in Operations, NEW header \in Tenants,
             Arrive(q, k, o, header)
      PROVE  handling[q].status = "none" /\ handling[q].told = "nothing"
  BY <1>4 DEF Arrive, Waiting
<1>5. ASSUME NEW ok \in BOOLEAN, Work(q, ok) \/ CreateWorkflow(q, ok)
      PROVE  handling[q].status = "none" /\ handling[q].told = "nothing"
  BY <1>1, <1>5 DEF Work, CreateWorkflow, Placed
<1>6. CASE Record(q)
  <2>1. handling[q].at = "recording" /\ \E told : handling'[q] = Ended(handling[q], told)
    BY <1>1, <1>6, RecordAnswer
  <2>2. QED
    BY <1>1, <1>2, <2>1 DEF Ended, Handlings
<1>7. QED
  BY <1>3, <1>4, <1>5, <1>6, RequestStep

\* A client is told of a success by record_terminal only, and an operation
\* succeeds at the end of its try block only.
LEMMA SuccessStep ==
  ASSUME HandlingOK, [ServiceNext]_serviceVars, NEW q \in Requests
  PROVE  /\ handling'[q].told = "accepted" => handling[q].told = "accepted" \/ Record(q)
         /\ handling'[q].status = "accepted" =>
              \/ handling[q].status = "accepted"
              \/ Work(q, TRUE) \/ CreateWorkflow(q, TRUE)
<1>1. handling[q] \in Handlings /\ Placed(handling[q]) /\ handling \in [Requests -> Handlings]
  BY DEF HandlingOK
<1>2. CASE Moves(handling[q], handling'[q])
  BY <1>1, <1>2 DEF Moves, Ended, Handlings
<1>3. ASSUME NEW k \in DOMAIN ApiKeys, NEW o \in Operations, NEW header \in Tenants,
             Arrive(q, k, o, header)
      PROVE  handling'[q].told # "accepted" /\ handling'[q].status = handling[q].status
  <2>1. handling[q].told = "nothing"
    BY <1>3 DEF Arrive, Waiting
  <2>2. \/ handling'[q] = Ended(handling[q], "invalid_credentials")
        \/ handling'[q] = Ended(handling[q], "forbidden")
        \/ handling'[q] = [handling[q] EXCEPT !.at = "authorized", !.key = k, !.packet = o.packet]
    BY <1>1, <1>3 DEF Arrive
  <2>3. QED
    BY <1>1, <2>1, <2>2 DEF Ended, Handlings
<1>4. ASSUME NEW ok \in BOOLEAN, Work(q, ok) \/ CreateWorkflow(q, ok)
      PROVE  handling'[q].told = handling[q].told /\ (handling'[q].status = "accepted" => ok = TRUE)
  <2>1. Worked(q, ok)
    BY <1>4 DEF Work, CreateWorkflow
  <2>2. QED
    BY <1>1, <2>1 DEF Worked, Handlings
<1>5. CASE Record(q)
  <2>1. \E told : handling'[q] = Ended(handling[q], told)
    BY <1>1, <1>5, RecordAnswer
  <2>2. QED
    BY <1>1, <1>5, <2>1 DEF Ended, Handlings
<1>6. QED
  BY <1>2, <1>3, <1>4, <1>5, RequestStep

LEMMA RecordNext ==
  ASSUME HandlingOK, RecordInv, [ServiceNext]_serviceVars
  PROVE  RecordInv'
<1>1. RecordTypeOK
  BY DEF RecordInv
<1>2. /\ durable' \in Seq(Records) /\ pending' \in Seq(Records)
      /\ \A i \in DOMAIN durable : i \in DOMAIN durable' /\ durable'[i] = durable[i]
  <2>1. CASE \E r \in Requests : Record(r)
    BY <1>1, <2>1, DurableStep
  <2>2. CASE \A r \in Requests : ~ Record(r)
    BY <1>1, <2>2, RecordsStay DEF RecordTypeOK
  <2>3. QED
    BY <2>1, <2>2
<1>3. /\ saved' \in [Tenants -> Packets]
      /\ \A t \in Tenants : saved[t] # NoPacket => saved'[t] = saved[t]
  BY <1>1, SavedStep
<1>4. store' = store
  BY ConfigStep
<1>5. ASSUME NEW q \in Requests
      PROVE  Recorded(q)'
  <2>1. SUFFICES ASSUME handling'[q].told = "accepted", store' # "none"
                 PROVE  \E i \in DOMAIN durable' : durable'[i] = TerminalRecord(q)'
    BY DEF Recorded
  <2>2. CASE handling[q].told = "accepted"
    <3>1. handling'[q] = handling[q]
      BY <2>2, EndedKeeps
    <3>2. TerminalRecord(q)' = TerminalRecord(q)
      BY <3>1 DEF TerminalRecord, Tenant
    <3>3. PICK i \in DOMAIN durable : durable[i] = TerminalRecord(q)
      BY <1>4, <2>1, <2>2 DEF RecordInv, Recorded
    <3>4. QED
      BY <1>2, <3>2, <3>3
  <2>3. CASE handling[q].told # "accepted"
    <3>1. Record(q)
      BY <2>1, <2>3, SuccessStep
    <3>2. handling[q] \in Handlings /\ handling \in [Requests -> Handlings] /\ Placed(handling[q])
      BY DEF HandlingOK
    <3>3. \E told : handling'[q] = Ended(handling[q], told)
      BY <3>1, <3>2, RecordAnswer
    <3>4. handling'[q].key = handling[q].key /\ handling'[q].status = handling[q].status
      BY <3>2, <3>3 DEF Ended, Handlings
    <3>5. TerminalRecord(q)' = TerminalRecord(q)
      BY <3>4 DEF TerminalRecord, Tenant
    <3>6. handling' # [handling EXCEPT ![q] = Ended(handling[q], Told(handling[q].status, FALSE))]
      <4>1. ASSUME handling' = [handling EXCEPT ![q] = Ended(handling[q], Told(handling[q].status, FALSE))]
            PROVE  handling'[q].told = Told(handling[q].status, FALSE)
        BY <3>2, <4>1 DEF Ended, Handlings
      <4>2. Told(handling[q].status, FALSE) # "accepted"
        BY DEF Told
      <4>3. QED
        BY <2>1, <4>1, <4>2
    <3>7. QED
      BY <1>1, <1>4, <2>1, <3>1, <3>5, <3>6, DurableStep
  <2>4. QED
    BY <2>2, <2>3
<1>6. ASSUME NEW q \in Requests
      PROVE  Findable(q)'
  <2>1. SUFFICES ASSUME handling'[q].status = "accepted", handling'[q].packet # NoPacket
                 PROVE  saved'[Tenant(q)'] = handling'[q].packet
    BY DEF Findable
  <2>2. handling[q] \in Handlings /\ handling \in [Requests -> Handlings] /\ Placed(handling[q])
    BY DEF HandlingOK
  <2>3. CASE handling[q].status = "accepted"
    <3>1. handling'[q].key = handling[q].key /\ handling'[q].packet = handling[q].packet
      BY <2>3, EndedKeeps
    <3>2. Tenant(q)' = Tenant(q)
      BY <3>1 DEF Tenant
    <3>3. saved[Tenant(q)] = handling[q].packet
      BY <2>1, <2>3, <3>1 DEF RecordInv, Findable
    <3>4. Tenant(q) \in Tenants
      BY <2>2, <2>3, TenantType DEF Placed
    <3>5. QED
      BY <1>3, <2>1, <3>1, <3>2, <3>3, <3>4
  <2>4. CASE handling[q].status # "accepted"
    <3>1. Work(q, TRUE) \/ CreateWorkflow(q, TRUE)
      BY <2>1, <2>4, SuccessStep
    <3>2. Worked(q, TRUE)
      BY <3>1 DEF Work, CreateWorkflow
    <3>3. handling'[q].packet = handling[q].packet /\ handling'[q].key = handling[q].key
      BY <2>2, <3>2 DEF Worked, Handlings
    <3>4. CreateWorkflow(q, TRUE)
      BY <2>1, <3>1, <3>3 DEF Work
    <3>5. saved' = [saved EXCEPT ![Tenant(q)] = handling[q].packet]
      BY <3>4 DEF CreateWorkflow
    <3>6. Tenant(q) \in Tenants
      <4>1. handling[q].key \in DOMAIN ApiKeys
        BY <2>2, <3>4 DEF CreateWorkflow, Placed
      <4>2. QED
        BY <4>1, TenantType
    <3>7. Tenant(q)' = Tenant(q)
      BY <3>3 DEF Tenant
    <3>8. QED
      BY <1>1, <3>3, <3>5, <3>6, <3>7 DEF RecordTypeOK
  <2>5. QED
    BY <2>3, <2>4
<1>7. QED
  BY <1>2, <1>3, <1>5, <1>6 DEF RecordInv, RecordTypeOK

\* ADR-009 for any keys, operations and requests, in whatever order they are
\* served, crash or lose their records: a success is told only once its record
\* is committed, a failure is not masked, and a retry finds what was created.
THEOREM RecordedCorrect == ServiceSpec => []AcceptedIsRecorded
<1>1. ServiceInit => RecordInv
  <2>1. SUFFICES ASSUME ServiceInit
                 PROVE  RecordInv
    OBVIOUS
  <2>2. RecordTypeOK
    <3>1. durable = <<>> /\ pending = <<>> /\ <<>> \in Seq(Records)
      BY <2>1 DEF ServiceInit
    <3>2. saved = [t \in Tenants |-> NoPacket] /\ NoPacket \in Packets
      BY <2>1 DEF ServiceInit, Packets
    <3>3. saved \in [Tenants -> Packets]
      BY <3>2
    <3>4. QED
      BY <3>1, <3>3 DEF RecordTypeOK
  <2>3. \A r \in Requests : Recorded(r) /\ Findable(r)
    <3>1. \A r \in Requests : handling[r] = Waiting
      BY <2>1 DEF ServiceInit
    <3>2. Waiting.told # "accepted" /\ Waiting.status # "accepted"
      BY DEF Waiting
    <3>3. QED
      BY <3>1, <3>2 DEF Recorded, Findable
  <2>4. QED
    BY <2>2, <2>3 DEF RecordInv
<1>2. HandlingOK /\ RecordInv /\ [ServiceNext]_serviceVars => RecordInv'
  BY RecordNext
<1>3. HandlingOK /\ RecordInv => AcceptedIsRecorded
  BY DEF HandlingOK, Placed, RecordInv, Recorded, Findable, AcceptedIsRecorded
<1>4. QED
  BY <1>1, <1>2, <1>3, HandlingInvariant, PTL DEF ServiceSpec

-----------------------------------------------------------------------------
\* A request that holds a permit, or lost it between admission and its try block.
Holds(h) == h.at \in {"working", "releasing"} \/ h.told = "unbuilt"

Holders(t) == {r \in Requests : Holds(handling[r]) /\ Tenant(r) = t}

\* A permit is its request's own: of its tenant, and not yet released.
Owned(r) ==
  request[r] \in Tenants =>
    request[r] = Tenant(r) /\ handling[r].at \in {"working", "releasing"}

Covered == ~ shared => \A t \in Tenants : usage[t].concurrent <= Cardinality(Holders(t))

PermitInv == (\A r \in Requests : Owned(r)) /\ Covered

LEMMA HoldersFinite ==
  ASSUME NEW t
  PROVE  /\ IsFiniteSet(Holders(t)) /\ Cardinality(Holders(t)) \in Nat
         /\ IsFiniteSet(Holders(t)') /\ Cardinality(Holders(t)') \in Nat
<1>1. Holders(t) \subseteq Requests /\ Holders(t)' \subseteq Requests
  BY DEF Holders
<1>2. QED
  BY <1>1, AdmissionConstants, FS_Subset, FS_CardinalityType

\* With the counters as they were, more holders are still enough.
LEMMA CoveredGrows ==
  ASSUME AdmissionTypeOK, Covered, shared' = shared,
         \A t \in Tenants : /\ usage'[t].concurrent = usage[t].concurrent
                            /\ Holders(t) \subseteq Holders(t)'
  PROVE  Covered'
<1>1. SUFFICES ASSUME ~ shared, NEW t \in Tenants
               PROVE  usage'[t].concurrent <= Cardinality(Holders(t)')
  BY DEF Covered
<1>2. usage[t].concurrent <= Cardinality(Holders(t)) /\ usage[t].concurrent \in Nat
  BY <1>1 DEF Covered, AdmissionTypeOK, Usage
<1>3. Cardinality(Holders(t)) <= Cardinality(Holders(t)')
  BY HoldersFinite, FS_Subset
<1>4. QED
  BY <1>2, <1>3, HoldersFinite

\* A step of one request that gives up no permit, and takes none.
LEMMA HolderStays ==
  ASSUME HandlingOK, AdmissionTypeOK, PermitInv, NEW r \in Requests, NEW h,
         handling' = [handling EXCEPT ![r] = h], UNCHANGED admissionVars,
         Holds(handling[r]) => Holds(h) /\ h.key = handling[r].key,
         handling[r].at \in {"working", "releasing"} => h.at \in {"working", "releasing"}
  PROVE  PermitInv'
<1>1. /\ handling'[r] = h
      /\ \A q \in Requests : q # r => handling'[q] = handling[q]
  BY DEF HandlingOK
<1>2. UNCHANGED <<shared, usage, request>>
  BY DEF admissionVars
<1>3. ASSUME NEW q \in Requests
      PROVE  Owned(q)'
  <2>1. Owned(q)
    BY DEF PermitInv
  <2>2. CASE q # r
    BY <1>1, <1>2, <2>1, <2>2 DEF Owned, Tenant
  <2>3. CASE q = r
    BY <1>1, <1>2, <2>1, <2>3 DEF Owned, Tenant, Holds
  <2>4. QED
    BY <2>2, <2>3
<1>4. ASSUME NEW t \in Tenants
      PROVE  Holders(t) \subseteq Holders(t)'
  BY <1>1 DEF Holders, Tenant
<1>5. Covered'
  BY <1>2, <1>4, CoveredGrows DEF PermitInv
<1>6. QED
  BY <1>3, <1>5 DEF PermitInv

\* Admission takes a permit for the request's own tenant and counts it.
LEMMA AskPermit ==
  ASSUME HandlingOK, AdmissionTypeOK, PermitInv, NEW r \in Requests, NEW k \in Estimates,
         AskAdmission(r, k)
  PROVE  PermitInv'
<1>1. /\ handling[r] \in Handlings /\ Placed(handling[r]) /\ handling \in [Requests -> Handlings]
      /\ handling[r].at = "authorized"
  BY DEF HandlingOK, AskAdmission
<1>2. Tenant(r) \in Tenants
  BY <1>1, TenantType DEF Placed
<1>3. ~ Holds(handling[r])
  BY <1>1 DEF Placed, Holds
<1>4. /\ \A q \in Requests : q # r => handling'[q] = handling[q]
      /\ handling'[r].key = handling[r].key
  <2>1. ASSUME NEW h, h.key = handling[r].key, handling' = [handling EXCEPT ![r] = h]
        PROVE  /\ \A q \in Requests : q # r => handling'[q] = handling[q]
               /\ handling'[r].key = handling[r].key
    BY <1>1, <2>1
  <2>2. /\ [handling[r] EXCEPT !.at = "working"].key = handling[r].key
        /\ Ended(handling[r], "unbuilt").key = handling[r].key
        /\ [handling[r] EXCEPT !.at = "recording", !.status = "rejected"].key = handling[r].key
    BY <1>1 DEF Ended, Handlings
  <2>3. \/ handling' = [handling EXCEPT ![r] = [handling[r] EXCEPT !.at = "working"]]
        \/ handling' = [handling EXCEPT ![r] = Ended(handling[r], "unbuilt")]
        \/ handling' = [handling EXCEPT ![r] =
                          [handling[r] EXCEPT !.at = "recording", !.status = "rejected"]]
    BY <1>1 DEF AskAdmission
  <2>4. QED
    BY <2>1, <2>2, <2>3
<1>5. ASSUME NEW t \in Tenants
      PROVE  Holders(t) \subseteq Holders(t)'
  BY <1>3, <1>4 DEF Holders, Tenant
<1>6. ASSUME NEW where, Goes(r, where),
             where = "over" \/ (where = Tenant(r) /\ handling'[r].at = "working")
      PROVE  \A q \in Requests : Owned(q)'
  <2>1. /\ request'[r] = where
        /\ \A q \in Requests : q # r => request'[q] = request[q]
    BY <1>6 DEF Goes, AdmissionTypeOK
  <2>2. "over" \notin Tenants
    BY AdmissionConstants
  <2>3. ASSUME NEW q \in Requests
        PROVE  Owned(q)'
    <3>1. CASE q = r
      BY <1>4, <1>6, <2>1, <2>2, <3>1 DEF Owned, Tenant
    <3>2. CASE q # r
      BY <1>4, <2>1, <3>2 DEF Owned, Tenant, PermitInv
    <3>3. QED
      BY <3>1, <3>2
  <2>4. QED
    BY <2>3
<1>7. ASSUME NEW raises \in BOOLEAN, Admit(r, Tenant(r), k, raises), Holds(handling'[r])
      PROVE  Covered'
  <2> DEFINE t0 == Tenant(r)
             u == Window(usage[t0])
  <2>1. usage[t0] \in Usage /\ k \in Nat /\ usage \in [Tenants -> Usage]
    BY <1>2, AdmissionConstants DEF AdmissionTypeOK
  <2>2. Charged(u, k) \in Usage /\ Charged(u, k).concurrent = usage[t0].concurrent + 1
    BY <2>1, WindowKeeps, ChargeRaises
  <2>3. usage' = [usage EXCEPT ![t0] = Charged(u, k)] /\ shared' = shared
    BY <1>7 DEF Admit
  <2> SUFFICES ASSUME ~ shared, NEW t \in Tenants
               PROVE  usage'[t].concurrent <= Cardinality(Holders(t)')
    BY <2>3 DEF Covered
  <2>4. usage[t].concurrent <= Cardinality(Holders(t)) /\ usage[t].concurrent \in Nat
    BY DEF PermitInv, Covered, AdmissionTypeOK, Usage
  <2> HIDE DEF u, t0
  <2>5. CASE t # t0
    <3>1. usage'[t] = usage[t]
      BY <2>1, <2>3, <2>5
    <3>2. Cardinality(Holders(t)) <= Cardinality(Holders(t)')
      BY <1>5, HoldersFinite, FS_Subset
    <3>3. QED
      BY <2>4, <3>1, <3>2, HoldersFinite
  <2>6. CASE t = t0
    <3>1. usage'[t].concurrent = usage[t].concurrent + 1
      BY <2>1, <2>2, <2>3, <2>6
    <3>2. Holders(t)' = Holders(t) \cup {r} /\ r \notin Holders(t)
      BY <1>3, <1>4, <1>7, <2>6 DEF Holders, Tenant, t0
    <3>3. Cardinality(Holders(t)') = Cardinality(Holders(t)) + 1
      BY <3>2, HoldersFinite, FS_AddElement
    <3>4. QED
      BY <2>4, <3>1, <3>3, HoldersFinite
  <2>7. QED
    BY <2>5, <2>6
<1>8. CASE Admit(r, Tenant(r), k, FALSE) /\ handling' = [handling EXCEPT ![r].at = "working"]
  <2>1. handling'[r].at = "working"
    BY <1>1, <1>8 DEF Handlings
  <2>2. Goes(r, Tenant(r))
    BY <1>8 DEF Admit
  <2>3. QED
    BY <1>6, <1>7, <1>8, <2>1, <2>2 DEF Holds, PermitInv
<1>9. CASE Admit(r, Tenant(r), k, TRUE) /\ handling' = [handling EXCEPT ![r] = Ended(@, "unbuilt")]
  <2>1. handling'[r].told = "unbuilt"
    BY <1>1, <1>9 DEF Handlings, Ended
  <2>2. Goes(r, "over")
    BY <1>9 DEF Admit
  <2>3. \A q \in Requests : Owned(q)'
    BY <1>6, <2>2
  <2>4. Covered'
    BY <1>7, <1>9, <2>1 DEF Holds
  <2>5. QED
    BY <2>3, <2>4 DEF PermitInv
<1>10. CASE Reject(r, Tenant(r), k)
  <2>1. Goes(r, "over") /\ shared' = shared
    BY <1>10 DEF Reject
  <2>2. ASSUME NEW t \in Tenants
        PROVE  usage'[t].concurrent = usage[t].concurrent
    <3>1. usage[t] \in Usage /\ usage \in [Tenants -> Usage]
      BY DEF AdmissionTypeOK
    <3>2. usage' = usage \/ usage' = [usage EXCEPT ![Tenant(r)] = Window(usage[Tenant(r)])]
      BY <1>10 DEF Reject
    <3>3. Window(usage[t]).concurrent = usage[t].concurrent
      BY <3>1, WindowKeeps
    <3>4. QED
      BY <1>2, <3>1, <3>2, <3>3
  <2>3. Covered'
    BY <1>5, <2>1, <2>2, CoveredGrows DEF PermitInv
  <2>4. \A q \in Requests : Owned(q)'
    BY <1>6, <2>1
  <2>5. QED
    BY <2>3, <2>4 DEF PermitInv
<1>11. CASE AdmitUnheard(r, Tenant(r), k) \/ AdmitUnreached(r)
  <2>1. shared /\ shared' = shared /\ Goes(r, "over")
    BY <1>11 DEF AdmitUnheard, AdmitUnreached
  <2>2. \A q \in Requests : Owned(q)'
    BY <1>6, <2>1
  <2>3. Covered'
    BY <2>1 DEF Covered
  <2>4. QED
    BY <2>2, <2>3 DEF PermitInv
<1>12. QED
  BY <1>8, <1>9, <1>10, <1>11 DEF AskAdmission

\* The finally clause gives back the permit of the request's own tenant.
LEMMA ReleasePermitKeeps ==
  ASSUME HandlingOK, AdmissionTypeOK, PermitInv, NEW r \in Requests, ReleasePermit(r)
  PROVE  PermitInv'
<1>1. /\ handling[r] \in Handlings /\ Placed(handling[r]) /\ handling \in [Requests -> Handlings]
      /\ handling[r].at = "releasing"
  BY DEF HandlingOK, ReleasePermit
<1>2. /\ handling'[r].at = "recording" /\ handling'[r].told = "nothing"
      /\ \A q \in Requests : q # r => handling'[q] = handling[q]
  BY <1>1 DEF ReleasePermit, Handlings, Placed
<1>3. request[r] \in Tenants /\ Goes(r, "over") /\ shared' = shared
  BY DEF ReleasePermit, Release, ReleaseLost
<1>4. request[r] = Tenant(r)
  BY <1>3 DEF PermitInv, Owned
<1>5. \A q \in Requests : Owned(q)'
  <2>1. request'[r] = "over" /\ \A q \in Requests : q # r => request'[q] = request[q]
    BY <1>3 DEF Goes, AdmissionTypeOK
  <2>2. "over" \notin Tenants
    BY AdmissionConstants
  <2>3. QED
    BY <1>2, <2>1, <2>2 DEF PermitInv, Owned, Tenant
<1>6. Covered'
  <2>1. SUFFICES ASSUME ~ shared, NEW t \in Tenants
                 PROVE  usage'[t].concurrent <= Cardinality(Holders(t)')
    BY <1>3 DEF Covered
  <2>2. usage[t].concurrent <= Cardinality(Holders(t)) /\ usage[t].concurrent \in Nat
        /\ usage \in [Tenants -> Usage]
    BY <2>1 DEF PermitInv, Covered, AdmissionTypeOK, Usage
  <2>3. usage' = [usage EXCEPT ![request[r]].concurrent = IF @ > 0 THEN @ - 1 ELSE 0]
    BY <2>1 DEF ReleasePermit, Release, ReleaseLost
  <2>4. CASE t # request[r]
    <3>1. usage'[t] = usage[t]
      BY <1>3, <2>2, <2>3, <2>4
    <3>2. Holders(t)' = Holders(t)
      BY <1>2, <1>4, <2>4 DEF Holders, Holds, Tenant
    <3>3. QED
      BY <2>2, <3>1, <3>2
  <2>5. CASE t = request[r]
    <3>1. usage'[t].concurrent = IF usage[t].concurrent > 0 THEN usage[t].concurrent - 1 ELSE 0
      BY <1>3, <2>2, <2>3, <2>5 DEF Usage
    <3>2. Holders(t)' = Holders(t) \ {r} /\ r \in Holders(t)
      BY <1>1, <1>2, <1>4, <2>5 DEF Holders, Holds, Tenant
    <3>3. Cardinality(Holders(t)') = Cardinality(Holders(t)) - 1
      BY <3>2, HoldersFinite, FS_RemoveElement
    <3>4. QED
      BY <2>2, <3>1, <3>3, HoldersFinite
  <2>6. QED
    BY <2>4, <2>5
<1>7. QED
  BY <1>5, <1>6 DEF PermitInv

\* A process that ends takes its counters along; a replica that ends is behind Redis.
LEMMA CrashKeepsPermits ==
  ASSUME HandlingOK, AdmissionTypeOK, PermitInv, Crash
  PROVE  PermitInv'
<1>1. /\ \A r \in Requests : request'[r] \notin Tenants
      /\ shared' = shared
  BY AdmissionConstants DEF Crash, Restart, AdmissionTypeOK
<1>2. ~ shared' => \A t \in Tenants : usage'[t].concurrent = 0
  BY <1>1 DEF Crash, Restart, Fresh
<1>3. Covered'
  BY <1>2, HoldersFinite DEF Covered
<1>4. QED
  BY <1>1, <1>3 DEF PermitInv, Owned

LEMMA ReplicaKeepsPermits ==
  ASSUME HandlingOK, AdmissionTypeOK, PermitInv, NEW r \in Requests, ReplicaDies(r)
  PROVE  PermitInv'
<1>1. /\ shared /\ shared' = shared
      /\ \/ Goes(r, "over")
         \/ request' = request /\ request[r] \notin Tenants
  <2>1. CASE request[r] \in Tenants
    <3>1. shared /\ ReleaseLost(r)
      BY <2>1 DEF ReplicaDies
    <3>2. QED
      BY <3>1 DEF ReleaseLost
  <2>2. CASE request[r] \notin Tenants
    <3>1. shared /\ UNCHANGED admissionVars
      BY <2>2 DEF ReplicaDies
    <3>2. QED
      BY <2>2, <3>1 DEF admissionVars
  <2>3. QED
    BY <2>1, <2>2
<1>2. /\ request'[r] = "over" \/ request'[r] \notin Tenants
      /\ \A q \in Requests : q # r => request'[q] = request[q]
  BY <1>1 DEF Goes, AdmissionTypeOK
<1>3. "over" \notin Tenants
  BY AdmissionConstants
<1>4. \A q \in Requests : q # r => handling'[q] = handling[q]
  BY DEF ReplicaDies, HandlingOK
<1>5. \A q \in Requests : Owned(q)'
  BY <1>2, <1>3, <1>4 DEF PermitInv, Owned, Tenant
<1>6. Covered'
  BY <1>1 DEF Covered
<1>7. QED
  BY <1>5, <1>6 DEF PermitInv

LEMMA RedisKeepsPermits ==
  ASSUME HandlingOK, AdmissionTypeOK, PermitInv, NEW t \in Tenants, Redis(t)
  PROVE  PermitInv'
<1>1. shared' = shared /\ request' = request /\ handling' = handling
  BY DEF Redis, ExpireIdle, MinuteEnds
<1>2. \A q \in Requests : Owned(q)'
  BY <1>1 DEF PermitInv, Owned, Tenant
<1>3. \A s \in Tenants : Holders(s)' = Holders(s)
  BY <1>1 DEF Holders, Tenant
<1>4. CASE shared
  BY <1>1, <1>2, <1>4 DEF PermitInv, Covered
<1>5. CASE MinuteEnds(t)
  <2>1. usage' = [usage EXCEPT ![t].over = TRUE] /\ usage \in [Tenants -> Usage]
    BY <1>5 DEF MinuteEnds, AdmissionTypeOK
  <2>2. \A s \in Tenants : usage'[s].concurrent = usage[s].concurrent
    BY <2>1 DEF Usage
  <2>3. Covered'
    BY <1>1, <1>3, <2>2, CoveredGrows DEF PermitInv
  <2>4. QED
    BY <1>2, <2>3 DEF PermitInv
<1>6. QED
  BY <1>4, <1>5 DEF Redis, ExpireIdle

LEMMA PermitNext ==
  ASSUME HandlingOK, AdmissionTypeOK, PermitInv, [ServiceNext]_serviceVars
  PROVE  PermitInv'
<1>1. handling \in [Requests -> Handlings] /\ \A r \in Requests : Placed(handling[r])
  BY DEF HandlingOK
<1>2. ASSUME UNCHANGED <<handling, admissionVars>>
      PROVE  PermitInv'
  <2>1. UNCHANGED <<handling, shared, usage, request>>
    BY <1>2 DEF admissionVars
  <2>2. \A t \in Tenants : Holders(t)' = Holders(t)
    BY <2>1 DEF Holders, Tenant
  <2>3. QED
    BY <2>1, <2>2 DEF PermitInv, Owned, Covered, Tenant
<1>3. CASE UNCHANGED serviceVars
  BY <1>2, <1>3 DEF serviceVars
<1>4. ASSUME NEW verified \in [Eligible -> BOOLEAN], Startup(verified)
      PROVE  PermitInv'
  BY <1>2, <1>4 DEF Startup
<1>5. ASSUME NEW k \in DOMAIN ApiKeys, KeyExpires(k)
      PROVE  PermitInv'
  BY <1>2, <1>5 DEF KeyExpires
<1>6. ASSUME NEW r \in Requests, RefuseBody(r)
      PROVE  PermitInv'
  <2>1. handling' = [handling EXCEPT ![r] = Ended(handling[r], "too_large")]
        /\ UNCHANGED admissionVars
    BY <1>6 DEF RefuseBody
  <2>2. ~ Holds(handling[r]) /\ handling[r].at \notin {"working", "releasing"}
    BY <1>6 DEF RefuseBody, Waiting, Holds
  <2>3. QED
    BY <2>1, <2>2, HolderStays
<1>7. ASSUME NEW r \in Requests, NEW k \in DOMAIN ApiKeys, NEW o \in Operations,
             NEW header \in Tenants, Arrive(r, k, o, header)
      PROVE  PermitInv'
  <2>1. (\E h : handling' = [handling EXCEPT ![r] = h]) /\ UNCHANGED admissionVars
    BY <1>7 DEF Arrive
  <2>2. ~ Holds(handling[r]) /\ handling[r].at \notin {"working", "releasing"}
    BY <1>7 DEF Arrive, Waiting, Holds
  <2>3. QED
    BY <2>1, <2>2, HolderStays
<1>8. ASSUME NEW r \in Requests, NEW ok \in BOOLEAN, Work(r, ok) \/ CreateWorkflow(r, ok)
      PROVE  PermitInv'
  <2> DEFINE s == IF ok THEN "accepted" ELSE "failed"
             h == [handling[r] EXCEPT !.at = "releasing", !.status = s]
  <2>1. UNCHANGED admissionVars /\ Worked(r, ok)
    BY <1>8 DEF Work, CreateWorkflow
  <2>2. handling' = [handling EXCEPT ![r] = h]
    BY <1>1, <2>1 DEF Worked
  <2>3. h.at = "releasing" /\ h.key = handling[r].key
    BY <1>1 DEF Handlings
  <2> HIDE DEF h
  <2>4. QED
    BY <2>1, <2>2, <2>3, HolderStays DEF Holds
<1>9. ASSUME NEW r \in Requests, Record(r)
      PROVE  PermitInv'
  <2>1. (\E h : handling' = [handling EXCEPT ![r] = h]) /\ handling[r].at = "recording"
    BY <1>9, RecordAnswer
  <2>2. ~ Holds(handling[r]) /\ handling[r].at \notin {"working", "releasing"}
    BY <1>1, <2>1 DEF Placed, Holds
  <2>3. UNCHANGED admissionVars
    BY <1>9 DEF Record
  <2>4. QED
    BY <2>1, <2>2, <2>3, HolderStays
<1>10. QED
  BY <1>3, <1>4, <1>5, <1>6, <1>7, <1>8, <1>9, AskPermit, ReleasePermitKeeps,
     CrashKeepsPermits, ReplicaKeepsPermits, RedisKeepsPermits DEF ServiceNext

\* ADR-009 for any requests and quotas: in one process no operation, crash or
\* failing record leaves a permit taken that no request holds, except by
\* raising before the try block of an endpoint that builds its task there.
THEOREM PermitsCorrect == ServiceSpec => []PermitsAreReleased
<1>1. ServiceInit => PermitInv
  <2>1. SUFFICES ASSUME ServiceInit
                 PROVE  PermitInv
    OBVIOUS
  <2>2. \A r \in Requests : request[r] \notin Tenants
    BY <2>1, AdmissionConstants DEF ServiceInit, AdmissionInit
  <2>3. \A t \in Tenants : usage[t].concurrent = 0
    BY <2>1 DEF ServiceInit, AdmissionInit, Fresh
  <2>4. Covered
    BY <2>3, HoldersFinite DEF Covered
  <2>5. QED
    BY <2>2, <2>4 DEF PermitInv, Owned
<1>2. HandlingOK /\ AdmissionInv /\ PermitInv /\ [ServiceNext]_serviceVars => PermitInv'
  BY PermitNext DEF AdmissionInv
<1>3. PermitInv => PermitsAreReleased
  BY DEF PermitInv, Covered, Holders, Holds, PermitsAreReleased
<1>4. ServiceSpec => []AdmissionInv
  BY ServiceImplementsAdmission, AdmissionInvariant, PTL
<1>5. QED
  BY <1>1, <1>2, <1>3, <1>4, HandlingInvariant, PTL DEF ServiceSpec
=============================================================================
