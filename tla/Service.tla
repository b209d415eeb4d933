------------------------------- MODULE Service -------------------------------
(***************************************************************************)
(* The HTTP service around the admission control: the lifespan, the        *)
(* endpoints of src/backend/main.py and of the workflow routers            *)
(* (workflows/api.py, workflows/graph_api.py), authentication and roles    *)
(* (control/security.py, control/api.py) and the execution records         *)
(* (control/records.py).                                                   *)
(*                                                                         *)
(* Every governed endpoint has the same frame: authenticate, authorize,    *)
(* admit, work, release the permit, write the terminal record, answer.     *)
(* What an endpoint works on is abstracted to its outcome, except that     *)
(* creating a workflow saves it.                                           *)
(***************************************************************************)
EXTENDS Admission, Sequences

CONSTANTS
  ApiKeys,      \* APIKeyRecord by key id: its principal's tenant and roles
  Operations,   \* of each endpoint: the role it asks for and the packet it creates, if any
  Eligible      \* the deployments whose production_eligible claim is true

ASSUME ServiceConstants ==
  /\ \A k \in DOMAIN ApiKeys : ApiKeys[k].tenant \in Tenants
  /\ \A o \in Operations : DOMAIN o = {"role", "packet"}

Nobody == "nobody"
NoPacket == "no packet"

VARIABLES
  production,  \* app_env
  store,       \* the execution records: "none", "sqlite" or "postgres"
  up,          \* between startup and shutdown
  dead,        \* keys that are revoked or have expired
  handling,    \* how far each request is
  durable,     \* committed execution records, in record_sequence order
  pending,     \* inserted by SQLite's connection, not committed
  saved        \* the packet a tenant's workflow was created with

recordVars == <<durable, pending>>
configVars == <<production, store>>
serviceVars == <<admissionVars, configVars, up, dead, handling, recordVars, saved>>

Waiting == [at |-> "new", key |-> Nobody, packet |-> NoPacket, status |-> "none", told |-> "nothing"]

ServiceInit ==
  /\ AdmissionInit
  /\ production \in BOOLEAN
  /\ store \in {"none", "sqlite", "postgres"}
  /\ up = FALSE
  /\ dead \in SUBSET DOMAIN ApiKeys
  /\ handling = [r \in Requests |-> Waiting]
  /\ durable = <<>> /\ pending = <<>>
  /\ saved = [t \in Tenants |-> NoPacket]

Active == DOMAIN ApiKeys \ dead

-----------------------------------------------------------------------------
(* lifespan *)

\* Mutant: one tenant with a quota is enough.
VerifyProductionReadySome ==
  /\ Active # {}
  /\ \E k \in Active : ApiKeys[k].tenant \in DOMAIN Policy
  /\ store = "postgres"
  /\ shared

\* Only the PostgreSQL records and the Redis coordinator say they are distributed.
VerifyProductionReady ==
  /\ Active # {}
  /\ \A k \in Active : ApiKeys[k].tenant \in DOMAIN Policy
  /\ store = "postgres"
  /\ shared

\* verified: what assess_model_identity made of each deployment just now.
VerifyProductionDeployments(verified) ==
  Eligible # {} /\ \A d \in Eligible : verified[d]

\* Anything else that raises closes the resources and ends the process.
Startup(verified) ==
  /\ ~ up
  /\ production => VerifyProductionReady /\ VerifyProductionDeployments(verified)
  /\ up' = TRUE
  /\ UNCHANGED <<admissionVars, configVars, dead, handling, recordVars, saved>>

Ended(h, told) == [h EXCEPT !.at = "answered", !.told = told]

\* The process, or every replica of it, ends with its requests and what it had
\* not committed.  The next one reads the keys anew (load_api_control): any of
\* them may have been revoked or renewed.
Crash ==
  /\ up
  /\ Restart
  /\ up' = FALSE
  /\ handling' = [r \in Requests |->
       IF handling[r].at = "new" THEN handling[r] ELSE Ended(handling[r],
         IF handling[r].at = "answered" THEN handling[r].told ELSE "nothing")]
  /\ pending' = <<>>
  /\ dead' \in SUBSET DOMAIN ApiKeys
  /\ UNCHANGED <<configVars, durable, saved>>

\* One replica of several ends with the request it handles, and loses its permit.
ReplicaDies(r) ==
  /\ shared
  /\ handling[r].at \notin {"new", "answered"}
  /\ IF request[r] \in Tenants THEN ReleaseLost(r) ELSE UNCHANGED admissionVars
  /\ handling' = [handling EXCEPT ![r] = Ended(@, "nothing")]
  /\ pending' \in {pending, <<>>}
  /\ UNCHANGED <<configVars, up, dead, durable, saved>>

\* Time passes a key's expires_at.
KeyExpires(k) ==
  /\ k \in Active
  /\ dead' = dead \cup {k}
  /\ UNCHANGED <<admissionVars, configVars, up, handling, recordVars, saved>>

-----------------------------------------------------------------------------
(* require_role *)

\* authorize, with the tenant of the x-tenant-id header when there is one
Authorized(k, o, header) ==
  /\ header = ApiKeys[k].tenant
  /\ o.role \in ApiKeys[k].roles \/ "admin" \in ApiKeys[k].roles

\* authenticate_api_key
Authenticates(k) == k \in Active

\* RequestBodyLimitMiddleware refuses a body over the limit before anything else.
RefuseBody(r) ==
  /\ up
  /\ handling[r] = Waiting
  /\ handling' = [handling EXCEPT ![r] = Ended(@, "too_large")]
  /\ UNCHANGED <<admissionVars, configVars, up, dead, recordVars, saved>>

Arrive(r, k, o, header) ==
  /\ up
  /\ handling[r] = Waiting
  /\ handling' = [handling EXCEPT ![r] =
       IF ~ Authenticates(k) THEN Ended(@, "invalid_credentials")
       ELSE IF ~ Authorized(k, o, header) THEN Ended(@, "forbidden")
       ELSE [@ EXCEPT !.at = "authorized", !.key = k, !.packet = o.packet]]
  /\ UNCHANGED <<admissionVars, configVars, up, dead, recordVars, saved>>

Tenant(r) == ApiKeys[handling[r].key].tenant

\* admit_request: without a permit the rejection is recorded and raised.
AskAdmission(r, k) ==
  /\ handling[r].at = "authorized"
  /\ \/ /\ Admit(r, Tenant(r), k, FALSE)
        /\ handling' = [handling EXCEPT ![r].at = "working"]
     \/ /\ Admit(r, Tenant(r), k, TRUE)
        /\ handling' = [handling EXCEPT ![r] = Ended(@, "unbuilt")]
     \/ /\ \/ Reject(r, Tenant(r), k)
           \/ AdmitUnheard(r, Tenant(r), k)
           \/ AdmitUnreached(r)
        /\ handling' = [handling EXCEPT ![r].at = "recording", ![r].status = "rejected"]
  /\ UNCHANGED <<configVars, up, dead, recordVars, saved>>

\* store.create: the key of an earlier request names that request's workflow.
Creates(t, p) == saved[t] \in {NoPacket, p}

Worked(r, ok) ==
  handling' = [handling EXCEPT ![r].at = "releasing",
                               ![r].status = IF ok THEN "accepted" ELSE "failed"]

\* The try block of an endpoint that creates nothing ends, in either way.
Work(r, ok) ==
  /\ handling[r].at = "working" /\ handling[r].packet = NoPacket
  /\ Worked(r, ok)
  /\ UNCHANGED <<admissionVars, configVars, up, dead, recordVars, saved>>

\* A workflow or a graph is saved, or found under its key; reading the saved
\* row back may still fail.  A failure may also come before, or be the conflict;
\* production has no workflow store.
CreateWorkflow(r, ok) ==
  LET p == handling[r].packet
      t == Tenant(r)
  IN /\ handling[r].at = "working" /\ p # NoPacket
     /\ \/ ~ production /\ Creates(t, p) /\ saved' = [saved EXCEPT ![t] = p]
        \/ ~ ok /\ UNCHANGED saved
     /\ Worked(r, ok)
     /\ UNCHANGED <<admissionVars, configVars, up, dead, recordVars>>

\* Mutant: only the path of a successful operation releases.
ReleasePermitOnSuccess(r) ==
  /\ handling[r].at = "releasing"
  /\ IF handling[r].status = "accepted" THEN Release(r) \/ ReleaseLost(r)
                                        ELSE UNCHANGED admissionVars
  /\ handling' = [handling EXCEPT ![r].at = "recording"]
  /\ UNCHANGED <<configVars, up, dead, recordVars, saved>>

\* The finally clause, first half.
ReleasePermit(r) ==
  /\ handling[r].at = "releasing"
  /\ Release(r) \/ ReleaseLost(r)
  /\ handling' = [handling EXCEPT ![r].at = "recording"]
  /\ UNCHANGED <<configVars, up, dead, recordVars, saved>>

TerminalRecord(r) ==
  [request |-> r, tenant |-> Tenant(r), status |-> handling[r].status]

\* Mutant: a record that cannot be written is dropped.
ToldAnyway(status, written) == status

\* record_terminal: an accepted operation needs its record, a failure is kept.
Told(status, written) ==
  IF status = "accepted" /\ ~ written THEN "record_unavailable" ELSE status

\* put: what SQLite inserted but could not commit stays in its transaction, and
\* the next commit takes it along; PostgreSQL may commit and not be heard.
Record(r) ==
  LET new == TerminalRecord(r)
      answer(written) == handling' = [handling EXCEPT ![r] = Ended(@, Told(@.status, written))]
  IN /\ handling[r].at = "recording"
     /\ \/ /\ store = "none"
           /\ answer(TRUE)
           /\ UNCHANGED recordVars
        \/ /\ store # "none"
           /\ durable' = durable \o Append(pending, new)
           /\ pending' = <<>>
           /\ answer(TRUE)
        \/ /\ store # "none"
           /\ answer(FALSE)
           /\ UNCHANGED recordVars
        \/ /\ store = "sqlite"
           /\ pending' = Append(pending, new)
           /\ answer(FALSE)
           /\ UNCHANGED durable
        \/ /\ store = "postgres"
           /\ durable' = Append(durable, new)
           /\ answer(FALSE)
           /\ UNCHANGED pending
     /\ UNCHANGED <<admissionVars, configVars, up, dead, saved>>

Redis(t) ==
  /\ ExpireIdle(t) \/ MinuteEnds(t)
  /\ UNCHANGED <<configVars, up, dead, handling, recordVars, saved>>

ServiceNext ==
  \/ \E verified \in [Eligible -> BOOLEAN] : Startup(verified)
  \/ Crash
  \/ \E k \in DOMAIN ApiKeys : KeyExpires(k)
  \/ \E r \in Requests :
       \/ RefuseBody(r)
       \/ \E k \in DOMAIN ApiKeys, o \in Operations, header \in Tenants : Arrive(r, k, o, header)
       \/ \E k \in Estimates : AskAdmission(r, k)
       \/ \E ok \in BOOLEAN : Work(r, ok) \/ CreateWorkflow(r, ok)
       \/ ReleasePermit(r) \/ Record(r) \/ ReplicaDies(r)
  \/ \E t \in Tenants : Redis(t)

ServiceSpec == ServiceInit /\ [][ServiceNext]_serviceVars

-----------------------------------------------------------------------------
\* ADR-009: a client is told that its operation succeeded only after the
\* terminal record was committed, and is told of a missing record only when the
\* operation had succeeded: a failure of the operation is never masked.  A
\* creation that succeeded, even if only its record failed, is found under its
\* key with the client's own packet, so a retry creates nothing new.
AcceptedIsRecorded ==
  \A r \in Requests :
    LET h == handling[r]
    IN /\ h.told = "accepted" /\ store # "none" =>
            \E i \in DOMAIN durable : durable[i] = TerminalRecord(r)
       /\ h.told = "record_unavailable" => h.status = "accepted"
       /\ h.at = "answered" /\ h.status = "failed" => h.told \in {"failed", "nothing"}
       /\ h.status = "accepted" /\ h.packet # NoPacket => saved[Tenant(r)] = h.packet

\* ADR-009: in one process a permit comes back whatever the operation, its
\* record or its client does; the exception is a request whose task could not
\* be built between its admission and its try block.
PermitsAreReleased ==
  ~ shared => \A t \in Tenants :
    usage[t].concurrent <=
      Cardinality({r \in Requests :
        /\ handling[r].at \in {"working", "releasing"} \/ handling[r].told = "unbuilt"
        /\ Tenant(r) = t})

\* ADR-007: whoever gets past authentication in production has a quota, and a
\* distributed store takes the record, though keys expire after the startup
\* that checked them and may have changed when the process starts again.
ProductionIsGuarded ==
  production => \A r \in Requests :
    handling[r].key # Nobody =>
      Tenant(r) \in DOMAIN Policy /\ store = "postgres" /\ shared
=============================================================================
