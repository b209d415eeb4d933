------------------------------ MODULE MCServing ------------------------------
(***************************************************************************)
(* Small instances of Serving: every pair of engines.                      *)
(***************************************************************************)
EXTENDS Serving

\* An enabled engine may name a model with a revision and a served name, be
\* eligible for production or not, and share its deployment id with another.
MCConfigs ==
  LET model(r, s) == [artifact |-> "a", revision |-> r, served |-> s]
      none == "nothing"
      setting(m, e, n) == [model |-> m, id |-> n, eligible |-> e, context |-> 2, sites |-> {"eu"}]
      models(d) == CASE d = "sglang" -> {NoModel, model(none, none), model(none, "s"), model("r", none)}
                     [] d = "mock" -> {NoModel}
                     [] OTHER -> {model(none, none), model("r", none)}
      settings(d) == {setting(m, e, n) : m \in models(d),
                        e \in IF d = "mock" THEN {FALSE} ELSE BOOLEAN,
                        n \in IF d = "mock" THEN {d, "vllm"} ELSE {d}}
      engines == {"dynamo", "nim", "vllm", "sglang", "mock"}
      pairs == {{d, e} : d \in engines, e \in engines}
  IN UNION {{[env |-> v, of |-> f] : v \in {"development", "production"},
              f \in {f \in [p -> UNION {settings(d) : d \in p}] : \A d \in p : f[d] \in settings(d)}} :
              p \in pairs}

\* As configured; another revision, name or profile; another model.
MCLoads ==
  {[artifact |-> "a", revision |-> "r", served |-> "s", pinned |-> TRUE],
   [artifact |-> "a", revision |-> "r2", served |-> "s2", pinned |-> FALSE],
   [artifact |-> "b", revision |-> "r", served |-> "s", pinned |-> TRUE]}

MCTasks ==
  {[task_kind |-> "chat"], [task_kind |-> "text", served_model |-> "s"],
   [task_kind |-> "text", served_model |-> "a", context_capacity |-> 2],
   [task_kind |-> "text", context_capacity |-> 3], [task_kind |-> "text", site |-> "eu"],
   [task_kind |-> "text", streaming |-> TRUE]}
=============================================================================
