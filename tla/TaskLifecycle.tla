---------------------------- MODULE TaskLifecycle ----------------------------
(***************************************************************************)
(* What the offline workflow subsystem promises about every inference task *)
(* (ADR-011, ADR-013, ADR-015, ADR-020), without leases, fences, journals  *)
(* or clocks: a task runs at most once, what it produced is published at   *)
(* most once and never changes, an execution that was lost is resolved     *)
(* only by publishing what it produced, and a withdrawn or judged task     *)
(* never moves again.                                                      *)
(*                                                                         *)
(* Tasks move independently, and one recovery transaction may move several *)
(* of them, so a step lets every task make its own move or stay.           *)
(***************************************************************************)
CONSTANTS Tasks,    \* the task identities
          Results,  \* the result payloads an execution can produce
          None      \* no result published

VARIABLES phase,      \* where each task is in its life
          published   \* what each task has published, or None

lifecycle == <<phase, published>>

Phases == {"absent", "pending", "executing", "lost", "produced", "failed",
           "accepted", "rejected", "withdrawn"}

Init ==
  /\ phase = [t \in Tasks |-> "absent"]
  /\ published = [t \in Tasks |-> None]

Stay(t) == phase'[t] = phase[t] /\ published'[t] = published[t]

Move(t, from, to) ==
  /\ phase[t] \in from
  /\ phase'[t] \in to
  /\ published'[t] = published[t]

Submit(t) == Move(t, {"absent"}, {"pending"})

Start(t) == Move(t, {"pending"}, {"executing"})

Lose(t) == Move(t, {"executing"}, {"lost"})

\* The one step that publishes: by the execution, or by recovery from the
\* evidence a lost execution left behind.
Publish(t) ==
  /\ phase[t] \in {"executing", "lost"}
  /\ phase'[t] \in {"produced", "failed"}
  /\ published[t] = None
  /\ published'[t] \in Results

Judge(t) == Move(t, {"produced"}, {"accepted", "rejected"})

\* A lost task cannot be withdrawn: its outcome is still unknown.
Withdraw(t) == Move(t, {"pending", "executing", "produced"}, {"withdrawn"})

Step(t) ==
  \/ Submit(t) \/ Start(t) \/ Lose(t)
  \/ Publish(t) \/ Judge(t) \/ Withdraw(t)

Next == \A t \in Tasks : Stay(t) \/ Step(t)

Spec == Init /\ [][Next]_lifecycle
=============================================================================
