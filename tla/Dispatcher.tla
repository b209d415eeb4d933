------------------------------ MODULE Dispatcher ------------------------------
(***************************************************************************)
(* LocalWorkflowDispatcher (src/backend/workflows/dispatcher.py): any      *)
(* number of dispatchers, in one process or several, draining one queue of *)
(* ready workflows.                                                        *)
(*                                                                         *)
(* A dispatcher runs on one event loop, so what it does between two awaits *)
(* is one step, and the executions an iteration creates take their first   *)
(* step before the coordinator runs again.  Its waits end with a poll      *)
(* timeout at the latest, so _changed only shortens them and is left out.  *)
(*                                                                         *)
(* Of the store only the row's place in the queue and who claimed it       *)
(* matter here; WorkflowStore has the rest.  An execution that was claimed *)
(* publishes, meets a conflict, or dies of an exception.                   *)
(***************************************************************************)
EXTENDS Integers, Sequences, FiniteSets

CONSTANTS Workflows,
          Unbound,      \* those without a binding, which execute() refuses
          Dispatchers,
          Concurrency,
          CounterCap,   \* bound: the counters stop here, the dispatcher does not
          None

ASSUME UnboundAssumption == Unbound \subseteq Workflows

ASSUME ConcurrencyAssumption == Concurrency \in 1..64

ASSUME CapAssumption == CounterCap \in Nat \ {0}

ASSUME NoneAssumption == None \notin Dispatchers

VARIABLES
  queue,    \* workflow rows in rowid order
  row,      \* "ready", "running", or "settled" once nobody may run it any more
  holder,   \* the dispatcher whose claim a running row carries
  phase,    \* _state
  coord,    \* where the coordinator task is
  task,     \* _active: each dispatcher's execution of each workflow
  count,    \* the snapshot counters
  waiter    \* a wait_idle() call

vars == <<queue, row, holder, phase, coord, task, count, waiter>>

Live == {"created", "executing"}

\* _active, and the tasks in it that are not done
Active(d) == {w \in Workflows : task[d][w] # "none"}

Unfinished(d) == {w \in Workflows : task[d][w] \in Live}

\* Mutant: finished tasks are never forgotten.
ReapedNothing(d) == task[d]

\* _reap
Reaped(d) == [w \in Workflows |-> IF task[d][w] \in Live THEN task[d][w] ELSE "none"]

\* What an iteration may still start after _reap.
Slots(d) == Concurrency - Cardinality({w \in Workflows : Reaped(d)[w] # "none"})

Ready(w) == row[w] = "ready"

\* store.list_ready: the first n ready rows, whoever is working on them
ListReady(n) ==
  LET rank(i) == Cardinality({j \in 1..i : Ready(queue[j])})
  IN {queue[i] : i \in {i \in DOMAIN queue : Ready(queue[i]) /\ rank(i) <= n}}

Bump(d, c, n) ==
  [count EXCEPT ![d][c] = IF @ + n < CounterCap THEN @ + n ELSE CounterCap]

Init ==
  /\ queue = <<>>
  /\ row = [w \in Workflows |-> "absent"]
  /\ holder = [w \in Workflows |-> None]
  /\ phase = [d \in Dispatchers |-> "new"]
  /\ coord = [d \in Dispatchers |-> "none"]
  /\ task = [d \in Dispatchers |-> [w \in Workflows |-> "none"]]
  /\ count = [d \in Dispatchers |-> [dispatched |-> 0, completed |-> 0,
                                     conflicts |-> 0, failures |-> 0]]
  /\ waiter = [d \in Dispatchers |-> "none"]

-----------------------------------------------------------------------------
Start(d) ==
  /\ phase[d] = "new"
  /\ phase' = [phase EXCEPT ![d] = "running"]
  /\ coord' = [coord EXCEPT ![d] = "polling"]
  /\ UNCHANGED <<queue, row, holder, task, count, waiter>>

\* Before start() there is nothing to drain; a second call only waits.
Stop(d) ==
  /\ phase[d] \in {"new", "running"}
  /\ phase' = [phase EXCEPT ![d] = IF @ = "new" THEN "stopped" ELSE "stopping"]
  /\ UNCHANGED <<queue, row, holder, coord, task, count, waiter>>

AtLoopTop(d) ==
  /\ coord[d] = "polling"
  /\ \A w \in Workflows : task[d][w] # "created"

\* One iteration of _run.
Poll(d) ==
  LET chosen == IF Slots(d) > 0 THEN ListReady(Slots(d)) ELSE {}
  IN /\ AtLoopTop(d)
     /\ phase[d] # "stopping"
     /\ task' = [task EXCEPT ![d] =
                   [w \in Workflows |-> IF w \in chosen THEN "created"
                                                        ELSE Reaped(d)[w]]]
     /\ count' = Bump(d, "dispatched", Cardinality(chosen))
     /\ UNCHANGED <<queue, row, holder, phase, coord, waiter>>

\* The loop ends because stop() was called or because list_ready raised.
LeaveLoop(d) ==
  /\ AtLoopTop(d)
  /\ coord' = [coord EXCEPT ![d] = "draining"]
  /\ UNCHANGED <<queue, row, holder, phase, task, count, waiter>>

\* Mutant: the coordinator waits for the whole queue.
DrainedQueue(d) ==
  /\ coord[d] = "draining"
  /\ ListReady(1) = {}
  /\ Unfinished(d) = {}
  /\ task' = [task EXCEPT ![d] = Reaped(d)]
  /\ coord' = [coord EXCEPT ![d] = "ended"]
  /\ phase' = [phase EXCEPT ![d] = "stopped"]
  /\ UNCHANGED <<queue, row, holder, count, waiter>>

\* The finally clause of _run, once gather returned.
Drained(d) ==
  /\ coord[d] = "draining"
  /\ Unfinished(d) = {}
  /\ task' = [task EXCEPT ![d] = Reaped(d)]
  /\ coord' = [coord EXCEPT ![d] = "ended"]
  /\ phase' = [phase EXCEPT ![d] = "stopped"]
  /\ UNCHANGED <<queue, row, holder, count, waiter>>

\* Mutant: only what completes is counted.
FinishUncounted(d, w, c) ==
  /\ task' = [task EXCEPT ![d][w] = "done"]
  /\ count' = IF c = "completed" THEN Bump(d, c, 1) ELSE count

\* The bookkeeping of _execute, whatever ended it.
Finish(d, w, c) ==
  /\ task' = [task EXCEPT ![d][w] = "done"]
  /\ count' = Bump(d, c, 1)

\* Mutant: the snapshot list_ready returned is taken for a claim.
BeginUnclaimed(d, w) ==
  /\ task[d][w] = "created"
  /\ row' = [row EXCEPT ![w] = "running"]
  /\ holder' = [holder EXCEPT ![w] = d]
  /\ task' = [task EXCEPT ![d][w] = "executing"]
  /\ UNCHANGED <<queue, phase, coord, count, waiter>>

\* _execute up to the router call: no binding is an unexpected failure, a row
\* that is not ready any more a conflict.
Begin(d, w) ==
  /\ task[d][w] = "created"
  /\ \/ /\ w \in Unbound
        /\ Finish(d, w, "failures")
        /\ UNCHANGED <<row, holder>>
     \/ /\ w \notin Unbound
        /\ ~ Ready(w)
        /\ Finish(d, w, "conflicts")
        /\ UNCHANGED <<row, holder>>
     \/ /\ w \notin Unbound
        /\ Ready(w)
        /\ row' = [row EXCEPT ![w] = "running"]
        /\ holder' = [holder EXCEPT ![w] = d]
        /\ task' = [task EXCEPT ![d][w] = "executing"]
        /\ UNCHANGED count
  /\ UNCHANGED <<queue, phase, coord, waiter>>

\* The router answered and the outcome is published, unless the claim was
\* revoked meanwhile; or an exception escapes and the row keeps its lease.
End(d, w) ==
  /\ task[d][w] = "executing"
  /\ \/ /\ row[w] = "running" /\ holder[w] = d
        /\ row' = [row EXCEPT ![w] = "settled"]
        /\ holder' = [holder EXCEPT ![w] = None]
        /\ Finish(d, w, "completed")
     \/ /\ ~ (row[w] = "running" /\ holder[w] = d)
        /\ Finish(d, w, "conflicts")
        /\ UNCHANGED <<row, holder>>
     \/ /\ Finish(d, w, "failures")
        /\ UNCHANGED <<row, holder>>
  /\ UNCHANGED <<queue, phase, coord, waiter>>

\* wait_idle(): called on a running dispatcher, it looks again and again.
CallWaitIdle(d) ==
  /\ phase[d] = "running"
  /\ waiter[d] # "waiting"
  /\ waiter' = [waiter EXCEPT ![d] = "waiting"]
  /\ UNCHANGED <<queue, row, holder, phase, coord, task, count>>

\* Mutant: it also waits for rows that somebody left running.
WaitIdleForRunning(d) ==
  /\ waiter[d] = "waiting"
  /\ task' = [task EXCEPT ![d] = Reaped(d)]
  /\ waiter' = [waiter EXCEPT ![d] =
                  IF \A w \in Workflows : row[w] \in {"absent", "settled"}
                  THEN "idle" ELSE @]
  /\ UNCHANGED <<queue, row, holder, phase, coord, count>>

WaitIdle(d) ==
  /\ waiter[d] = "waiting"
  /\ task' = [task EXCEPT ![d] = Reaped(d)]
  /\ waiter' = [waiter EXCEPT ![d] =
                  IF Unfinished(d) = {} /\ ListReady(1) = {} THEN "idle" ELSE @]
  /\ UNCHANGED <<queue, row, holder, phase, coord, count>>

-----------------------------------------------------------------------------
\* store.create, and cancel or recovery taking a row away from its claimant.
Create(w) ==
  /\ row[w] = "absent"
  /\ row' = [row EXCEPT ![w] = "ready"]
  /\ queue' = Append(queue, w)
  /\ UNCHANGED <<holder, phase, coord, task, count, waiter>>

Revoke(w) ==
  /\ row[w] \in {"ready", "running"}
  /\ row' = [row EXCEPT ![w] = "settled"]
  /\ holder' = [holder EXCEPT ![w] = None]
  /\ UNCHANGED <<queue, phase, coord, task, count, waiter>>

Next ==
  \/ \E d \in Dispatchers :
       \/ Start(d) \/ Stop(d) \/ Poll(d) \/ LeaveLoop(d) \/ Drained(d)
       \/ CallWaitIdle(d) \/ WaitIdle(d)
       \/ \E w \in Workflows : Begin(d, w) \/ End(d, w)
  \/ \E w \in Workflows : Create(w) \/ Revoke(w)

\* The event loop runs what is ready and an execution ends, since the router
\* works against a deadline; nobody is obliged to create, revoke, start or stop.
Fairness ==
  \A d \in Dispatchers :
    /\ WF_vars(Poll(d))
    /\ WF_vars(phase[d] = "stopping" /\ LeaveLoop(d))
    /\ WF_vars(Drained(d))
    /\ WF_vars(WaitIdle(d))
    /\ \A w \in Workflows : WF_vars(Begin(d, w)) /\ WF_vars(End(d, w))

Spec == Init /\ [][Next]_vars /\ Fairness

-----------------------------------------------------------------------------
(* Types of the queue and of the dispatchers' attributes. *)
TypeOK ==
  /\ queue \in Seq(Workflows)
  /\ row \in [Workflows -> {"absent", "ready", "running", "settled"}]
  /\ holder \in [Workflows -> Dispatchers \cup {None}]
  /\ phase \in [Dispatchers -> {"new", "running", "stopping", "stopped"}]
  /\ coord \in [Dispatchers -> {"none", "polling", "draining", "ended"}]
  /\ task \in [Dispatchers -> [Workflows -> Live \cup {"none", "done"}]]
  /\ count \in [Dispatchers -> [{"dispatched", "completed", "conflicts", "failures"}
                                  -> 0..CounterCap]]
  /\ waiter \in [Dispatchers -> {"none", "waiting", "idle"}]

\* Dispatchers that saw the same candidate never both get to run it: one
\* execution is past the claim, and while the row is running it is the holder's.
\* No dispatcher has more executions than its concurrency, finished ones it has
\* not reaped included, whoever reaps them.
OneExecution ==
  \A d \in Dispatchers :
    /\ Cardinality(Active(d)) <= Concurrency
    /\ \A w \in Workflows :
         task[d][w] = "executing" =>
           /\ \A e \in Dispatchers : task[e][w] = "executing" => e = d
           /\ row[w] = "running" => holder[w] = d

\* Every execution that was dispatched is counted once more when it ends, as
\* completed, conflict or failure; a dispatcher that reports "stopped" has
\* counted them all, has nothing running and never will.
EveryDispatchAccounted ==
  \A d \in Dispatchers :
    /\ count[d].dispatched < CounterCap =>
         count[d].dispatched = count[d].completed + count[d].conflicts
                               + count[d].failures + Cardinality(Unfinished(d))
    /\ phase[d] = "stopped" => Active(d) = {} /\ coord[d] \in {"none", "ended"}

\* stop() returns: what was started drains.
StopReturns == \A d \in Dispatchers : (phase[d] = "stopping") ~> (phase[d] = "stopped")

\* While a dispatcher is running, a workflow that can be executed leaves the
\* ready state: conflicts and failures of others do not hold it up.
ReadyIsServed ==
  \A w \in Workflows \ Unbound :
    Ready(w) ~> (~ Ready(w) \/ \A d \in Dispatchers : phase[d] # "running")

\* wait_idle() returns once the queue is drained, unless the dispatcher is
\* stopped under it or a workflow nobody can execute stays queued.
WaitIdleReturns ==
  \A d \in Dispatchers :
    (waiter[d] = "waiting") ~>
      (waiter[d] = "idle" \/ phase[d] # "running" \/ \E w \in Unbound : Ready(w))
=============================================================================
