-------------------------- MODULE ContextPreparation --------------------------
(***************************************************************************)
(* prepare_context (src/backend/context/preparation.py): fitting a built   *)
(* context to one candidate.  The counter is the candidate's own, outside  *)
(* this code: a call of it is a step, and it may turn out to be another    *)
(* counter than the profile names.                                         *)
(***************************************************************************)
EXTENDS Sorting, Sequences

CONSTANTS
  Inputs,    \* sequences of ContextSegment, as ContextBuilder hands them over
  Profiles,  \* ContextPreparationProfile: max_context, reserved_output, margin
  Count(_)   \* tokens of the rendered chat, template included

\* The segments at positions S, in the order of the context
ChatOf(s, S) == [n \in 1..Cardinality(S) |-> s[Sorted(S)[n]]]

\* What ContextPreparationProfile, ContextSegment and TokenCount accept.
ASSUME PreparationConstants ==
  /\ \A p \in Profiles :
       /\ p \in [max_context : Nat \ {0}, reserved_output : Nat \ {0}, margin : Nat]
       /\ p.reserved_output + p.margin < p.max_context
  /\ \A s \in Inputs :
       /\ DOMAIN s = 1..Len(s) /\ Len(s) \in Nat
       /\ \A i \in DOMAIN s : s[i].required \in BOOLEAN /\ s[i].priority \in Int
       /\ \A S \in SUBSET DOMAIN s : Count(ChatOf(s, S)) \in Nat

VARIABLES
  segments, profile,  \* the arguments
  kept, excluded,     \* positions in segments: what stays, and why the rest does not
  phase               \* the step prepare_context is about to take, or its outcome

preparationVars == <<segments, profile, kept, excluded, phase>>

\* The checks prepare_context begins with.
Acceptable ==
  /\ \A i, j \in DOMAIN segments : segments[i].id = segments[j].id => i = j
  /\ \E i \in DOMAIN segments : segments[i].required

PrepareInit ==
  /\ segments \in Inputs
  /\ profile \in Profiles
  /\ kept = {} /\ excluded = <<>>
  /\ phase = IF Acceptable THEN "deduplicate" ELSE "invalid"

Optional == {i \in DOMAIN segments : ~ segments[i].required}

\* key: role and trust go together
Same(i, j) ==
  segments[i].trust = segments[j].trust /\ segments[i].content = segments[j].content

\* Mutant: the last of equally ranked duplicates is kept.
WinnerLast(i) ==
  CHOOSE j \in Optional :
    /\ Same(i, j)
    /\ \A k \in Optional : Same(i, k) =>
         \/ segments[k].priority < segments[j].priority
         \/ segments[k].priority = segments[j].priority /\ k <= j

\* chosen[key]: the highest priority, and the first of them.
Winner(i) ==
  CHOOSE j \in Optional :
    /\ Same(i, j)
    /\ \A k \in Optional : Same(i, k) =>
         \/ segments[k].priority < segments[j].priority
         \/ segments[k].priority = segments[j].priority /\ k >= j

Deduplicate ==
  /\ phase = "deduplicate"
  /\ LET losers == {i \in Optional : Winner(i) # i}
     IN /\ kept' = DOMAIN segments \ losers
        /\ excluded' = [n \in 1..Cardinality(losers) |->
             [of |-> Sorted(losers)[n], reason |-> "duplicate", by |-> Winner(Sorted(losers)[n])]]
  /\ phase' = "count"
  /\ UNCHANGED <<segments, profile>>

Available == profile.max_context - profile.reserved_output - profile.margin

Chat(S) == ChatOf(segments, S)

\* Mutant: the earlier source goes first on a tie.
GoesFirstEarlier(i, j) ==
  \/ segments[i].priority < segments[j].priority
  \/ segments[i].priority = segments[j].priority /\ i < j

\* drop_order
GoesFirst(i, j) ==
  \/ segments[i].priority < segments[j].priority
  \/ segments[i].priority = segments[j].priority /\ i > j

\* Mutant: whatever has the lowest priority goes.
DroppableAny == kept

Droppable == kept \cap Optional

Dropped == CHOOSE i \in Droppable : \A j \in Droppable : GoesFirst(i, j) \/ i = j

\* Mutant: the budget is one token larger.
FitsOneMore == Count(Chat(kept)) <= Available + 1

Fits == Count(Chat(kept)) <= Available

\* counter.count, and _validate_counter's refusal of another counter.
CountAndDrop(expected) ==
  /\ phase = "count"
  /\ IF expected /\ ~ Fits /\ Droppable # {}
     THEN /\ kept' = kept \ {Dropped}
          /\ excluded' = Append(excluded, [of |-> Dropped, reason |-> "over_budget", by |-> Dropped])
          /\ UNCHANGED phase
     ELSE /\ phase' = IF ~ expected THEN "invalid" ELSE IF Fits THEN "prepared" ELSE "overflow"
          /\ UNCHANGED <<kept, excluded>>
  /\ UNCHANGED <<segments, profile>>

PrepareNext == Deduplicate \/ \E expected \in BOOLEAN : CountAndDrop(expected)

PrepareSpec == PrepareInit /\ [][PrepareNext]_preparationVars

-----------------------------------------------------------------------------
Losses == {excluded[n].of : n \in DOMAIN excluded}

\* A prepared context has every required segment and fits with its output
\* reserve and margin inside the candidate's window; what is not in it is
\* listed once as excluded; and adding the last dropped source back would no
\* longer fit.  ContextOverflow is raised only when the required segments alone
\* are too much.
FitsWithRequired ==
  /\ phase = "prepared" =>
       /\ DOMAIN segments \ Optional \subseteq kept
       /\ Count(Chat(kept)) + profile.reserved_output + profile.margin <= profile.max_context
       /\ kept \cap Losses = {} /\ kept \cup Losses = DOMAIN segments
       /\ Cardinality(Losses) = Len(excluded)
       /\ \A n \in DOMAIN excluded : n = Len(excluded) /\ excluded[n].reason = "over_budget"
            => Count(Chat(kept \cup {excluded[n].of})) > Available
  /\ phase = "overflow" => Count(Chat(DOMAIN segments \ Optional)) > Available

\* Nothing optional is kept while something of higher priority is left out, the
\* later source giving way on a tie, and each text is either in the context
\* once or was itself too much.
PriorityIsKept ==
  phase = "prepared" =>
    /\ \A n \in DOMAIN excluded, j \in kept \cap Optional :
         LET i == excluded[n].of
         IN excluded[n].reason = "over_budget"
              => /\ segments[i].priority <= segments[j].priority
                 /\ segments[i].priority = segments[j].priority => j < i
    /\ \A n \in DOMAIN excluded :
         LET i == excluded[n].of
             w == excluded[n].by
         IN excluded[n].reason = "duplicate"
              => /\ w \in Optional \ {i} /\ Same(i, w)
                 /\ segments[w].priority >= segments[i].priority
                 /\ segments[w].priority = segments[i].priority => w < i
                 /\ w \in kept \/ \E m \in DOMAIN excluded :
                      excluded[m].of = w /\ excluded[m].reason = "over_budget"
    /\ \A i, j \in kept \cap Optional : Same(i, j) => i = j
=============================================================================
