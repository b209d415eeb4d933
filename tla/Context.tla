------------------------------- MODULE Context -------------------------------
(***************************************************************************)
(* Scoped conversations and immutable sources (src/backend/context/        *)
(* store.py) and ContextBuilder.build (context/builder.py), which reads    *)
(* them in three lock sections while other principals write.               *)
(*                                                                         *)
(* Every store operation is one transaction, so one action; a refused      *)
(* write rolls back and is no step.  A principal is an input: the same     *)
(* user may call again with other memberships.  Ids drawn by uuid4 are     *)
(* unused members of their set.  A content stands for its own sha256.      *)
(***************************************************************************)
EXTENDS Integers, Sequences, FiniteSets, SequencesExt

CONSTANTS
  Principals,       \* ContextPrincipal: tenant, user and the projects it is a member of
  Conversations,    \* conversation ids
  SourceIds, Revisions, Contents,
  Damaged,          \* what a saved text may turn into outside the store
  Trusts,           \* ContextTrust of stored sources
  Policies,         \* trusted_policies of ContextBuilder, by <<tenant, project>>
  Selections,       \* the sources argument of build: sequences of ContextSourceRef
  RecentLimit,      \* recent_message_limit
  RecentPriority,   \* recent_message_priority
  Builds,           \* calls of build in progress
  MaxEntries,       \* bound: entries of one conversation
  MaxSources        \* bound: sources of all tenants

\* No row under this key yet.
NoRow == [scope |-> "none"]
Scopes == {"user", "project"}
Tenants == {a.tenant : a \in Principals}
Users == {a.user : a \in Principals}
Projects == UNION {a.projects : a \in Principals}
Keys == [tenant : Tenants, id : SourceIds, rev : Revisions]

ASSUME ContextConstants ==
  /\ \A a \in Principals : DOMAIN a = {"tenant", "user", "projects"}
  /\ 1 \in Revisions
  /\ Damaged \notin Contents
  /\ RecentLimit \in Nat /\ RecentPriority \in Int
  /\ MaxEntries \in Nat /\ MaxSources \in Nat
  /\ Selections \subseteq Seq([id : SourceIds, rev : Revisions, required : BOOLEAN, priority : Int])
  /\ \A k \in DOMAIN Policies :
       /\ Policies[k] # <<>> /\ Policies[k] \in Seq(ToSet(Policies[k]))
       /\ \A i \in DOMAIN Policies[k] :
            /\ Policies[k][i].trust = "policy"
            /\ Policies[k][i].required
            /\ Policies[k][i].priority \in Int
       /\ \A i, j \in DOMAIN Policies[k] : Policies[k][i].id = Policies[k][j].id => i = j

\* The pairs ContextSegment accepts: only policy speaks as the system, and a
\* stored source is never policy.
Role(trust) ==
  CASE trust = "policy" -> "system"
    [] trust = "assistant_history" -> "assistant"
    [] OTHER -> "user"

VARIABLES
  conversations,  \* context_conversations
  sources,        \* context_sources
  entries,        \* context_entries of each conversation, in sequence order
  build           \* the locals of each call of ContextBuilder.build

contextVars == <<conversations, sources, entries, build>>

Idle == [at |-> "idle"]

ContextInit ==
  /\ conversations = [c \in Conversations |-> NoRow]
  /\ sources = [k \in Keys |-> NoRow]
  /\ entries = [c \in Conversations |-> <<>>]
  /\ build = [b \in Builds |-> Idle]

-----------------------------------------------------------------------------
\* _conversation_allowed and _source_allowed apply one rule to both tables.
MaySee(a, tenant, row) ==
  /\ tenant = a.tenant
  /\ IF row.scope = "user" THEN row.owner = a.user ELSE row.project \in a.projects

\* _conversation_row: found, and allowed for this principal.
Visible(a, c) ==
  /\ conversations[c] # NoRow
  /\ MaySee(a, conversations[c].tenant, conversations[c])

Key(tenant, ref) == [tenant |-> tenant, id |-> ref.id, rev |-> ref.rev]

\* Mutant: a user's own source passes into a conversation the project shares.
UsableAnyScope(a, c, ref) ==
  LET k == Key(a.tenant, ref)
  IN /\ sources[k] # NoRow
     /\ sources[k].project = conversations[c].project
     /\ MaySee(a, k.tenant, sources[k])

\* The condition that attach_source, resolve_sources and recent_messages share.
Usable(a, c, ref) ==
  LET k == Key(a.tenant, ref)
  IN /\ sources[k] # NoRow
     /\ sources[k].project = conversations[c].project
     /\ MaySee(a, k.tenant, sources[k])
     /\ conversations[c].scope = "project" => sources[k].scope = "project"

CreateConversation(a, project, scope) ==
  /\ project \in a.projects
  /\ \E c \in Conversations :
       /\ conversations[c] = NoRow
       /\ conversations' = [conversations EXCEPT ![c] =
            [tenant |-> a.tenant, project |-> project, owner |-> a.user, scope |-> scope]]
  /\ UNCHANGED <<sources, entries, build>>

\* Bound of the model.
Room == Cardinality({k \in Keys : sources[k] # NoRow}) < MaxSources

Row(project, owner, scope, trust, content) ==
  [project |-> project, owner |-> owner, scope |-> scope, trust |-> trust,
   content |-> content, digest |-> content]

\* Mutant: a second write of a revision replaces the first.
AddSourceReplaces(a, project, ref, scope, trust, content) ==
  /\ project \in a.projects
  /\ trust # "policy"
  /\ sources' = [sources EXCEPT ![Key(a.tenant, ref)] =
                   Row(project, a.user, scope, trust, content)]
  /\ UNCHANGED <<conversations, entries, build>>

\* A revision that exists is returned when it is the same row, and refused as a
\* conflict otherwise: either way nothing is written.
AddSource(a, project, ref, scope, trust, content) ==
  /\ project \in a.projects
  /\ trust # "policy"
  /\ sources[Key(a.tenant, ref)] = NoRow
  /\ sources' = [sources EXCEPT ![Key(a.tenant, ref)] =
                   Row(project, a.user, scope, trust, content)]
  /\ UNCHANGED <<conversations, entries, build>>

\* Mutant: a message is filed under the speaker alone.
MessageRowPrivate(a, c, trust, content) ==
  Row(conversations[c].project, a.user, "user", trust, content)

\* A message belongs to its conversation's project and scope and to its speaker.
MessageRow(a, c, trust, content) ==
  Row(conversations[c].project, a.user, conversations[c].scope, trust, content)

\* append_message: a source of its own, at revision "1", and the next entry.
AppendMessage(a, c, trust, content) ==
  /\ Visible(a, c)
  /\ trust \in {"user", "assistant_history"}
  /\ Len(entries[c]) < MaxEntries
  /\ \E id \in SourceIds :
       LET ref == [id |-> id, rev |-> 1]
       IN /\ \A k \in Keys : k.id = id => sources[k] = NoRow
          /\ sources' = [sources EXCEPT ![Key(a.tenant, ref)] = MessageRow(a, c, trust, content)]
          /\ entries' = [entries EXCEPT ![c] = Append(@, ref)]
  /\ UNCHANGED <<conversations, build>>

\* The UNIQUE constraint refuses a revision the conversation already holds.
AttachSource(a, c, ref) ==
  /\ Visible(a, c)
  /\ Usable(a, c, ref)
  /\ ~ Contains(entries[c], ref)
  /\ Len(entries[c]) < MaxEntries
  /\ entries' = [entries EXCEPT ![c] = Append(@, ref)]
  /\ UNCHANGED <<conversations, sources, build>>

\* Something other than the store changes the saved text of one source.
Corrupt(k) ==
  /\ sources[k] # NoRow
  /\ \A j \in Keys : sources[j] # NoRow => sources[j].content # Damaged
  /\ sources' = [sources EXCEPT ![k].content = Damaged]
  /\ UNCHANGED <<conversations, entries, build>>

-----------------------------------------------------------------------------
(* ContextBuilder.build                                                    *)

Answer(b, outcome) == build' = [build EXCEPT ![b].at = outcome]

Started(a, c, selection) ==
  IF ~ Visible(a, c) \/ conversations[c].project \notin a.projects THEN "denied"
  ELSE IF <<a.tenant, conversations[c].project>> \notin DOMAIN Policies THEN "no_policy"
  ELSE IF \E i \in DOMAIN selection : selection[i].required THEN "resolve" ELSE "invalid"

\* The first lock section, and the checks before the next.
BuildStart(b, a, c, selection) ==
  /\ build[b] = Idle
  /\ build' = [build EXCEPT ![b] =
       [actor |-> a, conversation |-> c, selection |-> selection, resolved |-> <<>>,
        recent |-> <<>>, segments |-> <<>>, at |-> Started(a, c, selection)]]
  /\ UNCHANGED <<conversations, sources, entries>>

\* Mutant: the saved checksum is not compared.
IntactUnchecked(k) == TRUE

\* _validate_source_integrity
Intact(k) == sources[k].content = sources[k].digest

\* _as_segment
Segment(k, required, priority) ==
  [id |-> k.id, rev |-> k.rev, trust |-> sources[k].trust, content |-> sources[k].content,
   required |-> required, priority |-> priority]

\* resolve_sources: every reference is authorized before any text is read.
BuildResolve(b) ==
  LET w == build[b]
      key(i) == Key(w.actor.tenant, w.selection[i])
      refs == DOMAIN w.selection
  IN /\ w.at = "resolve"
     /\ \/ /\ \E i \in refs : ~ Usable(w.actor, w.conversation, w.selection[i])
           /\ Answer(b, "denied")
        \/ /\ \A i \in refs : Usable(w.actor, w.conversation, w.selection[i])
           /\ \E i \in refs : ~ Intact(key(i))
           /\ Answer(b, "corrupt")
        \/ /\ \A i \in refs : Usable(w.actor, w.conversation, w.selection[i]) /\ Intact(key(i))
           /\ build' = [build EXCEPT ![b].at = "recent",
                ![b].resolved = [i \in refs |->
                   Segment(key(i), w.selection[i].required, w.selection[i].priority)]]
     /\ UNCHANGED <<conversations, sources, entries>>

\* The last entries, oldest first.
Window(c) ==
  LET n == Len(entries[c])
  IN SubSeq(entries[c], IF n > RecentLimit THEN n - RecentLimit + 1 ELSE 1, n)

\* A segment chosen twice has the stronger claim of the two.
Strengthened(c, s) ==
  [id |-> c.id, rev |-> c.rev, trust |-> c.trust, content |-> c.content,
   required |-> c.required \/ s.required,
   priority |-> IF s.priority > c.priority THEN s.priority ELSE c.priority]

\* _append_unique: one segment for each source id, or a conflict.
AppendUnique(d, s) ==
  LET same == {i \in DOMAIN d.segments : d.segments[i].id = s.id}
      i == CHOOSE j \in same : TRUE
      c == d.segments[i]
  IN IF same = {} THEN [segments |-> Append(d.segments, s), conflict |-> d.conflict]
     ELSE IF <<c.rev, Role(c.trust), c.content, c.trust>> # <<s.rev, Role(s.trust), s.content, s.trust>>
          THEN [segments |-> d.segments, conflict |-> TRUE]
          ELSE [segments |-> [d.segments EXCEPT ![i] = Strengthened(c, s)], conflict |-> d.conflict]

\* One of build's loops: each segment it meets, and whether it takes it.
All(q) == [i \in DOMAIN q |-> [segment |-> q[i], taken |-> TRUE]]
Needed(q) == [i \in DOMAIN q |-> [segment |-> q[i], taken |-> q[i].required]]
NotNeeded(q) == [i \in DOMAIN q |-> [segment |-> q[i], taken |-> ~ q[i].required]]

\* Mutant: a conversation's messages are merged before the required sources.
GatherRecentFirst(policy, resolved, recent) ==
  All(policy) \o All(recent) \o Needed(resolved) \o NotNeeded(resolved)

\* The order of the four loops of build.
Gather(policy, resolved, recent) ==
  All(policy) \o Needed(resolved) \o All(recent) \o NotNeeded(resolved)

\* ordered and index_by_id after each of the segments the loops met.
Merged(met) ==
  LET after[n \in 0..Len(met)] ==
        IF n = 0 THEN [segments |-> <<>>, conflict |-> FALSE]
        ELSE IF met[n].taken THEN AppendUnique(after[n - 1], met[n].segment)
             ELSE after[n - 1]
  IN after[Len(met)]

PolicyOf(w) == Policies[<<w.actor.tenant, conversations[w.conversation].project>>]

\* recent_messages, and the merge that touches no shared state.
BuildRecent(b) ==
  LET w == build[b]
      window == Window(w.conversation)
      key(i) == Key(w.actor.tenant, window[i])
      usable == \A i \in DOMAIN window : Usable(w.actor, w.conversation, window[i])
      recent == [i \in DOMAIN window |-> Segment(key(i), FALSE, RecentPriority)]
      merged == Merged(Gather(PolicyOf(w), w.resolved, recent))
  IN /\ w.at = "recent"
     /\ \/ ~ usable /\ Answer(b, "denied")
        \/ /\ usable
           /\ \E i \in DOMAIN window : ~ Intact(key(i))
           /\ Answer(b, "corrupt")
        \/ /\ usable
           /\ \A i \in DOMAIN window : Intact(key(i))
           /\ build' = [build EXCEPT ![b].at = IF merged.conflict THEN "conflict" ELSE "built",
                                     ![b].recent = recent,
                                     ![b].segments = merged.segments]
     /\ UNCHANGED <<conversations, sources, entries>>

ContextNext ==
  \/ \E a \in Principals, p \in Projects, s \in Scopes : CreateConversation(a, p, s)
  \/ /\ Room
     /\ \E a \in Principals, t \in Trusts, x \in Contents :
          \/ \E p \in Projects, s \in Scopes, ref \in [id : SourceIds, rev : Revisions] :
               AddSource(a, p, ref, s, t, x)
          \/ \E c \in Conversations : AppendMessage(a, c, t, x)
  \/ \E a \in Principals, c \in Conversations, ref \in [id : SourceIds, rev : Revisions] :
       AttachSource(a, c, ref)
  \/ \E k \in Keys : Corrupt(k)
  \/ \E b \in Builds, a \in Principals, c \in Conversations, q \in Selections :
       BuildStart(b, a, c, q)
  \/ \E b \in Builds : BuildResolve(b) \/ BuildRecent(b)

ContextSpec == ContextInit /\ [][ContextNext]_contextVars

-----------------------------------------------------------------------------
\* Whatever was attached, by whom and with which memberships, a principal that
\* sees a conversation and is a member of its project may use every entry of it:
\* the checks when an entry is written imply the ones when it is read, so
\* recent_messages never refuses a conversation as a whole.
EntriesReadable ==
  \A a \in Principals, c \in Conversations :
    Visible(a, c) /\ conversations[c].project \in a.projects
      => \A i \in DOMAIN entries[c] : Usable(a, c, entries[c][i])

Stored(w) == {s \in ToSet(w.segments) : s.trust # "policy"}

\* The text of a built context is text that its principal may see, and in a
\* conversation the project shares no text that only its owner may see; it is
\* the text of that revision as it was first written, though other principals
\* write, and the saved text may change, between the two reads.
BuiltIsAuthorized ==
  \A b \in Builds : build[b].at = "built" =>
    LET w == build[b]
        c == conversations[w.conversation]
    IN \A s \in Stored(w) :
         LET row == sources[Key(w.actor.tenant, s)]
         IN /\ row.project = c.project
            /\ row.scope = "user" => row.owner = w.actor.user /\ c.scope = "user" /\ c.owner = row.owner
            /\ row.scope = "project" => row.project \in w.actor.projects
            /\ s.content = row.digest /\ s.trust = row.trust

Position(w, id) == CHOOSE i \in DOMAIN w.segments : w.segments[i].id = id

Chosen(w) == ToSet(PolicyOf(w)) \cup ToSet(w.resolved) \cup ToSet(w.recent)

\* Two revisions of one source, or a source with the id of a policy.
HasConflict(w) ==
  \E s, t \in Chosen(w) : s # t /\ s.id = t.id /\ (s.rev # t.rev \/ s.trust = "policy")

\* Policy first, then what is required, then the rest of the conversation; a
\* source that was chosen twice appears once, with its strongest claim.
LeavesNothingOut(w) ==
  LET policy == PolicyOf(w)
      needed == {i \in DOMAIN w.resolved : w.resolved[i].required}
      at(s) == Position(w, s.id)
  IN /\ \A i, j \in DOMAIN w.segments : w.segments[i].id = w.segments[j].id => i = j
     /\ {s.id : s \in ToSet(w.segments)} = {s.id : s \in Chosen(w)}
     /\ SubSeq(w.segments, 1, Len(policy)) = policy
     /\ \A i \in needed : w.segments[at(w.resolved[i])].required
     /\ \A i \in needed, j \in DOMAIN w.recent :
          at(w.resolved[i]) < at(w.recent[j])
            \/ \E k \in needed : w.resolved[k].id = w.recent[j].id
     /\ \A i, j \in DOMAIN w.recent : i < j /\ {w.recent[i].id, w.recent[j].id} \cap
          {w.resolved[k].id : k \in needed} = {} => at(w.recent[i]) < at(w.recent[j])
     /\ \A s \in ToSet(w.resolved) \cup ToSet(w.recent) :
          w.segments[at(s)].priority >= s.priority

\* Nothing that was selected or recent is left out of a context that is built,
\* and a build is refused as a conflict only when what was chosen has one.
NothingIsSkipped ==
  \A b \in Builds :
    /\ build[b].at = "conflict" => HasConflict(build[b])
    /\ build[b].at = "built" => LeavesNothingOut(build[b])
=============================================================================
