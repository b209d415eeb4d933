---------------------------- MODULE ContextProofs ----------------------------
(***************************************************************************)
(* What was checked when an entry was written is enough whenever it is     *)
(* read, what a call of build puts in a context its principal may see, and *)
(* nothing that was chosen is left out: for any principals, memberships,   *)
(* conversations, sources and policies, and any number of builds.          *)
(***************************************************************************)
EXTENDS Context, NaturalsInduction, WellFoundedInduction, SequenceTheorems, TLAPS

SourceRefs == [id : SourceIds, rev : Revisions]

ConversationRows ==
  [tenant : Tenants, project : Projects, owner : Users, scope : Scopes]

SourceRows ==
  [project : Projects, owner : Users, scope : Scopes, trust : Trusts \ {"policy"},
   content : Contents \cup {Damaged}, digest : Contents]

StoreTypeOK ==
  /\ conversations \in [Conversations -> ConversationRows \cup {NoRow}]
  /\ sources \in [Keys -> SourceRows \cup {NoRow}]
  /\ entries \in [Conversations -> Seq(SourceRefs)]

\* An entry names a source of its conversation's tenant and project whose scope
\* is no narrower; a source that is one user's lies in that user's conversation.
EntryOK(c, ref) ==
  LET row == sources[Key(conversations[c].tenant, ref)]
  IN /\ conversations[c] # NoRow
     /\ row # NoRow
     /\ row.project = conversations[c].project
     /\ row.scope = "user" =>
          conversations[c].scope = "user" /\ row.owner = conversations[c].owner

\* A conversation holds a revision once (the UNIQUE constraint).
EntriesOnce ==
  \A c \in Conversations : \A i, j \in DOMAIN entries[c] : entries[c][i] = entries[c][j] => i = j

ContextInv ==
  /\ StoreTypeOK
  /\ \A c \in Conversations : \A i \in DOMAIN entries[c] : EntryOK(c, entries[c][i])
  /\ EntriesOnce

-----------------------------------------------------------------------------
\* A key that the store looks up (Key) is one of its keys.
LEMMA KeyType ==
  ASSUME NEW t \in Tenants, NEW ref \in SourceRefs
  PROVE  Key(t, ref) \in Keys
BY DEF Key, Keys, SourceRefs

\* Rows that are written are rows, and no row is the sentinel of a missing one.
LEMMA RowsAreRows ==
  /\ NoRow \notin ConversationRows
  /\ NoRow \notin SourceRows
BY DEF NoRow, ConversationRows, SourceRows, Scopes

\* A transaction that keeps every conversation and whatever identifies a source
\* keeps what is known of the entries that were there (_transaction: no method
\* of the store updates or deletes).
LEMMA EntryKept ==
  ASSUME StoreTypeOK, StoreTypeOK',
         NEW c \in Conversations, NEW ref \in SourceRefs, EntryOK(c, ref),
         conversations'[c] = conversations[c],
         \A k \in Keys : sources[k] # NoRow =>
           /\ sources'[k] # NoRow
           /\ sources'[k].project = sources[k].project
           /\ sources'[k].scope = sources[k].scope
           /\ sources'[k].owner = sources[k].owner
  PROVE  EntryOK(c, ref)'
<1>1. conversations[c] \in ConversationRows
  BY DEF StoreTypeOK, EntryOK
<1>2. conversations[c].tenant \in Tenants
  BY <1>1 DEF ConversationRows
<1>3. Key(conversations[c].tenant, ref) \in Keys
  BY <1>2, KeyType
<1>4. Key(conversations'[c].tenant, ref) = Key(conversations[c].tenant, ref)
  OBVIOUS
<1>5. QED
  BY <1>3, <1>4 DEF EntryOK, Key

\* What an action adds or damages leaves every source what it was.
Kept ==
  \A k \in Keys : sources[k] # NoRow =>
    /\ sources'[k] # NoRow
    /\ sources'[k].project = sources[k].project
    /\ sources'[k].scope = sources[k].scope
    /\ sources'[k].owner = sources[k].owner
    /\ sources'[k].trust = sources[k].trust
    /\ sources'[k].digest = sources[k].digest

\* No method of the store updates or deletes a row.
Grown ==
  /\ Kept
  /\ \A c \in Conversations : conversations[c] # NoRow => conversations'[c] = conversations[c]

\* A step that adds no entry keeps the invariant: create_conversation writes a
\* new row, and add_source and damage leave every source what it was.
LEMMA NoNewEntry ==
  ASSUME ContextInv, StoreTypeOK', Grown, UNCHANGED entries
  PROVE  ContextInv'
<1>0. EntriesOnce'
  BY DEF ContextInv, EntriesOnce
<1> SUFFICES ASSUME NEW c \in Conversations, NEW i \in DOMAIN entries[c]
             PROVE  EntryOK(c, entries[c][i])'
  BY <1>0 DEF ContextInv
<1>1. EntryOK(c, entries[c][i])
  BY DEF ContextInv
<1>2. entries[c][i] \in SourceRefs
  BY DEF ContextInv, StoreTypeOK
<1>3. conversations'[c] = conversations[c]
  BY <1>1 DEF EntryOK, Grown
<1>4. PICK ref \in SourceRefs : ref = entries[c][i]
  BY <1>2
<1>5. EntryOK(c, ref)'
  BY <1>1, <1>3, <1>4, EntryKept DEF ContextInv, Grown, Kept
<1>6. QED
  BY <1>4, <1>5

\* A step that appends one entry to one conversation keeps the invariant if the
\* new entry is sound (append_message, attach_source).
LEMMA NewEntry ==
  ASSUME ContextInv, StoreTypeOK', Kept, UNCHANGED conversations,
         NEW d \in Conversations, NEW new \in SourceRefs,
         entries' = [entries EXCEPT ![d] = Append(@, new)],
         \A i \in DOMAIN entries[d] : entries[d][i] # new,
         EntryOK(d, new)'
  PROVE  ContextInv'
<1>0. EntriesOnce'
  <2> SUFFICES ASSUME NEW c \in Conversations, NEW i \in DOMAIN entries'[c],
                      NEW j \in DOMAIN entries'[c], entries'[c][i] = entries'[c][j]
               PROVE  i = j
    BY DEF EntriesOnce
  <2>1. entries[d] \in Seq(SourceRefs)
    BY DEF ContextInv, StoreTypeOK
  <2>2. CASE c = d
    <3>1. entries'[d] = Append(entries[d], new)
      BY DEF ContextInv, StoreTypeOK
    <3>2. EntriesOnce
      BY DEF ContextInv
    <3>3. QED
      BY <2>1, <2>2, <3>1, <3>2 DEF EntriesOnce
  <2>3. CASE c # d
    BY <2>3 DEF ContextInv, StoreTypeOK, EntriesOnce
  <2>4. QED
    BY <2>2, <2>3
<1> SUFFICES ASSUME NEW c \in Conversations, NEW i \in DOMAIN entries'[c]
             PROVE  EntryOK(c, entries[c][i])'
  BY <1>0 DEF ContextInv
<1>1. entries[c] \in Seq(SourceRefs) /\ entries[d] \in Seq(SourceRefs)
  BY DEF ContextInv, StoreTypeOK
<1>2. CASE c = d /\ i = Len(entries[d]) + 1
  <2>1. entries'[c][i] = new
    BY <1>1, <1>2 DEF ContextInv, StoreTypeOK
  <2>2. EntryOK(c, new)'
    BY <1>2
  <2>3. QED
    BY <2>1, <2>2
<1>3. CASE ~ (c = d /\ i = Len(entries[d]) + 1)
  <2>1. i \in DOMAIN entries[c] /\ entries'[c][i] = entries[c][i]
    BY <1>1, <1>3 DEF ContextInv, StoreTypeOK
  <2>2. PICK ref \in SourceRefs : ref = entries[c][i]
    BY <1>1, <2>1
  <2>3. EntryOK(c, ref)
    BY <2>1, <2>2 DEF ContextInv
  <2>4. EntryOK(c, ref)'
    BY <2>3, EntryKept DEF ContextInv, Kept
  <2>5. QED
    BY <2>1, <2>2, <2>4
<1>4. QED
  BY <1>2, <1>3

\* A principal's tenant and user are some principal's.
LEMMA PrincipalType ==
  ASSUME NEW a \in Principals
  PROVE  a.tenant \in Tenants /\ a.user \in Users
BY DEF Tenants, Users

\* A row that a method writes (Row) is a row.
LEMMA RowType ==
  ASSUME NEW p \in Projects, NEW o \in Users, NEW s \in Scopes, NEW t \in Trusts \ {"policy"},
         NEW x \in Contents
  PROVE  /\ Row(p, o, s, t, x) \in SourceRows
         /\ Row(p, o, s, t, x) # NoRow
         /\ Row(p, o, s, t, x).project = p
         /\ Row(p, o, s, t, x).owner = o
         /\ Row(p, o, s, t, x).scope = s
<1>1. Row(p, o, s, t, x) \in SourceRows
  BY DEF Row, SourceRows
<1>2. QED
  BY <1>1, RowsAreRows DEF Row

\* create_conversation
LEMMA CreateConversationStep ==
  ASSUME ContextInv, NEW a \in Principals, NEW p \in Projects, NEW s \in Scopes,
         CreateConversation(a, p, s)
  PROVE  ContextInv' /\ Grown
<1>1. PICK c \in Conversations :
        /\ conversations[c] = NoRow
        /\ conversations' = [conversations EXCEPT ![c] =
             [tenant |-> a.tenant, project |-> p, owner |-> a.user, scope |-> s]]
  BY DEF CreateConversation
<1>2. [tenant |-> a.tenant, project |-> p, owner |-> a.user, scope |-> s] \in ConversationRows
  BY PrincipalType DEF ConversationRows
<1>3. UNCHANGED <<sources, entries>>
  BY DEF CreateConversation
<1>4. StoreTypeOK'
  BY <1>1, <1>2, <1>3 DEF ContextInv, StoreTypeOK
<1>5. \A d \in Conversations : conversations[d] # NoRow => conversations'[d] = conversations[d]
  BY <1>1 DEF ContextInv, StoreTypeOK
<1>6. Kept
  BY <1>3 DEF Kept
<1>7. Grown
  BY <1>5, <1>6 DEF Grown
<1>8. QED
  BY <1>3, <1>4, <1>7, NoNewEntry

\* add_source
LEMMA AddSourceStep ==
  ASSUME ContextInv, NEW a \in Principals, NEW p \in Projects, NEW ref \in SourceRefs,
         NEW s \in Scopes, NEW t \in Trusts, NEW x \in Contents,
         AddSource(a, p, ref, s, t, x)
  PROVE  ContextInv' /\ Grown
<1>1. PICK k \in Keys : k = Key(a.tenant, ref)
  BY PrincipalType, KeyType
<1>2. PICK row \in SourceRows : row = Row(p, a.user, s, t, x)
  BY PrincipalType, RowType DEF AddSource
<1>3. /\ sources[k] = NoRow
      /\ sources' = [sources EXCEPT ![k] = row]
      /\ UNCHANGED <<conversations, entries>>
  BY <1>1, <1>2 DEF AddSource
<1>4. StoreTypeOK'
  BY <1>2, <1>3 DEF ContextInv, StoreTypeOK
<1>5. Kept
  BY <1>3 DEF Kept, ContextInv, StoreTypeOK
<1>6. Grown
  BY <1>3, <1>5 DEF Grown
<1>7. QED
  BY <1>3, <1>4, <1>6, NoNewEntry

\* Damage to a saved text leaves its scope, project and owner alone.
LEMMA CorruptStep ==
  ASSUME ContextInv, NEW k \in Keys, Corrupt(k)
  PROVE  ContextInv' /\ Grown
<1>1. sources[k] \in SourceRows
  BY DEF Corrupt, ContextInv, StoreTypeOK
<1>2. PICK row : row = [sources[k] EXCEPT !.content = Damaged]
  OBVIOUS
<1>3. /\ row \in SourceRows
      /\ row.project = sources[k].project
      /\ row.scope = sources[k].scope
      /\ row.owner = sources[k].owner
      /\ row.trust = sources[k].trust
      /\ row.digest = sources[k].digest
  BY <1>1, <1>2 DEF SourceRows
<1>4. /\ sources' = [sources EXCEPT ![k] = row]
      /\ UNCHANGED <<conversations, entries>>
  BY <1>2 DEF Corrupt
<1>5. StoreTypeOK'
  BY <1>3, <1>4 DEF ContextInv, StoreTypeOK
<1>6. Kept
  BY <1>3, <1>4, RowsAreRows DEF Kept, ContextInv, StoreTypeOK
<1>7. Grown
  BY <1>4, <1>6 DEF Grown
<1>8. QED
  BY <1>4, <1>5, <1>7, NoNewEntry

\* attach_source: whoever sees a user's conversation is that user, so a source
\* of their own is the owner's.
LEMMA AttachSourceStep ==
  ASSUME ContextInv, NEW a \in Principals, NEW c \in Conversations, NEW ref \in SourceRefs,
         AttachSource(a, c, ref)
  PROVE  ContextInv' /\ Grown
<1>1. UNCHANGED <<conversations, sources>>
  BY DEF AttachSource
<1>2. entries' = [entries EXCEPT ![c] = Append(@, ref)]
  BY DEF AttachSource
<1>3. entries[c] \in Seq(SourceRefs)
  BY DEF ContextInv, StoreTypeOK
<1>4. Append(entries[c], ref) \in Seq(SourceRefs)
  BY <1>3
<1>5. StoreTypeOK'
  BY <1>1, <1>2, <1>4 DEF ContextInv, StoreTypeOK
<1>6. /\ conversations[c] \in ConversationRows
      /\ conversations[c].tenant = a.tenant
      /\ conversations[c].scope = "user" => conversations[c].owner = a.user
  BY DEF AttachSource, Visible, MaySee, ContextInv, StoreTypeOK
<1>7. conversations[c].scope \in {"user", "project"}
  BY <1>6 DEF ConversationRows, Scopes
<1>8. EntryOK(c, ref)
  BY <1>6, <1>7 DEF AttachSource, Visible, Usable, MaySee, EntryOK
<1>9. EntryOK(c, ref)'
  BY <1>1, <1>8 DEF EntryOK
<1>10. Kept
  BY <1>1 DEF Kept
<1>11. Grown
  BY <1>1, <1>10 DEF Grown
<1>12. \A i \in DOMAIN entries[c] : entries[c][i] # ref
  BY <1>3 DEF AttachSource, Contains
<1>13. QED
  BY <1>1, <1>2, <1>5, <1>9, <1>10, <1>11, <1>12, NewEntry

\* append_message: a message takes its conversation's project and scope.
LEMMA AppendMessageStep ==
  ASSUME ContextInv, NEW a \in Principals, NEW c \in Conversations, NEW t \in Trusts,
         NEW x \in Contents, AppendMessage(a, c, t, x)
  PROVE  ContextInv' /\ Grown
<1>1. PICK id \in SourceIds :
        /\ \A k \in Keys : k.id = id => sources[k] = NoRow
        /\ sources' = [sources EXCEPT ![Key(a.tenant, [id |-> id, rev |-> 1])] =
                          MessageRow(a, c, t, x)]
        /\ entries' = [entries EXCEPT ![c] = Append(@, [id |-> id, rev |-> 1])]
  BY DEF AppendMessage
<1>2. PICK ref \in SourceRefs : ref = [id |-> id, rev |-> 1]
  BY ContextConstants DEF SourceRefs
<1>3. PICK k \in Keys : k = Key(a.tenant, ref)
  BY PrincipalType, KeyType
<1>4. /\ conversations[c] \in ConversationRows
      /\ conversations[c] # NoRow
      /\ conversations[c].tenant = a.tenant
      /\ conversations[c].scope = "user" => conversations[c].owner = a.user
  BY DEF AppendMessage, Visible, MaySee, ContextInv, StoreTypeOK
<1>5. conversations[c].project \in Projects /\ conversations[c].scope \in Scopes
  BY <1>4 DEF ConversationRows
<1>6. PICK row \in SourceRows :
        /\ row = MessageRow(a, c, t, x)
        /\ row # NoRow
        /\ row.project = conversations[c].project
        /\ row.owner = a.user
        /\ row.scope = conversations[c].scope
  BY <1>5, PrincipalType, RowType DEF MessageRow, AppendMessage
<1>7. k.id = id
  BY <1>2, <1>3 DEF Key
<1>8. /\ sources[k] = NoRow
      /\ sources' = [sources EXCEPT ![k] = row]
      /\ entries' = [entries EXCEPT ![c] = Append(@, ref)]
      /\ UNCHANGED conversations
  BY <1>1, <1>2, <1>3, <1>6, <1>7 DEF AppendMessage
<1>9. entries[c] \in Seq(SourceRefs)
  BY DEF ContextInv, StoreTypeOK
<1>10. Append(entries[c], ref) \in Seq(SourceRefs)
  BY <1>9
<1>11. StoreTypeOK'
  BY <1>8, <1>10 DEF ContextInv, StoreTypeOK
<1>12. Kept
  BY <1>8 DEF Kept, ContextInv, StoreTypeOK
<1>13. sources'[k] = row
  BY <1>8 DEF ContextInv, StoreTypeOK
<1>14. Key(conversations'[c].tenant, ref) = k
  BY <1>3, <1>4, <1>8
<1>15. EntryOK(c, ref)'
  BY <1>4, <1>6, <1>8, <1>13, <1>14 DEF EntryOK, Key
<1>16. ASSUME NEW i \in DOMAIN entries[c]
       PROVE  entries[c][i] # ref
  <2>1. EntryOK(c, entries[c][i])
    BY DEF ContextInv
  <2>2. QED
    BY <1>3, <1>4, <1>8, <2>1 DEF EntryOK
<1>17. Grown
  BY <1>8, <1>12 DEF Grown
<1>18. QED
  BY <1>8, <1>11, <1>12, <1>15, <1>16, <1>17, NewEntry

\* Every step keeps the invariant, and every row.
LEMMA ContextStep ==
  ASSUME ContextInv, [ContextNext]_contextVars
  PROVE  ContextInv' /\ Grown
<1>1. ASSUME UNCHANGED <<conversations, sources, entries>>
      PROVE  ContextInv' /\ Grown
  <2>1. StoreTypeOK'
    BY <1>1 DEF ContextInv, StoreTypeOK
  <2>2. Grown
    BY <1>1 DEF Grown, Kept
  <2>3. QED
    BY <1>1, <2>1, <2>2, NoNewEntry
<1>2. ASSUME NEW a \in Principals, NEW p \in Projects, NEW s \in Scopes,
             CreateConversation(a, p, s)
      PROVE  ContextInv' /\ Grown
  BY <1>2, CreateConversationStep
<1>3. ASSUME NEW a \in Principals, NEW p \in Projects, NEW s \in Scopes, NEW t \in Trusts,
             NEW x \in Contents, NEW ref \in SourceRefs, AddSource(a, p, ref, s, t, x)
      PROVE  ContextInv' /\ Grown
  BY <1>3, AddSourceStep
<1>4. ASSUME NEW a \in Principals, NEW c \in Conversations, NEW t \in Trusts,
             NEW x \in Contents, AppendMessage(a, c, t, x)
      PROVE  ContextInv' /\ Grown
  BY <1>4, AppendMessageStep
<1>5. ASSUME NEW a \in Principals, NEW c \in Conversations, NEW ref \in SourceRefs,
             AttachSource(a, c, ref)
      PROVE  ContextInv' /\ Grown
  BY <1>5, AttachSourceStep
<1>6. ASSUME NEW k \in Keys, Corrupt(k)
      PROVE  ContextInv' /\ Grown
  BY <1>6, CorruptStep
<1>7. ASSUME NEW b \in Builds, NEW a \in Principals, NEW c \in Conversations,
             NEW q \in Selections, BuildStart(b, a, c, q)
      PROVE  ContextInv' /\ Grown
  BY <1>1, <1>7 DEF BuildStart
<1>8. ASSUME NEW b \in Builds, BuildResolve(b) \/ BuildRecent(b)
      PROVE  ContextInv' /\ Grown
  BY <1>1, <1>8 DEF BuildResolve, BuildRecent
<1>9. CASE UNCHANGED contextVars
  BY <1>1, <1>9 DEF contextVars
<1>10. QED
  BY <1>2, <1>3, <1>4, <1>5, <1>6, <1>7, <1>8, <1>9 DEF ContextNext, SourceRefs

\* The inductive invariant of the context store, for any principals and any
\* order of its methods and of the builds that read it.
THEOREM ContextInvariant == ContextSpec => []ContextInv
<1>1. ContextInit => ContextInv
  BY DEF ContextInit, ContextInv, StoreTypeOK, EntriesOnce
<1>2. ContextInv /\ [ContextNext]_contextVars => ContextInv'
  BY ContextStep
<1>3. QED
  BY <1>1, <1>2, PTL DEF ContextSpec

\* Whoever sees a conversation and is a member of its project may use every
\* entry of it, however many principals wrote it and with whatever memberships:
\* recent_messages refuses no such reader.
THEOREM EntriesReadableCorrect == ContextSpec => []EntriesReadable
<1>1. ContextInv => EntriesReadable
  <2> SUFFICES ASSUME ContextInv, NEW a \in Principals, NEW c \in Conversations,
                      Visible(a, c), conversations[c].project \in a.projects,
                      NEW i \in DOMAIN entries[c]
               PROVE  Usable(a, c, entries[c][i])
    BY DEF EntriesReadable
  <2>1. PICK ref \in SourceRefs : ref = entries[c][i]
    BY DEF ContextInv, StoreTypeOK
  <2>2. EntryOK(c, ref)
    BY <2>1 DEF ContextInv
  <2>3. /\ conversations[c] \in ConversationRows
        /\ conversations[c].tenant = a.tenant
        /\ conversations[c].scope = "user" => conversations[c].owner = a.user
    BY DEF Visible, MaySee, ContextInv, StoreTypeOK
  <2>4. PICK k \in Keys : k = Key(a.tenant, ref)
    BY PrincipalType, KeyType
  <2>5. sources[k] \in SourceRows
    BY <2>2, <2>3, <2>4 DEF EntryOK, ContextInv, StoreTypeOK
  <2>6. sources[k].scope \in {"user", "project"}
    BY <2>5 DEF SourceRows, Scopes
  <2>7. k.tenant = a.tenant
    BY <2>4 DEF Key
  <2>8. QED
    BY <2>1, <2>2, <2>3, <2>4, <2>6, <2>7 DEF EntryOK, Usable, MaySee
<1>2. QED
  BY <1>1, ContextInvariant, PTL

-----------------------------------------------------------------------------
(* The merge: what build's loops leave behind after each segment they met.  *)

\* Induction up to a bound, for a set of numbers.
LEMMA BoundedInduction ==
  ASSUME NEW N \in Nat, NEW P, 0 \in P, \A n \in 0..N : n \in P /\ n < N => n + 1 \in P
  PROVE  \A n \in 0..N : n \in P
<1> DEFINE missed == {n \in Nat : n \in 0..N /\ n \notin P}
<1> SUFFICES ASSUME missed # {} PROVE FALSE
  OBVIOUS
<1>1. PICK m \in missed : TRUE
  OBVIOUS
<1>2. IsWellFoundedOn(OpToRel(<, Nat), Nat)
  BY NatLessThanWellFounded
<1>3. missed \in SUBSET Nat
  OBVIOUS
<1>4. PICK i \in missed : \A j \in missed : ~ (<<j, i>> \in OpToRel(<, Nat))
  <2> HIDE DEF missed
  <2>1. QED
    BY <1>1, <1>2, <1>3, WFMin
<1>5. i \in Nat /\ i # 0 /\ i - 1 \in 0..N /\ i - 1 < N /\ i - 1 \in Nat /\ i - 1 < i
  OBVIOUS
<1>6. i - 1 \in missed
  BY <1>5
<1>7. <<i - 1, i>> \in Nat \X Nat /\ <<i - 1, i>>[1] < <<i - 1, i>>[2]
  BY <1>5
<1>8. <<i - 1, i>> \in OpToRel(<, Nat)
  BY <1>7, Zenon DEF OpToRel
<1>9. QED
  BY <1>4, <1>6, <1>8, Zenon

Begun == [segments |-> <<>>, conflict |-> FALSE]

\* One turn of a loop.
Taken(d, m) == IF m.taken THEN AppendUnique(d, m.segment) ELSE d

\* What the loops hold after each of the first N segments.
History(met, N, h) ==
  h = [n \in 0..N |-> IF n = 0 THEN Begun ELSE Taken(h[n - 1], met[n])]

\* The recursive function of Merged exists (the loops of build).
LEMMA HistoryExists ==
  ASSUME NEW met, NEW N \in Nat
  PROVE  \E h : History(met, N, h)
<1> DEFINE P == {k \in 0..N : \E h : History(met, k, h)}
<1>1. 0 \in P
  <2>1. History(met, 0, [n \in 0..0 |-> Begun])
    BY DEF History
  <2>2. QED
    BY <2>1
<1>2. ASSUME NEW k \in 0..N, k \in P, k < N
      PROVE  k + 1 \in P
  <2>1. PICK h : History(met, k, h)
    BY <1>2
  <2>2. h = [n \in 0..k |-> IF n = 0 THEN Begun ELSE Taken(h[n - 1], met[n])]
    BY <2>1 DEF History
  <2> DEFINE g == [n \in 0..(k + 1) |-> IF n = k + 1 THEN Taken(h[k], met[k + 1]) ELSE h[n]]
  <2>3. ASSUME NEW n \in 0..(k + 1)
        PROVE  g[n] = IF n = 0 THEN Begun ELSE Taken(g[n - 1], met[n])
    <3>1. CASE n = 0
      BY <2>2, <3>1
    <3>2. CASE n = k + 1
      <4>1. g[n - 1] = h[k]
        BY <3>2
      <4>2. QED
        BY <3>2, <4>1
    <3>3. CASE n # 0 /\ n # k + 1
      <4>1. n \in 0..k /\ n - 1 \in 0..k /\ g[n] = h[n] /\ g[n - 1] = h[n - 1]
        BY <3>3
      <4>2. QED
        BY <2>2, <3>3, <4>1
    <3>4. QED
      BY <3>1, <3>2, <3>3
  <2>4. g = [n \in 0..(k + 1) |-> IF n = 0 THEN Begun ELSE Taken(g[n - 1], met[n])]
    <3>1. g = [n \in 0..(k + 1) |-> g[n]]
      OBVIOUS
    <3> HIDE DEF g
    <3>2. QED
      BY <2>3, <3>1
  <2>5. History(met, k + 1, g)
    BY <2>4 DEF History
  <2>6. \E f : History(met, k + 1, f)
    BY <2>5
  <2>7. k + 1 \in 0..N
    BY <1>2
  <2>8. QED
    BY <2>6, <2>7
<1>3. \A k \in 0..N : k \in P
  <2> HIDE DEF P
  <2>1. QED
    BY <1>1, <1>2, BoundedInduction
<1>4. QED
  BY <1>3

\* Merged is where that history ends (ContextBuilder.build).
LEMMA MergedIsHistory ==
  ASSUME NEW met, Len(met) \in Nat
  PROVE  \E h : /\ Merged(met) = h[Len(met)]
                /\ h[0] = Begun
                /\ \A n \in 1..Len(met) : h[n] = Taken(h[n - 1], met[n])
<1> DEFINE g == CHOOSE h : History(met, Len(met), h)
<1>1. History(met, Len(met), g)
  BY HistoryExists
<1>2. Merged(met) = g[Len(met)]
  BY DEF Merged, History, Begun, Taken
<1> HIDE DEF g
<1>3. g = [n \in 0..Len(met) |-> IF n = 0 THEN Begun ELSE Taken(g[n - 1], met[n])]
  BY <1>1 DEF History
<1>4. g[0] = Begun
  BY <1>3
<1>5. ASSUME NEW n \in 1..Len(met) PROVE g[n] = Taken(g[n - 1], met[n])
  BY <1>3
<1>6. QED
  BY <1>2, <1>4, <1>5

\* Two segments of one source id that are not the same text (_append_unique).
Clash(c, s) ==
  <<c.rev, Role(c.trust), c.content, c.trust>> # <<s.rev, Role(s.trust), s.content, s.trust>>

\* _append_unique has three outcomes: a new segment at the end, a conflict, or
\* a stronger claim for the segment that is there.
LEMMA AppendUniqueCases ==
  ASSUME NEW T, NEW d, d.segments \in Seq(T), NEW s
  PROVE  LET e == AppendUnique(d, s)
         IN \/ /\ \A i \in DOMAIN d.segments : d.segments[i].id # s.id
               /\ e = [segments |-> Append(d.segments, s), conflict |-> d.conflict]
            \/ \E i \in DOMAIN d.segments :
                 /\ d.segments[i].id = s.id
                 /\ \/ /\ Clash(d.segments[i], s)
                       /\ e = [segments |-> d.segments, conflict |-> TRUE]
                    \/ /\ ~ Clash(d.segments[i], s)
                       /\ e = [segments |-> [d.segments EXCEPT ![i] = Strengthened(d.segments[i], s)],
                               conflict |-> d.conflict]
<1> DEFINE same == {i \in DOMAIN d.segments : d.segments[i].id = s.id}
           i == CHOOSE j \in same : TRUE
           c == d.segments[i]
<1>1. CASE same = {}
  <2>1. AppendUnique(d, s) = [segments |-> Append(d.segments, s), conflict |-> d.conflict]
    BY <1>1, Zenon DEF AppendUnique
  <2>2. \A j \in DOMAIN d.segments : d.segments[j].id # s.id
    BY <1>1
  <2>3. QED
    BY <2>1, <2>2
<1>2. CASE same # {}
  <2>1. i \in DOMAIN d.segments /\ c.id = s.id
    BY <1>2
  <2>2. CASE Clash(c, s)
    <3>1. AppendUnique(d, s) = [segments |-> d.segments, conflict |-> TRUE]
      BY <1>2, <2>2, Zenon DEF AppendUnique, Clash
    <3> HIDE DEF i
    <3>2. QED
      BY <2>1, <2>2, <3>1
  <2>3. CASE ~ Clash(c, s)
    <3>1. AppendUnique(d, s) =
            [segments |-> [d.segments EXCEPT ![i] = Strengthened(c, s)], conflict |-> d.conflict]
      BY <1>2, <2>3, Zenon DEF AppendUnique, Clash
    <3> HIDE DEF i
    <3>2. QED
      BY <2>1, <2>3, <3>1
  <2>4. QED
    BY <2>2, <2>3
<1>3. QED
  BY <1>1, <1>2

\* The segments that a merge of these can hold: one that was met, or one with
\* the text of one and the claims of another.
Claims(met) ==
  {met[i].segment : i \in 1..Len(met)} \cup
  {[id |-> met[i].segment.id, rev |-> met[i].segment.rev, trust |-> met[i].segment.trust,
    content |-> met[i].segment.content, required |-> r, priority |-> met[j].segment.priority] :
     i \in 1..Len(met), j \in 1..Len(met), r \in BOOLEAN}

SameText(x, s) == x.id = s.id /\ x.rev = s.rev /\ x.trust = s.trust /\ x.content = s.content

\* A merge invents neither a text nor a priority.
LEMMA ClaimOrigin ==
  ASSUME NEW met, NEW x \in Claims(met)
  PROVE  /\ \E i \in 1..Len(met) : SameText(x, met[i].segment)
         /\ \E j \in 1..Len(met) : x.priority = met[j].segment.priority
<1>1. CASE \E i \in 1..Len(met) : x = met[i].segment
  BY <1>1 DEF SameText
<1>2. CASE \E i \in 1..Len(met), j \in 1..Len(met), r \in BOOLEAN :
             x = [id |-> met[i].segment.id, rev |-> met[i].segment.rev,
                  trust |-> met[i].segment.trust, content |-> met[i].segment.content,
                  required |-> r, priority |-> met[j].segment.priority]
  BY <1>2 DEF SameText
<1>3. QED
  BY <1>1, <1>2 DEF Claims

\* A stronger claim is a claim (_append_unique).
LEMMA ClaimStrengthened ==
  ASSUME NEW met, NEW x \in Claims(met), NEW n \in 1..Len(met)
  PROVE  Strengthened(x, met[n].segment) \in Claims(met)
<1> DEFINE s == met[n].segment
<1>1. PICK i \in 1..Len(met) : SameText(x, met[i].segment)
  BY ClaimOrigin
<1>2. PICK j \in 1..Len(met) :
        (IF s.priority > x.priority THEN s.priority ELSE x.priority) = met[j].segment.priority
  BY ClaimOrigin
<1>3. PICK r \in BOOLEAN : r = (x.required \/ s.required)
  OBVIOUS
<1>4. Strengthened(x, s) =
        [id |-> met[i].segment.id, rev |-> met[i].segment.rev, trust |-> met[i].segment.trust,
         content |-> met[i].segment.content, required |-> r, priority |-> met[j].segment.priority]
  BY <1>1, <1>2, <1>3 DEF Strengthened, SameText
<1>5. QED
  BY <1>4 DEF Claims

MetOK(met) ==
  /\ Len(met) \in Nat
  /\ \A i \in 1..Len(met) : met[i].segment.priority \in Int

\* One segment for each id that was taken so far, and for no other.
OnePerId(met, n, d) ==
  /\ \A p, q \in DOMAIN d.segments : d.segments[p].id = d.segments[q].id => p = q
  /\ \A p \in DOMAIN d.segments : \E i \in 1..n :
       met[i].taken /\ met[i].segment.id = d.segments[p].id
  /\ \A i \in 1..n : met[i].taken =>
       \E p \in DOMAIN d.segments : d.segments[p].id = met[i].segment.id

\* Segments stand in the order in which their ids were first taken.
InOrder(met, n, d) ==
  \A i, j \in 1..n :
    /\ met[i].taken /\ met[j].taken
    /\ \A m \in 1..i : met[m].taken => met[m].segment.id # met[j].segment.id
    => \A p, q \in DOMAIN d.segments :
         d.segments[p].id = met[i].segment.id /\ d.segments[q].id = met[j].segment.id => p < q

\* Without a conflict a segment has the text, and every claim, that was met
\* under its id.
Strongest(met, n, d) ==
  ~ d.conflict => \A i \in 1..n : met[i].taken => \A p \in DOMAIN d.segments :
    d.segments[p].id = met[i].segment.id =>
      /\ SameText(d.segments[p], met[i].segment)
      /\ d.segments[p].priority >= met[i].segment.priority
      /\ met[i].segment.required => d.segments[p].required

Explained(met, d) ==
  d.conflict => \E i, j \in 1..Len(met) :
    met[i].segment.id = met[j].segment.id /\ Clash(met[i].segment, met[j].segment)

MergeOK(met, n, d) ==
  /\ d.segments \in Seq(Claims(met))
  /\ OnePerId(met, n, d)
  /\ InOrder(met, n, d)
  /\ Strongest(met, n, d)
  /\ Explained(met, d)

\* A segment that a loop passes over (the if of each loop).
LEMMA MergeSkips ==
  ASSUME NEW met, MetOK(met), NEW n \in 1..Len(met), NEW d, MergeOK(met, n - 1, d),
         ~ met[n].taken
  PROVE  MergeOK(met, n, d)
<1>1. \A i \in 1..n : met[i].taken => i \in 1..(n - 1)
  BY DEF MetOK
<1>2. 1..(n - 1) \subseteq 1..n
  BY DEF MetOK
<1>3. OnePerId(met, n, d)
  BY <1>1, <1>2 DEF MergeOK, OnePerId
<1>4. InOrder(met, n, d)
  BY <1>1 DEF MergeOK, InOrder
<1>5. Strongest(met, n, d)
  BY <1>1 DEF MergeOK, Strongest
<1>6. QED
  BY <1>3, <1>4, <1>5 DEF MergeOK

\* A segment whose id is new (_append_unique's first branch).
LEMMA MergeAppends ==
  ASSUME NEW met, MetOK(met), NEW n \in 1..Len(met), NEW d, MergeOK(met, n - 1, d),
         met[n].taken,
         \A i \in DOMAIN d.segments : d.segments[i].id # met[n].segment.id,
         NEW e, e.segments = Append(d.segments, met[n].segment), e.conflict = d.conflict
  PROVE  MergeOK(met, n, e)
<1> DEFINE s == met[n].segment
           last == Len(d.segments) + 1
<1>1. s \in Claims(met)
  BY DEF Claims
<1>2. /\ d.segments \in Seq(Claims(met))
      /\ e.segments \in Seq(Claims(met))
      /\ DOMAIN d.segments = 1..Len(d.segments) /\ Len(d.segments) \in Nat
      /\ DOMAIN e.segments = 1..last
      /\ \A p \in DOMAIN d.segments : e.segments[p] = d.segments[p]
      /\ e.segments[last] = s
  <2>1. d.segments \in Seq(Claims(met))
    BY DEF MergeOK
  <2>2. e.segments = Append(d.segments, s)
    OBVIOUS
  <2> HIDE DEF s
  <2>3. QED
    BY <1>1, <2>1, <2>2
<1> HIDE DEF last
<1>3. /\ last \in DOMAIN e.segments
      /\ \A p \in DOMAIN e.segments : p = last \/ p \in DOMAIN d.segments
      /\ \A p \in DOMAIN d.segments : p \in DOMAIN e.segments /\ p < last
  BY <1>2 DEF last
<1>4. \A i \in 1..n : i = n \/ i \in 1..(n - 1)
  BY DEF MetOK
<1>5. 1..(n - 1) \subseteq 1..n /\ n \in 1..n
  BY DEF MetOK
<1>6. \A i \in 1..(n - 1) : met[i].taken => met[i].segment.id # s.id
  BY DEF MergeOK, OnePerId
<1>7. OnePerId(met, n, e)
  <2>1. \A p, q \in DOMAIN e.segments : e.segments[p].id = e.segments[q].id => p = q
    BY <1>2, <1>3 DEF MergeOK, OnePerId
  <2>2. ASSUME NEW p \in DOMAIN e.segments
        PROVE  \E i \in 1..n : met[i].taken /\ met[i].segment.id = e.segments[p].id
    <3>1. CASE p = last
      BY <1>2, <1>5, <3>1
    <3>2. CASE p # last
      <4>1. p \in DOMAIN d.segments /\ e.segments[p] = d.segments[p]
        BY <1>2, <1>3, <3>2
      <4>2. PICK i \in 1..(n - 1) : met[i].taken /\ met[i].segment.id = d.segments[p].id
        BY <4>1 DEF MergeOK, OnePerId
      <4>3. QED
        BY <1>5, <4>1, <4>2
    <3>3. QED
      BY <3>1, <3>2
  <2>3. ASSUME NEW i \in 1..n, met[i].taken
        PROVE  \E p \in DOMAIN e.segments : e.segments[p].id = met[i].segment.id
    <3>1. CASE i = n
      BY <1>2, <1>3, <3>1
    <3>2. CASE i # n
      <4>1. PICK p \in DOMAIN d.segments : d.segments[p].id = met[i].segment.id
        BY <1>4, <2>3, <3>2 DEF MergeOK, OnePerId
      <4>2. QED
        BY <1>2, <1>3, <4>1
    <3>3. QED
      BY <3>1, <3>2
  <2>4. QED
    BY <2>1, <2>2, <2>3 DEF OnePerId
<1>8. InOrder(met, n, e)
  <2> SUFFICES ASSUME NEW i \in 1..n, NEW j \in 1..n, met[i].taken, met[j].taken,
                      \A m \in 1..i : met[m].taken => met[m].segment.id # met[j].segment.id,
                      NEW p \in DOMAIN e.segments, NEW q \in DOMAIN e.segments,
                      e.segments[p].id = met[i].segment.id, e.segments[q].id = met[j].segment.id
               PROVE  p < q
    BY DEF InOrder
  <2>1. j <= n /\ i \in 1..i /\ j \in Int /\ i \in Int /\ n \in Int
    BY DEF MetOK
  <2>2. i # n
    <3>1. i = n => j \in 1..i
      BY <2>1
    <3>2. QED
      BY <3>1
  <2>3. i \in 1..(n - 1)
    BY <1>4, <2>2
  <2>4. p \in DOMAIN d.segments
    BY <1>2, <1>3, <1>6, <2>3
  <2>5. CASE j = n
    <3>1. q = last
      BY <1>2, <1>3, <2>5
    <3>2. QED
      BY <1>3, <2>4, <3>1
  <2>6. CASE j # n
    <3>1. j \in 1..(n - 1)
      BY <1>4, <2>6
    <3>2. q \in DOMAIN d.segments
      BY <1>2, <1>3, <1>6, <3>1
    <3>3. d.segments[p].id = met[i].segment.id /\ d.segments[q].id = met[j].segment.id
      BY <1>2, <2>4, <3>2
    <3>4. QED
      BY <2>3, <2>4, <3>1, <3>2, <3>3 DEF MergeOK, InOrder
  <2>7. QED
    BY <2>5, <2>6
<1>9. Strongest(met, n, e)
  <2> SUFFICES ASSUME ~ d.conflict, NEW i \in 1..n, met[i].taken, NEW p \in DOMAIN e.segments,
                      e.segments[p].id = met[i].segment.id
               PROVE  /\ SameText(e.segments[p], met[i].segment)
                      /\ e.segments[p].priority >= met[i].segment.priority
                      /\ met[i].segment.required => e.segments[p].required
    BY DEF Strongest
  <2>1. CASE i = n
    <3>1. e.segments[p] = s
      BY <1>2, <1>3, <2>1
    <3>2. s.priority \in Int
      BY DEF MetOK
    <3>3. QED
      BY <2>1, <3>1, <3>2 DEF SameText
  <2>2. CASE i # n
    <3>1. i \in 1..(n - 1)
      BY <1>4, <2>2
    <3>2. p \in DOMAIN d.segments /\ e.segments[p] = d.segments[p]
      BY <1>2, <1>3, <1>6, <3>1
    <3>3. QED
      BY <3>1, <3>2 DEF MergeOK, Strongest
  <2>3. QED
    BY <2>1, <2>2
<1>10. Explained(met, e)
  BY DEF MergeOK, Explained
<1>11. QED
  BY <1>2, <1>7, <1>8, <1>9, <1>10 DEF MergeOK

\* A segment whose id is there adds no id and moves no segment (the other
\* branches of _append_unique).
LEMMA MergeKeepsIds ==
  ASSUME NEW met, MetOK(met), NEW n \in 1..Len(met), NEW d, MergeOK(met, n - 1, d),
         met[n].taken,
         NEW at \in DOMAIN d.segments, d.segments[at].id = met[n].segment.id,
         NEW e, DOMAIN e.segments = DOMAIN d.segments,
         \A p \in DOMAIN d.segments : e.segments[p].id = d.segments[p].id
  PROVE  OnePerId(met, n, e) /\ InOrder(met, n, e)
<1>1. \A i \in 1..n : i = n \/ i \in 1..(n - 1)
  BY DEF MetOK
<1>2. 1..(n - 1) \subseteq 1..n /\ n \in 1..n
  BY DEF MetOK
<1>3. OnePerId(met, n, e)
  <2>1. \A p, q \in DOMAIN e.segments : e.segments[p].id = e.segments[q].id => p = q
    BY DEF MergeOK, OnePerId
  <2>2. ASSUME NEW p \in DOMAIN e.segments
        PROVE  \E i \in 1..n : met[i].taken /\ met[i].segment.id = e.segments[p].id
    BY <1>2 DEF MergeOK, OnePerId
  <2>3. ASSUME NEW i \in 1..n, met[i].taken
        PROVE  \E p \in DOMAIN e.segments : e.segments[p].id = met[i].segment.id
    <3>1. CASE i = n
      BY <3>1
    <3>2. CASE i # n
      BY <1>1, <2>3, <3>2 DEF MergeOK, OnePerId
    <3>3. QED
      BY <3>1, <3>2
  <2>4. QED
    BY <2>1, <2>2, <2>3 DEF OnePerId
<1>4. PICK first \in 1..(n - 1) : met[first].taken /\ met[first].segment.id = met[n].segment.id
  BY DEF MergeOK, OnePerId
<1>5. InOrder(met, n, e)
  <2> SUFFICES ASSUME NEW i \in 1..n, NEW j \in 1..n, met[i].taken, met[j].taken,
                      \A m \in 1..i : met[m].taken => met[m].segment.id # met[j].segment.id,
                      NEW p \in DOMAIN e.segments, NEW q \in DOMAIN e.segments,
                      e.segments[p].id = met[i].segment.id, e.segments[q].id = met[j].segment.id
               PROVE  p < q
    BY DEF InOrder
  <2>1. i # n
    <3>1. i = n => j \in 1..i
      BY DEF MetOK
    <3>2. QED
      BY <3>1
  <2>2. i \in 1..(n - 1)
    BY <1>1, <2>1
  <2>3. PICK k \in 1..(n - 1) : met[k].taken /\ met[k].segment.id = met[j].segment.id
    <3>1. CASE j = n
      BY <1>4, <3>1
    <3>2. CASE j # n
      BY <1>1, <3>2
    <3>3. QED
      BY <3>1, <3>2
  <2>4. d.segments[p].id = met[i].segment.id /\ d.segments[q].id = met[k].segment.id
    BY <2>3
  <2>5. \A m \in 1..i : met[m].taken => met[m].segment.id # met[k].segment.id
    BY <2>3
  <2>6. InOrder(met, n - 1, d) /\ p \in DOMAIN d.segments /\ q \in DOMAIN d.segments
    BY DEF MergeOK
  <2>7. QED
    BY <2>2, <2>3, <2>4, <2>5, <2>6 DEF InOrder
<1>6. QED
  BY <1>3, <1>5

\* Another text under an id that is there (ContextConflict).
LEMMA MergeClashes ==
  ASSUME NEW met, MetOK(met), NEW n \in 1..Len(met), NEW d, MergeOK(met, n - 1, d),
         met[n].taken,
         NEW at \in DOMAIN d.segments, d.segments[at].id = met[n].segment.id,
         Clash(d.segments[at], met[n].segment),
         NEW e, e.segments = d.segments, e.conflict = TRUE
  PROVE  MergeOK(met, n, e)
<1>1. OnePerId(met, n, e) /\ InOrder(met, n, e)
  BY MergeKeepsIds
<1>2. Strongest(met, n, e)
  BY DEF Strongest
<1>3. d.segments[at] \in Claims(met)
  BY DEF MergeOK
<1>4. PICK i \in 1..Len(met) : SameText(d.segments[at], met[i].segment)
  BY <1>3, ClaimOrigin
<1>5. Clash(met[i].segment, met[n].segment) /\ met[i].segment.id = met[n].segment.id
  BY <1>4 DEF Clash, SameText
<1>6. Explained(met, e)
  BY <1>5 DEF Explained
<1>7. QED
  BY <1>1, <1>2, <1>6 DEF MergeOK

\* The same text again: the stronger of the two claims.
LEMMA MergeStrengthens ==
  ASSUME NEW met, MetOK(met), NEW n \in 1..Len(met), NEW d, MergeOK(met, n - 1, d),
         met[n].taken,
         NEW at \in DOMAIN d.segments, d.segments[at].id = met[n].segment.id,
         ~ Clash(d.segments[at], met[n].segment),
         NEW e,
         e.segments = [d.segments EXCEPT ![at] = Strengthened(d.segments[at], met[n].segment)],
         e.conflict = d.conflict
  PROVE  MergeOK(met, n, e)
<1>1. PICK s : s = met[n].segment
  OBVIOUS
<1>2. PICK c : c = d.segments[at]
  OBVIOUS
<1>3. PICK x : x = Strengthened(c, s)
  OBVIOUS
<1>4. d.segments \in Seq(Claims(met)) /\ c \in Claims(met)
  BY <1>2 DEF MergeOK
<1>5. x \in Claims(met)
  BY <1>1, <1>3, <1>4, ClaimStrengthened
<1>6. e.segments = [d.segments EXCEPT ![at] = x]
  BY <1>1, <1>2, <1>3
<1>7. /\ e.segments \in Seq(Claims(met))
      /\ DOMAIN e.segments = DOMAIN d.segments
      /\ e.segments[at] = x
      /\ \A p \in DOMAIN d.segments : p # at => e.segments[p] = d.segments[p]
  BY <1>4, <1>5, <1>6
<1>8. SameText(x, c) /\ SameText(c, s) /\ x.id = c.id
  BY <1>1, <1>2, <1>3 DEF Strengthened, SameText, Clash
<1>9. \A p \in DOMAIN d.segments : e.segments[p].id = d.segments[p].id
  BY <1>2, <1>7, <1>8
<1>10. OnePerId(met, n, e) /\ InOrder(met, n, e)
  BY <1>7, <1>9, MergeKeepsIds, Zenon
<1>11. s.priority \in Int /\ c.priority \in Int
  <2>1. PICK j \in 1..Len(met) : c.priority = met[j].segment.priority
    BY <1>4, ClaimOrigin
  <2>2. QED
    BY <1>1, <2>1 DEF MetOK
<1>12. /\ x.priority \in Int /\ x.priority >= c.priority /\ x.priority >= s.priority
       /\ c.required => x.required
       /\ s.required => x.required
  <2>1. /\ x.priority = IF s.priority > c.priority THEN s.priority ELSE c.priority
        /\ x.required = (c.required \/ s.required)
    BY <1>3 DEF Strengthened
  <2>2. x.priority \in Int /\ x.priority >= c.priority /\ x.priority >= s.priority
    BY <1>11, <2>1
  <2>3. (c.required => x.required) /\ (s.required => x.required)
    BY <2>1, Zenon
  <2>4. QED
    BY <2>2, <2>3
<1>13. Strongest(met, n, e)
  <2> SUFFICES ASSUME ~ d.conflict, NEW i \in 1..n, met[i].taken, NEW p \in DOMAIN e.segments,
                      e.segments[p].id = met[i].segment.id
               PROVE  /\ SameText(e.segments[p], met[i].segment)
                      /\ e.segments[p].priority >= met[i].segment.priority
                      /\ met[i].segment.required => e.segments[p].required
    BY DEF Strongest
  <2>1. p \in DOMAIN d.segments /\ d.segments[p].id = met[i].segment.id
    BY <1>7, <1>9
  <2>2. CASE i = n
    <3>1. p = at
      BY <2>1, <2>2 DEF MergeOK, OnePerId
    <3>2. QED
      BY <1>1, <1>7, <1>8, <1>12, <2>2, <3>1 DEF SameText
  <2>3. CASE i # n
    <3>1. i \in 1..(n - 1) /\ i \in 1..Len(met)
      BY <2>3 DEF MetOK
    <3>2. /\ SameText(d.segments[p], met[i].segment)
          /\ d.segments[p].priority >= met[i].segment.priority
          /\ met[i].segment.required => d.segments[p].required
      BY <2>1, <3>1 DEF MergeOK, Strongest
    <3>3. met[i].segment.priority \in Int
      BY <3>1 DEF MetOK
    <3>4. CASE p = at
      BY <1>2, <1>7, <1>8, <1>11, <1>12, <3>2, <3>3, <3>4 DEF SameText
    <3>5. CASE p # at
      BY <1>7, <2>1, <3>2, <3>5
    <3>6. QED
      BY <3>4, <3>5
  <2>4. QED
    BY <2>2, <2>3
<1>14. Explained(met, e)
  BY DEF MergeOK, Explained
<1>15. QED
  BY <1>7, <1>10, <1>13, <1>14 DEF MergeOK

\* One turn of a loop (ContextBuilder.build).
LEMMA MergeStep ==
  ASSUME NEW met, MetOK(met), NEW n \in 1..Len(met), NEW d, MergeOK(met, n - 1, d)
  PROVE  MergeOK(met, n, Taken(d, met[n]))
<1>1. PICK s : s = met[n].segment
  OBVIOUS
<1>2. PICK e : e = AppendUnique(d, s)
  OBVIOUS
<1>3. d.segments \in Seq(Claims(met))
  BY DEF MergeOK
<1>4. CASE ~ met[n].taken
  BY <1>4, MergeSkips DEF Taken
<1>5. CASE met[n].taken
  <2>1. Taken(d, met[n]) = e
    BY <1>1, <1>2, <1>5 DEF Taken
  <2>2. CASE /\ \A i \in DOMAIN d.segments : d.segments[i].id # s.id
             /\ e = [segments |-> Append(d.segments, s), conflict |-> d.conflict]
    <3>1. e.segments = Append(d.segments, s) /\ e.conflict = d.conflict
      BY <2>2
    <3>2. MergeOK(met, n, e)
      BY <1>1, <1>5, <2>2, <3>1, MergeAppends
    <3>3. QED
      BY <2>1, <3>2
  <2>3. CASE \E i \in DOMAIN d.segments :
               /\ d.segments[i].id = s.id
               /\ Clash(d.segments[i], s)
               /\ e = [segments |-> d.segments, conflict |-> TRUE]
    <3>1. PICK i \in DOMAIN d.segments :
               /\ d.segments[i].id = s.id
               /\ Clash(d.segments[i], s)
               /\ e = [segments |-> d.segments, conflict |-> TRUE]
      BY <2>3
    <3>2. e.segments = d.segments /\ e.conflict = TRUE
      BY <3>1
    <3>3. MergeOK(met, n, e)
      BY <1>1, <1>5, <3>1, <3>2, MergeClashes
    <3>4. QED
      BY <2>1, <3>3
  <2>4. CASE \E i \in DOMAIN d.segments :
               /\ d.segments[i].id = s.id
               /\ ~ Clash(d.segments[i], s)
               /\ e = [segments |-> [d.segments EXCEPT ![i] = Strengthened(d.segments[i], s)],
                       conflict |-> d.conflict]
    <3>1. PICK i \in DOMAIN d.segments :
               /\ d.segments[i].id = s.id
               /\ ~ Clash(d.segments[i], s)
               /\ e = [segments |-> [d.segments EXCEPT ![i] = Strengthened(d.segments[i], s)],
                       conflict |-> d.conflict]
      BY <2>4
    <3>2. /\ e.segments = [d.segments EXCEPT ![i] = Strengthened(d.segments[i], s)]
          /\ e.conflict = d.conflict
      BY <3>1
    <3>3. MergeOK(met, n, e)
      BY <1>1, <1>5, <3>1, <3>2, MergeStrengthens
    <3>4. QED
      BY <2>1, <3>3
  <2>5. QED
    BY <1>2, <1>3, <2>2, <2>3, <2>4, AppendUniqueCases
<1>6. QED
  BY <1>4, <1>5

\* What the loops hold after each segment.
LEMMA HistoryCorrect ==
  ASSUME NEW met, MetOK(met), NEW N \in Nat, N = Len(met),
         NEW h, h[0] = Begun, \A n \in 1..N : h[n] = Taken(h[n - 1], met[n])
  PROVE  \A n \in 0..N : MergeOK(met, n, h[n])
<1> DEFINE P == {n \in 0..N : MergeOK(met, n, h[n])}
<1>1. 0 \in P
  <2>1. MergeOK(met, 0, Begun)
    <3>1. Begun.segments = <<>> /\ Begun.conflict = FALSE
      BY DEF Begun
    <3>2. OnePerId(met, 0, Begun) /\ InOrder(met, 0, Begun) /\ Strongest(met, 0, Begun)
      BY <3>1 DEF OnePerId, InOrder, Strongest
    <3>3. QED
      BY <3>1, <3>2 DEF MergeOK, Explained
  <2>2. QED
    BY <2>1
<1>2. ASSUME NEW n \in 0..N, n \in P, n < N
      PROVE  n + 1 \in P
  <2>1. n + 1 \in 1..Len(met) /\ n + 1 \in 0..N /\ (n + 1) - 1 = n
    BY <1>2
  <2>2. h[n + 1] = Taken(h[n], met[n + 1])
    BY <2>1
  <2>3. MergeOK(met, n, h[n])
    BY <1>2
  <2>4. PICK m \in 1..Len(met) : m = n + 1
    BY <2>1
  <2>5. MergeOK(met, m - 1, h[n])
    BY <2>1, <2>3, <2>4
  <2>6. MergeOK(met, m, Taken(h[n], met[m]))
    BY <2>5, MergeStep
  <2>7. QED
    BY <2>1, <2>2, <2>4, <2>6
<1>3. \A n \in 0..N : n \in P
  <2> HIDE DEF P
  <2>1. QED
    BY <1>1, <1>2, BoundedInduction
<1>4. QED
  BY <1>3

\* What every merge leaves: for any segments that the loops meet.
LEMMA MergeCorrect ==
  ASSUME NEW met, MetOK(met)
  PROVE  MergeOK(met, Len(met), Merged(met))
<1>1. PICK N \in Nat : N = Len(met)
  BY DEF MetOK
<1>2. PICK h : /\ Merged(met) = h[N]
               /\ h[0] = Begun
               /\ \A n \in 1..N : h[n] = Taken(h[n - 1], met[n])
  BY <1>1, MergedIsHistory
<1>3. \A n \in 0..N : MergeOK(met, n, h[n])
  BY <1>1, <1>2, HistoryCorrect
<1>4. QED
  BY <1>1, <1>2, <1>3

\* The first k segments met are policy, each under an id of its own, and no
\* other is.
PolicyLeads(met, k) ==
  /\ k \in 0..Len(met)
  /\ \A i \in 1..k : met[i].taken /\ met[i].segment.trust = "policy"
  /\ \A i, j \in 1..k : met[i].segment.id = met[j].segment.id => i = j
  /\ \A i \in 1..Len(met) : i > k => met[i].segment.trust # "policy"

\* Without a conflict the policy met so far stands first, as it was.
PolicyFirst(met, k, n, d) ==
  ~ d.conflict =>
    /\ n <= k => Len(d.segments) = n
    /\ \A i \in 1..n : i <= k => i \in DOMAIN d.segments /\ d.segments[i] = met[i].segment

\* No later segment moves or changes a policy segment (_append_unique).
LEMMA PolicyFirstStep ==
  ASSUME NEW met, MetOK(met), NEW k, PolicyLeads(met, k), NEW n \in 1..Len(met),
         NEW d, d.segments \in Seq(Claims(met)), PolicyFirst(met, k, n - 1, d)
  PROVE  PolicyFirst(met, k, n, Taken(d, met[n]))
<1>1. PICK s : s = met[n].segment
  OBVIOUS
<1>2. PICK e : e = Taken(d, met[n])
  OBVIOUS
<1>3. /\ n \in Int /\ k \in Int /\ n >= 1 /\ k >= 0 /\ n <= Len(met) /\ Len(met) \in Nat
      /\ DOMAIN d.segments = 1..Len(d.segments) /\ Len(d.segments) \in Nat
  BY DEF MetOK, PolicyLeads
<1>4. \A i \in 1..n : i = n \/ i \in 1..(n - 1)
  BY <1>3
<1> SUFFICES ASSUME ~ e.conflict
             PROVE  /\ n <= k => Len(e.segments) = n
                    /\ \A i \in 1..n : i <= k => i \in DOMAIN e.segments /\ e.segments[i] = met[i].segment
  BY <1>2 DEF PolicyFirst
<1>5. CASE ~ met[n].taken
  <2>1. e = d
    BY <1>2, <1>5 DEF Taken
  <2>2. n > k
    BY <1>3, <1>5 DEF PolicyLeads
  <2>3. QED
    BY <1>3, <1>4, <2>1, <2>2 DEF PolicyFirst
<1>6. CASE met[n].taken
  <2>1. e = AppendUnique(d, s)
    BY <1>1, <1>2, <1>6 DEF Taken
  <2>2. CASE /\ \A i \in DOMAIN d.segments : d.segments[i].id # s.id
             /\ e = [segments |-> Append(d.segments, s), conflict |-> d.conflict]
    <3>1. e.segments = Append(d.segments, s) /\ ~ d.conflict
      BY <2>2
    <3>2. s \in Claims(met)
      BY <1>1 DEF Claims
    <3>3. /\ Len(e.segments) = Len(d.segments) + 1
          /\ DOMAIN e.segments = 1..(Len(d.segments) + 1)
          /\ \A p \in DOMAIN d.segments : e.segments[p] = d.segments[p]
          /\ e.segments[Len(d.segments) + 1] = s
      BY <3>1, <3>2
    <3>4. n <= k => Len(d.segments) = n - 1
      BY <1>3, <3>1 DEF PolicyFirst
    <3>5. ASSUME NEW i \in 1..n, i <= k
          PROVE  i \in DOMAIN e.segments /\ e.segments[i] = met[i].segment
      <4>1. CASE i = n
        BY <1>1, <1>3, <3>3, <3>4, <3>5, <4>1
      <4>2. CASE i \in 1..(n - 1)
        <5>1. i \in DOMAIN d.segments /\ d.segments[i] = met[i].segment
          BY <3>1, <3>5, <4>2 DEF PolicyFirst
        <5>2. QED
          BY <1>3, <3>3, <5>1
      <4>3. QED
        BY <1>4, <4>1, <4>2
    <3>6. QED
      BY <1>3, <3>3, <3>4, <3>5
  <2>3. CASE \E i \in DOMAIN d.segments :
               /\ d.segments[i].id = s.id
               /\ Clash(d.segments[i], s)
               /\ e = [segments |-> d.segments, conflict |-> TRUE]
    BY <2>3
  <2>4. CASE \E i \in DOMAIN d.segments :
               /\ d.segments[i].id = s.id
               /\ ~ Clash(d.segments[i], s)
               /\ e = [segments |-> [d.segments EXCEPT ![i] = Strengthened(d.segments[i], s)],
                       conflict |-> d.conflict]
    <3>1. PICK at \in DOMAIN d.segments :
               /\ d.segments[at].id = s.id
               /\ ~ Clash(d.segments[at], s)
               /\ e = [segments |-> [d.segments EXCEPT ![at] = Strengthened(d.segments[at], s)],
                       conflict |-> d.conflict]
      BY <2>4
    <3>2. PICK x : x = Strengthened(d.segments[at], s)
      OBVIOUS
    <3>3. e.segments = [d.segments EXCEPT ![at] = x] /\ ~ d.conflict
      BY <3>1, <3>2
    <3>4. d.segments[at].trust = s.trust
      BY <3>1 DEF Clash
    <3>5. ~ (n <= k)
      <4> SUFFICES ASSUME n <= k PROVE FALSE
        OBVIOUS
      <4>1. Len(d.segments) = n - 1
        BY <1>3, <3>3 DEF PolicyFirst
      <4>2. at \in 1..(n - 1) /\ at <= k /\ at \in 1..k /\ n \in 1..k
        BY <1>3, <3>1, <4>1
      <4>3. d.segments[at] = met[at].segment
        BY <3>3, <4>2 DEF PolicyFirst
      <4>4. at = n
        BY <1>1, <3>1, <4>2, <4>3 DEF PolicyLeads
      <4>5. QED
        BY <1>3, <4>2, <4>4
    <3>6. s.trust # "policy"
      BY <1>1, <1>3, <3>5 DEF PolicyLeads
    <3>7. ASSUME NEW i \in 1..n, i <= k
          PROVE  i \in DOMAIN e.segments /\ e.segments[i] = met[i].segment
      <4>1. i \in 1..(n - 1) /\ i \in 1..k
        BY <1>3, <1>4, <3>5, <3>7
      <4>2. i \in DOMAIN d.segments /\ d.segments[i] = met[i].segment
        BY <3>3, <3>7, <4>1 DEF PolicyFirst
      <4>3. i # at
        BY <3>4, <3>6, <4>1, <4>2 DEF PolicyLeads
      <4>4. QED
        BY <3>3, <4>2, <4>3
    <3>8. QED
      BY <3>5, <3>7
  <2>5. QED
    BY <2>1, <2>2, <2>3, <2>4, AppendUniqueCases
<1>7. QED
  BY <1>5, <1>6

\* A merge that meets policy first leaves it first, or ends in a conflict.
LEMMA PolicyFirstCorrect ==
  ASSUME NEW met, MetOK(met), NEW k, PolicyLeads(met, k)
  PROVE  PolicyFirst(met, k, Len(met), Merged(met))
<1>1. PICK N \in Nat : N = Len(met)
  BY DEF MetOK
<1>2. PICK h : /\ Merged(met) = h[N]
               /\ h[0] = Begun
               /\ \A n \in 1..N : h[n] = Taken(h[n - 1], met[n])
  BY <1>1, MergedIsHistory
<1>3. \A n \in 0..N : MergeOK(met, n, h[n])
  BY <1>1, <1>2, HistoryCorrect
<1> DEFINE P == {n \in 0..N : PolicyFirst(met, k, n, h[n])}
<1>4. 0 \in P
  <2>1. PolicyFirst(met, k, 0, Begun)
    BY DEF PolicyFirst, Begun
  <2>2. QED
    BY <1>2, <2>1
<1>5. ASSUME NEW n \in 0..N, n \in P, n < N
      PROVE  n + 1 \in P
  <2>1. n + 1 \in 0..N
    BY <1>5
  <2>2. PICK m \in 1..Len(met) : m = n + 1 /\ m - 1 = n
    BY <1>1, <1>5
  <2>3. h[m] = Taken(h[n], met[m])
    BY <1>1, <1>2, <2>2
  <2>4. PolicyFirst(met, k, m - 1, h[n])
    BY <1>5, <2>2
  <2>5. h[n].segments \in Seq(Claims(met))
    BY <1>3 DEF MergeOK
  <2>6. PolicyFirst(met, k, m, h[m])
    BY <2>3, <2>4, <2>5, PolicyFirstStep
  <2>7. QED
    BY <2>1, <2>2, <2>6
<1>6. \A n \in 0..N : n \in P
  <2> HIDE DEF P
  <2>1. QED
    BY <1>4, <1>5, BoundedInduction
<1>7. QED
  BY <1>1, <1>2, <1>6

-----------------------------------------------------------------------------
(* A call of build.                                                         *)

\* A segment of a stored source that this call may show: usable in its
\* conversation, and the text and trust of that revision as it was written.
SegmentOK(w, s) ==
  LET row == sources[Key(w.actor.tenant, s)]
  IN /\ s.id \in SourceIds /\ s.rev \in Revisions
     /\ s.required \in BOOLEAN /\ s.priority \in Int
     /\ Usable(w.actor, w.conversation, s)
     /\ s.content = row.digest /\ s.trust = row.trust

SegmentsOK(w, q) ==
  /\ q \in Seq(ToSet(q))
  /\ \A i \in DOMAIN q : SegmentOK(w, q[i])

BuildShape(w) ==
  w = [actor |-> w.actor, conversation |-> w.conversation, selection |-> w.selection,
       resolved |-> w.resolved, recent |-> w.recent, segments |-> w.segments, at |-> w.at]

\* Once get_conversation let it in, the call keeps the right it had.
AdmittedOK(w) ==
  /\ w.actor \in Principals /\ w.conversation \in Conversations /\ w.selection \in Selections
  /\ Visible(w.actor, w.conversation)
  /\ conversations[w.conversation].project \in w.actor.projects
  /\ <<w.actor.tenant, conversations[w.conversation].project>> \in DOMAIN Policies

\* What recent_messages returned names no revision twice, and the answer is the
\* merge of what was read.
MergedOK(w) ==
  LET merged == Merged(Gather(PolicyOf(w), w.resolved, w.recent))
  IN /\ SegmentsOK(w, w.recent)
     /\ \A i, j \in DOMAIN w.recent :
          w.recent[i].id = w.recent[j].id /\ w.recent[i].rev = w.recent[j].rev => i = j
     /\ w.segments = merged.segments
     /\ w.at = "conflict" <=> merged.conflict

BuildOK(w) ==
  w # Idle =>
    /\ BuildShape(w)
    /\ w.at \in {"resolve", "recent", "built", "conflict"} => AdmittedOK(w)
    /\ w.at \in {"recent", "built", "conflict"} => SegmentsOK(w, w.resolved)
    /\ w.at \in {"built", "conflict"} => MergedOK(w)

BuildInv ==
  /\ build = [b \in Builds |-> build[b]]
  /\ \A b \in Builds : BuildOK(build[b])

\* What a step leaves of the store is enough for every call of build that is
\* under way: no row of it is updated or deleted.
LEMMA SegmentKept ==
  ASSUME ContextInv, Grown, NEW w, AdmittedOK(w), NEW s, SegmentOK(w, s)
  PROVE  SegmentOK(w, s)'
<1>1. PICK k : k = Key(w.actor.tenant, s)
  OBVIOUS
<1>2. w.actor.tenant \in Tenants
  BY PrincipalType DEF AdmittedOK
<1>3. k \in Keys
  BY <1>1, <1>2 DEF Key, Keys, SegmentOK
<1>4. conversations'[w.conversation] = conversations[w.conversation]
  BY DEF AdmittedOK, Visible, Grown
<1>5. /\ sources[k] # NoRow
      /\ sources[k].project = conversations[w.conversation].project
      /\ MaySee(w.actor, k.tenant, sources[k])
      /\ conversations[w.conversation].scope = "project" => sources[k].scope = "project"
      /\ s.content = sources[k].digest /\ s.trust = sources[k].trust
  BY <1>1 DEF SegmentOK, Usable
<1>6. /\ sources'[k] # NoRow
      /\ sources'[k].project = sources[k].project
      /\ sources'[k].scope = sources[k].scope
      /\ sources'[k].owner = sources[k].owner
      /\ sources'[k].trust = sources[k].trust
      /\ sources'[k].digest = sources[k].digest
  BY <1>3, <1>5 DEF Grown, Kept
<1>7. MaySee(w.actor, k.tenant, sources'[k])
  BY <1>5, <1>6 DEF MaySee
<1>8. Key(w.actor.tenant, s)' = k
  BY <1>1 DEF Key
<1>9. Usable(w.actor, w.conversation, s)'
  BY <1>4, <1>5, <1>6, <1>7, <1>8 DEF Usable
<1>10. sources'[Key(w.actor.tenant, s)] = sources'[k]
  BY <1>1
<1>11. QED
  BY <1>5, <1>6, <1>9, <1>10 DEF SegmentOK

LEMMA BuildKept ==
  ASSUME ContextInv, Grown, NEW w, BuildOK(w)
  PROVE  BuildOK(w)'
<1> SUFFICES ASSUME w # Idle PROVE BuildOK(w)'
  BY DEF BuildOK
<1>1. ASSUME AdmittedOK(w)
      PROVE  AdmittedOK(w)' /\ PolicyOf(w)' = PolicyOf(w)
  <2>1. conversations'[w.conversation] = conversations[w.conversation]
    BY <1>1 DEF AdmittedOK, Visible, Grown
  <2>2. QED
    BY <1>1, <2>1 DEF AdmittedOK, Visible, MaySee, PolicyOf
<1>2. ASSUME AdmittedOK(w), NEW q, SegmentsOK(w, q)
      PROVE  SegmentsOK(w, q)'
  <2>1. ASSUME NEW i \in DOMAIN q PROVE SegmentOK(w, q[i])'
    <3>1. PICK s : s = q[i]
      OBVIOUS
    <3>2. SegmentOK(w, s)
      BY <1>2, <3>1 DEF SegmentsOK
    <3>3. SegmentOK(w, s)'
      BY <1>2, <3>2, SegmentKept
    <3>4. QED
      BY <3>1, <3>3
  <2>2. QED
    BY <1>2, <2>1 DEF SegmentsOK
<1>3. ASSUME AdmittedOK(w), MergedOK(w)
      PROVE  MergedOK(w)'
  <2>1. SegmentsOK(w, w.recent)'
    BY <1>2, <1>3 DEF MergedOK
  <2>2. PolicyOf(w)' = PolicyOf(w)
    BY <1>1, <1>3
  <2>3. QED
    BY <1>3, <2>1, <2>2 DEF MergedOK
<1>4. BuildShape(w)'
  BY DEF BuildOK, BuildShape
<1>5. QED
  BY <1>1, <1>2, <1>3, <1>4 DEF BuildOK

\* A call that writes only its own locals keeps the invariant.
LEMMA BuildMoves ==
  ASSUME ContextInv, Grown, BuildInv, NEW b \in Builds, NEW w, BuildOK(w),
         build' = [build EXCEPT ![b] = w]
  PROVE  BuildInv'
<1>1. build' = [d \in Builds |-> build'[d]] /\ \A d \in Builds : build'[d] = IF d = b THEN w ELSE build[d]
  BY DEF BuildInv
<1>2. ASSUME NEW d \in Builds PROVE BuildOK(build[d])'
  <2>1. PICK v : v = build'[d]
    OBVIOUS
  <2>2. BuildOK(v)
    BY <1>1, <2>1 DEF BuildInv
  <2>3. BuildOK(v)'
    BY <2>2, BuildKept
  <2>4. QED
    BY <2>1, <2>3
<1>3. QED
  BY <1>1, <1>2 DEF BuildInv

\* The refusals of build: it answers, and nothing else changes.
LEMMA BuildAnswers ==
  ASSUME ContextInv, Grown, BuildInv, NEW b \in Builds, build[b] # Idle,
         NEW outcome \in {"denied", "corrupt"}, Answer(b, outcome)
  PROVE  BuildInv'
<1>1. PICK v : v = build[b]
  OBVIOUS
<1>2. PICK w : w = [v EXCEPT !.at = outcome]
  OBVIOUS
<1>3. BuildShape(v)
  BY <1>1 DEF BuildInv, BuildOK
<1>4. /\ w = [actor |-> v.actor, conversation |-> v.conversation, selection |-> v.selection,
              resolved |-> v.resolved, recent |-> v.recent, segments |-> v.segments,
              at |-> outcome]
  BY <1>2, <1>3 DEF BuildShape
<1>5. BuildShape(w) /\ w.at = outcome
  BY <1>4 DEF BuildShape
<1>6. BuildOK(w)
  BY <1>5 DEF BuildOK
<1>7. build' = [build EXCEPT ![b] = w]
  BY <1>1, <1>2 DEF Answer
<1>8. QED
  BY <1>6, <1>7, BuildMoves

\* The checks before the first read (get_conversation, policy, required sources).
LEMMA BuildStartStep ==
  ASSUME ContextInv, Grown, BuildInv, NEW b \in Builds, NEW a \in Principals,
         NEW c \in Conversations, NEW q \in Selections, BuildStart(b, a, c, q)
  PROVE  BuildInv'
<1>1. PICK w : w = [actor |-> a, conversation |-> c, selection |-> q, resolved |-> <<>>,
                    recent |-> <<>>, segments |-> <<>>, at |-> Started(a, c, q)]
  OBVIOUS
<1>2. /\ w.actor = a /\ w.conversation = c /\ w.selection = q /\ w.at = Started(a, c, q)
      /\ BuildShape(w)
  BY <1>1 DEF BuildShape
<1>3. Started(a, c, q) \in {"denied", "no_policy", "resolve", "invalid"}
  BY DEF Started
<1>4. Started(a, c, q) = "resolve" => AdmittedOK(w)
  BY <1>2 DEF Started, AdmittedOK
<1>5. BuildOK(w)
  BY <1>2, <1>3, <1>4 DEF BuildOK
<1>6. build' = [build EXCEPT ![b] = w]
  BY <1>1 DEF BuildStart
<1>7. QED
  BY <1>5, <1>6, BuildMoves

\* A stored text that passes both checks is one the call may show (_as_segment).
LEMMA SegmentSound ==
  ASSUME ContextInv, NEW w, AdmittedOK(w), NEW ref, ref.id \in SourceIds, ref.rev \in Revisions,
         Usable(w.actor, w.conversation, ref), Intact(Key(w.actor.tenant, ref)),
         NEW required \in BOOLEAN, NEW priority \in Int
  PROVE  LET s == Segment(Key(w.actor.tenant, ref), required, priority)
         IN SegmentOK(w, s) /\ s.id = ref.id /\ s.rev = ref.rev
<1>1. PICK k : k = Key(w.actor.tenant, ref)
  OBVIOUS
<1>2. PICK s : s = Segment(k, required, priority)
  OBVIOUS
<1>3. /\ s.id = ref.id /\ s.rev = ref.rev /\ s.required = required /\ s.priority = priority
      /\ s.trust = sources[k].trust /\ s.content = sources[k].content
  BY <1>1, <1>2 DEF Segment, Key
<1>4. Key(w.actor.tenant, s) = k
  BY <1>1, <1>3 DEF Key
<1>5. Usable(w.actor, w.conversation, s)
  BY <1>1, <1>4 DEF Usable
<1>6. s.content = sources[k].digest
  BY <1>1, <1>3 DEF Intact
<1>7. SegmentOK(w, s)
  BY <1>3, <1>4, <1>5, <1>6 DEF SegmentOK
<1>8. QED
  BY <1>1, <1>2, <1>3, <1>7

\* A function on the numbers up to n is a sequence of its values.
LEMMA SequenceOf ==
  ASSUME NEW n \in Nat, NEW q, q = [i \in 1..n |-> q[i]]
  PROVE  q \in Seq(ToSet(q)) /\ Len(q) = n /\ DOMAIN q = 1..n
<1>1. \A i \in 1..n : q[i] \in ToSet(q)
  BY DEF ToSet
<1>2. QED
  BY <1>1

\* resolve_sources
LEMMA BuildResolveStep ==
  ASSUME ContextInv, Grown, BuildInv, NEW b \in Builds, BuildResolve(b)
  PROVE  BuildInv'
<1>1. PICK v : v = build[b]
  OBVIOUS
<1>2. v.at = "resolve" /\ v # Idle
  BY <1>1 DEF BuildResolve, Idle
<1>3. BuildShape(v) /\ AdmittedOK(v)
  BY <1>1, <1>2 DEF BuildInv, BuildOK
<1>4. CASE Answer(b, "denied") \/ Answer(b, "corrupt")
  BY <1>1, <1>2, <1>4, BuildAnswers
<1> DEFINE read == [i \in DOMAIN v.selection |->
                      Segment(Key(v.actor.tenant, v.selection[i]),
                              v.selection[i].required, v.selection[i].priority)]
<1>5. CASE /\ \A i \in DOMAIN v.selection :
                /\ Usable(v.actor, v.conversation, v.selection[i])
                /\ Intact(Key(v.actor.tenant, v.selection[i]))
           /\ build' = [build EXCEPT ![b].at = "recent", ![b].resolved = read]
  <2>0. PICK Refs :
          /\ Refs = [id : SourceIds, rev : Revisions, required : BOOLEAN, priority : Int]
          /\ v.selection \in Seq(Refs)
    BY <1>3, ContextConstants DEF AdmittedOK
  <2>1. v.selection \in Seq(Refs)
    BY <2>0
  <2>2. ASSUME NEW i \in DOMAIN v.selection
        PROVE  SegmentOK(v, read[i])
    <3>1. PICK ref : ref = v.selection[i]
      OBVIOUS
    <3>2. ref \in Refs
      BY <2>1, <3>1
    <3>3. /\ ref.id \in SourceIds /\ ref.rev \in Revisions
          /\ ref.required \in BOOLEAN /\ ref.priority \in Int
      BY <2>0, <3>2
    <3>4. Usable(v.actor, v.conversation, ref) /\ Intact(Key(v.actor.tenant, ref))
      BY <1>5, <3>1
    <3>5. SegmentOK(v, Segment(Key(v.actor.tenant, ref), ref.required, ref.priority))
      BY <1>3, <3>3, <3>4, SegmentSound
    <3>6. QED
      BY <3>1, <3>5
  <2>3. DOMAIN v.selection = 1..Len(v.selection) /\ Len(v.selection) \in Nat
    BY <2>1
  <2>4. PICK q : q = read
    OBVIOUS
  <2>5. q = [i \in 1..Len(v.selection) |-> q[i]]
    BY <2>3, <2>4
  <2>6. q \in Seq(ToSet(q)) /\ DOMAIN q = DOMAIN v.selection
    BY <2>3, <2>5, SequenceOf
  <2>7. SegmentsOK(v, q)
    BY <2>2, <2>4, <2>6 DEF SegmentsOK
  <2>8. build' = [build EXCEPT ![b].at = "recent", ![b].resolved = q]
    BY <1>5, <2>4
  <2> HIDE DEF read
  <2>9. PICK w : w = [v EXCEPT !.at = "recent", !.resolved = q]
    OBVIOUS
  <2>10. w = [actor |-> v.actor, conversation |-> v.conversation, selection |-> v.selection,
              resolved |-> q, recent |-> v.recent, segments |-> v.segments, at |-> "recent"]
    BY <1>3, <2>9 DEF BuildShape
  <2>11. /\ w.actor = v.actor /\ w.conversation = v.conversation /\ w.selection = v.selection
         /\ w.resolved = q /\ w.at = "recent" /\ BuildShape(w)
    BY <2>10 DEF BuildShape
  <2>12. AdmittedOK(w) /\ SegmentsOK(w, w.resolved)
    BY <1>3, <2>7, <2>11 DEF AdmittedOK, SegmentsOK, SegmentOK
  <2>13. BuildOK(w)
    BY <2>11, <2>12 DEF BuildOK
  <2>14. build' = [build EXCEPT ![b] = w]
    BY <1>1, <2>8, <2>9 DEF BuildInv
  <2>15. QED
    BY <2>13, <2>14, BuildMoves
<1>6. QED
  BY <1>1, <1>4, <1>5 DEF BuildResolve

\* The window of a conversation holds its last entries, each once
\* (recent_messages).
LEMMA WindowOnce ==
  ASSUME ContextInv, NEW c \in Conversations
  PROVE  /\ Window(c) \in Seq(SourceRefs)
         /\ \A i, j \in DOMAIN Window(c) : Window(c)[i] = Window(c)[j] => i = j
<1>1. PICK q : q = entries[c]
  OBVIOUS
<1>2. q \in Seq(SourceRefs) /\ Len(q) \in Nat /\ DOMAIN q = 1..Len(q)
  BY <1>1 DEF ContextInv, StoreTypeOK
<1>3. PICK m : m = IF Len(q) > RecentLimit THEN Len(q) - RecentLimit + 1 ELSE 1
  OBVIOUS
<1>4. m \in Nat /\ m >= 1 /\ m <= Len(q) + 1
  BY <1>2, <1>3, ContextConstants
<1>5. Window(c) = SubSeq(q, m, Len(q))
  BY <1>1, <1>3 DEF Window
<1>6. /\ SubSeq(q, m, Len(q)) \in Seq(SourceRefs)
      /\ DOMAIN SubSeq(q, m, Len(q)) = 1..(Len(q) - m + 1)
      /\ \A i \in 1..(Len(q) - m + 1) : SubSeq(q, m, Len(q))[i] = q[m + i - 1]
  BY <1>2, <1>4
<1>7. \A i, j \in DOMAIN q : q[i] = q[j] => i = j
  BY <1>1 DEF ContextInv, EntriesOnce
<1>8. \A i \in 1..(Len(q) - m + 1) : m + i - 1 \in DOMAIN q
  BY <1>2, <1>4
<1>9. QED
  BY <1>4, <1>5, <1>6, <1>7, <1>8

\* recent_messages, and the merge
LEMMA BuildRecentStep ==
  ASSUME ContextInv, Grown, BuildInv, NEW b \in Builds, BuildRecent(b)
  PROVE  BuildInv'
<1>1. PICK v : v = build[b]
  OBVIOUS
<1>2. v.at = "recent" /\ v # Idle
  <2>1. v.at = "recent"
    BY <1>1, Zenon DEF BuildRecent
  <2>2. QED
    BY <2>1 DEF Idle
<1>3. BuildShape(v) /\ AdmittedOK(v) /\ SegmentsOK(v, v.resolved)
  BY <1>1, <1>2 DEF BuildInv, BuildOK
<1>4. CASE Answer(b, "denied") \/ Answer(b, "corrupt")
  BY <1>1, <1>2, <1>4, BuildAnswers
<1>5. PICK window : window = Window(v.conversation)
  OBVIOUS
<1> DEFINE read == [i \in DOMAIN window |->
                      Segment(Key(v.actor.tenant, window[i]), FALSE, RecentPriority)]
           merged == Merged(Gather(PolicyOf(v), v.resolved, read))
<1>6. CASE /\ \A i \in DOMAIN window :
                /\ Usable(v.actor, v.conversation, window[i])
                /\ Intact(Key(v.actor.tenant, window[i]))
           /\ build' = [build EXCEPT ![b].at = IF merged.conflict THEN "conflict" ELSE "built",
                                     ![b].recent = read,
                                     ![b].segments = merged.segments]
  <2>1. /\ window \in Seq(SourceRefs)
        /\ \A i, j \in DOMAIN window : window[i] = window[j] => i = j
    BY <1>3, <1>5, WindowOnce DEF AdmittedOK
  <2>2. ASSUME NEW i \in DOMAIN window
        PROVE  SegmentOK(v, read[i]) /\ read[i].id = window[i].id /\ read[i].rev = window[i].rev
    <3>1. PICK ref : ref = window[i]
      OBVIOUS
    <3>2. ref.id \in SourceIds /\ ref.rev \in Revisions
      <4>1. ref \in SourceRefs
        BY <2>1, <3>1
      <4>2. QED
        BY <4>1 DEF SourceRefs
    <3>3. Usable(v.actor, v.conversation, ref) /\ Intact(Key(v.actor.tenant, ref))
      BY <1>6, <3>1
    <3>4. PICK required \in BOOLEAN, priority \in Int :
            required = FALSE /\ priority = RecentPriority
      BY ContextConstants
    <3>5. PICK s : s = Segment(Key(v.actor.tenant, ref), required, priority)
      OBVIOUS
    <3>6. SegmentOK(v, s) /\ s.id = ref.id /\ s.rev = ref.rev
      BY <1>3, <3>2, <3>3, <3>5, SegmentSound
    <3>7. QED
      BY <3>1, <3>4, <3>5, <3>6
  <2>3. DOMAIN window = 1..Len(window) /\ Len(window) \in Nat
    BY <2>1
  <2>4. PICK q : q = read
    OBVIOUS
  <2>5. q = [i \in 1..Len(window) |-> q[i]]
    BY <2>3, <2>4
  <2>6. q \in Seq(ToSet(q)) /\ DOMAIN q = DOMAIN window
    BY <2>3, <2>5, SequenceOf
  <2>7. SegmentsOK(v, q)
    BY <2>2, <2>4, <2>6 DEF SegmentsOK
  <2>8. ASSUME NEW i \in DOMAIN q, NEW j \in DOMAIN q, q[i].id = q[j].id, q[i].rev = q[j].rev
        PROVE  i = j
    <3>1. window[i].id = window[j].id /\ window[i].rev = window[j].rev
      BY <2>2, <2>4, <2>6, <2>8
    <3>2. window[i] = window[j]
      <4>1. window[i] \in SourceRefs /\ window[j] \in SourceRefs
        BY <2>1, <2>6
      <4>2. QED
        BY <3>1, <4>1 DEF SourceRefs
    <3>3. QED
      BY <2>1, <2>6, <3>2
  <2>9. PICK m : m = Merged(Gather(PolicyOf(v), v.resolved, q))
    OBVIOUS
  <2>10. PICK x : x = IF m.conflict THEN "conflict" ELSE "built"
    OBVIOUS
  <2>11. build' = [build EXCEPT ![b].at = x, ![b].recent = q, ![b].segments = m.segments]
    BY <1>6, <2>4, <2>9, <2>10
  <2> HIDE DEF read, merged
  <2>12. PICK w : w = [v EXCEPT !.at = x, !.recent = q, !.segments = m.segments]
    OBVIOUS
  <2>13. w = [actor |-> v.actor, conversation |-> v.conversation, selection |-> v.selection,
              resolved |-> v.resolved, recent |-> q, segments |-> m.segments, at |-> x]
    BY <1>3, <2>12 DEF BuildShape
  <2>14. /\ w.actor = v.actor /\ w.conversation = v.conversation /\ w.selection = v.selection
         /\ w.resolved = v.resolved /\ w.recent = q /\ w.segments = m.segments /\ w.at = x
         /\ BuildShape(w)
    BY <2>13 DEF BuildShape
  <2>15. AdmittedOK(w) /\ SegmentsOK(w, w.resolved) /\ SegmentsOK(w, w.recent)
    BY <1>3, <2>7, <2>14 DEF AdmittedOK, SegmentsOK, SegmentOK
  <2>16. Merged(Gather(PolicyOf(w), w.resolved, w.recent)) = m
    BY <2>9, <2>14 DEF PolicyOf
  <2>17. MergedOK(w)
    BY <2>8, <2>10, <2>14, <2>15, <2>16 DEF MergedOK
  <2>18. BuildOK(w)
    BY <2>10, <2>14, <2>15, <2>17 DEF BuildOK
  <2>19. build' = [build EXCEPT ![b] = w]
    BY <1>1, <2>11, <2>12 DEF BuildInv
  <2>20. QED
    BY <2>18, <2>19, BuildMoves
<1>7. QED
  BY <1>1, <1>4, <1>5, <1>6 DEF BuildRecent

\* Every call of build, at every point between its three reads, holds only what
\* its principal may see: whoever writes meanwhile.
THEOREM BuildInvariant == ContextSpec => [](ContextInv /\ BuildInv)
<1>1. ContextInit => ContextInv /\ BuildInv
  <2>1. ContextInit => ContextInv
    BY DEF ContextInit, ContextInv, StoreTypeOK, EntriesOnce
  <2>2. ContextInit => BuildInv
    BY DEF ContextInit, BuildInv, BuildOK
  <2>3. QED
    BY <2>1, <2>2
<1>2. ContextInv /\ BuildInv /\ [ContextNext]_contextVars => (ContextInv /\ BuildInv)'
  <2> SUFFICES ASSUME ContextInv, BuildInv, [ContextNext]_contextVars
               PROVE  BuildInv'
    BY ContextStep
  <2>1. Grown
    BY ContextStep
  <2>2. ASSUME UNCHANGED build PROVE BuildInv'
    <3>1. ASSUME NEW b \in Builds PROVE BuildOK(build[b])'
      <4>1. PICK v : v = build[b]
        OBVIOUS
      <4>2. BuildOK(v)'
        BY <2>1, <4>1, BuildKept DEF BuildInv
      <4>3. QED
        BY <2>2, <4>1, <4>2
    <3>2. QED
      BY <2>2, <3>1 DEF BuildInv
  <2>3. CASE \E b \in Builds, a \in Principals, c \in Conversations, q \in Selections :
               BuildStart(b, a, c, q)
    BY <2>1, <2>3, BuildStartStep
  <2>4. CASE \E b \in Builds : BuildResolve(b)
    BY <2>1, <2>4, BuildResolveStep
  <2>5. CASE \E b \in Builds : BuildRecent(b)
    BY <2>1, <2>5, BuildRecentStep
  <2>6. QED
    BY <2>2, <2>3, <2>4, <2>5
       DEF ContextNext, contextVars, CreateConversation, AddSource, AppendMessage, AttachSource, Corrupt
<1>3. QED
  BY <1>1, <1>2, PTL DEF ContextSpec

-----------------------------------------------------------------------------
(* The four loops.                                                          *)

IsJoin(S, u, s, t) ==
  /\ u \in Seq(S) /\ Len(u) = Len(s) + Len(t)
  /\ \A i \in 1..Len(s) : u[i] = s[i]
  /\ \A i \in 1..Len(t) : u[Len(s) + i] = t[i]

\* Two sequences one after the other.
LEMMA Joined ==
  ASSUME NEW S, NEW s \in Seq(S), NEW t \in Seq(S)
  PROVE  IsJoin(S, s \o t, s, t)
<1>0. PICK m \in Nat, n \in Nat : m = Len(s) /\ n = Len(t)
  OBVIOUS
<1>1. PICK u : u = s \o t
  OBVIOUS
<1>2. /\ u \in Seq(S) /\ Len(u) = m + n
      /\ \A i \in 1..(m + n) : u[i] = IF i <= m THEN s[i] ELSE t[i - m]
  BY <1>0, <1>1, ConcatProperties
<1>3. \A i \in 1..m : u[i] = s[i]
  BY <1>2
<1>4. ASSUME NEW i \in 1..n PROVE u[m + i] = t[i]
  <2>1. m + i \in 1..(m + n) /\ ~ (m + i <= m) /\ (m + i) - m = i
    OBVIOUS
  <2>2. QED
    BY <1>2, <2>1
<1>5. QED
  BY <1>0, <1>1, <1>2, <1>3, <1>4 DEF IsJoin

\* What the four loops meet, when they run over np, nr and nc segments.
Turns(met, policy, resolved, recent, np, nr, nc) ==
  /\ Len(met) = np + nr + nc + nr
  /\ \A i \in 1..np : met[i].segment = policy[i] /\ met[i].taken
  /\ \A i \in 1..nr : /\ met[np + i].segment = resolved[i]
                      /\ met[np + i].taken <=> resolved[i].required
  /\ \A i \in 1..nc : met[np + nr + i].segment = recent[i] /\ met[np + nr + i].taken
  /\ \A i \in 1..nr : /\ met[np + nr + nc + i].segment = resolved[i]
                      /\ met[np + nr + nc + i].taken <=> ~ resolved[i].required

\* Where each of the loops meets its segments (ContextBuilder.build).
LEMMA GatherPositions ==
  ASSUME NEW policy, policy \in Seq(ToSet(policy)),
         NEW resolved, resolved \in Seq(ToSet(resolved)),
         NEW recent, recent \in Seq(ToSet(recent))
  PROVE  Turns(Gather(policy, resolved, recent), policy, resolved, recent,
               Len(policy), Len(resolved), Len(recent))
<1>1. PICK np \in Nat, nr \in Nat, nc \in Nat :
        /\ np = Len(policy) /\ nr = Len(resolved) /\ nc = Len(recent)
        /\ DOMAIN policy = 1..np /\ DOMAIN resolved = 1..nr /\ DOMAIN recent = 1..nc
  OBVIOUS
<1>2. PICK a, b, c, d :
        a = All(policy) /\ b = Needed(resolved) /\ c = All(recent) /\ d = NotNeeded(resolved)
  OBVIOUS
<1>3. a = [i \in 1..np |-> [segment |-> policy[i], taken |-> TRUE]]
  BY <1>1, <1>2 DEF All
<1>4. b = [i \in 1..nr |-> [segment |-> resolved[i], taken |-> resolved[i].required]]
  BY <1>1, <1>2 DEF Needed
<1>5. c = [i \in 1..nc |-> [segment |-> recent[i], taken |-> TRUE]]
  BY <1>1, <1>2 DEF All
<1>6. d = [i \in 1..nr |-> [segment |-> resolved[i], taken |-> ~ resolved[i].required]]
  BY <1>1, <1>2 DEF NotNeeded
<1>7. PICK S : /\ \A i \in 1..np : a[i] \in S
               /\ \A i \in 1..nr : b[i] \in S
               /\ \A i \in 1..nc : c[i] \in S
               /\ \A i \in 1..nr : d[i] \in S
  <2> WITNESS {a[i] : i \in 1..np} \cup {b[i] : i \in 1..nr} \cup {c[i] : i \in 1..nc}
                \cup {d[i] : i \in 1..nr}
  <2>1. QED
    OBVIOUS
<1>8. a \in Seq(S) /\ Len(a) = np
  BY <1>3, <1>7
<1>9. b \in Seq(S) /\ Len(b) = nr
  BY <1>4, <1>7
<1>10. c \in Seq(S) /\ Len(c) = nc
  BY <1>5, <1>7
<1>11. d \in Seq(S) /\ Len(d) = nr
  BY <1>6, <1>7
<1>12. PICK ab : ab = a \o b
  OBVIOUS
<1>13. PICK abc : abc = ab \o c
  OBVIOUS
<1>14. PICK met : met = abc \o d
  OBVIOUS
<1>15. met = Gather(policy, resolved, recent)
  BY <1>2, <1>12, <1>13, <1>14 DEF Gather
<1>16. /\ ab \in Seq(S) /\ Len(ab) = np + nr
       /\ \A i \in 1..np : ab[i] = a[i]
       /\ \A i \in 1..nr : ab[np + i] = b[i]
  <2>1. IsJoin(S, a \o b, a, b)
    <3>1. a \in Seq(S) /\ b \in Seq(S)
      BY <1>8, <1>9
    <3>2. QED
      BY <3>1, Joined, Zenon
  <2>2. QED
    BY <1>8, <1>9, <1>12, <2>1 DEF IsJoin
<1>17. /\ abc \in Seq(S) /\ Len(abc) = np + nr + nc
       /\ \A i \in 1..(np + nr) : abc[i] = ab[i]
       /\ \A i \in 1..nc : abc[np + nr + i] = c[i]
  <2>1. IsJoin(S, ab \o c, ab, c)
    <3>1. ab \in Seq(S) /\ c \in Seq(S)
      BY <1>10, <1>16
    <3>2. QED
      BY <3>1, Joined, Zenon
  <2>2. QED
    BY <1>10, <1>13, <1>16, <2>1 DEF IsJoin
<1>18. /\ Len(met) = np + nr + nc + nr
       /\ \A i \in 1..(np + nr + nc) : met[i] = abc[i]
       /\ \A i \in 1..nr : met[np + nr + nc + i] = d[i]
  <2>1. IsJoin(S, abc \o d, abc, d)
    <3>1. abc \in Seq(S) /\ d \in Seq(S)
      BY <1>11, <1>17
    <3>2. QED
      BY <3>1, Joined, Zenon
  <2>2. QED
    BY <1>11, <1>14, <1>17, <2>1 DEF IsJoin
<1>19. ASSUME NEW i \in 1..np PROVE met[i] = a[i]
  <2>1. i \in 1..(np + nr) /\ i \in 1..(np + nr + nc)
    OBVIOUS
  <2>2. QED
    BY <1>16, <1>17, <1>18, <2>1
<1>20. ASSUME NEW i \in 1..nr PROVE met[np + i] = b[i]
  <2>1. np + i \in 1..(np + nr) /\ np + i \in 1..(np + nr + nc)
    OBVIOUS
  <2>2. QED
    BY <1>16, <1>17, <1>18, <2>1
<1>21. ASSUME NEW i \in 1..nc PROVE met[np + nr + i] = c[i]
  <2>1. np + nr + i \in 1..(np + nr + nc)
    OBVIOUS
  <2>2. QED
    BY <1>17, <1>18, <2>1
<1>22. /\ \A i \in 1..np : met[i].segment = policy[i] /\ met[i].taken
       /\ \A i \in 1..nc : met[np + nr + i].segment = recent[i] /\ met[np + nr + i].taken
  <2>1. ASSUME NEW i \in 1..np PROVE met[i].segment = policy[i] /\ met[i].taken
    <3>1. met[i] = [segment |-> policy[i], taken |-> TRUE]
      BY <1>3, <1>19
    <3>2. QED
      BY <3>1
  <2>2. ASSUME NEW i \in 1..nc
        PROVE  met[np + nr + i].segment = recent[i] /\ met[np + nr + i].taken
    <3>1. met[np + nr + i] = [segment |-> recent[i], taken |-> TRUE]
      BY <1>5, <1>21
    <3>2. QED
      BY <3>1
  <2>3. QED
    BY <2>1, <2>2
<1>23. ASSUME NEW i \in 1..nr
       PROVE  /\ met[np + i].segment = resolved[i]
              /\ met[np + i].taken <=> resolved[i].required
  <2>1. met[np + i] = [segment |-> resolved[i], taken |-> resolved[i].required]
    BY <1>4, <1>20
  <2>2. QED
    BY <2>1
<1>24. ASSUME NEW i \in 1..nr
       PROVE  /\ met[np + nr + nc + i].segment = resolved[i]
              /\ met[np + nr + nc + i].taken <=> ~ resolved[i].required
  <2>1. met[np + nr + nc + i] = [segment |-> resolved[i], taken |-> ~ resolved[i].required]
    BY <1>6, <1>18
  <2>2. /\ met[np + nr + nc + i].segment = resolved[i]
        /\ met[np + nr + nc + i].taken = (~ resolved[i].required)
    BY <2>1
  <2>3. QED
    BY <2>2, Zenon
<1>25. Turns(met, policy, resolved, recent, np, nr, nc)
  BY <1>18, <1>22, <1>23, <1>24 DEF Turns
<1>26. QED
  BY <1>1, <1>15, <1>25

\* A stored source never speaks as policy (ContextSegment).
LEMMA StoredIsNotPolicy ==
  ASSUME ContextInv, NEW w, AdmittedOK(w), NEW s, SegmentOK(w, s)
  PROVE  s.trust # "policy"
<1>1. PICK k : k = Key(w.actor.tenant, s)
  OBVIOUS
<1>2. k \in Keys
  BY <1>1, PrincipalType DEF Key, Keys, SegmentOK, AdmittedOK
<1>3. sources[k] # NoRow /\ s.trust = sources[k].trust
  BY <1>1 DEF SegmentOK, Usable
<1>4. sources[k] \in SourceRows
  BY <1>2, <1>3 DEF ContextInv, StoreTypeOK
<1>5. sources[k].trust \in Trusts \ {"policy"}
  BY <1>4 DEF SourceRows
<1>6. QED
  BY <1>3, <1>5

\* What a call of build met, and in which order.
Met(w) == Gather(PolicyOf(w), w.resolved, w.recent)

\* A call that has read everything (before its merge is looked at).
ReadOK(w) ==
  AdmittedOK(w) /\ SegmentsOK(w, w.resolved) /\ MergedOK(w)

\* trusted_policies of the call's tenant and project.
LEMMA PolicyFacts ==
  ASSUME NEW w, AdmittedOK(w), NEW policy, policy = PolicyOf(w)
  PROVE  /\ policy \in Seq(ToSet(policy))
         /\ \A i \in DOMAIN policy : policy[i].trust = "policy" /\ policy[i].priority \in Int
         /\ \A i, j \in DOMAIN policy : policy[i].id = policy[j].id => i = j
<1>1. PICK k \in DOMAIN Policies : policy = Policies[k]
  BY DEF AdmittedOK, PolicyOf
<1>2. QED
  BY <1>1, ContextConstants

\* Each turn of the four loops, by the loop that made it.
LEMMA MetTurns ==
  ASSUME NEW w, ReadOK(w)
  PROVE  \E np, nr, nc \in Nat :
           /\ np = Len(PolicyOf(w))
           /\ DOMAIN PolicyOf(w) = 1..np /\ DOMAIN w.resolved = 1..nr /\ DOMAIN w.recent = 1..nc
           /\ Turns(Met(w), PolicyOf(w), w.resolved, w.recent, np, nr, nc)
<1>1. PICK policy, resolved, recent :
        policy = PolicyOf(w) /\ resolved = w.resolved /\ recent = w.recent
  OBVIOUS
<1>2. /\ policy \in Seq(ToSet(policy)) /\ resolved \in Seq(ToSet(resolved))
      /\ recent \in Seq(ToSet(recent))
  BY <1>1, PolicyFacts DEF ReadOK, SegmentsOK, MergedOK
<1>3. PICK np \in Nat, nr \in Nat, nc \in Nat :
        /\ np = Len(policy) /\ nr = Len(resolved) /\ nc = Len(recent)
        /\ DOMAIN policy = 1..np /\ DOMAIN resolved = 1..nr /\ DOMAIN recent = 1..nc
  BY <1>2
<1>4. Turns(Met(w), policy, resolved, recent, np, nr, nc)
  BY <1>1, <1>2, <1>3, GatherPositions DEF Met
<1>5. QED
  BY <1>1, <1>3, <1>4

\* The loops met the policy first, and otherwise sources that the principal may see.
LEMMA MetSound ==
  ASSUME ContextInv, NEW w, ReadOK(w)
  PROVE  /\ MetOK(Met(w))
         /\ PolicyLeads(Met(w), Len(PolicyOf(w)))
         /\ \A n \in 1..Len(Met(w)) :
              /\ Met(w)[n].segment \in Chosen(w)
              /\ Met(w)[n].segment.trust = "policy" \/ SegmentOK(w, Met(w)[n].segment)
<1>0. PICK met, policy : met = Met(w) /\ policy = PolicyOf(w)
  OBVIOUS
<1>1. PICK np \in Nat, nr \in Nat, nc \in Nat :
        /\ np = Len(policy)
        /\ DOMAIN policy = 1..np /\ DOMAIN w.resolved = 1..nr /\ DOMAIN w.recent = 1..nc
        /\ Turns(met, policy, w.resolved, w.recent, np, nr, nc)
  BY <1>0, MetTurns
<1>2. /\ np \in Nat /\ nr \in Nat /\ nc \in Nat /\ Len(met) = np + nr + nc + nr
      /\ DOMAIN policy = 1..np /\ DOMAIN w.resolved = 1..nr /\ DOMAIN w.recent = 1..nc
      /\ \A i \in 1..np : met[i].segment = policy[i] /\ met[i].taken
      /\ \A i \in 1..nr : met[np + i].segment = w.resolved[i]
      /\ \A i \in 1..nc : met[np + nr + i].segment = w.recent[i]
      /\ \A i \in 1..nr : met[np + nr + nc + i].segment = w.resolved[i]
  BY <1>1 DEF Turns
<1>3. /\ \A i \in DOMAIN policy : policy[i].trust = "policy" /\ policy[i].priority \in Int
      /\ \A i, j \in DOMAIN policy : policy[i].id = policy[j].id => i = j
  BY <1>0, PolicyFacts DEF ReadOK
<1>4. /\ \A i \in DOMAIN w.resolved : SegmentOK(w, w.resolved[i])
      /\ \A i \in DOMAIN w.recent : SegmentOK(w, w.recent[i])
  BY DEF ReadOK, SegmentsOK, MergedOK
<1>5. /\ \A i \in DOMAIN policy : policy[i] \in Chosen(w)
      /\ \A i \in DOMAIN w.resolved : w.resolved[i] \in Chosen(w)
      /\ \A i \in DOMAIN w.recent : w.recent[i] \in Chosen(w)
  BY <1>0 DEF Chosen, ToSet
<1>6. ASSUME NEW n \in 1..Len(met), n > np
      PROVE  SegmentOK(w, met[n].segment) /\ met[n].segment \in Chosen(w)
  <2>1. \/ \E i \in 1..nr : n = np + i
        \/ \E i \in 1..nc : n = np + nr + i
        \/ \E i \in 1..nr : n = np + nr + nc + i
    <3>1. n <= np + nr => n - np \in 1..nr /\ n = np + (n - np)
      BY <1>2, <1>6
    <3>2. n > np + nr /\ n <= np + nr + nc =>
            n - (np + nr) \in 1..nc /\ n = np + nr + (n - (np + nr))
      BY <1>2, <1>6
    <3>3. n > np + nr + nc =>
            n - (np + nr + nc) \in 1..nr /\ n = np + nr + nc + (n - (np + nr + nc))
      BY <1>2, <1>6
    <3>4. n <= np + nr \/ (n > np + nr /\ n <= np + nr + nc) \/ n > np + nr + nc
      BY <1>2, <1>6
    <3>5. QED
      BY <3>1, <3>2, <3>3, <3>4
  <2>2. CASE \E i \in 1..nr : n = np + i
    <3>1. PICK i \in 1..nr : n = np + i
      BY <2>2
    <3>2. met[n].segment = w.resolved[i] /\ i \in DOMAIN w.resolved
      BY <1>2, <3>1
    <3>3. QED
      BY <1>4, <1>5, <3>2
  <2>3. CASE \E i \in 1..nc : n = np + nr + i
    <3>1. PICK i \in 1..nc : n = np + nr + i
      BY <2>3
    <3>2. met[n].segment = w.recent[i] /\ i \in DOMAIN w.recent
      BY <1>2, <3>1
    <3>3. QED
      BY <1>4, <1>5, <3>2
  <2>4. CASE \E i \in 1..nr : n = np + nr + nc + i
    <3>1. PICK i \in 1..nr : n = np + nr + nc + i
      BY <2>4
    <3>2. met[n].segment = w.resolved[i] /\ i \in DOMAIN w.resolved
      BY <1>2, <3>1
    <3>3. QED
      BY <1>4, <1>5, <3>2
  <2>5. QED
    BY <2>1, <2>2, <2>3, <2>4
<1>7. ASSUME NEW n \in 1..Len(met), n <= np
      PROVE  /\ n \in 1..np /\ met[n].segment = policy[n] /\ met[n].taken
             /\ met[n].segment.trust = "policy" /\ met[n].segment.priority \in Int
             /\ met[n].segment \in Chosen(w)
  <2>1. n \in 1..np
    BY <1>2, <1>7
  <2>2. met[n].segment = policy[n] /\ met[n].taken /\ n \in DOMAIN policy
    BY <1>2, <2>1
  <2>3. QED
    BY <1>3, <1>5, <2>1, <2>2
<1>8. \A n \in 1..Len(met) : n <= np \/ n > np
  BY <1>2
<1>9. MetOK(met)
  <2>1. ASSUME NEW n \in 1..Len(met) PROVE met[n].segment.priority \in Int
    BY <1>6, <1>7, <1>8 DEF SegmentOK
  <2>2. Len(met) \in Nat
    BY <1>2
  <2>3. QED
    BY <2>1, <2>2 DEF MetOK
<1>10. PolicyLeads(met, np)
  <2>1. np \in 0..Len(met) /\ \A i \in 1..np : i \in 1..Len(met) /\ i <= np
    BY <1>2
  <2>2. \A i \in 1..np : met[i].taken /\ met[i].segment.trust = "policy"
    BY <1>7, <2>1
  <2>3. ASSUME NEW i \in 1..np, NEW j \in 1..np, met[i].segment.id = met[j].segment.id
        PROVE  i = j
    <3>1. /\ met[i].segment = policy[i] /\ met[j].segment = policy[j]
          /\ i \in DOMAIN policy /\ j \in DOMAIN policy
      BY <1>2
    <3>2. QED
      BY <1>3, <2>3, <3>1
  <2>4. ASSUME NEW i \in 1..Len(met), i > np PROVE met[i].segment.trust # "policy"
    <3>1. PICK s : s = met[i].segment
      OBVIOUS
    <3>2. SegmentOK(w, s)
      BY <1>6, <2>4, <3>1
    <3>3. QED
      BY <3>1, <3>2, StoredIsNotPolicy DEF ReadOK
  <2>5. QED
    BY <2>1, <2>2, <2>3, <2>4 DEF PolicyLeads
<1>11. ASSUME NEW n \in 1..Len(met)
       PROVE  /\ met[n].segment \in Chosen(w)
              /\ met[n].segment.trust = "policy" \/ SegmentOK(w, met[n].segment)
  BY <1>6, <1>7, <1>8
<1>12. QED
  BY <1>1, <1>0, <1>9, <1>10, <1>11

\* The text of a built context is text that its principal may see, as it was
\* first written, whoever writes between the reads of build and whatever
\* becomes of the saved text.
THEOREM BuiltCorrect == ContextSpec => []BuiltIsAuthorized
<1>1. ContextInv /\ BuildInv => BuiltIsAuthorized
  <2> SUFFICES ASSUME ContextInv, BuildInv, NEW b \in Builds, build[b].at = "built",
                      NEW s \in Stored(build[b])
               PROVE  LET w == build[b]
                          c == conversations[w.conversation]
                          row == sources[Key(w.actor.tenant, s)]
                      IN /\ row.project = c.project
                         /\ row.scope = "user" =>
                              row.owner = w.actor.user /\ c.scope = "user" /\ c.owner = row.owner
                         /\ row.scope = "project" => row.project \in w.actor.projects
                         /\ s.content = row.digest /\ s.trust = row.trust
    BY DEF BuiltIsAuthorized
  <2>1. PICK w : w = build[b]
    OBVIOUS
  <2>2. w # Idle /\ w.at = "built"
    BY <2>1 DEF Idle
  <2>3. ReadOK(w)
    BY <2>1, <2>2 DEF BuildInv, BuildOK, ReadOK
  <2>4. MetOK(Met(w))
    BY <2>3, MetSound
  <2>5. w.segments \in Seq(Claims(Met(w)))
    <3>1. MergeOK(Met(w), Len(Met(w)), Merged(Met(w)))
      BY <2>4, MergeCorrect
    <3>2. w.segments = Merged(Met(w)).segments
      BY <2>3 DEF ReadOK, MergedOK, Met
    <3>3. QED
      BY <3>1, <3>2 DEF MergeOK
  <2>6. s \in Claims(Met(w)) /\ s.trust # "policy"
    BY <2>1, <2>5 DEF Stored, ToSet
  <2>7. PICK n \in 1..Len(Met(w)) : SameText(s, Met(w)[n].segment)
    BY <2>6, ClaimOrigin
  <2>8. PICK x : x = Met(w)[n].segment
    OBVIOUS
  <2>9. SegmentOK(w, x) /\ SameText(s, x)
    <3>1. SameText(s, x) /\ x.trust # "policy"
      BY <2>6, <2>7, <2>8 DEF SameText
    <3>2. QED
      BY <2>3, <2>8, <3>1, MetSound
  <2>10. PICK k : k = Key(w.actor.tenant, x)
    OBVIOUS
  <2>11. Key(w.actor.tenant, s) = k /\ k.tenant = w.actor.tenant
    BY <2>9, <2>10 DEF Key, SameText
  <2>12. PICK c : c = conversations[w.conversation]
    OBVIOUS
  <2>13. /\ sources[k] # NoRow
         /\ sources[k].project = c.project
         /\ MaySee(w.actor, k.tenant, sources[k])
         /\ c.scope = "project" => sources[k].scope = "project"
         /\ x.content = sources[k].digest /\ x.trust = sources[k].trust
    BY <2>9, <2>10, <2>12 DEF SegmentOK, Usable
  <2>14. /\ MaySee(w.actor, c.tenant, c)
         /\ c \in ConversationRows
    BY <2>3, <2>12 DEF ReadOK, AdmittedOK, Visible, ContextInv, StoreTypeOK
  <2>15. c.scope \in {"user", "project"}
    BY <2>14 DEF ConversationRows, Scopes
  <2>16. /\ sources[k].project = c.project
         /\ sources[k].scope = "user" =>
              /\ sources[k].owner = w.actor.user
              /\ c.scope = "user" /\ c.owner = sources[k].owner
         /\ sources[k].scope = "project" => sources[k].project \in w.actor.projects
    BY <2>13, <2>14, <2>15 DEF MaySee
  <2>17. s.content = sources[k].digest /\ s.trust = sources[k].trust
    BY <2>9, <2>13 DEF SameText
  <2>18. QED
    BY <2>1, <2>11, <2>12, <2>16, <2>17
<1>2. QED
  BY <1>1, BuildInvariant, PTL

\* A conflict is two revisions of one source, or a source with a policy's id
\* (ContextConflict): two reads of one revision never disagree.
LEMMA ConflictExplained ==
  ASSUME ContextInv, NEW w, ReadOK(w), w.at = "conflict"
  PROVE  HasConflict(w)
<1>1. PICK met : met = Met(w)
  OBVIOUS
<1>2. MergeOK(met, Len(met), Merged(met)) /\ Merged(met).conflict
  BY <1>1, MetSound, MergeCorrect DEF ReadOK, MergedOK, Met
<1>3. PICK i \in 1..Len(met), j \in 1..Len(met) :
        met[i].segment.id = met[j].segment.id /\ Clash(met[i].segment, met[j].segment)
  BY <1>2 DEF MergeOK, Explained
<1>4. PICK s, t : s = met[i].segment /\ t = met[j].segment
  OBVIOUS
<1>5. /\ s \in Chosen(w) /\ t \in Chosen(w) /\ s.id = t.id /\ Clash(s, t)
      /\ s.trust = "policy" \/ SegmentOK(w, s)
      /\ t.trust = "policy" \/ SegmentOK(w, t)
  BY <1>1, <1>3, <1>4, MetSound
<1>6. s # t
  BY <1>5 DEF Clash
<1>7. CASE s.trust = "policy" \/ t.trust = "policy"
  BY <1>5, <1>6, <1>7 DEF HasConflict
<1>8. CASE SegmentOK(w, s) /\ SegmentOK(w, t)
  <2>1. s.rev = t.rev => Key(w.actor.tenant, s) = Key(w.actor.tenant, t)
    BY <1>5 DEF Key
  <2>2. s.rev = t.rev => s.content = t.content /\ s.trust = t.trust
    BY <1>8, <2>1 DEF SegmentOK
  <2>3. s.rev # t.rev
    BY <1>5, <2>2 DEF Clash
  <2>4. QED
    BY <1>5, <1>6, <2>3 DEF HasConflict
<1>9. QED
  BY <1>5, <1>7, <1>8

\* Everything that was chosen was taken by one of the loops: what resolve_sources
\* returned by the second or by the fourth.
LEMMA ChosenIsTaken ==
  ASSUME NEW w, ReadOK(w), NEW s \in Chosen(w)
  PROVE  \E n \in 1..Len(Met(w)) : Met(w)[n].taken /\ Met(w)[n].segment = s
<1>1. PICK met, policy, resolved, recent :
        met = Met(w) /\ policy = PolicyOf(w) /\ resolved = w.resolved /\ recent = w.recent
  OBVIOUS
<1>2. PICK np \in Nat, nr \in Nat, nc \in Nat :
        /\ DOMAIN policy = 1..np /\ DOMAIN resolved = 1..nr /\ DOMAIN recent = 1..nc
        /\ Turns(met, policy, resolved, recent, np, nr, nc)
  BY <1>1, MetTurns
<1>3. CASE \E i \in 1..np : s = policy[i]
  <2>1. PICK i \in 1..np : s = policy[i]
    BY <1>3
  <2>2. i \in 1..Len(met) /\ met[i].taken /\ met[i].segment = s
    BY <1>2, <2>1 DEF Turns
  <2>3. QED
    BY <1>1, <2>2
<1>4. CASE \E i \in 1..nc : s = recent[i]
  <2>1. PICK i \in 1..nc : s = recent[i]
    BY <1>4
  <2>2. np + nr + i \in 1..Len(met) /\ met[np + nr + i].taken /\ met[np + nr + i].segment = s
    BY <1>2, <2>1 DEF Turns
  <2>3. QED
    BY <1>1, <2>2
<1>5. CASE \E i \in 1..nr : s = resolved[i]
  <2>1. PICK i \in 1..nr : s = resolved[i]
    BY <1>5
  <2>2. CASE s.required
    <3>1. np + i \in 1..Len(met) /\ met[np + i].taken /\ met[np + i].segment = s
      BY <1>2, <2>1, <2>2 DEF Turns
    <3>2. QED
      BY <1>1, <3>1
  <2>3. CASE ~ s.required
    <3>1. /\ np + nr + nc + i \in 1..Len(met)
          /\ met[np + nr + nc + i].taken /\ met[np + nr + nc + i].segment = s
      BY <1>2, <2>1, <2>3 DEF Turns
    <3>2. QED
      BY <1>1, <3>1
  <2>4. QED
    BY <2>2, <2>3
<1>6. QED
  BY <1>1, <1>2, <1>3, <1>4, <1>5 DEF Chosen, ToSet

\* A call that ended with a context.
BuiltOK(w) == ReadOK(w) /\ w.at = "built"

\* What the merge leaves of a context that was built.
LEMMA BuiltMerge ==
  ASSUME ContextInv, NEW w, BuiltOK(w)
  PROVE  LET d == Merged(Met(w))
             N == Len(Met(w))
         IN /\ N \in Nat
            /\ w.segments = d.segments
            /\ d.segments \in Seq(Claims(Met(w)))
            /\ ~ d.conflict
            /\ OnePerId(Met(w), N, d) /\ InOrder(Met(w), N, d) /\ Strongest(Met(w), N, d)
            /\ PolicyFirst(Met(w), Len(PolicyOf(w)), N, d)
<1>1. MetOK(Met(w)) /\ PolicyLeads(Met(w), Len(PolicyOf(w)))
  BY MetSound DEF BuiltOK
<1>2. MergeOK(Met(w), Len(Met(w)), Merged(Met(w)))
  BY <1>1, MergeCorrect
<1>3. PolicyFirst(Met(w), Len(PolicyOf(w)), Len(Met(w)), Merged(Met(w)))
  BY <1>1, PolicyFirstCorrect
<1>4. w.segments = Merged(Met(w)).segments /\ ~ Merged(Met(w)).conflict
  BY DEF BuiltOK, ReadOK, MergedOK, Met
<1>5. QED
  BY <1>1, <1>2, <1>3, <1>4 DEF MergeOK, MetOK

\* A segment that was taken is found under its id, with its text and at least
\* its claims.
LEMMA TakenIsFound ==
  ASSUME ContextInv, NEW w, BuiltOK(w), NEW n \in 1..Len(Met(w)), Met(w)[n].taken,
         NEW s, s = Met(w)[n].segment
  PROVE  LET at == Position(w, s.id)
         IN /\ at \in DOMAIN w.segments
            /\ SameText(w.segments[at], s)
            /\ w.segments[at].priority >= s.priority
            /\ s.required => w.segments[at].required
<1>1. PICK met, d : met = Met(w) /\ d = Merged(Met(w))
  OBVIOUS
<1>2. w.segments = d.segments /\ ~ d.conflict /\ OnePerId(met, Len(met), d) /\ Strongest(met, Len(met), d)
  BY <1>1, BuiltMerge
<1>3. \E p \in DOMAIN w.segments : w.segments[p].id = s.id
  BY <1>1, <1>2 DEF OnePerId
<1>4. PICK at : at = Position(w, s.id)
  OBVIOUS
<1>5. at \in DOMAIN w.segments /\ w.segments[at].id = s.id
  BY <1>3, <1>4 DEF Position
<1>6. /\ SameText(w.segments[at], s)
      /\ w.segments[at].priority >= s.priority
      /\ s.required => w.segments[at].required
  BY <1>1, <1>2, <1>5 DEF Strongest
<1>7. QED
  BY <1>4, <1>5, <1>6

\* What was taken first stands first.
LEMMA FirstStandsFirst ==
  ASSUME ContextInv, NEW w, BuiltOK(w),
         NEW i \in 1..Len(Met(w)), NEW j \in 1..Len(Met(w)), Met(w)[i].taken, Met(w)[j].taken,
         \A m \in 1..i : Met(w)[m].taken => Met(w)[m].segment.id # Met(w)[j].segment.id
  PROVE  Position(w, Met(w)[i].segment.id) < Position(w, Met(w)[j].segment.id)
<1>1. PICK met, d : met = Met(w) /\ d = Merged(Met(w))
  OBVIOUS
<1>2. w.segments = d.segments /\ InOrder(met, Len(met), d)
  BY <1>1, BuiltMerge
<1>3. PICK p, q : p = Position(w, met[i].segment.id) /\ q = Position(w, met[j].segment.id)
  OBVIOUS
<1>4. p \in DOMAIN w.segments /\ w.segments[p].id = met[i].segment.id
  BY <1>1, <1>3, TakenIsFound DEF SameText
<1>5. q \in DOMAIN w.segments /\ w.segments[q].id = met[j].segment.id
  BY <1>1, <1>3, TakenIsFound DEF SameText
<1>6. p < q
  BY <1>1, <1>2, <1>4, <1>5 DEF InOrder
<1>7. QED
  BY <1>1, <1>3, <1>6

\* Two segments that were taken under one id have one text.
LEMMA TakenAgree ==
  ASSUME ContextInv, NEW w, BuiltOK(w),
         NEW i \in 1..Len(Met(w)), NEW j \in 1..Len(Met(w)), Met(w)[i].taken, Met(w)[j].taken,
         Met(w)[i].segment.id = Met(w)[j].segment.id
  PROVE  SameText(Met(w)[i].segment, Met(w)[j].segment)
<1>1. PICK s, t : s = Met(w)[i].segment /\ t = Met(w)[j].segment
  OBVIOUS
<1>2. PICK x : x = w.segments[Position(w, s.id)]
  OBVIOUS
<1>3. SameText(x, s)
  BY <1>1, <1>2, TakenIsFound
<1>4. SameText(x, t)
  BY <1>1, <1>2, TakenIsFound
<1>5. QED
  BY <1>1, <1>3, <1>4 DEF SameText

\* The ids of a built context are the ids of what was chosen.
LEMMA BuiltIds ==
  ASSUME ContextInv, NEW w, BuiltOK(w)
  PROVE  {s.id : s \in ToSet(w.segments)} = {s.id : s \in Chosen(w)}
<1>1. PICK met, d : met = Met(w) /\ d = Merged(Met(w))
  OBVIOUS
<1>2. w.segments = d.segments /\ OnePerId(met, Len(met), d)
  BY <1>1, BuiltMerge
<1>3. ASSUME NEW p \in DOMAIN w.segments
      PROVE  \E s \in Chosen(w) : s.id = w.segments[p].id
  <2>1. PICK n \in 1..Len(met) : met[n].segment.id = w.segments[p].id
    BY <1>2 DEF OnePerId
  <2>2. met[n].segment \in Chosen(w)
    BY <1>1, MetSound DEF BuiltOK
  <2>3. QED
    BY <2>1, <2>2
<1>4. ASSUME NEW s \in Chosen(w)
      PROVE  \E p \in DOMAIN w.segments : w.segments[p].id = s.id
  <2>1. PICK n \in 1..Len(met) : met[n].taken /\ met[n].segment = s
    BY <1>1, ChosenIsTaken DEF BuiltOK
  <2>2. QED
    BY <1>2, <2>1 DEF OnePerId
<1>5. QED
  BY <1>3, <1>4 DEF ToSet

\* Policy comes first and as it was configured.
LEMMA BuiltPolicy ==
  ASSUME ContextInv, NEW w, BuiltOK(w), NEW policy, policy = PolicyOf(w)
  PROVE  SubSeq(w.segments, 1, Len(policy)) = policy
<1>1. PICK met, d : met = Met(w) /\ d = Merged(Met(w))
  OBVIOUS
<1>2. PICK np \in Nat, nr \in Nat, nc \in Nat :
        /\ np = Len(policy) /\ DOMAIN policy = 1..np
        /\ Turns(met, policy, w.resolved, w.recent, np, nr, nc)
  BY <1>1, MetTurns DEF BuiltOK
<1>3. /\ w.segments = d.segments /\ ~ d.conflict /\ w.segments \in Seq(Claims(met))
      /\ PolicyFirst(met, np, Len(met), d)
  BY <1>1, <1>2, BuiltMerge
<1>4. ASSUME NEW i \in 1..np
      PROVE  i \in DOMAIN w.segments /\ w.segments[i] = policy[i]
  <2>1. i \in 1..Len(met) /\ i <= np /\ met[i].segment = policy[i]
    BY <1>2 DEF Turns
  <2>2. QED
    BY <1>3, <2>1 DEF PolicyFirst
<1>5. policy \in Seq(ToSet(policy))
  BY PolicyFacts DEF BuiltOK, ReadOK
<1>6. PICK k \in Nat : k = Len(w.segments) /\ DOMAIN w.segments = 1..k
  BY <1>3
<1>7. np <= k
  <2>1. np # 0 => np \in 1..np
    OBVIOUS
  <2>2. np # 0 => np \in 1..k
    BY <1>4, <1>6, <2>1
  <2>3. QED
    BY <2>2
<1>8. SubSeq(w.segments, 1, np) = [i \in 1..np |-> w.segments[i]]
  BY <1>3, <1>6, <1>7
<1>9. policy = [i \in 1..np |-> policy[i]]
  BY <1>2, <1>5
<1>10. QED
  BY <1>2, <1>4, <1>8, <1>9

\* The lengths of the three inputs of the loops.
Lengths(w, np, nr, nc) ==
  /\ np \in Nat /\ nr \in Nat /\ nc \in Nat /\ np = Len(PolicyOf(w))
  /\ DOMAIN w.resolved = 1..nr /\ DOMAIN w.recent = 1..nc
  /\ Turns(Met(w), PolicyOf(w), w.resolved, w.recent, np, nr, nc)

\* The m-th turn took a required source with the id of the j-th recent message,
\* or is that message.
EarlierBy(w, np, nr, j, m) ==
  \/ \E i \in 1..nr : m = np + i /\ w.resolved[i].required /\ w.resolved[i].id = w.recent[j].id
  \/ m = np + nr + j

\* Where a turn stands that took the id of a recent message at or before the
\* i-th recent message: it was no policy.
LEMMA EarlierTurn ==
  ASSUME ContextInv, NEW w, BuiltOK(w), NEW np, NEW nr, NEW nc, Lengths(w, np, nr, nc),
         NEW j \in 1..nc, NEW m \in 1..(np + nr + nc), Met(w)[m].taken,
         Met(w)[m].segment.id = w.recent[j].id
  PROVE  EarlierBy(w, np, nr, j, m)
<1>0. /\ np \in Nat /\ nr \in Nat /\ nc \in Nat /\ np = Len(PolicyOf(w))
      /\ DOMAIN w.recent = 1..nc
      /\ Turns(Met(w), PolicyOf(w), w.resolved, w.recent, np, nr, nc)
  BY DEF Lengths
<1>1. PICK met : met = Met(w)
  OBVIOUS
<1>2. /\ m \in 1..Len(met) /\ np + nr + j \in 1..Len(met)
      /\ met[np + nr + j].taken /\ met[np + nr + j].segment = w.recent[j]
  BY <1>0, <1>1 DEF Turns
<1>3. PICK s, t : s = met[m].segment /\ t = w.recent[j]
  OBVIOUS
<1>4. SameText(s, t)
  BY <1>1, <1>2, <1>3, TakenAgree
<1>5. SegmentOK(w, t)
  BY <1>0, <1>3 DEF BuiltOK, ReadOK, MergedOK, SegmentsOK
<1>6. s.trust # "policy"
  BY <1>4, <1>5, StoredIsNotPolicy DEF BuiltOK, ReadOK, SameText
<1>7. CASE m <= np
  <2>1. m \in 1..np
    BY <1>0, <1>7
  <2>2. s.trust = "policy"
    BY <1>0, <1>1, <1>3, <2>1, MetSound DEF BuiltOK, PolicyLeads
  <2>3. QED
    BY <1>6, <2>2
<1>8. CASE m > np /\ m <= np + nr
  <2>1. PICK i \in 1..nr : m = np + i
    <3>1. m - np \in 1..nr /\ m = np + (m - np)
      BY <1>0, <1>8
    <3>2. QED
      BY <3>1
  <2>2. met[m].segment = w.resolved[i] /\ (met[m].taken <=> w.resolved[i].required)
    BY <1>0, <1>1, <2>1 DEF Turns
  <2>3. QED
    BY <1>1, <2>1, <2>2 DEF EarlierBy
<1>9. CASE m > np + nr
  <2>1. PICK i \in 1..nc : m = np + nr + i
    <3>1. m - (np + nr) \in 1..nc /\ m = np + nr + (m - (np + nr))
      BY <1>0, <1>9
    <3>2. QED
      BY <3>1
  <2>2. met[m].segment = w.recent[i]
    BY <1>0, <1>1, <2>1 DEF Turns
  <2>3. w.recent[i].id = w.recent[j].id /\ w.recent[i].rev = w.recent[j].rev
    BY <1>3, <1>4, <2>2 DEF SameText
  <2>4. i = j
    BY <1>0, <2>3 DEF BuiltOK, ReadOK, MergedOK
  <2>5. QED
    BY <2>1, <2>4 DEF EarlierBy
<1>10. QED
  BY <1>0, <1>7, <1>8, <1>9

OrderOK(w, needed) ==
  /\ \A i \in needed, j \in DOMAIN w.recent :
       \/ Position(w, w.resolved[i].id) < Position(w, w.recent[j].id)
       \/ \E k \in needed : w.resolved[k].id = w.recent[j].id
  /\ \A i, j \in DOMAIN w.recent :
       i < j /\ {w.recent[i].id, w.recent[j].id} \cap {w.resolved[k].id : k \in needed} = {}
         => Position(w, w.recent[i].id) < Position(w, w.recent[j].id)

\* What is required stands before a recent message that is not, and recent
\* messages that nothing required keep their order.
LEMMA BuiltOrder ==
  ASSUME ContextInv, NEW w, BuiltOK(w), NEW needed,
         needed = {i \in DOMAIN w.resolved : w.resolved[i].required}
  PROVE  OrderOK(w, needed)
<1>0. PICK np \in Nat, nr \in Nat, nc \in Nat :
        /\ np = Len(PolicyOf(w))
        /\ DOMAIN w.resolved = 1..nr /\ DOMAIN w.recent = 1..nc
        /\ Turns(Met(w), PolicyOf(w), w.resolved, w.recent, np, nr, nc)
  BY MetTurns DEF BuiltOK
<1>1. Lengths(w, np, nr, nc)
  BY <1>0 DEF Lengths
<1>2. Len(Met(w)) = np + nr + nc + nr
  BY <1>0 DEF Turns
<1>3. ASSUME NEW i \in needed, NEW j \in DOMAIN w.recent,
             \A k \in needed : w.resolved[k].id # w.recent[j].id
      PROVE  Position(w, w.resolved[i].id) < Position(w, w.recent[j].id)
  <2>1. PICK x, y : x = np + i /\ y = np + nr + j
    OBVIOUS
  <2>2. i \in 1..nr /\ j \in 1..nc /\ w.resolved[i].required
    BY <1>0, <1>3
  <2>3. /\ x \in 1..Len(Met(w)) /\ Met(w)[x].taken /\ Met(w)[x].segment = w.resolved[i]
        /\ y \in 1..Len(Met(w)) /\ Met(w)[y].taken /\ Met(w)[y].segment = w.recent[j]
    <3>1. x \in 1..Len(Met(w)) /\ y \in 1..Len(Met(w))
      BY <1>2, <2>1, <2>2
    <3>2. Met(w)[x].taken /\ Met(w)[x].segment = w.resolved[i]
      BY <1>0, <2>1, <2>2 DEF Turns
    <3>3. Met(w)[y].taken /\ Met(w)[y].segment = w.recent[j]
      BY <1>0, <2>1, <2>2 DEF Turns
    <3>4. QED
      BY <3>1, <3>2, <3>3
  <2>4. ASSUME NEW m \in 1..x, Met(w)[m].taken, Met(w)[m].segment.id = Met(w)[y].segment.id
        PROVE  FALSE
    <3>1. m \in 1..(np + nr + nc) /\ m # np + nr + j
      BY <2>1, <2>2
    <3>2. PICK k \in 1..nr : w.resolved[k].required /\ w.resolved[k].id = w.recent[j].id
      <4>1. Met(w)[m].segment.id = w.recent[j].id
        BY <2>3, <2>4
      <4>2. EarlierBy(w, np, nr, j, m)
        BY <1>1, <2>2, <2>4, <3>1, <4>1, EarlierTurn
      <4>3. QED
        BY <3>1, <4>2 DEF EarlierBy
    <3>3. k \in needed
      BY <1>0, <3>2
    <3>4. QED
      BY <1>3, <3>2, <3>3
  <2>5. QED
    BY <2>3, <2>4, FirstStandsFirst
<1>4. ASSUME NEW i \in DOMAIN w.recent, NEW j \in DOMAIN w.recent, i < j,
             \A k \in needed : w.resolved[k].id # w.recent[j].id
      PROVE  Position(w, w.recent[i].id) < Position(w, w.recent[j].id)
  <2>1. PICK x, y : x = np + nr + i /\ y = np + nr + j
    OBVIOUS
  <2>2. i \in 1..nc /\ j \in 1..nc
    BY <1>0
  <2>3. /\ x \in 1..Len(Met(w)) /\ Met(w)[x].taken /\ Met(w)[x].segment = w.recent[i]
        /\ y \in 1..Len(Met(w)) /\ Met(w)[y].taken /\ Met(w)[y].segment = w.recent[j]
    <3>1. x \in 1..Len(Met(w)) /\ y \in 1..Len(Met(w))
      BY <1>2, <2>1, <2>2
    <3>2. Met(w)[x].taken /\ Met(w)[x].segment = w.recent[i]
      BY <1>0, <2>1, <2>2 DEF Turns
    <3>3. Met(w)[y].taken /\ Met(w)[y].segment = w.recent[j]
      BY <1>0, <2>1, <2>2 DEF Turns
    <3>4. QED
      BY <3>1, <3>2, <3>3
  <2>4. ASSUME NEW m \in 1..x, Met(w)[m].taken, Met(w)[m].segment.id = Met(w)[y].segment.id
        PROVE  FALSE
    <3>1. m \in 1..(np + nr + nc) /\ m # np + nr + j
      BY <1>4, <2>1, <2>2
    <3>2. PICK k \in 1..nr : w.resolved[k].required /\ w.resolved[k].id = w.recent[j].id
      <4>1. Met(w)[m].segment.id = w.recent[j].id
        BY <2>3, <2>4
      <4>2. EarlierBy(w, np, nr, j, m)
        BY <1>1, <2>2, <2>4, <3>1, <4>1, EarlierTurn
      <4>3. QED
        BY <3>1, <4>2 DEF EarlierBy
    <3>3. k \in needed
      BY <1>0, <3>2
    <3>4. QED
      BY <1>4, <3>2, <3>3
  <2>5. QED
    BY <2>3, <2>4, FirstStandsFirst
<1>5. QED
  <2>1. ASSUME NEW i \in DOMAIN w.recent, NEW j \in DOMAIN w.recent, i < j,
               {w.recent[i].id, w.recent[j].id} \cap {w.resolved[k].id : k \in needed} = {}
        PROVE  Position(w, w.recent[i].id) < Position(w, w.recent[j].id)
    <3>1. \A k \in needed : w.resolved[k].id # w.recent[j].id
      BY <2>1
    <3>2. QED
      BY <1>4, <2>1, <3>1
  <2>2. QED
    BY <1>3, <2>1 DEF OrderOK

\* A context that was built leaves nothing out.
LEMMA BuiltIsComplete ==
  ASSUME ContextInv, NEW w, BuiltOK(w)
  PROVE  LeavesNothingOut(w)
<1>1. PICK policy : policy = PolicyOf(w)
  OBVIOUS
<1>2. PICK needed : needed = {i \in DOMAIN w.resolved : w.resolved[i].required}
  OBVIOUS
<1>3. \A i, j \in DOMAIN w.segments : w.segments[i].id = w.segments[j].id => i = j
  BY BuiltMerge DEF OnePerId
<1>4. {s.id : s \in ToSet(w.segments)} = {s.id : s \in Chosen(w)}
  BY BuiltIds
<1>5. SubSeq(w.segments, 1, Len(policy)) = policy
  BY <1>1, BuiltPolicy
<1>6. ASSUME NEW s \in Chosen(w)
      PROVE  /\ w.segments[Position(w, s.id)].priority >= s.priority
             /\ s.required => w.segments[Position(w, s.id)].required
  <2>1. PICK n \in 1..Len(Met(w)) : Met(w)[n].taken /\ Met(w)[n].segment = s
    BY ChosenIsTaken DEF BuiltOK
  <2>2. QED
    BY <2>1, TakenIsFound
<1>7. ASSUME NEW i \in needed
      PROVE  w.segments[Position(w, w.resolved[i].id)].required
  <2>1. w.resolved[i] \in Chosen(w) /\ w.resolved[i].required
    BY <1>2 DEF Chosen, ToSet
  <2>2. QED
    BY <1>6, <2>1
<1>8. OrderOK(w, needed)
  BY <1>2, BuiltOrder
<1>9. \A s \in ToSet(w.resolved) \cup ToSet(w.recent) :
        w.segments[Position(w, s.id)].priority >= s.priority
  BY <1>6 DEF Chosen
<1>10. QED
  BY <1>1, <1>2, <1>3, <1>4, <1>5, <1>7, <1>8, <1>9, Zenon DEF LeavesNothingOut, OrderOK

\* A call of build leaves out nothing that was selected or recent, keeps the
\* order of its four loops, and refuses as a conflict only what is one.
THEOREM NothingSkippedCorrect == ContextSpec => []NothingIsSkipped
<1>1. ContextInv /\ BuildInv => NothingIsSkipped
  <2> SUFFICES ASSUME ContextInv, BuildInv, NEW b \in Builds
               PROVE  /\ build[b].at = "conflict" => HasConflict(build[b])
                      /\ build[b].at = "built" => LeavesNothingOut(build[b])
    BY DEF NothingIsSkipped
  <2>1. PICK w : w = build[b]
    OBVIOUS
  <2>2. w.at \in {"built", "conflict"} => ReadOK(w)
    <3>1. w.at \in {"built", "conflict"} => w # Idle
      BY DEF Idle
    <3>2. QED
      BY <2>1, <3>1 DEF BuildInv, BuildOK, ReadOK
  <2>3. w.at = "conflict" => HasConflict(w)
    BY <2>2, ConflictExplained
  <2>4. w.at = "built" => LeavesNothingOut(w)
    BY <2>2, BuiltIsComplete DEF BuiltOK
  <2>5. QED
    BY <2>1, <2>3, <2>4
<1>2. QED
  BY <1>1, BuildInvariant, PTL
=============================================================================
