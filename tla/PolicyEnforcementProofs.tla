---------------------- MODULE PolicyEnforcementProofs ----------------------
(***************************************************************************)
(* Safety of policy enforcement for any number of policies, tables,        *)
(* engines, replicas and queries, any capacity of the caches and any       *)
(* bounds.                                                                 *)
(***************************************************************************)
EXTENDS PolicyEnforcement, FiniteSetTheorems, TLAPS

----------------------------------------------------------------------------
(* The inductive invariant: what is stored and cached *)

\* Version s of p compiles for e to b, and << p, e, s >> is among the probed ones P.
Sound(p, e, s, b, P) == b = s /\ << p, e, s >> \notin Rejected /\ << p, e, s >> \in P

\* A node that is active, or can become so by clearing its suspension, holds a
\* sound artifact, and one that was active.
RowOK(p, e, row, P, W) ==
    row.status \in {"active", "divergent_suspended"} =>
        Sound(p, e, row.source, row.body, P) /\ << p, e, row.body >> \in W

RowsOK == \A p \in Policies, e \in Engines : RowOK(p, e, rows[<< p, e >>], probed, wasActive)

ArtifactsOK ==
    \A r \in Replicas :
        /\ IsFiniteSet(artifacts[r])
        /\ \A a \in artifacts[r] : Sound(a.pol, a.eng, a.source, a.body, probed)

\* A compile in state j works through registered engines E, suspends nothing, and
\* what it is about to store as active is sound.
JobOK(j, E, P) ==
    /\ j.pc \in {"compile", "persist"} => j.todo # << >> /\ Listed(j.todo) \subseteq E
    /\ j.pc = "persist" => j.status # "divergent_suspended"
    /\ j.pc = "persist" /\ j.status = "active" =>
          Sound(j.pol, Head(j.todo), j.source, j.body, P)

JobsOK == \A r \in Replicas : JobOK(job[r], Listed(engines), probed)

\* A proxy entry fits its key, and was active.
EntryOK(c, W) ==
    /\ Governs[c.pol] = c.tab /\ KindOf[c.eng] = c.kind
    /\ << c.pol, c.eng, c.body >> \in W

EntriesOK ==
    \A r \in Replicas : IsFiniteSet(entries[r]) /\ \A c \in entries[r] : EntryOK(c, wasActive)

\* The artifact a query is rewritten with is one for its table and engine kind.
QueryOK(s, W) ==
    s.pc = "fill" \/ (s.pc = "done" /\ s.status = 200) =>
        EntryOK(s.entry, W) /\ s.entry.tab = s.tab /\ s.entry.kind = s.kind

QueriesOK == \A q \in Requests : QueryOK(request[q], wasActive)

SoundInv == TypeOK /\ RowsOK /\ ArtifactsOK /\ JobsOK /\ EntriesOK /\ QueriesOK

----------------------------------------------------------------------------
(* The inductive invariant: convergence *)

RowsListed ==
    \A p \in Policies, e \in Engines : rows[<< p, e >>].status # "none" => e \in Listed(engines)

\* A compile of an older version than s is followed by another one.
Followed(Q, j, s, p) ==
    j.pc # "idle" /\ j.pol = p /\ j.source # s => p \in Listed(Q)

OldFollowed ==
    \A r \in Replicas, p \in Policies :
        p \notin missed => Followed(queue[r], job[r], source[p], p)

\* A replica with notifications Q and compile j will store version s of p for e.
WillStore(Q, j, s, p, e) ==
    \/ p \in Listed(Q)
    \/ /\ j.pol = p /\ j.source = s
       /\ \/ j.pc = "list"
          \/ j.pc \in {"compile", "persist"} /\ e \in Listed(j.todo)

\* An outdated node will be overwritten.
OldOverwritten ==
    \A p \in Policies, e \in Engines :
        p \notin missed /\ rows[<< p, e >>].status # "none" /\ rows[<< p, e >>].source # source[p] =>
            \E r \in Replicas : WillStore(queue[r], job[r], source[p], p, e)

ConvergeInv == RowsListed /\ OldFollowed /\ OldOverwritten

----------------------------------------------------------------------------
(* The inductive invariant: how stale an artifact may be *)

\* Every replica may serve what is active.
ActiveIsSince ==
    \A r \in Replicas, p \in Policies, e \in Engines :
        rows[<< p, e >>].status = "active" => << p, e, rows[<< p, e >>].body >> \in since[r]

FreshInv == ActiveIsSince /\ CachedSince

----------------------------------------------------------------------------
(* Sequences *)

\* The elements of a sequence, after an Append, and at its head and in its tail.
LEMMA ListedShape ==
    ASSUME NEW S, NEW s \in Seq(S)
    PROVE  /\ Listed(s) \subseteq S
           /\ \A x \in S : Listed(Append(s, x)) = Listed(s) \cup {x}
           /\ s = << >> => Listed(s) = {}
           /\ s # << >> => /\ Head(s) \in S /\ Tail(s) \in Seq(S)
                           /\ Head(s) \in Listed(s)
                           /\ Listed(s) = {Head(s)} \cup Listed(Tail(s))
                           /\ Len(s) <= 1 => Tail(s) = << >>
                           /\ ~ (Len(s) <= 1) => Tail(s) # << >>
<1>1. Listed(s) \subseteq S
  BY DEF Listed
<1>2. ASSUME NEW x \in S PROVE Listed(Append(s, x)) = Listed(s) \cup {x}
  <2> DEFINE t == Append(s, x)
  <2>1. /\ DOMAIN s = 1 .. Len(s) /\ DOMAIN t = 1 .. (Len(s) + 1) /\ Len(s) \in Nat
        /\ \A i \in 1 .. Len(s) : t[i] = s[i]
        /\ t[Len(s) + 1] = x
    OBVIOUS
  <2> HIDE DEF t
  <2>2. \A i : i \in DOMAIN t <=> i \in DOMAIN s \/ i = Len(s) + 1
    BY <2>1
  <2>3. \A y : y \in Listed(t) <=> y \in Listed(s) \/ y = x
    BY <2>1, <2>2 DEF Listed
  <2> QED
    BY <2>3 DEF t
<1>3. s = << >> => Listed(s) = {}
  BY DEF Listed
<1>4. ASSUME s # << >>
      PROVE  /\ Head(s) \in S /\ Tail(s) \in Seq(S)
             /\ Head(s) \in Listed(s)
             /\ Listed(s) = {Head(s)} \cup Listed(Tail(s))
             /\ Len(s) <= 1 => Tail(s) = << >>
             /\ ~ (Len(s) <= 1) => Tail(s) # << >>
  <2> DEFINE t == Tail(s)
  <2>1. /\ DOMAIN s = 1 .. Len(s) /\ DOMAIN t = 1 .. (Len(s) - 1) /\ Len(s) \in Nat
        /\ Len(s) >= 1 /\ Len(t) = Len(s) - 1 /\ t \in Seq(S)
        /\ \A i \in 1 .. (Len(s) - 1) : t[i] = s[i + 1]
        /\ Head(s) = s[1] /\ Head(s) \in S
    BY <1>4
  <2> HIDE DEF t
  <2>2. \A i : i \in DOMAIN s => i = 1 \/ i - 1 \in DOMAIN t
    BY <2>1
  <2>3. \A i : i \in DOMAIN t => i + 1 \in DOMAIN s
    BY <2>1
  <2>4. 1 \in DOMAIN s
    BY <2>1
  <2>5. ASSUME NEW y \in Listed(s) PROVE y = Head(s) \/ y \in Listed(t)
    <3>1. PICK i \in DOMAIN s : y = s[i]
      BY DEF Listed
    <3>2. CASE i = 1
      BY <2>1, <3>1, <3>2
    <3>3. CASE i # 1
      <4>1. i - 1 \in DOMAIN t /\ i \in Int
        BY <2>1, <2>2, <3>1, <3>3
      <4>2. t[i - 1] = s[(i - 1) + 1]
        BY <2>1, <4>1
      <4>3. (i - 1) + 1 = i
        BY <4>1
      <4> QED
        BY <3>1, <4>1, <4>2, <4>3 DEF Listed
    <3> QED
      BY <3>2, <3>3
  <2>6. ASSUME NEW y \in Listed(t) PROVE y \in Listed(s)
    <3>1. PICK i \in DOMAIN t : y = t[i]
      BY DEF Listed
    <3> QED
      BY <2>1, <2>3, <3>1 DEF Listed
  <2>7. Head(s) \in Listed(s)
    BY <2>1, <2>4 DEF Listed
  <2>8. Listed(s) = {Head(s)} \cup Listed(t)
    BY <2>5, <2>6, <2>7
  <2>9. (Len(s) <= 1 => t = << >>) /\ (~ (Len(s) <= 1) => t # << >>)
    BY <2>1
  <2> QED
    BY <2>1, <2>7, <2>8, <2>9 DEF t
<1> QED
  BY <1>1, <1>2, <1>3, <1>4

----------------------------------------------------------------------------
(* Types *)

\* The elements the locals start with.
LEMMA SomeShape ==
    /\ SomePolicy \in Policies /\ SomeEngine \in Engines
    /\ SomeTable \in Tables /\ SomeReplica \in Replicas
    /\ 0 \in Sources /\ Sources \subseteq Nat
    /\ CacheSize \in Nat \ {0} /\ MaxSource \in Nat
<1>1. Policies # {} /\ Tables # {} /\ Engines # {} /\ Replicas # {}
  BY SomeAssumption
<1>2. SomePolicy \in Policies /\ SomeEngine \in Engines
      /\ SomeTable \in Tables /\ SomeReplica \in Replicas
  BY <1>1 DEF SomePolicy, SomeEngine, SomeTable, SomeReplica
<1>3. CacheSize \in Nat \ {0} /\ MaxSource \in Nat
  BY BoundsAssumption
<1> QED
  BY <1>2, <1>3 DEF Sources

\* The idle states.
LEMMA IdleShape ==
    /\ NoRow \in Row /\ NoRow.status = "none"
    /\ NoJob \in JobState /\ NoJob.pc = "idle"
    /\ NoQuery \in QueryState /\ NoQuery.pc = "idle"
<1>1. NoRow \in Row /\ NoRow.status = "none"
  BY SomeShape DEF NoRow, Row, Statuses
<1>2. NoJob \in JobState /\ NoJob.pc = "idle"
  <2>1. << >> \in Seq(Engines)
    OBVIOUS
  <2> QED
    BY <2>1, SomeShape DEF NoJob, JobState, Statuses
<1>3. NoEntry \in Entry
  BY SomeShape DEF NoEntry, Entry, Kinds
<1>4. NoQuery \in QueryState /\ NoQuery.pc = "idle"
  BY <1>3, SomeShape DEF NoQuery, QueryState, Kinds, Codes
<1> QED
  BY <1>1, <1>2, <1>4

\* An Add keeps an LRU within its capacity.
LEMMA AddShape ==
    ASSUME NEW K, IsFiniteSet(K), Cardinality(K) <= CacheSize,
           NEW kept \in SUBSET K, NEW new, NEW c \in AfterAdd(kept, new)
    PROVE  /\ IsFiniteSet(c) /\ Cardinality(c) <= CacheSize
           /\ c \subseteq kept \cup {new}
<1>1. /\ IsFiniteSet(kept) /\ Cardinality(kept) \in Nat /\ CacheSize \in Nat
      /\ Cardinality(kept) <= CacheSize
  <2>1. IsFiniteSet(kept) /\ Cardinality(kept) <= Cardinality(K)
    BY FS_Subset
  <2>2. Cardinality(kept) \in Nat /\ Cardinality(K) \in Nat /\ CacheSize \in Nat
    BY <2>1, FS_CardinalityType, SomeShape
  <2> QED
    BY <2>1, <2>2
<1>2. CASE Cardinality(kept) < CacheSize
  <2>1. c = kept \cup {new}
    BY <1>2 DEF AfterAdd
  <2>2. IsFiniteSet(c) /\ Cardinality(c) \in {Cardinality(kept), Cardinality(kept) + 1}
    BY <1>1, <2>1, FS_AddElement
  <2> QED
    BY <1>1, <1>2, <2>1, <2>2
<1>3. CASE ~ (Cardinality(kept) < CacheSize)
  <2>1. PICK d \in kept : c = (kept \ {d}) \cup {new}
    BY <1>3 DEF AfterAdd
  <2> DEFINE rest == kept \ {d}
  <2>2. IsFiniteSet(rest) /\ Cardinality(rest) = Cardinality(kept) - 1
    BY <1>1, FS_RemoveElement
  <2> HIDE DEF rest
  <2>3. IsFiniteSet(rest \cup {new}) /\ Cardinality(rest \cup {new}) \in {Cardinality(rest), Cardinality(rest) + 1}
    BY <2>2, FS_AddElement
  <2> QED
    BY <1>1, <2>1, <2>2, <2>3 DEF rest
<1> QED
  BY <1>2, <1>3

\* An artifact that becomes active may be served by every replica.
LEMMA ActiveAgainShape ==
    ASSUME TypeOK, NEW p \in Policies, NEW e \in Engines, NEW b \in Sources, ActiveAgain(p, e, b)
    PROVE  /\ since' \in [Replicas -> SUBSET (Policies \X Engines \X Sources)]
           /\ \A r \in Replicas : since'[r] = since[r] \cup {<< p, e, b >>}
<1>1. since \in [Replicas -> SUBSET (Policies \X Engines \X Sources)]
  BY DEF TypeOK
<1>2. << p, e, b >> \in Policies \X Engines \X Sources
  OBVIOUS
<1> QED
  BY <1>1, <1>2 DEF ActiveAgain

----------------------------------------------------------------------------
(* What the steps of the compiler do to the handler *)

\* handleNotification loads the policy as it is, or skips the notification.
LEMMA HandleShape ==
    ASSUME TypeOK, NEW r \in Replicas, HandleNotification(r)
    PROVE  /\ job[r].pc = "idle" /\ queue[r] # << >>
           /\ Head(queue[r]) \in Policies
           /\ queue' = [queue EXCEPT ![r] = Tail(queue[r])]
           /\ queue' \in [Replicas -> Seq(Policies)]
           /\ \/ /\ missed' = missed
                 /\ \E z \in JobState :
                       /\ job' = [job EXCEPT ![r] = z] /\ z.pc = "list"
                       /\ z.pol = Head(queue[r]) /\ z.source = source[Head(queue[r])]
              \/ missed' = missed \cup {Head(queue[r])} /\ job' = job
<1>1. /\ queue \in [Replicas -> Seq(Policies)] /\ queue[r] # << >> /\ queue[r] \in Seq(Policies)
      /\ source \in [Policies -> Sources] /\ job[r].pc = "idle"
      /\ queue' = [queue EXCEPT ![r] = Tail(queue[r])]
  BY DEF TypeOK, HandleNotification
<1>2. Head(queue[r]) \in Policies /\ Tail(queue[r]) \in Seq(Policies)
  BY <1>1, ListedShape
<1>3. queue' \in [Replicas -> Seq(Policies)]
  BY <1>1, <1>2
<1> DEFINE z == [NoJob EXCEPT !.pc = "list", !.pol = Head(queue[r]), !.source = source[Head(queue[r])]]
<1>4. source[Head(queue[r])] \in Sources
  BY <1>1, <1>2
<1>5. /\ z \in JobState /\ z.pc = "list"
      /\ z.pol = Head(queue[r]) /\ z.source = source[Head(queue[r])]
  BY <1>2, <1>4, IdleShape DEF JobState
<1>6. \/ missed' = missed /\ job' = [job EXCEPT ![r] = z]
      \/ missed' = missed \cup {Head(queue[r])} /\ job' = job
  BY DEF HandleNotification
<1> HIDE DEF z
<1> QED
  BY <1>1, <1>2, <1>3, <1>5, <1>6

\* ListEngines goes on with all registered engines, or ends the handler.
LEMMA ListShape ==
    ASSUME TypeOK, NEW r \in Replicas, ListEngines(r)
    PROVE  /\ job[r].pc = "list" /\ job[r].pol \in Policies
           /\ \E z \in JobState :
                 /\ job' = [job EXCEPT ![r] = z]
                 /\ \/ z.pc = "idle" /\ engines = << >> /\ missed' = missed
                    \/ /\ z.pc = "compile" /\ z.pol = job[r].pol /\ z.source = job[r].source
                       /\ z.todo = engines /\ engines # << >> /\ missed' = missed
                    \/ z.pc = "idle" /\ missed' = missed \cup {job[r].pol}
<1> DEFINE y == [job[r] EXCEPT !.pc = "compile", !.todo = engines]
<1>1. job[r].pc = "list" /\ job[r] \in JobState /\ engines \in Seq(Engines)
  BY DEF TypeOK, ListEngines
<1>2. /\ y \in JobState /\ y.pc = "compile" /\ y.pol = job[r].pol /\ y.source = job[r].source
      /\ y.todo = engines /\ job[r].pol \in Policies
  BY <1>1 DEF JobState
<1>3. \/ job' = [job EXCEPT ![r] = NoJob] /\ engines = << >> /\ missed' = missed
      \/ job' = [job EXCEPT ![r] = y] /\ engines # << >> /\ missed' = missed
      \/ job' = [job EXCEPT ![r] = NoJob] /\ missed' = missed \cup {job[r].pol}
  BY DEF ListEngines
<1> HIDE DEF y
<1> QED
  BY <1>1, <1>2, <1>3, IdleShape

\* compileOne has an artifact for the upsert; an active one is sound.
LEMMA CompileShape ==
    ASSUME SoundInv, NEW r \in Replicas, CompileOne(r)
    PROVE  /\ job[r].pc = "compile"
           /\ probed \subseteq probed' /\ probed' \subseteq Policies \X Engines \X Sources
           /\ \E z \in JobState :
                 /\ job' = [job EXCEPT ![r] = z]
                 /\ z.pc = "persist" /\ z.pol = job[r].pol /\ z.source = job[r].source
                 /\ z.todo = job[r].todo /\ z.status # "divergent_suspended"
                 /\ z.status = "active" =>
                       Sound(job[r].pol, Head(job[r].todo), job[r].source, z.body, probed')
<1> DEFINE j == job[r]
           p == job[r].pol
           s == job[r].source
           e == Head(job[r].todo)
<1>1. /\ j.pc = "compile" /\ j \in JobState /\ p \in Policies /\ s \in Sources
      /\ j.todo \in Seq(Engines) /\ j.todo # << >>
      /\ probed \subseteq Policies \X Engines \X Sources
      /\ artifacts \in [Replicas -> SUBSET Artifact]
  BY DEF SoundInv, TypeOK, CompileOne, JobsOK, JobOK, JobState
<1>2. e \in Engines
  BY <1>1, ListedShape
<1>3. CASE \E a \in Cached(r, p, e, s) :
               /\ job' = [job EXCEPT ![r].pc = "persist", ![r].status = "active",
                                     ![r].body = a.body, ![r].hit = TRUE]
               /\ UNCHANGED probed
  <2>1. PICK a \in Cached(r, p, e, s) :
               /\ job' = [job EXCEPT ![r].pc = "persist", ![r].status = "active",
                                     ![r].body = a.body, ![r].hit = TRUE]
               /\ UNCHANGED probed
    BY <1>3
  <2>2. /\ a \in artifacts[r] /\ a.pol = p /\ a.eng = e /\ a.source = s /\ a \in Artifact
    BY <1>1 DEF Cached
  <2>3. Sound(p, e, s, a.body, probed) /\ a.body \in Sources
    BY <2>2 DEF SoundInv, ArtifactsOK, Artifact
  <2> DEFINE z == [j EXCEPT !.pc = "persist", !.status = "active", !.body = a.body, !.hit = TRUE]
  <2>4. z \in JobState /\ z.pc = "persist" /\ z.pol = p /\ z.source = s /\ z.todo = j.todo
        /\ z.body = a.body /\ z.status # "divergent_suspended"
    BY <1>1, <2>3 DEF JobState, Statuses
  <2>5. job' = [job EXCEPT ![r] = z]
    BY <2>1
  <2> HIDE DEF z
  <2> QED
    BY <1>1, <2>1, <2>3, <2>4, <2>5
<1>4. CASE job' = [job EXCEPT ![r].pc = "persist", ![r].status = "compile_failed"] /\ UNCHANGED probed
  <2> DEFINE z == [j EXCEPT !.pc = "persist", !.status = "compile_failed"]
  <2>1. z \in JobState /\ z.pc = "persist" /\ z.pol = p /\ z.source = s /\ z.todo = j.todo
        /\ z.status # "active" /\ z.status # "divergent_suspended"
    BY <1>1 DEF JobState, Statuses
  <2>2. job' = [job EXCEPT ![r] = z]
    BY <1>4
  <2> HIDE DEF z
  <2> QED
    BY <1>1, <1>4, <2>1, <2>2
<1>5. CASE /\ << p, e, s >> \notin Rejected
           /\ \E ok \in BOOLEAN :
                /\ job' = [job EXCEPT ![r].pc = "persist", ![r].body = s,
                                      ![r].status = StatusAfterProbe(ok)]
                /\ probed' = IF ok THEN probed \cup {<< p, e, s >>} ELSE probed
  <2>1. PICK ok \in BOOLEAN :
                /\ job' = [job EXCEPT ![r].pc = "persist", ![r].body = s,
                                      ![r].status = StatusAfterProbe(ok)]
                /\ probed' = IF ok THEN probed \cup {<< p, e, s >>} ELSE probed
    BY <1>5
  <2> DEFINE st == StatusAfterProbe(ok)
             z == [j EXCEPT !.pc = "persist", !.body = s, !.status = st]
  <2>2. st \in Statuses /\ (st = "active" => ok) /\ st # "divergent_suspended"
    BY DEF StatusAfterProbe, Statuses
  <2>3. job' = [job EXCEPT ![r] = z]
    BY <2>1
  <2> HIDE DEF st
  <2>4. z \in JobState /\ z.pc = "persist" /\ z.pol = p /\ z.source = s /\ z.todo = j.todo
        /\ z.status = st /\ z.body = s
    BY <1>1, <2>2 DEF JobState
  <2> HIDE DEF z
  <2>5. << p, e, s >> \in Policies \X Engines \X Sources
    BY <1>1, <1>2
  <2>6. probed \subseteq probed' /\ probed' \subseteq Policies \X Engines \X Sources
    BY <1>1, <2>1, <2>5
  <2>7. z.status = "active" => Sound(p, e, s, z.body, probed')
    BY <1>5, <2>1, <2>2, <2>4 DEF Sound
  <2> QED
    BY <1>1, <2>2, <2>3, <2>4, <2>6, <2>7
<1>6. \A b \in (IF NeedsProbe(p, e) THEN BOOLEAN ELSE {TRUE}) : b \in BOOLEAN
  OBVIOUS
<1> QED
  BY <1>3, <1>4, <1>5, <1>6 DEF CompileOne

\* After the upsert the handler goes on with the rest of its list.
LEMMA NextEngineShape ==
    ASSUME NEW j \in JobState, j.todo # << >>
    PROVE  /\ NextEngine(j) \in JobState
           /\ \/ NextEngine(j).pc = "idle" /\ Tail(j.todo) = << >>
              \/ /\ NextEngine(j).pc = "compile" /\ NextEngine(j).pol = j.pol
                 /\ NextEngine(j).source = j.source
                 /\ NextEngine(j).todo = Tail(j.todo) /\ Tail(j.todo) # << >>
<1>1. j.todo \in Seq(Engines) /\ j.pol \in Policies /\ j.source \in Sources
  BY DEF JobState
<1>2. /\ Tail(j.todo) \in Seq(Engines)
      /\ Len(j.todo) <= 1 => Tail(j.todo) = << >>
      /\ ~ (Len(j.todo) <= 1) => Tail(j.todo) # << >>
  BY <1>1, ListedShape
<1>3. CASE Len(j.todo) <= 1
  BY <1>2, <1>3, IdleShape DEF NextEngine
<1>4. CASE ~ (Len(j.todo) <= 1)
  <2> DEFINE z == [NoJob EXCEPT !.pc = "compile", !.pol = j.pol, !.source = j.source,
                               !.todo = Tail(j.todo)]
  <2>1. NextEngine(j) = z
    BY <1>4 DEF NextEngine
  <2>2. /\ z \in JobState /\ z.pc = "compile" /\ z.pol = j.pol /\ z.source = j.source
        /\ z.todo = Tail(j.todo)
    BY <1>1, <1>2, IdleShape DEF JobState
  <2> HIDE DEF z
  <2> QED
    BY <1>2, <1>4, <2>1, <2>2
<1> QED
  BY <1>3, <1>4

----------------------------------------------------------------------------
(* Soundness of what is stored, cached and served *)

\* Nothing is stored, cached or asked yet.
LEMMA SoundInit == Init => SoundInv
<1> SUFFICES ASSUME Init PROVE SoundInv
  OBVIOUS
<1> USE DEF Init
<1>1. IsFiniteSet({}) /\ Cardinality({}) = 0
  BY FS_EmptySet
<1>2. TypeOK
  <2>1. << >> \in Seq(Engines) /\ << >> \in Seq(Policies)
    OBVIOUS
  <2>2. /\ source \in [Policies -> Sources] /\ engines \in Seq(Engines)
        /\ rows \in [Policies \X Engines -> Row]
        /\ link \in [Replicas -> BOOLEAN] /\ queue \in [Replicas -> Seq(Policies)]
    BY <2>1, SomeShape, IdleShape
  <2>3. /\ job \in [Replicas -> JobState] /\ request \in [Requests -> QueryState]
        /\ artifacts \in [Replicas -> SUBSET Artifact] /\ entries \in [Replicas -> SUBSET Entry]
        /\ since \in [Replicas -> SUBSET (Policies \X Engines \X Sources)]
    BY IdleShape
  <2>4. \A r \in Replicas : Cardinality(artifacts[r]) <= CacheSize /\ Cardinality(entries[r]) <= CacheSize
    BY <1>1, SomeShape
  <2> QED
    BY <2>2, <2>3, <2>4 DEF TypeOK
<1>3. RowsOK
  <2>1. \A p \in Policies, e \in Engines : rows[<< p, e >>] = NoRow
    OBVIOUS
  <2> QED
    BY <2>1, IdleShape DEF RowsOK, RowOK
<1>4. ArtifactsOK /\ EntriesOK
  BY <1>1 DEF ArtifactsOK, EntriesOK
<1>5. JobsOK
  BY IdleShape DEF JobsOK, JobOK
<1>6. QueriesOK
  BY IdleShape DEF QueriesOK, QueryOK
<1> QED
  BY <1>2, <1>3, <1>4, <1>5, <1>6 DEF SoundInv

\* For a step that takes back no probe, no activation and no engine, it is enough
\* to look at what it changes.
LEMMA SoundFrame ==
    ASSUME SoundInv, TypeOK',
           probed \subseteq probed', wasActive \subseteq wasActive',
           Listed(engines) \subseteq Listed(engines'),
           \A p \in Policies, e \in Engines :
               \/ rows'[<< p, e >>] = rows[<< p, e >>]
               \/ RowOK(p, e, rows'[<< p, e >>], probed', wasActive'),
           \A r \in Replicas :
               \/ artifacts'[r] = artifacts[r]
               \/ /\ IsFiniteSet(artifacts'[r])
                  /\ \A a \in artifacts'[r] :
                        a \in artifacts[r] \/ Sound(a.pol, a.eng, a.source, a.body, probed'),
           \A r \in Replicas : job'[r] = job[r] \/ JobOK(job'[r], Listed(engines'), probed'),
           \A r \in Replicas :
               \/ entries'[r] = entries[r]
               \/ /\ IsFiniteSet(entries'[r])
                  /\ \A c \in entries'[r] : c \in entries[r] \/ EntryOK(c, wasActive'),
           \A q \in Requests : request'[q] = request[q] \/ QueryOK(request'[q], wasActive')
    PROVE  SoundInv'
<1>1. \A p, e, s, b : Sound(p, e, s, b, probed) => Sound(p, e, s, b, probed')
  BY DEF Sound
<1>2. RowsOK'
  <2>1. ASSUME NEW p \in Policies, NEW e \in Engines
        PROVE  RowOK(p, e, rows'[<< p, e >>], probed', wasActive')
    <3>1. RowOK(p, e, rows[<< p, e >>], probed, wasActive)
      BY DEF SoundInv, RowsOK
    <3>2. RowOK(p, e, rows[<< p, e >>], probed', wasActive')
      BY <1>1, <3>1 DEF RowOK
    <3> QED
      BY <3>2
  <2> QED
    BY <2>1 DEF RowsOK
<1>3. ArtifactsOK'
  BY <1>1 DEF SoundInv, ArtifactsOK
<1>4. JobsOK'
  <2>1. ASSUME NEW r \in Replicas PROVE JobOK(job'[r], Listed(engines'), probed')
    <3>1. JobOK(job[r], Listed(engines), probed)
      BY DEF SoundInv, JobsOK
    <3>2. JobOK(job[r], Listed(engines'), probed')
      BY <1>1, <3>1 DEF JobOK
    <3> QED
      BY <3>2
  <2> QED
    BY <2>1 DEF JobsOK
<1>5. \A c : EntryOK(c, wasActive) => EntryOK(c, wasActive')
  BY DEF EntryOK
<1>6. EntriesOK'
  BY <1>5 DEF SoundInv, EntriesOK
<1>7. QueriesOK'
  <2>1. ASSUME NEW q \in Requests PROVE QueryOK(request'[q], wasActive')
    <3>1. QueryOK(request[q], wasActive)
      BY DEF SoundInv, QueriesOK
    <3>2. QueryOK(request[q], wasActive')
      BY <1>5, <3>1 DEF QueryOK
    <3> QED
      BY <3>2
  <2> QED
    BY <2>1 DEF QueriesOK
<1> QED
  BY <1>2, <1>3, <1>4, <1>6, <1>7 DEF SoundInv

\* The environment and the connections: at most the status of a node changes.
LEMMA EnvironmentSound ==
    ASSUME SoundInv,
           \/ \E p \in Policies : EditPolicy(p)
           \/ \E e \in Engines : RegisterEngine(e)
           \/ \E r \in Replicas : Connect(r) \/ Disconnect(r)
           \/ UNCHANGED vars
    PROVE  SoundInv'
<1>1. /\ TypeOK /\ source \in [Policies -> Sources] /\ engines \in Seq(Engines)
      /\ link \in [Replicas -> BOOLEAN] /\ queue \in [Replicas -> Seq(Policies)]
      /\ missed \subseteq Policies
  BY DEF SoundInv, TypeOK
<1>2. UNCHANGED << rows, job, artifacts, entries, request, probed, wasActive, since >>
  BY DEF EditPolicy, RegisterEngine, Connect, Disconnect, vars, compilation, proxying
<1> DEFINE Typed ==
      /\ source' \in [Policies -> Sources] /\ engines' \in Seq(Engines)
      /\ link' \in [Replicas -> BOOLEAN] /\ queue' \in [Replicas -> Seq(Policies)]
      /\ missed' \subseteq Policies /\ Listed(engines) \subseteq Listed(engines')
<1>3. Typed
  <2>1. ASSUME NEW p \in Policies, EditPolicy(p) PROVE Typed
    <3>1. source[p] \in Nat /\ source[p] < MaxSource /\ MaxSource \in Nat
      BY <1>1, <2>1, SomeShape DEF EditPolicy
    <3>2. source[p] + 1 \in Sources
      BY <3>1 DEF Sources
    <3>3. source' \in [Policies -> Sources]
      BY <1>1, <2>1, <3>2 DEF EditPolicy
    <3>4. queue' \in [Replicas -> Seq(Policies)]
      BY <1>1, <2>1 DEF EditPolicy
    <3>5. missed' \subseteq Policies /\ UNCHANGED << engines, link >>
      BY <1>1, <2>1 DEF EditPolicy
    <3> QED
      BY <1>1, <3>3, <3>4, <3>5
  <2>2. ASSUME NEW e \in Engines, RegisterEngine(e) PROVE Typed
    <3>1. engines' = Append(engines, e) /\ UNCHANGED << source, link, queue, missed >>
      BY <2>2 DEF RegisterEngine, compilation
    <3>2. engines' \in Seq(Engines) /\ Listed(engines') = Listed(engines) \cup {e}
      BY <1>1, <3>1, ListedShape
    <3> QED
      BY <1>1, <3>1, <3>2
  <2>3. ASSUME NEW r \in Replicas, Connect(r) PROVE Typed
    BY <1>1, <2>3 DEF Connect
  <2>4. ASSUME NEW r \in Replicas, Disconnect(r) PROVE Typed
    <3>1. /\ UNCHANGED << source, engines >>
          /\ link' = [link EXCEPT ![r] = FALSE] /\ queue' = [queue EXCEPT ![r] = << >>]
          /\ missed' = missed \cup Listed(queue[r])
      BY <2>4 DEF Disconnect
    <3>2. Listed(queue[r]) \subseteq Policies
      BY <1>1, ListedShape
    <3>3. << >> \in Seq(Policies)
      OBVIOUS
    <3> QED
      BY <1>1, <3>1, <3>2, <3>3
  <2>5. CASE UNCHANGED vars
    BY <1>1, <2>5 DEF vars
  <2> QED
    BY <2>1, <2>2, <2>3, <2>4, <2>5
<1>4. TypeOK'
  BY <1>1, <1>2, <1>3 DEF TypeOK
<1> QED
  BY <1>2, <1>3, <1>4, SoundFrame

\* The verifier and the operator: a suspended node can be activated again, as it
\* was active before.
LEMMA SuspensionSound ==
    ASSUME SoundInv, NEW p \in Policies, NEW e \in Engines, Suspend(p, e) \/ ClearSuspension(p, e)
    PROVE  SoundInv'
<1> DEFINE row == rows[<< p, e >>]
<1>1. PICK st \in {"active", "divergent_suspended"} :
          rows' = [rows EXCEPT ![<< p, e >>].status = st]
  BY DEF Suspend, ClearSuspension
<1>2. /\ rows \in [Policies \X Engines -> Row] /\ << p, e >> \in Policies \X Engines /\ row \in Row
      /\ row.status \in {"active", "divergent_suspended"}
      /\ UNCHANGED << source, engines, link, queue, job, artifacts, entries, request, probed,
                      wasActive, missed >>
  BY DEF SoundInv, TypeOK, Suspend, ClearSuspension, proxying
<1> DEFINE z == [row EXCEPT !.status = st]
<1>3. z \in Row /\ z.source = row.source /\ z.body = row.body
  BY <1>2 DEF Row, Statuses
<1>4. rows' = [rows EXCEPT ![<< p, e >>] = z]
  BY <1>1
<1> HIDE DEF z
<1>5. RowOK(p, e, z, probed, wasActive)
  BY <1>2, <1>3 DEF SoundInv, RowsOK, RowOK
<1>6. \A q \in Policies, d \in Engines :
          rows'[<< q, d >>] = rows[<< q, d >>] \/ RowOK(q, d, rows'[<< q, d >>], probed', wasActive')
  <2> SUFFICES ASSUME NEW q \in Policies, NEW d \in Engines
               PROVE  \/ rows'[<< q, d >>] = rows[<< q, d >>]
                      \/ RowOK(q, d, rows'[<< q, d >>], probed', wasActive')
    OBVIOUS
  <2>1. CASE q = p /\ d = e
    <3>1. rows'[<< p, e >>] = z
      BY <1>2, <1>4
    <3> QED
      BY <1>2, <1>5, <2>1, <3>1
  <2>2. CASE ~ (q = p /\ d = e)
    <3>1. << q, d >> # << p, e >> /\ << q, d >> \in Policies \X Engines
      BY <2>2
    <3> QED
      BY <1>2, <1>4, <3>1
  <2> QED
    BY <2>1, <2>2
<1>7. since' \in [Replicas -> SUBSET (Policies \X Engines \X Sources)]
  <2>1. CASE Suspend(p, e)
    BY <2>1 DEF Suspend, proxying, SoundInv, TypeOK
  <2>2. CASE ClearSuspension(p, e)
    <3>1. PICK b \in Sources : ActiveAgain(p, e, b)
      BY <1>2, <2>2 DEF ClearSuspension, Row
    <3> QED
      BY <3>1, ActiveAgainShape DEF SoundInv
  <2> QED
    BY <2>1, <2>2
<1>8. TypeOK'
  BY <1>2, <1>3, <1>4, <1>7 DEF SoundInv, TypeOK
<1> QED
  BY <1>2, <1>6, <1>8, SoundFrame

\* The compiler up to the upsert.
LEMMA CompilerSound ==
    ASSUME SoundInv, NEW r \in Replicas,
           HandleNotification(r) \/ ListEngines(r) \/ CompileOne(r)
    PROVE  SoundInv'
<1>1. /\ TypeOK /\ job \in [Replicas -> JobState] /\ engines \in Seq(Engines) /\ missed \subseteq Policies
  BY DEF SoundInv, TypeOK
<1>2. UNCHANGED << source, engines, rows, link, artifacts, entries, request, wasActive, since >>
  BY DEF HandleNotification, ListEngines, CompileOne, proxying
<1>3. CASE HandleNotification(r)
  <2>1. /\ probed' = probed /\ queue' \in [Replicas -> Seq(Policies)]
        /\ missed' \subseteq Policies
    BY <1>1, <1>3, HandleShape DEF HandleNotification
  <2>2. job' = job \/ \E z \in JobState : job' = [job EXCEPT ![r] = z] /\ z.pc = "list"
    BY <1>1, <1>3, HandleShape
  <2>3. /\ job' \in [Replicas -> JobState]
        /\ \A q \in Replicas : job'[q] = job[q] \/ job'[q].pc = "list"
    BY <1>1, <2>2
  <2>4. \A q \in Replicas : job'[q] = job[q] \/ JobOK(job'[q], Listed(engines'), probed')
    BY <2>3 DEF JobOK
  <2>5. TypeOK'
    BY <1>1, <1>2, <2>1, <2>3 DEF TypeOK
  <2> QED
    BY <1>2, <2>1, <2>4, <2>5, SoundFrame
<1>4. CASE ListEngines(r)
  <2>1. PICK z \in JobState :
            /\ job' = [job EXCEPT ![r] = z]
            /\ z.pc = "idle" \/ (z.pc = "compile" /\ z.todo = engines /\ engines # << >>)
    BY <1>1, <1>4, ListShape
  <2>2. probed' = probed /\ queue' = queue
    BY <1>4 DEF ListEngines
  <2>3. missed' \subseteq Policies
    BY <1>1, <1>4, ListShape
  <2>4. JobOK(z, Listed(engines'), probed')
    BY <1>2, <2>1 DEF JobOK
  <2>5. /\ job' \in [Replicas -> JobState]
        /\ \A q \in Replicas : job'[q] = job[q] \/ job'[q] = z
    BY <1>1, <2>1
  <2>6. TypeOK'
    BY <1>1, <1>2, <2>2, <2>3, <2>5 DEF TypeOK
  <2>7. \A q \in Replicas : job'[q] = job[q] \/ JobOK(job'[q], Listed(engines'), probed')
    BY <2>4, <2>5
  <2> QED
    BY <1>2, <2>2, <2>6, <2>7, SoundFrame
<1>5. CASE CompileOne(r)
  <2>1. PICK z \in JobState :
            /\ job' = [job EXCEPT ![r] = z]
            /\ z.pc = "persist" /\ z.pol = job[r].pol /\ z.source = job[r].source
            /\ z.todo = job[r].todo /\ z.status # "divergent_suspended"
            /\ z.status = "active" =>
                  Sound(job[r].pol, Head(job[r].todo), job[r].source, z.body, probed')
    BY <1>5, CompileShape
  <2>2. /\ job[r].pc = "compile" /\ probed \subseteq probed'
        /\ probed' \subseteq Policies \X Engines \X Sources
    BY <1>5, CompileShape
  <2>3. queue' = queue /\ missed' = missed
    BY <1>5 DEF CompileOne
  <2>4. job[r].todo # << >> /\ Listed(job[r].todo) \subseteq Listed(engines)
    BY <2>2 DEF SoundInv, JobsOK, JobOK
  <2>5. JobOK(z, Listed(engines'), probed')
    BY <1>2, <2>1, <2>4 DEF JobOK
  <2>6. /\ job' \in [Replicas -> JobState]
        /\ \A q \in Replicas : job'[q] = job[q] \/ job'[q] = z
    BY <1>1, <2>1
  <2>7. TypeOK'
    BY <1>1, <1>2, <2>2, <2>3, <2>6 DEF TypeOK
  <2>8. \A q \in Replicas : job'[q] = job[q] \/ JobOK(job'[q], Listed(engines'), probed')
    BY <2>5, <2>6
  <2> QED
    BY <1>2, <2>2, <2>7, <2>8, SoundFrame
<1> QED
  BY <1>3, <1>4, <1>5

\* What the upsert changes: the node of the policy and engine at hand.
LEMMA PersistShape ==
    ASSUME SoundInv, NEW r \in Replicas, Persist(r)
    PROVE  /\ job[r].pc = "persist" /\ job[r] \in JobState /\ job[r].todo # << >>
           /\ job[r].pol \in Policies /\ Head(job[r].todo) \in Engines
           /\ job' = [job EXCEPT ![r] = NextEngine(job[r])]
           /\ UNCHANGED << source, engines, link, queue, entries, request, probed >>
           /\ \/ /\ UNCHANGED << rows, wasActive, since >>
                 /\ missed' = IF job[r].source = source[job[r].pol]
                              THEN missed \cup {job[r].pol} ELSE missed
              \/ /\ rows' = [rows EXCEPT ![<< job[r].pol, Head(job[r].todo) >>] =
                      [status |-> job[r].status, source |-> job[r].source, body |-> job[r].body]]
                 /\ wasActive' = IF job[r].status = "active"
                                 THEN wasActive \cup {<< job[r].pol, Head(job[r].todo), job[r].body >>}
                                 ELSE wasActive
                 /\ IF job[r].status = "active"
                    THEN ActiveAgain(job[r].pol, Head(job[r].todo), job[r].body)
                    ELSE UNCHANGED since
                 /\ missed' = missed
           /\ \/ UNCHANGED artifacts
              \/ /\ job[r].status = "active"
                 /\ \E new, kept, c :
                       /\ new = [pol |-> job[r].pol, eng |-> Head(job[r].todo),
                                 source |-> job[r].source, body |-> job[r].body]
                       /\ kept \subseteq artifacts[r] /\ c \in AfterAdd(kept, new)
                       /\ artifacts' = [artifacts EXCEPT ![r] = c]
<1>1. job[r].pc = "persist" /\ job[r] \in JobState /\ job[r].todo # << >>
  BY DEF Persist, SoundInv, TypeOK, JobsOK, JobOK
<1>2. job[r].pol \in Policies /\ job[r].todo \in Seq(Engines)
  BY <1>1 DEF JobState
<1>3. Head(job[r].todo) \in Engines
  BY <1>1, <1>2, ListedShape
<1> DEFINE j == job[r]
           e == Head(j.todo)
           new == [pol |-> j.pol, eng |-> e, source |-> j.source, body |-> j.body]
           kept == {a \in artifacts[r] : ~ SameArtifact(a, new)}
<1>4. PICK stored \in BOOLEAN, reported \in BOOLEAN :
             /\ IF stored
                THEN /\ rows' = [rows EXCEPT ![<< j.pol, e >>] =
                                    [status |-> j.status, source |-> j.source, body |-> j.body]]
                     /\ IF j.status = "active"
                        THEN /\ wasActive' = wasActive \cup {<< j.pol, e, j.body >>}
                             /\ ActiveAgain(j.pol, e, j.body)
                        ELSE UNCHANGED << wasActive, since >>
                     /\ UNCHANGED missed
                ELSE /\ missed' = IF j.source = source[j.pol] THEN missed \cup {j.pol} ELSE missed
                     /\ UNCHANGED << rows, wasActive, since >>
             /\ IF reported /\ j.status = "active" /\ ~ j.hit
                THEN \E c \in AfterAdd(kept, new) : artifacts' = [artifacts EXCEPT ![r] = c]
                ELSE UNCHANGED artifacts
             /\ job' = [job EXCEPT ![r] = NextEngine(j)]
  BY DEF Persist
<1>5. UNCHANGED << source, engines, link, queue, entries, request, probed >>
  BY DEF Persist, proxying
<1>6. kept \subseteq artifacts[r]
  OBVIOUS
<1> HIDE DEF kept
<1>7. \/ UNCHANGED artifacts
      \/ /\ j.status = "active"
         /\ \E n, k, c :
               /\ n = new /\ k \subseteq artifacts[r] /\ c \in AfterAdd(k, n)
               /\ artifacts' = [artifacts EXCEPT ![r] = c]
  <2> HIDE DEF new, e, j
  <2> QED
    BY <1>4, <1>6
<1>8. \/ /\ UNCHANGED << rows, wasActive, since >>
         /\ missed' = IF j.source = source[j.pol] THEN missed \cup {j.pol} ELSE missed
      \/ /\ rows' = [rows EXCEPT ![<< j.pol, e >>] =
                        [status |-> j.status, source |-> j.source, body |-> j.body]]
         /\ wasActive' = IF j.status = "active"
                         THEN wasActive \cup {<< j.pol, e, j.body >>} ELSE wasActive
         /\ IF j.status = "active" THEN ActiveAgain(j.pol, e, j.body) ELSE UNCHANGED since
         /\ missed' = missed
  <2> HIDE DEF new, e, j
  <2> QED
    BY <1>4
<1> QED
  BY <1>1, <1>2, <1>3, <1>4, <1>5, <1>7, <1>8

\* The upsert: what it stores and caches as active is sound.
LEMMA PersistSound ==
    ASSUME SoundInv, NEW r \in Replicas, Persist(r)
    PROVE  SoundInv'
<1>1. PICK j : j = job[r]
  OBVIOUS
<1>2. PICK e : e = Head(job[r].todo)
  OBVIOUS
<1>3. /\ j \in JobState /\ j.pc = "persist" /\ j.pol \in Policies /\ j.todo # << >>
      /\ e = Head(j.todo) /\ e \in Engines
      /\ job' = [job EXCEPT ![r] = NextEngine(j)]
      /\ UNCHANGED << source, engines, link, queue, entries, request, probed >>
  BY <1>1, <1>2, PersistShape
<1>4. /\ j.todo \in Seq(Engines) /\ j.source \in Sources /\ j.body \in Sources
      /\ j.status \in Statuses
      /\ << j.pol, e >> \in Policies \X Engines
      /\ << j.pol, e, j.body >> \in Policies \X Engines \X Sources
  BY <1>3 DEF JobState
<1>5. /\ TypeOK /\ rows \in [Policies \X Engines -> Row] /\ job \in [Replicas -> JobState]
      /\ artifacts \in [Replicas -> SUBSET Artifact]
      /\ IsFiniteSet(artifacts[r]) /\ Cardinality(artifacts[r]) <= CacheSize
      /\ \A q \in Replicas : Cardinality(artifacts[q]) <= CacheSize
      /\ wasActive \subseteq Policies \X Engines \X Sources /\ missed \subseteq Policies
  BY DEF SoundInv, TypeOK, ArtifactsOK
<1>6. /\ Listed(j.todo) \subseteq Listed(engines) /\ j.status # "divergent_suspended"
      /\ j.status = "active" => Sound(j.pol, e, j.source, j.body, probed)
  BY <1>1, <1>3 DEF SoundInv, JobsOK, JobOK
<1>7. /\ rows' \in [Policies \X Engines -> Row] /\ missed' \subseteq Policies
      /\ wasActive \subseteq wasActive' /\ wasActive' \subseteq Policies \X Engines \X Sources
      /\ \A q \in Policies, d \in Engines :
            rows'[<< q, d >>] = rows[<< q, d >>] \/ RowOK(q, d, rows'[<< q, d >>], probed', wasActive')
  <2>1. CASE UNCHANGED << rows, wasActive >>
    <3>1. missed' = missed \/ missed' = missed \cup {j.pol}
      BY <1>1, PersistShape
    <3> QED
      BY <1>3, <1>5, <2>1, <3>1
  <2>2. CASE /\ rows' = [rows EXCEPT ![<< j.pol, e >>] =
                            [status |-> j.status, source |-> j.source, body |-> j.body]]
             /\ wasActive' = IF j.status = "active"
                             THEN wasActive \cup {<< j.pol, e, j.body >>} ELSE wasActive
             /\ missed' = missed
    <3> DEFINE z == [status |-> j.status, source |-> j.source, body |-> j.body]
    <3>1. z \in Row /\ z.status = j.status /\ z.source = j.source /\ z.body = j.body
      BY <1>4 DEF Row
    <3>2. rows' = [rows EXCEPT ![<< j.pol, e >>] = z]
      BY <2>2
    <3> HIDE DEF z
    <3>3. j.status # "divergent_suspended"
      BY <1>6
    <3>4. RowOK(j.pol, e, z, probed', wasActive')
      BY <1>3, <1>6, <2>2, <3>1, <3>3 DEF RowOK
    <3>5. ASSUME NEW q \in Policies, NEW d \in Engines
          PROVE  \/ rows'[<< q, d >>] = rows[<< q, d >>]
                 \/ RowOK(q, d, rows'[<< q, d >>], probed', wasActive')
      <4>1. CASE q = j.pol /\ d = e
        <5>1. rows'[<< j.pol, e >>] = z
          BY <1>4, <1>5, <3>2
        <5> QED
          BY <3>4, <4>1, <5>1
      <4>2. CASE ~ (q = j.pol /\ d = e)
        <5>1. << q, d >> # << j.pol, e >> /\ << q, d >> \in Policies \X Engines
          BY <4>2
        <5> QED
          BY <1>5, <3>2, <5>1
      <4> QED
        BY <4>1, <4>2
    <3>6. rows' \in [Policies \X Engines -> Row]
      BY <1>4, <1>5, <3>1, <3>2
    <3>7. wasActive \subseteq wasActive' /\ wasActive' \subseteq Policies \X Engines \X Sources
      BY <1>4, <1>5, <2>2
    <3> QED
      BY <1>5, <2>2, <3>5, <3>6, <3>7
  <2> QED
    BY <1>1, <1>2, <2>1, <2>2, PersistShape
<1> DEFINE CacheOK ==
      /\ artifacts' \in [Replicas -> SUBSET Artifact]
      /\ \A q \in Replicas :
            /\ Cardinality(artifacts'[q]) <= CacheSize
            /\ \/ artifacts'[q] = artifacts[q]
               \/ /\ IsFiniteSet(artifacts'[q])
                  /\ \A a \in artifacts'[q] :
                        a \in artifacts[q] \/ Sound(a.pol, a.eng, a.source, a.body, probed')
<1>8. CacheOK
  <2>1. CASE UNCHANGED artifacts
    BY <1>5, <2>1
  <2>2. ASSUME j.status = "active", NEW new, NEW kept, NEW c,
               new = [pol |-> j.pol, eng |-> e, source |-> j.source, body |-> j.body],
               kept \subseteq artifacts[r], c \in AfterAdd(kept, new),
               artifacts' = [artifacts EXCEPT ![r] = c]
        PROVE  CacheOK
    <3>1. new \in Artifact /\ Sound(new.pol, new.eng, new.source, new.body, probed')
      BY <1>3, <1>4, <1>6, <2>2 DEF Artifact
    <3>2. IsFiniteSet(c) /\ Cardinality(c) <= CacheSize /\ c \subseteq artifacts[r] \cup {new}
      BY <1>5, <2>2, AddShape
    <3>3. \A q \in Replicas : artifacts'[q] = IF q = r THEN c ELSE artifacts[q]
      BY <1>5, <2>2
    <3>4. c \in SUBSET Artifact
      BY <1>5, <3>1, <3>2
    <3>5. artifacts' \in [Replicas -> SUBSET Artifact]
      BY <1>5, <2>2, <3>4
    <3> QED
      BY <1>5, <3>1, <3>2, <3>3, <3>5
  <2> QED
    BY <1>1, <1>2, <2>1, <2>2, PersistShape
<1>9. /\ job' \in [Replicas -> JobState]
      /\ \A q \in Replicas : job'[q] = job[q] \/ JobOK(job'[q], Listed(engines'), probed')
  <2>1. PICK z : z = NextEngine(j)
    OBVIOUS
  <2>2. z \in JobState /\ (z.pc = "idle" \/ (z.pc = "compile" /\ z.todo = Tail(j.todo) /\ z.todo # << >>))
    BY <1>3, <2>1, NextEngineShape
  <2>3. Listed(Tail(j.todo)) \subseteq Listed(engines)
    BY <1>3, <1>4, <1>6, ListedShape
  <2>4. JobOK(z, Listed(engines'), probed')
    BY <1>3, <2>2, <2>3 DEF JobOK
  <2> QED
    BY <1>3, <1>5, <2>1, <2>2, <2>4
<1>10. since' \in [Replicas -> SUBSET (Policies \X Engines \X Sources)]
  <2>1. UNCHANGED since \/ ActiveAgain(j.pol, e, j.body)
    BY <1>1, <1>2, PersistShape
  <2> QED
    BY <1>3, <1>4, <1>5, <2>1, ActiveAgainShape DEF TypeOK
<1>11. TypeOK'
  BY <1>3, <1>5, <1>7, <1>8, <1>9, <1>10 DEF TypeOK
<1> QED
  BY <1>3, <1>7, <1>8, <1>9, <1>11, SoundFrame

\* A step of one query: its local state changes, and no cache and no node.
LEMMA QueryStepSound ==
    ASSUME SoundInv, NEW q \in Requests, NEW z \in QueryState,
           request' = [request EXCEPT ![q] = z], QueryOK(z, wasActive),
           UNCHANGED << source, engines, compilation, entries, since >>
    PROVE  SoundInv'
<1>1. request \in [Requests -> QueryState] /\ TypeOK
  BY DEF SoundInv, TypeOK
<1>2. UNCHANGED << source, engines, rows, link, queue, job, artifacts, entries, probed,
                   wasActive, since, missed >>
  BY DEF compilation
<1>3. /\ request' \in [Requests -> QueryState]
      /\ \A s \in Requests : request'[s] = request[s] \/ request'[s] = z
  BY <1>1
<1>4. TypeOK'
  BY <1>1, <1>2, <1>3 DEF TypeOK
<1>5. \A s \in Requests : request'[s] = request[s] \/ QueryOK(request'[s], wasActive')
  BY <1>2, <1>3
<1> QED
  BY <1>2, <1>4, <1>5, SoundFrame

\* The answer of a query.
LEMMA AnsweredShape ==
    ASSUME TypeOK, NEW q \in Requests,
           NEW st \in Codes, Answered(q, st)
    PROVE  \E z \in QueryState :
              /\ request' = [request EXCEPT ![q] = z]
              /\ z.pc = "done" /\ z.status = st
              /\ z.entry = request[q].entry /\ z.tab = request[q].tab /\ z.kind = request[q].kind
<1> DEFINE z == [request[q] EXCEPT !.pc = "done", !.status = st]
<1>1. request[q] \in QueryState
  BY DEF TypeOK
<1>2. /\ z \in QueryState /\ z.pc = "done" /\ z.status = st
      /\ z.entry = request[q].entry /\ z.tab = request[q].tab /\ z.kind = request[q].kind
  BY <1>1 DEF QueryState
<1>3. request' = [request EXCEPT ![q] = z]
  BY DEF Answered
<1> HIDE DEF z
<1> QED
  BY <1>2, <1>3

\* A query that is refused, looks its table up or is asked again: a hit is an
\* entry for the query's table and kind.
LEMMA AskingSound ==
    ASSUME SoundInv, NEW q \in Requests,
           \/ RefuseQuery(q)
           \/ \E r \in Replicas, t \in Tables, k \in Proxied : Lookup(q, r, t, k)
           \/ NextQuery(q)
    PROVE  SoundInv'
<1>1. TypeOK
  BY DEF SoundInv
<1>2. CASE RefuseQuery(q)
  <2>1. PICK st \in Codes : Answered(q, st) /\ st # 200
    BY <1>2 DEF RefuseQuery, Codes
  <2>2. PICK z \in QueryState : request' = [request EXCEPT ![q] = z] /\ z.pc = "done" /\ z.status = st
    BY <1>1, <2>1, AnsweredShape
  <2>3. QueryOK(z, wasActive)
    BY <2>1, <2>2 DEF QueryOK
  <2>4. UNCHANGED << source, engines, compilation, entries, since >>
    BY <1>2 DEF RefuseQuery
  <2> QED
    BY <2>2, <2>3, <2>4, QueryStepSound
<1>3. ASSUME NEW r \in Replicas, NEW t \in Tables, NEW k \in Proxied, Lookup(q, r, t, k)
      PROVE  SoundInv'
  <2> DEFINE asked == [NoQuery EXCEPT !.pc = "load", !.at = r, !.tab = t, !.kind = k]
             hits == {c \in entries[r] : c.tab = t /\ c.kind = k}
  <2>1. asked \in QueryState /\ asked.pc = "load" /\ asked.tab = t /\ asked.kind = k
    BY IdleShape DEF QueryState, Proxied
  <2>2. UNCHANGED << source, engines, compilation, entries, since >>
    BY <1>3 DEF Lookup
  <2>3. \/ \E c \in hits, st \in Codes :
             request' = [request EXCEPT ![q] =
                 [asked EXCEPT !.pc = "done", !.entry = c, !.status = st]]
        \/ request' = [request EXCEPT ![q] = asked]
    <3>1. \/ \E c \in hits, st \in {200, 422} :
               request' = [request EXCEPT ![q] =
                   [asked EXCEPT !.pc = "done", !.entry = c, !.status = st]]
          \/ request' = [request EXCEPT ![q] = asked]
      BY <1>3, Zenon DEF Lookup
    <3>2. {200, 422} \subseteq Codes
      BY DEF Codes
    <3> HIDE DEF asked, hits
    <3> QED
      BY <3>1, <3>2, Zenon
  <2> HIDE DEF asked
  <2>4. ASSUME NEW c \in hits, NEW st \in Codes,
               request' = [request EXCEPT ![q] =
                   [asked EXCEPT !.pc = "done", !.entry = c, !.status = st]]
        PROVE  SoundInv'
    <3>1. c \in Entry /\ c.tab = t /\ c.kind = k /\ EntryOK(c, wasActive)
      BY <1>1 DEF TypeOK, SoundInv, EntriesOK
    <3> DEFINE z == [asked EXCEPT !.pc = "done", !.entry = c, !.status = st]
    <3>2. z \in QueryState /\ z.entry = c /\ z.tab = t /\ z.kind = k
      BY <2>1, <3>1 DEF QueryState
    <3>3. request' = [request EXCEPT ![q] = z]
      BY <2>4
    <3> HIDE DEF z
    <3>4. QueryOK(z, wasActive)
      BY <3>1, <3>2 DEF QueryOK
    <3> QED
      BY <2>2, <3>2, <3>3, <3>4, QueryStepSound
  <2>5. CASE request' = [request EXCEPT ![q] = asked]
    <3>1. QueryOK(asked, wasActive)
      BY <2>1 DEF QueryOK
    <3> QED
      BY <2>1, <2>2, <2>5, <3>1, QueryStepSound
  <2> QED
    BY <2>3, <2>4, <2>5
<1>4. CASE NextQuery(q)
  <2>1. QueryOK(NoQuery, wasActive)
    BY IdleShape DEF QueryOK
  <2>2. request' = [request EXCEPT ![q] = NoQuery] /\ UNCHANGED << source, engines, compilation, entries, since >>
    BY <1>4 DEF NextQuery
  <2> QED
    BY <2>1, <2>2, IdleShape, QueryStepSound
<1> QED
  BY <1>2, <1>3, <1>4

\* LoadCompiledForTable: a node that may be taken governs the table, is for the
\* engine kind and is active.
LEMMA LoadSound ==
    ASSUME SoundInv, NEW q \in Requests, LoadCompiled(q)
    PROVE  SoundInv'
<1>1. /\ TypeOK /\ request[q] \in QueryState /\ rows \in [Policies \X Engines -> Row]
      /\ request[q].tab \in Tables /\ request[q].kind \in Kinds
  BY DEF SoundInv, TypeOK, QueryState
<1> DEFINE t == request[q].tab
           k == request[q].kind
<1>2. UNCHANGED << source, engines, compilation, entries, since >>
  BY DEF LoadCompiled
<1>3. CASE Answered(q, 503)
  <2>1. PICK z \in QueryState : request' = [request EXCEPT ![q] = z] /\ z.pc = "done" /\ z.status = 503
    <3>1. 503 \in Codes
      BY DEF Codes
    <3> QED
      BY <1>1, <1>3, <3>1, AnsweredShape
  <2>2. QueryOK(z, wasActive)
    BY <2>1 DEF QueryOK
  <2> QED
    BY <1>2, <2>1, <2>2, QueryStepSound
<1>4. ASSUME NEW x \in Servable(t, k),
             request' = [request EXCEPT ![q].pc = "fill",
                 ![q].entry = [tab |-> t, kind |-> k, pol |-> x[1], eng |-> x[2],
                               body |-> rows[x].body]]
      PROVE  SoundInv'
  <2>1. /\ x \in Policies \X Engines /\ Governs[x[1]] = t /\ KindOf[x[2]] = k
        /\ rows[x].status = "active"
    BY <1>1 DEF Servable, WithStatus, NodesFor
  <2>2. PICK p \in Policies, e \in Engines : x = << p, e >>
    BY <2>1
  <2>3. x[1] = p /\ x[2] = e /\ rows[x] \in Row /\ rows[x].body \in Sources
    BY <1>1, <2>1, <2>2 DEF Row
  <2>4. << p, e, rows[x].body >> \in wasActive
    BY <2>1, <2>2 DEF SoundInv, RowsOK, RowOK
  <2> DEFINE c == [tab |-> t, kind |-> k, pol |-> x[1], eng |-> x[2], body |-> rows[x].body]
             z == [request[q] EXCEPT !.pc = "fill", !.entry = c]
  <2>5. request' = [request EXCEPT ![q] = z]
    BY <1>4
  <2>6. c \in Entry /\ c.tab = t /\ c.kind = k /\ c.pol = p /\ c.eng = e /\ c.body = rows[x].body
    BY <1>1, <2>3 DEF Entry
  <2> HIDE DEF c
  <2>7. z \in QueryState /\ z.entry = c /\ z.tab = t /\ z.kind = k
    BY <1>1, <2>6 DEF QueryState
  <2> HIDE DEF z
  <2>8. EntryOK(c, wasActive)
    BY <2>1, <2>3, <2>4, <2>6 DEF EntryOK
  <2>9. QueryOK(z, wasActive)
    BY <2>6, <2>7, <2>8 DEF QueryOK
  <2> QED
    BY <1>2, <2>5, <2>7, <2>9, QueryStepSound
<1> QED
  BY <1>3, <1>4 DEF LoadCompiled

\* The cache fill with the splice, and the invalidation of a table.
LEMMA ProxyCacheSound ==
    ASSUME SoundInv,
           \/ \E q \in Requests : FillAndSplice(q)
           \/ \E r \in Replicas, t \in Tables : InvalidateTable(r, t)
    PROVE  SoundInv'
<1>1. /\ TypeOK /\ entries \in [Replicas -> SUBSET Entry]
      /\ request \in [Requests -> QueryState]
      /\ \A r \in Replicas : IsFiniteSet(entries[r]) /\ Cardinality(entries[r]) <= CacheSize
  BY DEF SoundInv, TypeOK, EntriesOK
<1>2. UNCHANGED << source, engines, rows, link, queue, job, artifacts, probed, wasActive, missed >>
  BY DEF FillAndSplice, InvalidateTable, compilation
<1> DEFINE SinceOK == since' \in [Replicas -> SUBSET (Policies \X Engines \X Sources)]
<1> DEFINE CacheOK(r, c) ==
      /\ entries' = [entries EXCEPT ![r] = c] /\ c \in SUBSET Entry
      /\ IsFiniteSet(c) /\ Cardinality(c) <= CacheSize
      /\ \A d \in c : d \in entries[r] \/ EntryOK(d, wasActive')
    QueriesAfter ==
      /\ request' \in [Requests -> QueryState]
      /\ \A q \in Requests : request'[q] = request[q] \/ QueryOK(request'[q], wasActive')
<1>3. ASSUME NEW r \in Replicas, NEW c, CacheOK(r, c), QueriesAfter, SinceOK
      PROVE  SoundInv'
  <2>1. /\ entries' \in [Replicas -> SUBSET Entry]
        /\ \A s \in Replicas : entries'[s] = IF s = r THEN c ELSE entries[s]
    BY <1>1, <1>3
  <2>2. \A s \in Replicas : Cardinality(entries'[s]) <= CacheSize
    BY <1>1, <1>3, <2>1
  <2>3. TypeOK'
    BY <1>1, <1>2, <1>3, <2>1, <2>2 DEF TypeOK
  <2>4. \A s \in Replicas :
            \/ entries'[s] = entries[s]
            \/ /\ IsFiniteSet(entries'[s])
               /\ \A d \in entries'[s] : d \in entries[s] \/ EntryOK(d, wasActive')
    BY <1>3, <2>1
  <2> QED
    BY <1>2, <1>3, <2>3, <2>4, SoundFrame
<1>4. ASSUME NEW q \in Requests, FillAndSplice(q) PROVE SoundInv'
  <2> DEFINE r == request[q].at
             new == request[q].entry
             kept == {d \in entries[r] : ~ SameEntry(d, new)}
  <2>1. PICK c \in AfterAdd(kept, new) : entries' = [entries EXCEPT ![r] = c]
    BY <1>4 DEF FillAndSplice
  <2>2. PICK st \in Codes : Answered(q, st)
    BY <1>4 DEF FillAndSplice, Codes
  <2>4. r \in Replicas /\ new \in Entry
    BY <1>1 DEF QueryState
  <2>5. EntryOK(new, wasActive) /\ new.tab = request[q].tab /\ new.kind = request[q].kind
    BY <1>4 DEF FillAndSplice, SoundInv, QueriesOK, QueryOK
  <2>6. kept \in SUBSET entries[r]
    OBVIOUS
  <2> HIDE DEF kept
  <2>7. IsFiniteSet(c) /\ Cardinality(c) <= CacheSize /\ c \subseteq kept \cup {new}
    BY <1>1, <2>4, <2>6, AddShape
  <2>8. c \in SUBSET Entry
    BY <1>1, <2>4, <2>6, <2>7
  <2>9. CacheOK(r, c)
    BY <1>2, <2>1, <2>5, <2>6, <2>7, <2>8
  <2>10. PICK z \in QueryState :
              /\ request' = [request EXCEPT ![q] = z]
              /\ z.entry = new /\ z.tab = request[q].tab /\ z.kind = request[q].kind
    BY <1>1, <2>2, AnsweredShape
  <2>11. QueryOK(z, wasActive')
    BY <1>2, <2>5, <2>10 DEF QueryOK
  <2>12. QueriesAfter
    BY <1>1, <2>10, <2>11
  <2>13. SinceOK
    BY <1>1, <1>4 DEF FillAndSplice, TypeOK
  <2> QED
    BY <1>3, <2>4, <2>9, <2>12, <2>13
<1>5. ASSUME NEW r \in Replicas, NEW t \in Tables, InvalidateTable(r, t) PROVE SoundInv'
  <2> DEFINE c == {d \in entries[r] : d.tab # t}
  <2>1. entries' = [entries EXCEPT ![r] = c] /\ UNCHANGED request
    BY <1>5 DEF InvalidateTable
  <2>2. c \subseteq entries[r]
    OBVIOUS
  <2> HIDE DEF c
  <2>3. IsFiniteSet(c) /\ Cardinality(c) <= Cardinality(entries[r])
    BY <1>1, <2>2, FS_Subset
  <2>4. Cardinality(c) \in Nat /\ Cardinality(entries[r]) \in Nat /\ CacheSize \in Nat
    BY <1>1, <2>3, FS_CardinalityType, SomeShape
  <2>5. Cardinality(c) <= CacheSize
    BY <1>1, <2>3, <2>4
  <2>6. c \in SUBSET Entry
    BY <1>1, <2>2
  <2>7. CacheOK(r, c)
    BY <2>1, <2>2, <2>3, <2>5, <2>6
  <2>8. QueriesAfter
    BY <1>1, <2>1
  <2>9. SinceOK
    <3>1. since \in [Replicas -> SUBSET (Policies \X Engines \X Sources)]
      BY <1>1 DEF TypeOK
    <3>2. since' = [since EXCEPT ![r] = Unexpired(since[r], r, t)]
      BY <1>5 DEF InvalidateTable
    <3>3. Unexpired(since[r], r, t) \subseteq since[r]
      BY DEF Unexpired
    <3> QED
      BY <3>1, <3>2, <3>3
  <2> QED
    BY <1>3, <2>7, <2>8, <2>9
<1> QED
  BY <1>4, <1>5

\* Every step keeps what is stored, cached and served sound.
LEMMA SoundNext == SoundInv /\ [Next]_vars => SoundInv'
BY EnvironmentSound, SuspensionSound, CompilerSound, PersistSound, AskingSound, LoadSound,
   ProxyCacheSound DEF Next, CompilerStep

\* Whatever the replicas, the verifier and the clients do.
LEMMA SoundHolds == Spec => []SoundInv
BY SoundInit, SoundNext, PTL DEF Spec

----------------------------------------------------------------------------
(* How stale what is cached may be *)

\* Nothing is active, cached or loaded yet.
LEMMA FreshInit == Init => FreshInv
<1> SUFFICES ASSUME Init PROVE FreshInv
  OBVIOUS
<1>1. \A p \in Policies, e \in Engines : rows[<< p, e >>] = NoRow
  BY DEF Init
<1>2. ActiveIsSince
  BY <1>1, IdleShape DEF ActiveIsSince
<1>3. CachedSince
  BY IdleShape DEF CachedSince, Init
<1> QED
  BY <1>2, <1>3 DEF FreshInv

\* A step that invalidates nothing: what becomes active, is cached or is loaded
\* must be among what may be served.
LEMMA FreshFrame ==
    ASSUME FreshInv,
           \A r \in Replicas : since[r] \subseteq since'[r],
           \A p \in Policies, e \in Engines :
               \/ rows'[<< p, e >>] = rows[<< p, e >>]
               \/ rows'[<< p, e >>].status # "active"
               \/ \A r \in Replicas : << p, e, rows'[<< p, e >>].body >> \in since'[r],
           \A r \in Replicas : \A c \in entries'[r] : c \in entries[r] \/ Body(c) \in since'[r],
           \A q \in Requests :
               \/ request'[q] = request[q]
               \/ request'[q].pc # "fill"
               \/ request'[q].at \in Replicas /\ Body(request'[q].entry) \in since'[request'[q].at],
           \A q \in Requests : request[q].at \in Replicas
    PROVE  FreshInv'
<1>1. ActiveIsSince'
  BY DEF FreshInv, ActiveIsSince
<1>2. \A r \in Replicas : \A c \in entries'[r] : Body(c) \in since'[r]
  BY DEF FreshInv, CachedSince
<1>3. ASSUME NEW q \in Requests, request'[q].pc = "fill"
      PROVE  Body(request'[q].entry) \in since'[request'[q].at]
  BY <1>3 DEF FreshInv, CachedSince
<1>4. CachedSince'
  BY <1>2, <1>3 DEF CachedSince, Body
<1> QED
  BY <1>1, <1>4 DEF FreshInv

\* The environment, the compiler and the proxy keep it; an invalidation expires
\* nothing that is active, cached or loaded.
LEMMA FreshNext == SoundInv /\ FreshInv /\ [Next]_vars => FreshInv'
<1> SUFFICES ASSUME SoundInv, FreshInv, [Next]_vars PROVE FreshInv'
  OBVIOUS
<1>1. /\ TypeOK /\ rows \in [Policies \X Engines -> Row] /\ request \in [Requests -> QueryState]
      /\ since \in [Replicas -> SUBSET (Policies \X Engines \X Sources)]
      /\ entries \in [Replicas -> SUBSET Entry]
  BY DEF SoundInv, TypeOK
<1>2. \A q \in Requests : request[q].at \in Replicas /\ request[q].entry \in Entry
  BY <1>1 DEF QueryState
<1>3. CASE UNCHANGED << rows, entries, since, request >>
  BY <1>2, <1>3, FreshFrame
<1>4. ASSUME NEW p \in Policies, NEW e \in Engines, Suspend(p, e) PROVE FreshInv'
  <2>1. /\ UNCHANGED << entries, since, request >> /\ << p, e >> \in Policies \X Engines
        /\ rows' = [rows EXCEPT ![<< p, e >>].status = "divergent_suspended"]
    BY <1>4 DEF Suspend, proxying
  <2>2. \A q \in Policies, d \in Engines :
            rows'[<< q, d >>] = rows[<< q, d >>] \/ rows'[<< q, d >>].status # "active"
    BY <1>1, <2>1 DEF Row
  <2> QED
    BY <1>2, <2>1, <2>2, FreshFrame
<1>5. ASSUME NEW p \in Policies, NEW e \in Engines, NEW b \in Sources, ActiveAgain(p, e, b),
             UNCHANGED << entries, request >>, rows'[<< p, e >>].body = b,
             \A q \in Policies, d \in Engines :
                 ~ (q = p /\ d = e) => rows'[<< q, d >>] = rows[<< q, d >>]
      PROVE  FreshInv'
  <2>1. \A r \in Replicas : since'[r] = since[r] \cup {<< p, e, b >>}
    BY <1>1, <1>5, ActiveAgainShape
  <2>2. ASSUME NEW q \in Policies, NEW d \in Engines
        PROVE  \/ rows'[<< q, d >>] = rows[<< q, d >>]
               \/ \A r \in Replicas : << q, d, rows'[<< q, d >>].body >> \in since'[r]
    BY <1>5, <2>1
  <2> QED
    BY <1>2, <1>5, <2>1, <2>2, FreshFrame
<1>6. ASSUME NEW p \in Policies, NEW e \in Engines, ClearSuspension(p, e) PROVE FreshInv'
  <2>1. PICK b : b = rows[<< p, e >>].body
    OBVIOUS
  <2>2. /\ rows' = [rows EXCEPT ![<< p, e >>].status = "active"] /\ ActiveAgain(p, e, b)
        /\ UNCHANGED << entries, request >> /\ << p, e >> \in Policies \X Engines
    BY <1>6, <2>1 DEF ClearSuspension
  <2>3. b \in Sources /\ rows'[<< p, e >>].body = b
    BY <1>1, <2>1, <2>2 DEF Row
  <2>4. ASSUME NEW q \in Policies, NEW d \in Engines, ~ (q = p /\ d = e)
        PROVE  rows'[<< q, d >>] = rows[<< q, d >>]
    <3>1. << q, d >> # << p, e >> /\ << q, d >> \in Policies \X Engines
      BY <2>4
    <3> QED
      BY <1>1, <2>2, <3>1
  <2> QED
    BY <1>5, <2>2, <2>3, <2>4
<1>7. ASSUME NEW r \in Replicas, Persist(r) PROVE FreshInv'
  <2>1. PICK j : j = job[r]
    OBVIOUS
  <2>2. PICK e : e = Head(job[r].todo)
    OBVIOUS
  <2>3. /\ j \in JobState /\ j.pol \in Policies /\ e \in Engines /\ UNCHANGED << entries, request >>
        /\ << j.pol, e >> \in Policies \X Engines
    BY <1>7, <2>1, <2>2, PersistShape
  <2>4. \/ UNCHANGED << rows, since >>
        \/ /\ rows' = [rows EXCEPT ![<< j.pol, e >>] =
                 [status |-> j.status, source |-> j.source, body |-> j.body]]
           /\ IF j.status = "active" THEN ActiveAgain(j.pol, e, j.body) ELSE UNCHANGED since
    BY <1>7, <2>1, <2>2, PersistShape
  <2>5. CASE UNCHANGED << rows, since >>
    BY <1>3, <2>3, <2>5
  <2>6. CASE /\ rows' = [rows EXCEPT ![<< j.pol, e >>] =
                  [status |-> j.status, source |-> j.source, body |-> j.body]]
             /\ IF j.status = "active" THEN ActiveAgain(j.pol, e, j.body) ELSE UNCHANGED since
    <3>1. rows'[<< j.pol, e >>].status = j.status /\ rows'[<< j.pol, e >>].body = j.body
      BY <1>1, <2>3, <2>6
    <3>2. ASSUME NEW q \in Policies, NEW d \in Engines, ~ (q = j.pol /\ d = e)
          PROVE  rows'[<< q, d >>] = rows[<< q, d >>]
      <4>1. << q, d >> # << j.pol, e >> /\ << q, d >> \in Policies \X Engines
        BY <3>2
      <4> QED
        BY <1>1, <2>6, <4>1
    <3>3. CASE j.status = "active"
      <4>1. ActiveAgain(j.pol, e, j.body) /\ j.body \in Sources
        BY <2>3, <2>6, <3>3 DEF JobState
      <4> QED
        BY <1>5, <2>3, <3>1, <3>2, <4>1
    <3>4. CASE j.status # "active"
      <4>1. \A q \in Policies, d \in Engines :
                rows'[<< q, d >>] = rows[<< q, d >>] \/ rows'[<< q, d >>].status # "active"
        BY <3>1, <3>2, <3>4
      <4>2. UNCHANGED since
        BY <2>6, <3>4
      <4> QED
        BY <1>2, <2>3, <4>1, <4>2, FreshFrame
    <3> QED
      BY <3>3, <3>4
  <2> QED
    BY <2>4, <2>5, <2>6
<1>8. ASSUME NEW q \in Requests, NEW z, request' = [request EXCEPT ![q] = z],
             z.pc # "fill" \/ (z.at \in Replicas /\ Body(z.entry) \in since[z.at]),
             UNCHANGED << rows, since >>,
             \A r \in Replicas : \A c \in entries'[r] : c \in entries[r] \/ Body(c) \in since[r]
      PROVE  FreshInv'
  <2>1. \A s \in Requests : request'[s] = request[s] \/ request'[s] = z
    BY <1>1, <1>8
  <2> QED
    BY <1>2, <1>8, <2>1, FreshFrame
<1>9. ASSUME NEW q \in Requests, NEW st \in Codes, Answered(q, st), UNCHANGED << rows, since >>,
             \A r \in Replicas : \A c \in entries'[r] : c \in entries[r] \/ Body(c) \in since[r]
      PROVE  FreshInv'
  <2>1. PICK z \in QueryState : request' = [request EXCEPT ![q] = z] /\ z.pc = "done"
    BY <1>1, <1>9, AnsweredShape
  <2> QED
    BY <1>8, <1>9, <2>1
<1>10. ASSUME NEW q \in Requests, RefuseQuery(q) PROVE FreshInv'
  <2>1. PICK st \in Codes : Answered(q, st)
    BY <1>10 DEF RefuseQuery, Codes
  <2>2. UNCHANGED << rows, since, entries >>
    BY <1>10 DEF RefuseQuery, compilation
  <2> QED
    BY <1>9, <2>1, <2>2
<1>11. ASSUME NEW q \in Requests, NEW r \in Replicas, NEW t \in Tables, NEW k \in Proxied,
              Lookup(q, r, t, k)
       PROVE  FreshInv'
  <2> DEFINE asked == [NoQuery EXCEPT !.pc = "load", !.at = r, !.tab = t, !.kind = k]
  <2>1. asked \in QueryState /\ asked.pc = "load"
    BY IdleShape DEF QueryState, Proxied
  <2>2. \/ \E c \in entries[r], st \in Codes :
              request' = [request EXCEPT ![q] =
                  [asked EXCEPT !.pc = "done", !.entry = c, !.status = st]]
        \/ request' = [request EXCEPT ![q] = asked]
    <3>1. \/ \E c \in entries[r], st \in {200, 422} :
                request' = [request EXCEPT ![q] =
                    [asked EXCEPT !.pc = "done", !.entry = c, !.status = st]]
          \/ request' = [request EXCEPT ![q] = asked]
      BY <1>11, Zenon DEF Lookup
    <3>2. {200, 422} \subseteq Codes
      BY DEF Codes
    <3> HIDE DEF asked
    <3> QED
      BY <3>1, <3>2, Zenon
  <2>3. UNCHANGED << rows, since, entries >>
    BY <1>11 DEF Lookup, compilation
  <2> HIDE DEF asked
  <2>4. ASSUME NEW c \in entries[r], NEW st \in Codes,
               request' = [request EXCEPT ![q] =
                   [asked EXCEPT !.pc = "done", !.entry = c, !.status = st]]
        PROVE  FreshInv'
    <3> DEFINE z == [asked EXCEPT !.pc = "done", !.entry = c, !.status = st]
    <3>1. z.pc = "done"
      BY <2>1 DEF QueryState
    <3>2. request' = [request EXCEPT ![q] = z]
      BY <2>4
    <3> HIDE DEF z
    <3> QED
      BY <1>8, <2>3, <3>1, <3>2
  <2>5. CASE request' = [request EXCEPT ![q] = asked]
    BY <1>8, <2>1, <2>3, <2>5
  <2> QED
    BY <2>2, <2>4, <2>5, Zenon
<1>12. ASSUME NEW q \in Requests, NextQuery(q) PROVE FreshInv'
  <2>1. request' = [request EXCEPT ![q] = NoQuery] /\ UNCHANGED << rows, since, entries >>
    BY <1>12 DEF NextQuery, compilation
  <2> QED
    BY <1>8, <2>1, IdleShape
<1>13. ASSUME NEW q \in Requests, LoadCompiled(q) PROVE FreshInv'
  <2>1. UNCHANGED << rows, since, entries >>
    BY <1>13 DEF LoadCompiled, compilation
  <2>2. CASE Answered(q, 503)
    <3>1. 503 \in Codes
      BY DEF Codes
    <3> QED
      BY <1>9, <2>1, <2>2, <3>1
  <2>3. ASSUME NEW x \in Servable(request[q].tab, request[q].kind), NEW t, NEW k,
               request' = [request EXCEPT ![q].pc = "fill",
                   ![q].entry = [tab |-> t, kind |-> k, pol |-> x[1], eng |-> x[2],
                                 body |-> rows[x].body]]
        PROVE  FreshInv'
    <3>1. x \in Policies \X Engines /\ rows[x].status = "active"
      BY <1>1 DEF Servable, WithStatus, NodesFor
    <3>2. PICK p \in Policies, e \in Engines : x = << p, e >>
      BY <3>1
    <3>3. << x[1], x[2], rows[x].body >> \in since[request[q].at]
      BY <1>2, <3>1, <3>2 DEF FreshInv, ActiveIsSince
    <3> DEFINE c == [tab |-> t, kind |-> k, pol |-> x[1], eng |-> x[2], body |-> rows[x].body]
               z == [request[q] EXCEPT !.pc = "fill", !.entry = c]
    <3>4. request' = [request EXCEPT ![q] = z]
      BY <2>3
    <3>5. Body(c) = << x[1], x[2], rows[x].body >>
      BY DEF Body
    <3> HIDE DEF c
    <3>6. request[q] \in QueryState
      BY <1>1
    <3>7. z.entry = c /\ z.at = request[q].at
      BY <3>6 DEF QueryState
    <3> HIDE DEF z
    <3>8. z.at \in Replicas /\ Body(z.entry) \in since[z.at]
      BY <1>2, <3>3, <3>5, <3>7
    <3> QED
      BY <1>8, <2>1, <3>4, <3>8
  <2> QED
    BY <1>13, <2>2, <2>3, Zenon DEF LoadCompiled
<1>14. ASSUME NEW q \in Requests, FillAndSplice(q) PROVE FreshInv'
  <2>1. PICK st \in Codes : Answered(q, st)
    BY <1>14 DEF FillAndSplice, Codes
  <2>2. UNCHANGED << rows, since >> /\ request[q].pc = "fill"
    BY <1>14 DEF FillAndSplice, compilation
  <2> DEFINE r == request[q].at
             new == request[q].entry
             kept == {d \in entries[r] : ~ SameEntry(d, new)}
  <2>3. PICK c \in AfterAdd(kept, new) : entries' = [entries EXCEPT ![r] = c]
    BY <1>14 DEF FillAndSplice
  <2>4. c \subseteq entries[r] \cup {new}
    BY DEF AfterAdd
  <2>5. Body(new) \in since[r]
    BY <2>2 DEF FreshInv, CachedSince
  <2>6. \A s \in Replicas : \A d \in entries'[s] : d \in entries[s] \/ Body(d) \in since[s]
    BY <1>1, <1>2, <2>3, <2>4, <2>5
  <2> QED
    BY <1>9, <2>1, <2>2, <2>6
<1>15. ASSUME NEW r \in Replicas, NEW t \in Tables, InvalidateTable(r, t) PROVE FreshInv'
  <2>1. /\ UNCHANGED << rows, request >>
        /\ entries' = [entries EXCEPT ![r] = {c \in entries[r] : c.tab # t}]
        /\ since' = [since EXCEPT ![r] = Unexpired(since[r], r, t)]
    BY <1>15 DEF InvalidateTable, compilation
  <2>2. /\ since'[r] = Unexpired(since[r], r, t)
        /\ \A s \in Replicas : s # r => since'[s] = since[s]
    BY <1>1, <2>1
  <2>3. ASSUME NEW p \in Policies, NEW e \in Engines, rows[<< p, e >>].status = "active"
        PROVE  << p, e, rows[<< p, e >>].body >> \in since'[r]
    <3>1. << p, e, rows[<< p, e >>].body >> \in since[r]
      BY <2>3 DEF FreshInv, ActiveIsSince
    <3>2. PICK x \in DOMAIN rows : x = << p, e >>
      BY <1>1
    <3>3. << x[1], x[2], rows[x].body >> \in ActiveNow
      BY <2>3, <3>2 DEF ActiveNow, WithStatus
    <3> QED
      BY <2>2, <3>1, <3>2, <3>3 DEF Unexpired
  <2>4. ActiveIsSince'
    BY <2>1, <2>2, <2>3 DEF FreshInv, ActiveIsSince
  <2>5. ASSUME NEW c \in entries'[r] PROVE Body(c) \in since'[r]
    <3>1. c \in entries[r] /\ c.tab # t
      BY <1>1, <2>1
    <3>2. Body(c) \in since[r] /\ Governs[c.pol] = c.tab
      BY <3>1 DEF FreshInv, CachedSince, SoundInv, EntriesOK, EntryOK
    <3>3. Body(c)[1] = c.pol
      BY DEF Body
    <3> QED
      BY <2>2, <3>1, <3>2, <3>3 DEF Unexpired
  <2>6. \A s \in Replicas : \A c \in entries'[s] : Body(c) \in since'[s]
    BY <1>1, <2>1, <2>2, <2>5 DEF FreshInv, CachedSince
  <2>7. ASSUME NEW q \in Requests, request[q].pc = "fill"
        PROVE  Body(request[q].entry) \in since'[request[q].at]
    <3>1. Body(request[q].entry) \in since[request[q].at]
      BY <2>7 DEF FreshInv, CachedSince
    <3>2. request[q].at = r => Body(request[q].entry) \in Loaded(r)
      BY <2>7 DEF Loaded
    <3> QED
      BY <1>2, <2>2, <3>1, <3>2 DEF Unexpired
  <2>8. CachedSince'
    BY <2>1, <2>6, <2>7 DEF CachedSince, Body
  <2> QED
    BY <2>4, <2>8 DEF FreshInv
<1>16. CASE \/ \E p \in Policies : EditPolicy(p)
            \/ \E e \in Engines : RegisterEngine(e)
            \/ \E r \in Replicas : Connect(r) \/ Disconnect(r) \/ HandleNotification(r)
                                   \/ ListEngines(r) \/ CompileOne(r)
            \/ UNCHANGED vars
  <2>1. UNCHANGED << rows, entries, since, request >>
    BY <1>16 DEF EditPolicy, RegisterEngine, Connect, Disconnect, HandleNotification,
                 ListEngines, CompileOne, compilation, proxying, vars
  <2> QED
    BY <1>3, <2>1
<1> QED
  BY <1>4, <1>6, <1>7, <1>10, <1>11, <1>12, <1>13, <1>14, <1>15, <1>16 DEF Next, CompilerStep

\* A query the proxy answers with 200 was rewritten with an artifact that governs
\* its table, was compiled for its engine's kind and was active; what a replica's
\* cache holds was active since the table was last invalidated there, or loaded by
\* a query the invalidation overtook; and no LRU grows past its capacity
\* (handleInject, Cache.Invalidate).
THEOREM ServingHolds == Spec => []ServingSound
<1>1. SoundInv /\ FreshInv => ServingSound
  <2> SUFFICES ASSUME SoundInv, FreshInv, NEW q \in Requests,
                      request[q].pc = "done", request[q].status = 200
               PROVE  /\ Governs[request[q].entry.pol] = request[q].tab
                      /\ KindOf[request[q].entry.eng] = request[q].kind
                      /\ << request[q].entry.pol, request[q].entry.eng, request[q].entry.body >>
                            \in wasActive
    BY DEF ServingSound, ServedWasActive, SoundInv, FreshInv
  <2> QED
    BY DEF SoundInv, QueriesOK, QueryOK, EntryOK
<1>2. Spec => []FreshInv
  BY FreshInit, FreshNext, SoundHolds, PTL DEF Spec
<1> QED
  BY <1>1, <1>2, SoundHolds, PTL

\* A node that compileOne stored as active holds the artifact of the version it
\* names, one the dialect accepts and a probe of that version passed.
THEOREM ActiveHolds == Spec => []ActiveIsSound
<1>1. SoundInv => ActiveIsSound
  <2> SUFFICES ASSUME SoundInv, NEW x \in DOMAIN rows, rows[x].status = "active"
               PROVE  /\ rows[x].body = rows[x].source
                      /\ << x[1], x[2], rows[x].source >> \notin Rejected
                      /\ << x[1], x[2], rows[x].source >> \in probed
    BY DEF ActiveIsSound
  <2>1. x \in Policies \X Engines
    BY DEF SoundInv, TypeOK
  <2>2. PICK p \in Policies, e \in Engines : x = << p, e >>
    BY <2>1
  <2>3. x[1] = p /\ x[2] = e
    BY <2>2
  <2>4. RowOK(p, e, rows[x], probed, wasActive)
    BY <2>2 DEF SoundInv, RowsOK
  <2> QED
    BY <2>3, <2>4 DEF RowOK, Sound
<1> QED
  BY <1>1, SoundHolds, PTL

----------------------------------------------------------------------------
(* Convergence *)

\* Nothing is stored yet.
LEMMA ConvergeInit == Init => ConvergeInv
<1> SUFFICES ASSUME Init PROVE ConvergeInv
  OBVIOUS
<1>1. \A p \in Policies, e \in Engines : rows[<< p, e >>] = NoRow
  BY DEF Init
<1>2. \A r \in Replicas : job[r] = NoJob
  BY DEF Init
<1> QED
  BY <1>1, <1>2, IdleShape DEF ConvergeInv, RowsListed, OldFollowed, Followed, OldOverwritten

\* For a step that moves no notification and no compile on, it is enough that no
\* node comes into being and none changes its version.
LEMMA ConvergeFrame ==
    ASSUME ConvergeInv, UNCHANGED << source, queue, job, missed >>,
           Listed(engines) \subseteq Listed(engines'),
           \A p \in Policies, e \in Engines :
               /\ rows'[<< p, e >>].source = rows[<< p, e >>].source
               /\ rows[<< p, e >>].status = "none" => rows'[<< p, e >>].status = "none"
    PROVE  ConvergeInv'
<1>1. RowsListed'
  BY DEF ConvergeInv, RowsListed
<1>2. OldFollowed'
  BY DEF ConvergeInv, OldFollowed
<1>3. OldOverwritten'
  BY DEF ConvergeInv, OldOverwritten
<1> QED
  BY <1>1, <1>2, <1>3 DEF ConvergeInv

\* For a step of one replica it is enough that the replica itself still follows up
\* on an older compile, and still stores what it was to store.
LEMMA ReplicaConverge ==
    ASSUME ConvergeInv, NEW r \in Replicas, UNCHANGED << source, engines >>,
           missed \subseteq missed', RowsListed',
           \A s \in Replicas : s # r => queue'[s] = queue[s] /\ job'[s] = job[s],
           \A p \in Policies : p \notin missed' => Followed(queue'[r], job'[r], source[p], p),
           \A p \in Policies, e \in Engines :
               /\ p \notin missed' /\ rows'[<< p, e >>].status # "none"
               /\ rows'[<< p, e >>].source # source[p]
               => \/ WillStore(queue'[r], job'[r], source[p], p, e)
                  \/ /\ rows'[<< p, e >>] = rows[<< p, e >>]
                     /\ ~ WillStore(queue[r], job[r], source[p], p, e)
    PROVE  ConvergeInv'
<1>1. OldFollowed'
  <2> SUFFICES ASSUME NEW s \in Replicas, NEW p \in Policies, p \notin missed'
               PROVE  Followed(queue'[s], job'[s], source[p], p)
    BY DEF OldFollowed
  <2>1. CASE s = r
    BY <2>1
  <2>2. CASE s # r
    BY <2>2 DEF ConvergeInv, OldFollowed
  <2> QED
    BY <2>1, <2>2
<1>2. OldOverwritten'
  <2> SUFFICES ASSUME NEW p \in Policies, NEW e \in Engines,
                      p \notin missed', rows'[<< p, e >>].status # "none",
                      rows'[<< p, e >>].source # source[p]
               PROVE  \E s \in Replicas : WillStore(queue'[s], job'[s], source[p], p, e)
    BY DEF OldOverwritten
  <2>1. CASE WillStore(queue'[r], job'[r], source[p], p, e)
    BY <2>1
  <2>2. CASE /\ rows'[<< p, e >>] = rows[<< p, e >>]
             /\ ~ WillStore(queue[r], job[r], source[p], p, e)
    <3>1. PICK s \in Replicas : WillStore(queue[s], job[s], source[p], p, e)
      BY <2>2 DEF ConvergeInv, OldOverwritten
    <3>2. s # r
      BY <2>2, <3>1
    <3> QED
      BY <3>1, <3>2
  <2> QED
    BY <2>1, <2>2
<1> QED
  BY <1>1, <1>2 DEF ConvergeInv

\* An edit: every replica that listens has a notification of it, and when one
\* does not the edit counts as missed.
LEMMA EditConverge ==
    ASSUME SoundInv, ConvergeInv, NEW p \in Policies, EditPolicy(p)
    PROVE  ConvergeInv'
<1>1. /\ queue \in [Replicas -> Seq(Policies)] /\ source \in [Policies -> Sources]
      /\ SomeReplica \in Replicas
  BY SomeShape DEF SoundInv, TypeOK
<1>2. /\ UNCHANGED << engines, rows, link, job >>
      /\ source' = [source EXCEPT ![p] = source[p] + 1]
      /\ queue' = [r \in Replicas |-> IF link[r] THEN Append(queue[r], p) ELSE queue[r]]
      /\ missed' = IF \A r \in Replicas : link[r] THEN missed \ {p} ELSE missed \cup {p}
  BY DEF EditPolicy
<1>3. \A r \in Replicas :
         /\ Listed(queue[r]) \subseteq Listed(queue'[r])
         /\ link[r] => p \in Listed(queue'[r])
  BY <1>1, <1>2, ListedShape
<1>4. p \notin missed' => \A r \in Replicas : p \in Listed(queue'[r])
  BY <1>2, <1>3
<1>5. \A q \in Policies : q # p => source'[q] = source[q] /\ (q \notin missed' => q \notin missed)
  BY <1>1, <1>2
<1>6. RowsListed'
  BY <1>2 DEF ConvergeInv, RowsListed
<1>7. OldFollowed'
  <2> SUFFICES ASSUME NEW r \in Replicas, NEW q \in Policies, q \notin missed'
               PROVE  Followed(queue'[r], job'[r], source'[q], q)
    BY DEF OldFollowed
  <2>1. CASE q = p
    BY <1>4, <2>1 DEF Followed
  <2>2. CASE q # p
    <3>1. Followed(queue[r], job[r], source[q], q)
      BY <1>5, <2>2 DEF ConvergeInv, OldFollowed
    <3> QED
      BY <1>2, <1>3, <1>5, <2>2, <3>1 DEF Followed
  <2> QED
    BY <2>1, <2>2
<1>8. OldOverwritten'
  <2> SUFFICES ASSUME NEW q \in Policies, NEW e \in Engines, q \notin missed',
                      rows'[<< q, e >>].status # "none", rows'[<< q, e >>].source # source'[q]
               PROVE  \E r \in Replicas : WillStore(queue'[r], job'[r], source'[q], q, e)
    BY DEF OldOverwritten
  <2>1. CASE q = p
    BY <1>1, <1>4, <2>1 DEF WillStore
  <2>2. CASE q # p
    <3>1. PICK r \in Replicas : WillStore(queue[r], job[r], source[q], q, e)
      BY <1>2, <1>5, <2>2 DEF ConvergeInv, OldOverwritten
    <3>2. WillStore(queue'[r], job'[r], source'[q], q, e)
      BY <1>2, <1>3, <1>5, <2>2, <3>1 DEF WillStore
    <3> QED
      BY <3>2
  <2> QED
    BY <2>1, <2>2
<1> QED
  BY <1>6, <1>7, <1>8 DEF ConvergeInv

\* A lost connection: what was waiting counts as missed.
LEMMA DisconnectConverge ==
    ASSUME SoundInv, ConvergeInv, NEW r \in Replicas, Disconnect(r)
    PROVE  ConvergeInv'
<1>1. /\ queue \in [Replicas -> Seq(Policies)]
      /\ UNCHANGED << source, engines, rows, job >>
      /\ queue' = [queue EXCEPT ![r] = << >>] /\ missed' = missed \cup Listed(queue[r])
  BY DEF SoundInv, TypeOK, Disconnect
<1>2. \A s \in Replicas : s # r => queue'[s] = queue[s] /\ job'[s] = job[s]
  BY <1>1
<1>3. RowsListed'
  BY <1>1 DEF ConvergeInv, RowsListed
<1>4. ASSUME NEW p \in Policies, p \notin missed' PROVE Followed(queue'[r], job'[r], source[p], p)
  <2>1. Followed(queue[r], job[r], source[p], p) /\ p \notin Listed(queue[r])
    BY <1>1, <1>4 DEF ConvergeInv, OldFollowed
  <2> QED
    BY <1>1, <2>1 DEF Followed
<1>5. ASSUME NEW p \in Policies, NEW e \in Engines, p \notin missed',
             WillStore(queue[r], job[r], source[p], p, e)
      PROVE  WillStore(queue'[r], job'[r], source[p], p, e)
  BY <1>1, <1>5 DEF WillStore
<1> QED
  BY <1>1, <1>2, <1>3, <1>4, <1>5, ReplicaConverge

\* handleNotification: the compile it starts is one of the current version.
LEMMA HandleConverge ==
    ASSUME SoundInv, ConvergeInv, NEW r \in Replicas, HandleNotification(r)
    PROVE  ConvergeInv'
<1>1. /\ TypeOK /\ queue \in [Replicas -> Seq(Policies)] /\ job \in [Replicas -> JobState]
  BY DEF SoundInv, TypeOK
<1>2. UNCHANGED << source, engines, rows >>
  BY DEF HandleNotification
<1>3. PICK h : h = Head(queue[r])
  OBVIOUS
<1>4. /\ job[r].pc = "idle" /\ queue[r] # << >> /\ h \in Policies
      /\ queue' = [queue EXCEPT ![r] = Tail(queue[r])]
      /\ \/ /\ missed' = missed
            /\ \E z \in JobState : /\ job' = [job EXCEPT ![r] = z] /\ z.pc = "list"
                                   /\ z.pol = h /\ z.source = source[h]
         \/ missed' = missed \cup {h} /\ job' = job
  BY <1>1, <1>3, HandleShape
<1>5. Listed(queue[r]) = {h} \cup Listed(queue'[r])
  BY <1>1, <1>3, <1>4, ListedShape
<1>6. \/ /\ missed' = missed /\ job'[r].pc = "list"
         /\ job'[r].pol = h /\ job'[r].source = source[h]
      \/ missed' = missed \cup {h} /\ job'[r].pc = "idle"
  BY <1>1, <1>4
<1>7. \A s \in Replicas : s # r => queue'[s] = queue[s] /\ job'[s] = job[s]
  BY <1>1, <1>4
<1>8. RowsListed'
  BY <1>2 DEF ConvergeInv, RowsListed
<1>9. \A p \in Policies : p \notin missed' => Followed(queue'[r], job'[r], source[p], p)
  BY <1>6 DEF Followed
<1>10. ASSUME NEW p \in Policies, NEW e \in Engines, p \notin missed',
              WillStore(queue[r], job[r], source[p], p, e)
       PROVE  WillStore(queue'[r], job'[r], source[p], p, e)
  <2>1. p \in Listed(queue[r])
    BY <1>4, <1>10 DEF WillStore
  <2> QED
    BY <1>5, <1>6, <1>10, <2>1 DEF WillStore
<1> QED
  BY <1>2, <1>6, <1>7, <1>8, <1>9, <1>10, ReplicaConverge

\* The listing of engines: it has every engine a node is stored for.
LEMMA ListConverge ==
    ASSUME SoundInv, ConvergeInv, NEW r \in Replicas, ListEngines(r)
    PROVE  ConvergeInv'
<1>1. TypeOK /\ job \in [Replicas -> JobState] /\ engines \in Seq(Engines)
  BY DEF SoundInv, TypeOK
<1>2. UNCHANGED << source, engines, rows, queue >>
  BY DEF ListEngines
<1>3. PICK z \in JobState :
          /\ job' = [job EXCEPT ![r] = z]
          /\ \/ z.pc = "idle" /\ engines = << >> /\ missed' = missed
             \/ /\ z.pc = "compile" /\ z.pol = job[r].pol /\ z.source = job[r].source
                /\ z.todo = engines /\ engines # << >> /\ missed' = missed
             \/ z.pc = "idle" /\ missed' = missed \cup {job[r].pol}
  BY <1>1, ListShape
<1>4. job[r].pc = "list" /\ job'[r] = z /\ missed \subseteq missed'
  BY <1>1, <1>3, ListShape
<1>5. \A s \in Replicas : s # r => queue'[s] = queue[s] /\ job'[s] = job[s]
  BY <1>1, <1>2, <1>3
<1>6. RowsListed'
  BY <1>2 DEF ConvergeInv, RowsListed
<1>7. ASSUME NEW p \in Policies, p \notin missed' PROVE Followed(queue'[r], job'[r], source[p], p)
  <2>1. Followed(queue[r], job[r], source[p], p)
    BY <1>4, <1>7 DEF ConvergeInv, OldFollowed
  <2> QED
    BY <1>2, <1>3, <1>4, <2>1 DEF Followed
<1>8. ASSUME NEW p \in Policies, NEW e \in Engines, p \notin missed',
             rows'[<< p, e >>].status # "none", WillStore(queue[r], job[r], source[p], p, e)
      PROVE  WillStore(queue'[r], job'[r], source[p], p, e)
  <2>1. e \in Listed(engines)
    BY <1>2, <1>8 DEF ConvergeInv, RowsListed
  <2>2. engines # << >>
    BY <1>1, <2>1, ListedShape
  <2> QED
    BY <1>2, <1>3, <1>4, <1>8, <2>1, <2>2 DEF WillStore
<1> QED
  BY <1>2, <1>4, <1>5, <1>6, <1>7, <1>8, ReplicaConverge

\* The compile of one engine changes neither the policy, the version nor the list.
LEMMA CompileConverge ==
    ASSUME SoundInv, ConvergeInv, NEW r \in Replicas, CompileOne(r)
    PROVE  ConvergeInv'
<1>1. job \in [Replicas -> JobState]
  BY DEF SoundInv, TypeOK
<1>2. UNCHANGED << source, engines, rows, queue, missed >>
  BY DEF CompileOne
<1>3. PICK z \in JobState :
          /\ job' = [job EXCEPT ![r] = z]
          /\ z.pc = "persist" /\ z.pol = job[r].pol /\ z.source = job[r].source
          /\ z.todo = job[r].todo
  BY CompileShape
<1>4. job[r].pc = "compile" /\ job'[r] = z
  BY <1>1, <1>3, CompileShape
<1>5. \A s \in Replicas : s # r => queue'[s] = queue[s] /\ job'[s] = job[s]
  BY <1>1, <1>2, <1>3
<1>6. RowsListed'
  BY <1>2 DEF ConvergeInv, RowsListed
<1>7. ASSUME NEW p \in Policies, p \notin missed' PROVE Followed(queue'[r], job'[r], source[p], p)
  <2>1. Followed(queue[r], job[r], source[p], p)
    BY <1>2, <1>7 DEF ConvergeInv, OldFollowed
  <2> QED
    BY <1>2, <1>3, <1>4, <2>1 DEF Followed
<1>8. ASSUME NEW p \in Policies, NEW e \in Engines, WillStore(queue[r], job[r], source[p], p, e)
      PROVE  WillStore(queue'[r], job'[r], source[p], p, e)
  BY <1>2, <1>3, <1>4, <1>8 DEF WillStore
<1> QED
  BY <1>2, <1>5, <1>6, <1>7, <1>8, ReplicaConverge

\* The upsert: an older version that overwrites a newer one is followed by another
\* compile, and the rest of the list is still to be stored.
LEMMA PersistConverge ==
    ASSUME SoundInv, ConvergeInv, NEW r \in Replicas, Persist(r)
    PROVE  ConvergeInv'
<1>1. PICK j : j = job[r]
  OBVIOUS
<1>2. PICK e : e = Head(job[r].todo)
  OBVIOUS
<1>3. PICK z : z = NextEngine(j)
  OBVIOUS
<1>4. /\ j \in JobState /\ j.pc = "persist" /\ j.pol \in Policies /\ j.todo # << >>
      /\ e = Head(j.todo) /\ e \in Engines /\ job' = [job EXCEPT ![r] = z]
      /\ UNCHANGED << source, engines, queue >>
  BY <1>1, <1>2, <1>3, PersistShape
<1>5. /\ rows \in [Policies \X Engines -> Row] /\ job \in [Replicas -> JobState]
      /\ j.todo \in Seq(Engines) /\ << j.pol, e >> \in Policies \X Engines
  BY <1>4 DEF SoundInv, TypeOK, JobState
<1>6. job'[r] = z /\ \A s \in Replicas : s # r => queue'[s] = queue[s] /\ job'[s] = job[s]
  BY <1>4, <1>5
<1>7. /\ Listed(j.todo) = {e} \cup Listed(Tail(j.todo))
      /\ Tail(j.todo) = << >> => Listed(Tail(j.todo)) = {}
  BY <1>4, <1>5, ListedShape
<1>8. \/ z.pc = "idle" /\ Tail(j.todo) = << >>
      \/ z.pc = "compile" /\ z.pol = j.pol /\ z.source = j.source /\ z.todo = Tail(j.todo)
  BY <1>3, <1>4, NextEngineShape
<1>9. Listed(j.todo) \subseteq Listed(engines)
  BY <1>1, <1>4 DEF SoundInv, JobsOK, JobOK
<1>10. ASSUME NEW p \in Policies, p \notin missed
       PROVE  Followed(queue[r], j, source[p], p)
  BY <1>1, <1>10 DEF ConvergeInv, OldFollowed
<1>11. ASSUME NEW p \in Policies, p \notin missed PROVE Followed(queue'[r], job'[r], source[p], p)
  BY <1>4, <1>6, <1>8, <1>10, <1>11 DEF Followed
\* Another node than the one at hand is still to be stored.
<1>12. ASSUME NEW p \in Policies, NEW d \in Engines, WillStore(queue[r], j, source[p], p, d),
              ~ (p = j.pol /\ d = e /\ j.source = source[p])
       PROVE  WillStore(queue'[r], job'[r], source[p], p, d)
  BY <1>4, <1>6, <1>7, <1>8, <1>12 DEF WillStore
<1>13. CASE /\ UNCHANGED rows
            /\ missed' = IF j.source = source[j.pol] THEN missed \cup {j.pol} ELSE missed
  <2>1. RowsListed'
    BY <1>4, <1>13 DEF ConvergeInv, RowsListed
  <2>2. missed \subseteq missed'
    BY <1>13
  <2>3. ASSUME NEW p \in Policies, NEW d \in Engines, p \notin missed'
        PROVE  \/ WillStore(queue'[r], job'[r], source[p], p, d)
               \/ /\ rows'[<< p, d >>] = rows[<< p, d >>]
                  /\ ~ WillStore(queue[r], job[r], source[p], p, d)
    BY <1>1, <1>12, <1>13, <2>3
  <2>4. \A p \in Policies : p \notin missed' => Followed(queue'[r], job'[r], source[p], p)
    BY <1>11, <2>2
  <2> QED
    BY <1>4, <1>6, <2>1, <2>2, <2>3, <2>4, ReplicaConverge
<1>14. CASE /\ rows' = [rows EXCEPT ![<< j.pol, e >>] =
                  [status |-> j.status, source |-> j.source, body |-> j.body]]
            /\ missed' = missed
  <2>1. rows'[<< j.pol, e >>].source = j.source
    BY <1>5, <1>14
  <2>2. \A p \in Policies, d \in Engines :
           ~ (p = j.pol /\ d = e) => rows'[<< p, d >>] = rows[<< p, d >>]
    <3> SUFFICES ASSUME NEW p \in Policies, NEW d \in Engines, ~ (p = j.pol /\ d = e)
                 PROVE  rows'[<< p, d >>] = rows[<< p, d >>]
      OBVIOUS
    <3>1. << p, d >> # << j.pol, e >> /\ << p, d >> \in Policies \X Engines
      OBVIOUS
    <3> QED
      BY <1>5, <1>14, <3>1
  <2>3. e \in Listed(engines)
    BY <1>7, <1>9
  <2>4. RowsListed'
    BY <1>4, <2>2, <2>3 DEF ConvergeInv, RowsListed
  <2>5. ASSUME NEW p \in Policies, NEW d \in Engines, p \notin missed',
               rows'[<< p, d >>].source # source[p]
        PROVE  \/ WillStore(queue'[r], job'[r], source[p], p, d)
               \/ /\ rows'[<< p, d >>] = rows[<< p, d >>]
                  /\ ~ WillStore(queue[r], job[r], source[p], p, d)
    <3>1. CASE p = j.pol /\ d = e
      <4>1. j.source # source[p]
        BY <2>1, <2>5, <3>1
      <4>2. p \in Listed(queue[r])
        BY <1>4, <1>10, <1>14, <2>5, <3>1, <4>1 DEF Followed
      <4> QED
        BY <1>4, <4>2 DEF WillStore
    <3>2. CASE ~ (p = j.pol /\ d = e)
      BY <1>1, <1>12, <2>2, <3>2
    <3> QED
      BY <3>1, <3>2
  <2>6. \A p \in Policies : p \notin missed' => Followed(queue'[r], job'[r], source[p], p)
    BY <1>11, <1>14
  <2> QED
    BY <1>4, <1>6, <1>14, <2>4, <2>5, <2>6, ReplicaConverge
<1> QED
  BY <1>1, <1>2, <1>13, <1>14, PersistShape

\* The other steps leave the compiler alone, but for the status of a stored node.
LEMMA OtherConverge ==
    ASSUME SoundInv, ConvergeInv,
           \/ \E e \in Engines : RegisterEngine(e)
           \/ \E p \in Policies, e \in Engines : Suspend(p, e) \/ ClearSuspension(p, e)
           \/ \E r \in Replicas : Connect(r)
           \/ UNCHANGED << source, engines, compilation >>
    PROVE  ConvergeInv'
<1>1. engines \in Seq(Engines) /\ rows \in [Policies \X Engines -> Row]
  BY DEF SoundInv, TypeOK
<1>2. ASSUME NEW e \in Engines, RegisterEngine(e) PROVE ConvergeInv'
  <2>1. engines' = Append(engines, e) /\ UNCHANGED << source, rows, queue, job, missed >>
    BY <1>2 DEF RegisterEngine, compilation
  <2>2. Listed(engines) \subseteq Listed(engines')
    BY <1>1, <2>1, ListedShape
  <2> QED
    BY <2>1, <2>2, ConvergeFrame
<1>3. ASSUME NEW p \in Policies, NEW e \in Engines, Suspend(p, e) \/ ClearSuspension(p, e)
      PROVE  ConvergeInv'
  <2>1. PICK st \in {"active", "divergent_suspended"} :
            rows' = [rows EXCEPT ![<< p, e >>].status = st]
    BY <1>3 DEF Suspend, ClearSuspension
  <2>2. /\ UNCHANGED << source, engines, queue, job, missed >>
        /\ rows[<< p, e >>].status # "none"
    BY <1>3 DEF Suspend, ClearSuspension
  <2>3. \A q \in Policies, d \in Engines : rows'[<< q, d >>].source = rows[<< q, d >>].source
    BY <1>1, <2>1 DEF Row
  <2>4. \A q \in Policies, d \in Engines :
            rows[<< q, d >>].status = "none" => rows'[<< q, d >>].status = "none"
    BY <1>1, <2>1, <2>2 DEF Row
  <2> QED
    BY <2>2, <2>3, <2>4, ConvergeFrame
<1>4. ASSUME NEW r \in Replicas, Connect(r) PROVE ConvergeInv'
  <2>1. UNCHANGED << source, engines, rows, queue, job, missed >>
    BY <1>4 DEF Connect
  <2> QED
    BY <2>1, ConvergeFrame
<1>5. CASE UNCHANGED << source, engines, compilation >>
  <2>1. UNCHANGED << source, engines, rows, queue, job, missed >>
    BY <1>5 DEF compilation
  <2> QED
    BY <2>1, ConvergeFrame
<1> QED
  BY <1>2, <1>3, <1>4, <1>5

\* Every step keeps an outdated node on some replica's way.
LEMMA ConvergeNext == SoundInv /\ ConvergeInv /\ [Next]_vars => ConvergeInv'
<1> SUFFICES ASSUME SoundInv, ConvergeInv, [Next]_vars PROVE ConvergeInv'
  OBVIOUS
<1>1. CASE \/ \E q \in Requests : RefuseQuery(q) \/ LoadCompiled(q) \/ FillAndSplice(q) \/ NextQuery(q)
           \/ \E q \in Requests, r \in Replicas, t \in Tables, k \in Proxied : Lookup(q, r, t, k)
           \/ \E r \in Replicas, t \in Tables : InvalidateTable(r, t)
           \/ UNCHANGED vars
  <2>1. UNCHANGED << source, engines, compilation >>
    BY <1>1 DEF RefuseQuery, LoadCompiled, FillAndSplice, NextQuery, Lookup, InvalidateTable,
                vars, compilation
  <2> QED
    BY <2>1, OtherConverge
<1> QED
  BY <1>1, EditConverge, DisconnectConverge, HandleConverge, ListConverge, CompileConverge,
     PersistConverge, OtherConverge DEF Next, CompilerStep

\* Once no replica has work left on a policy and none missed its last edit, every
\* stored node of it is at the current version, though CompileAll runs on all
\* replicas at once and the last upsert wins.
THEOREM ConvergenceHolds == Spec => []Converged
<1>1. ConvergeInv => Converged
  <2> SUFFICES ASSUME ConvergeInv, NEW p \in Policies, p \notin missed,
                      \A r \in Replicas : ~ Pending(p, r),
                      NEW e \in Engines, rows[<< p, e >>].status # "none",
                      rows[<< p, e >>].source # source[p]
               PROVE  FALSE
    BY DEF Converged
  <2>1. PICK r \in Replicas : WillStore(queue[r], job[r], source[p], p, e)
    BY DEF ConvergeInv, OldOverwritten
  <2>2. Pending(p, r)
    BY <2>1 DEF WillStore, Pending
  <2> QED
    BY <2>2
<1>2. Spec => []ConvergeInv
  BY ConvergeInit, ConvergeNext, SoundHolds, PTL DEF Spec
<1> QED
  BY <1>1, <1>2, PTL
=============================================================================
