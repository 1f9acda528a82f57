------------------------ MODULE LineageIngestProofs ------------------------
(***************************************************************************)
(* Safety of the lineage merge for any number of datasets, handlers and    *)
(* events, and any depth of the cycle check.                               *)
(***************************************************************************)
EXTENDS LineageIngest, FiniteSetTheorems, TLAPS

----------------------------------------------------------------------------
(* The inductive invariant *)

Locked  == {"check", "merge", "commit"}
Checked == {"merge", "commit"}

\* The pair of datasets a handler in state s is at.
Ends(s) == << s.event.ins[s.i], s.event.outs[s.j] >>

\* What a handler in state s can rely on, with inbox I and graph G: it has an event, whose run is in the
\* inbox; the edge it merges is no self-edge; its check still holds but for the edges it
\* missed; the edge it is about to create is not there yet.
HandlerOK(s, I, G) ==
    /\ s.pc = "inbox" => s.event \in Events
    /\ s.pc \in Merging => \E x \in I : x.run = s.event.run
    /\ s.pc \in Locked => Ends(s)[1] # Ends(s)[2]
    /\ s.pc \in Checked => ~ Reaches(G \ s.missed, Ends(s)[2], Ends(s)[1])
    /\ s.pc = "commit" /\ s.create => Ends(s) \notin G

Handlers == \A h \in Posts : HandlerOK(post[h], inbox, Graph)

\* The advisory lock of a source has at most one holder.
Exclusive ==
    \A g, h \in Posts :
        post[g].pc \in Locked /\ post[h].pc \in Locked
            /\ Ends(post[g])[1] = Ends(post[h])[1] => g = h

Inv ==
    /\ TypeOK
    /\ IsFiniteSet(edges)
    /\ Handlers
    /\ Exclusive
    /\ CyclesNeedARace
    /\ EdgesUnique
    /\ EdgesHaveAnEvent

----------------------------------------------------------------------------
(* Types *)

\* The fields of a posted RunEvent.
LEMMA EventShape ==
    ASSUME NEW v \in Events
    PROVE  /\ v.run \in Runs
           /\ v.ins \in Seq(Datasets) /\ v.outs \in Seq(Datasets)
           /\ Len(v.ins) \in Nat /\ Len(v.outs) \in Nat
           /\ \A i \in 1 .. Len(v.ins) : v.ins[i] \in Datasets
           /\ \A j \in 1 .. Len(v.outs) : v.outs[j] \in Datasets
           /\ Size(v) \in Nat
           /\ Size(v) > 0 => 1 \in 1 .. Len(v.ins) /\ 1 \in 1 .. Len(v.outs)
<1>1. /\ v.run \in Runs
      /\ v.ins \in Seq(Datasets) /\ v.outs \in Seq(Datasets)
  BY EventsAssumption
<1>2. /\ Len(v.ins) \in Nat /\ Len(v.outs) \in Nat
      /\ \A i \in 1 .. Len(v.ins) : v.ins[i] \in Datasets
      /\ \A j \in 1 .. Len(v.outs) : v.outs[j] \in Datasets
  BY <1>1
<1>3. ASSUME NEW x \in Nat, NEW y \in Nat
      PROVE  x * y \in Nat /\ (x * y > 0 => x > 0 /\ y > 0)
  OBVIOUS
<1>4. /\ Size(v) \in Nat
      /\ Size(v) > 0 => Len(v.ins) > 0 /\ Len(v.outs) > 0
  BY <1>2, <1>3 DEF Size
<1>5. QED
  BY <1>1, <1>2, <1>4

\* The empty request of an unused handler has no pair.
LEMMA NoEventShape == Len(NoEvent.ins) = 0 /\ Len(NoEvent.outs) = 0
BY DEF NoEvent

\* The pair a merging handler is at consists of datasets.
LEMMA PairShape ==
    ASSUME TypeOK, NEW h \in Posts, post[h].pc \in Merging
    PROVE  /\ post[h].event \in Events
           /\ Pair(h) \in Pairs
           /\ Pair(h)[1] \in Datasets /\ Pair(h)[2] \in Datasets
           /\ Pair(h) = << Pair(h)[1], Pair(h)[2] >>
<1>1. post[h] \in PostState
  BY DEF TypeOK
<1>2. /\ post[h].i \in 1 .. Len(post[h].event.ins)
      /\ post[h].j \in 1 .. Len(post[h].event.outs)
  BY DEF TypeOK
<1>3. post[h].event \in Events
  BY <1>1, <1>2, NoEventShape DEF PostState
<1>4. QED
  BY <1>2, <1>3, EventShape DEF Pair, Pairs

\* The state of a handler that answered 503, and of one that has not started.
LEMMA RestShape ==
    /\ Unavailable \in PostState /\ Unavailable.pc = "done"
    /\ Unused \in PostState /\ Unused.pc = "idle"
BY DEF Unavailable, Unused, At, PostState, NoStatus, Merging

\* Every variable starts with its type.
LEMMA TypeInit == Init => TypeOK
<1> SUFFICES ASSUME Init PROVE TypeOK
  OBVIOUS
<1> QED
  BY RestShape DEF Init, TypeOK, Merging

\* A handler at the next statement of its transaction.
LEMMA StepShape ==
    ASSUME NEW s \in PostState, NEW pc \in Merging
    PROVE  /\ [s EXCEPT !.pc = pc] \in PostState
           /\ [s EXCEPT !.pc = pc].pc = pc
           /\ [s EXCEPT !.pc = pc].event = s.event
           /\ [s EXCEPT !.pc = pc].i = s.i /\ [s EXCEPT !.pc = pc].j = s.j
           /\ [s EXCEPT !.pc = pc].missed = s.missed
           /\ [s EXCEPT !.pc = pc].create = s.create
BY DEF PostState

\* A handler that has run the MERGE.
LEMMA CreateShape ==
    ASSUME NEW s \in PostState, NEW c \in BOOLEAN
    PROVE  /\ [s EXCEPT !.create = c] \in PostState
           /\ [s EXCEPT !.create = c].pc = s.pc
           /\ [s EXCEPT !.create = c].event = s.event
           /\ [s EXCEPT !.create = c].i = s.i /\ [s EXCEPT !.create = c].j = s.j
           /\ [s EXCEPT !.create = c].missed = s.missed
           /\ [s EXCEPT !.create = c].create = c
BY DEF PostState

\* A handler that has noted a pair without nodes.
LEMMA AbsentShape ==
    ASSUME NEW s \in PostState, NEW a \in SUBSET (Nat \X Nat)
    PROVE  /\ [s EXCEPT !.absent = a] \in PostState
           /\ [s EXCEPT !.absent = a].pc = s.pc
           /\ [s EXCEPT !.absent = a].event = s.event
           /\ [s EXCEPT !.absent = a].i = s.i /\ [s EXCEPT !.absent = a].j = s.j
           /\ [s EXCEPT !.absent = a].missed = s.missed
           /\ [s EXCEPT !.absent = a].create = s.create
BY DEF PostState

\* A handler while another one commits the edges m.
LEMMA MissedShape ==
    ASSUME NEW s \in PostState, NEW m \in SUBSET Pairs
    PROVE  /\ [s EXCEPT !.missed = @ \cup m] \in PostState
           /\ [s EXCEPT !.missed = @ \cup m].pc = s.pc
           /\ [s EXCEPT !.missed = @ \cup m].event = s.event
           /\ [s EXCEPT !.missed = @ \cup m].i = s.i
           /\ [s EXCEPT !.missed = @ \cup m].j = s.j
           /\ [s EXCEPT !.missed = @ \cup m].missed = s.missed \cup m
           /\ [s EXCEPT !.missed = @ \cup m].create = s.create
BY DEF PostState

\* The state a handler is left in by the end of the loop body.
LEMMA AdvanceShape ==
    ASSUME TypeOK, NEW h \in Posts, post[h].pc = "commit"
    PROVE  /\ Advance(h) \in PostState
           /\ Advance(h).pc \in {"lock", "done"}
           /\ Advance(h).event = post[h].event
           /\ Advance(h).pc \in Merging =>
                 /\ Advance(h).i \in 1 .. Len(Advance(h).event.ins)
                 /\ Advance(h).j \in 1 .. Len(Advance(h).event.outs)
<1> DEFINE v == post[h].event
           i == post[h].i
           j == post[h].j
<1>1. /\ post[h] \in PostState
      /\ i \in 1 .. Len(v.ins) /\ j \in 1 .. Len(v.outs)
  BY DEF TypeOK, Merging
<1>2. v \in Events
  BY PairShape DEF Merging
<1>3. Len(v.ins) \in Nat /\ Len(v.outs) \in Nat
  BY <1>2, EventShape
<1>4. CASE j < Len(v.outs)
  <2> DEFINE w == Goto(h, "lock", i, j + 1, NoStatus)
  <2>1. Advance(h) = w
    BY <1>4 DEF Advance
  <2>2. i \in Nat /\ j + 1 \in 1 .. Len(v.outs)
    BY <1>1, <1>3, <1>4
  <2>3. w \in PostState /\ w.pc = "lock" /\ w.event = v /\ w.i = i /\ w.j = j + 1
    BY <1>1, <2>2 DEF Goto, At, PostState, Merging, NoStatus
  <2> HIDE DEF w
  <2> QED
    BY <1>1, <2>1, <2>2, <2>3
<1>5. CASE ~ (j < Len(v.outs)) /\ i < Len(v.ins)
  <2> DEFINE w == Goto(h, "lock", i + 1, 1, NoStatus)
  <2>1. Advance(h) = w
    BY <1>5 DEF Advance
  <2>2. i + 1 \in 1 .. Len(v.ins) /\ 1 \in 1 .. Len(v.outs)
    BY <1>1, <1>3, <1>5
  <2>3. w \in PostState /\ w.pc = "lock" /\ w.event = v /\ w.i = i + 1 /\ w.j = 1
    BY <1>1, <2>2 DEF Goto, At, PostState, Merging, NoStatus
  <2> HIDE DEF w
  <2> QED
    BY <1>1, <2>1, <2>2, <2>3
<1>6. CASE ~ (j < Len(v.outs)) /\ ~ (i < Len(v.ins))
  <2> DEFINE w == Goto(h, "done", i, j, 202)
  <2>1. Advance(h) = w
    BY <1>6 DEF Advance
  <2>2. i \in Nat /\ j \in Nat /\ "done" \notin Merging
    BY <1>1, <1>3 DEF Merging
  <2>3. w \in PostState /\ w.pc = "done" /\ w.event = v /\ w.i = i /\ w.j = j
    BY <1>1, <2>2 DEF Goto, At, PostState, Merging, NoStatus
  <2> HIDE DEF w
  <2> QED
    BY <1>1, <2>1, <2>2, <2>3
<1>7. QED
  BY <1>4, <1>5, <1>6

----------------------------------------------------------------------------
(* Cycles *)

\* More edges reach at least as far.
LEMMA ReachesMonotone ==
    ASSUME NEW G, NEW H, G \subseteq H, NEW a, NEW b, Reaches(G, a, b)
    PROVE  Reaches(H, a, b)
BY DEF Reaches, Path

\* A cycle without one of its edges is a path from the end of that edge to its
\* start, one hop shorter.
LEMMA Rotate ==
    ASSUME NEW G, NEW n \in Nat, n > 1,
           NEW p \in [0 .. n -> Datasets], p[0] = p[n],
           NEW k \in 0 .. (n - 1),
           \A i \in (0 .. (n - 1)) \ {k} : << p[i], p[i + 1] >> \in G
    PROVE  Path(G, p[k + 1], p[k], n - 1)
<1> DEFINE q == [m \in 0 .. (n - 1) |-> IF k + 1 + m <= n THEN p[k + 1 + m]
                                        ELSE p[k + 1 + m - n]]
<1>1. q \in [0 .. (n - 1) -> Datasets]
  <2>1. ASSUME NEW m \in 0 .. (n - 1) PROVE q[m] \in Datasets
    <3>1. CASE k + 1 + m <= n
      BY <3>1
    <3>2. CASE ~ (k + 1 + m <= n)
      <4>1. k + 1 + m - n \in 0 .. n
        BY <3>2
      <4> QED
        BY <4>1, <3>2
    <3> QED
      BY <3>1, <3>2
  <2> QED
    BY <2>1
<1>2. q[0] = p[k + 1] /\ q[n - 1] = p[k]
  <2>1. q[0] = p[k + 1]
    BY DEF q
  <2>2. CASE k = 0
    BY <2>2
  <2>3. CASE k > 0
    <3>1. ~ (k + 1 + (n - 1) <= n) /\ k + 1 + (n - 1) - n = k /\ n - 1 \in 0 .. (n - 1)
      BY <2>3
    <3> QED
      BY <3>1, <2>1
  <2> QED
    BY <2>1, <2>2, <2>3
<1>3. ASSUME NEW m \in 0 .. ((n - 1) - 1)
      PROVE  << q[m], q[m + 1] >> \in G
  <2> DEFINE x == k + 1 + m
  <2>1. m \in 0 .. (n - 1) /\ m + 1 \in 0 .. (n - 1) /\ x \in Nat
    OBVIOUS
  <2>2. CASE x < n
    <3>1. q[m] = p[x] /\ q[m + 1] = p[x + 1] /\ x \in (0 .. (n - 1)) \ {k}
      BY <2>1, <2>2
    <3> QED
      BY <3>1
  <2>3. CASE x = n
    <3>1. q[m] = p[n]
      BY <2>1, <2>3
    <3>2. q[m + 1] = p[1]
      <4>1. ~ (k + 1 + (m + 1) <= n) /\ k + 1 + (m + 1) - n = 1
        BY <2>3
      <4> QED
        BY <2>1, <4>1
    <3>3. 0 \in (0 .. (n - 1)) \ {k}
      BY <2>3
    <3> QED
      BY <3>1, <3>2, <3>3
  <2>4. CASE x > n
    <3>1. q[m] = p[x - n]
      BY <2>1, <2>4
    <3>2. q[m + 1] = p[(x - n) + 1]
      <4>1. ~ (k + 1 + (m + 1) <= n) /\ k + 1 + (m + 1) - n = (x - n) + 1
        BY <2>4
      <4> QED
        BY <2>1, <4>1
    <3>3. x - n \in (0 .. (n - 1)) \ {k}
      BY <2>4
    <3> QED
      BY <3>1, <3>2, <3>3
  <2> QED
    BY <2>1, <2>2, <2>3, <2>4
<1> HIDE DEF q
<1> QED
  BY <1>1, <1>2, <1>3 DEF Path

\* A new edge that closes a short cycle closes it over an edge its check did not
\* see.
LEMMA ClosedUnseen ==
    ASSUME NEW G, NEW e \in Pairs, NEW missed,
           e[1] # e[2], ~ Reaches(G \ missed, e[2], e[1]),
           NEW n \in 1 .. (cycleMaxDepth + 1), NEW p \in [0 .. n -> Datasets],
           Cycle(G \cup {e}, n, p),
           NEW k \in 0 .. (n - 1), << p[k], p[k + 1] >> = e
    PROVE  \E i \in 0 .. (n - 1) : << p[i], p[i + 1] >> \in missed
<1> SUFFICES ASSUME \A i \in 0 .. (n - 1) : << p[i], p[i + 1] >> \notin missed
             PROVE  FALSE
  OBVIOUS
<1>1. e[1] = p[k] /\ e[2] = p[k + 1]
  OBVIOUS
<1>2. n \in Nat /\ n > 1
  <2>1. CASE n = 1
    <3>1. k = 0
      BY <2>1
    <3> QED
      BY <2>1, <3>1, <1>1 DEF Cycle
  <2> QED
    BY <2>1, DepthAssumption
<1>3. ASSUME NEW i \in (0 .. (n - 1)) \ {k}
      PROVE  << p[i], p[i + 1] >> \in G \ missed
  <2>1. p[i] # p[k]
    BY DEF Cycle
  <2>2. << p[i], p[i + 1] >> # e
    BY <2>1, <1>1
  <2> QED
    BY <2>2 DEF Cycle
<1>4. Path(G \ missed, p[k + 1], p[k], n - 1)
  BY <1>2, <1>3, Rotate DEF Cycle
<1>5. n - 1 \in 1 .. cycleMaxDepth
  BY <1>2, DepthAssumption
<1> QED
  BY <1>1, <1>4, <1>5 DEF Reaches

----------------------------------------------------------------------------
(* Steps that leave the graph alone *)

\* A handler's state inside its loops.
InLoops(s) ==
    s.pc \in Merging => s.i \in 1 .. Len(s.event.ins) /\ s.j \in 1 .. Len(s.event.outs)

\* Beside the handlers only the inbox can change, and it keeps its key.
InboxOnly ==
    /\ UNCHANGED << known, edges, unseen >>
    /\ inbox \subseteq inbox' /\ inbox' \subseteq Events
    /\ \A x, y \in inbox' : x.run = y.run => x = y

\* Such a step takes handler h to state w.
GraphStays(h, w) == post' = [post EXCEPT ![h] = w] /\ InboxOnly

\* No other handler holds the lock that h holds in state w.
Free(h, w) ==
    w.pc \in Locked =>
        \A g \in Posts \ {h} : post[g].pc \in Locked => Ends(post[g])[1] # Ends(w)[1]

\* For such a step it is enough to look at w.
LEMMA Frame ==
    ASSUME Inv, NEW h \in Posts, NEW w \in PostState,
           InLoops(w), HandlerOK(w, inbox', Graph'), Free(h, w), GraphStays(h, w)
    PROVE  Inv'
<1> USE DEF GraphStays, InboxOnly
<1>1. post \in [Posts -> PostState]
  BY DEF Inv, TypeOK
<1>2. post'[h] = w /\ \A g \in Posts \ {h} : post'[g] = post[g]
  BY <1>1
<1>3. TypeOK'
  <2>1. post' \in [Posts -> PostState]
    BY <1>1
  <2>2. \A g \in Posts : InLoops(post'[g])
    BY <1>2 DEF Inv, TypeOK, InLoops
  <2> QED
    BY <2>1, <2>2 DEF Inv, TypeOK, InLoops
<1>4. Graph' = Graph
  BY DEF Graph
<1>5. Handlers'
  <2>1. ASSUME NEW g \in Posts \ {h} PROVE HandlerOK(post[g], inbox', Graph')
    BY <1>2, <1>4 DEF Inv, Handlers, HandlerOK
  <2> QED
    BY <1>2, <2>1 DEF Handlers
<1>6. Exclusive'
  BY <1>2 DEF Inv, Exclusive, Free
<1>7. IsFiniteSet(edges)'
  BY DEF Inv
<1>8. CyclesNeedARace'
  BY <1>4 DEF Inv, CyclesNeedARace
<1>9. EdgesUnique' /\ EdgesHaveAnEvent'
  BY DEF Inv, EdgesUnique, EdgesHaveAnEvent
<1> QED
  BY <1>3, <1>5, <1>6, <1>7, <1>8, <1>9 DEF Inv

\* Outside its loops a handler relies on nothing.
LEMMA Resting ==
    ASSUME NEW s, s.pc \in {"idle", "done"}
    PROVE  InLoops(s) /\ HandlerOK(s, inbox', Graph') /\ \A h : Free(h, s)
BY DEF InLoops, HandlerOK, Merging, Locked, Checked, Free

\* An event that passes the checks of Handler.
LEMMA PostInv ==
    ASSUME Inv, NEW h \in Posts, NEW v \in Events, Post(h, v)
    PROVE  Inv'
<1> DEFINE w == Fresh(v)
<1>1. w \in PostState /\ w.pc = "inbox" /\ w.event = v
  BY DEF Fresh, At, PostState, Merging, NoStatus
<1>2. GraphStays(h, w)
  BY DEF Post, GraphStays, InboxOnly, Inv, TypeOK
<1> HIDE DEF w
<1>3. InLoops(w) /\ HandlerOK(w, inbox', Graph') /\ Free(h, w)
  BY <1>1 DEF InLoops, HandlerOK, Merging, Locked, Checked, Free
<1> QED
  BY <1>1, <1>2, <1>3, Frame

\* A call ends the request: an answer, or 503.
LEMMA RestInv ==
    ASSUME Inv, NEW h \in Posts, NEW code \in {NoStatus, 202, 422, 503},
           Answer(h, code) \/ post' = [post EXCEPT ![h] = Unavailable],
           InboxOnly
    PROVE  Inv'
<1>1. CASE Answer(h, code)
  <2> DEFINE w == Goto(h, "done", post[h].i, post[h].j, code)
  <2>1. post[h] \in PostState
    BY DEF Inv, TypeOK
  <2>2. w \in PostState /\ w.pc = "done"
    BY <2>1 DEF Goto, At, PostState, Merging, NoStatus
  <2>3. GraphStays(h, w)
    BY <1>1 DEF Answer, GraphStays, InboxOnly
  <2> HIDE DEF w
  <2>4. InLoops(w) /\ HandlerOK(w, inbox', Graph') /\ Free(h, w)
    BY <2>2, Resting
  <2> QED
    BY <2>2, <2>3, <2>4, Frame
<1>2. CASE post' = [post EXCEPT ![h] = Unavailable]
  <2> DEFINE w == Unavailable
  <2>1. w \in PostState /\ w.pc = "done"
    BY RestShape
  <2>2. GraphStays(h, w)
    BY <1>2 DEF GraphStays, InboxOnly
  <2> HIDE DEF w
  <2>3. InLoops(w) /\ HandlerOK(w, inbox', Graph') /\ Free(h, w)
    BY <2>1, Resting
  <2> QED
    BY <2>1, <2>2, <2>3, Frame
<1> QED
  BY <1>1, <1>2

\* persistInbox, with its three outcomes.
LEMMA PersistInboxInv ==
    ASSUME Inv, NEW h \in Posts, PersistInbox(h)
    PROVE  Inv'
<1> DEFINE v == post[h].event
<1>1. /\ UNCHANGED << known, edges, unseen >>
      /\ post[h].pc = "inbox" /\ post[h] \in PostState
      /\ inbox' = InboxAfter(v)
  BY DEF PersistInbox, Inv, TypeOK
<1>2. v \in Events
  BY <1>1 DEF Inv, Handlers, HandlerOK
<1>3. InboxOnly /\ \E x \in inbox' : x.run = v.run
  BY <1>1, <1>2 DEF InboxAfter, InboxOnly, Inv, TypeOK
<1>4. CASE Answer(h, 202) \/ post' = [post EXCEPT ![h] = Unavailable]
  BY <1>3, <1>4, RestInv
<1>5. CASE Size(v) > 0 /\ post' = [post EXCEPT ![h] = Goto(h, "lock", 1, 1, NoStatus)]
  <2> DEFINE w == Goto(h, "lock", 1, 1, NoStatus)
  <2>1. w \in PostState /\ w.pc = "lock" /\ w.event = v /\ w.i = 1 /\ w.j = 1
    BY <1>1 DEF Goto, At, PostState, Merging, NoStatus
  <2>2. GraphStays(h, w)
    BY <1>3, <1>5 DEF GraphStays, InboxOnly
  <2> HIDE DEF w
  <2>3. InLoops(w)
    BY <1>2, <1>5, <2>1, EventShape DEF InLoops
  <2>4. HandlerOK(w, inbox', Graph') /\ Free(h, w)
    BY <1>3, <2>1 DEF HandlerOK, Locked, Checked, Free
  <2> QED
    BY <2>1, <2>2, <2>3, <2>4, Frame
<1> QED
  BY <1>4, <1>5 DEF PersistInbox

\* The statements of the merge's transaction before its commit.
LEMMA MergeStepInv ==
    ASSUME Inv, NEW h \in Posts,
           RejectSelfEdge(h) \/ LockSource(h) \/ validateNoCycleTx(h) \/ MergeEdge(h)
    PROVE  Inv'
<1> DEFINE s == post[h]
<1>1. /\ UNCHANGED << known, edges, inbox, unseen >>
      /\ s \in PostState /\ s.pc \in Merging /\ InLoops(s) /\ HandlerOK(s, inbox, Graph)
      /\ Pair(h) = Ends(s)
      /\ \A g \in Posts : Pair(g) = Ends(post[g])
  BY DEF RejectSelfEdge, LockSource, validateNoCycleTx, MergeEdge, Inv, TypeOK, InLoops,
         Handlers, Merging, Pair, Ends
<1>2. InboxOnly /\ Graph' = Graph
  BY <1>1 DEF Inv, TypeOK, InboxOnly, Graph
<1>3. CASE Answer(h, 422)
  BY <1>2, <1>3, RestInv
<1>4. ASSUME NEW pc \in Locked, post' = [post EXCEPT ![h].pc = pc],
             Ends(s)[1] # Ends(s)[2],
             pc \in Checked => ~ Reaches(Graph, Ends(s)[2], Ends(s)[1]),
             pc # "commit",
             \A g \in Posts \ {h} : post[g].pc \in Locked => Ends(post[g])[1] # Ends(s)[1]
      PROVE  Inv'
  <2> DEFINE w == [s EXCEPT !.pc = pc]
  <2>1. pc \in Merging
    BY DEF Locked, Merging
  <2>2. /\ w \in PostState /\ w.pc = pc /\ w.event = s.event /\ w.i = s.i /\ w.j = s.j
        /\ w.missed = s.missed
    BY <1>1, <2>1, StepShape
  <2>3. GraphStays(h, w)
    BY <1>2, <1>4 DEF GraphStays, InboxOnly
  <2> HIDE DEF w
  <2>4. InLoops(w) /\ Ends(w) = Ends(s)
    BY <1>1, <2>2 DEF InLoops, Ends
  <2>5. pc \in Checked => ~ Reaches(Graph \ w.missed, Ends(w)[2], Ends(w)[1])
    BY <1>4, <2>4, ReachesMonotone
  <2>6. HandlerOK(w, inbox', Graph') /\ Free(h, w)
    BY <1>1, <1>2, <1>4, <2>2, <2>4, <2>5 DEF HandlerOK, Merging, Locked, Free
  <2> QED
    BY <2>2, <2>3, <2>4, <2>6, Frame
<1>5. CASE RejectSelfEdge(h)
  BY <1>3, <1>5 DEF RejectSelfEdge
<1>6. CASE LockSource(h)
  BY <1>1, <1>4, <1>6 DEF LockSource, Holds, Locked, Checked
<1>7. CASE validateNoCycleTx(h)
  <2>1. s.pc \in Locked /\ s.pc = "check"
    BY <1>7 DEF validateNoCycleTx, Locked
  <2>2. /\ Ends(s)[1] # Ends(s)[2]
        /\ \A g \in Posts \ {h} : post[g].pc \in Locked => Ends(post[g])[1] # Ends(s)[1]
    BY <1>1, <2>1 DEF HandlerOK, Inv, Exclusive
  <2>3. CASE ~ WouldClose(h) /\ post' = [post EXCEPT ![h].pc = "merge"]
    BY <1>1, <1>4, <2>2, <2>3 DEF WouldClose, Locked
  <2> QED
    BY <1>3, <1>7, <2>3 DEF validateNoCycleTx
<1>8. CASE MergeEdge(h)
  <2> DEFINE there == {Pair(h)[1], Pair(h)[2]} \subseteq known
             create == there /\ Pair(h) \notin Graph
             absent == s.absent \cup (IF there THEN {} ELSE {<< s.i, s.j >>})
             w == [s EXCEPT !.pc = "commit", !.create = create, !.absent = absent]
  <2>1. s.pc = "merge" /\ GraphStays(h, w)
    BY <1>2, <1>8 DEF MergeEdge, GraphStays, InboxOnly
  <2>2. create \in BOOLEAN /\ absent \in SUBSET (Nat \X Nat)
    BY <1>1 DEF PostState
  <2>3. create => Ends(s) \notin Graph
    BY <1>1
  <2> HIDE DEF create, absent
  <2>4. /\ w \in PostState /\ w.pc = "commit" /\ w.event = s.event
        /\ w.i = s.i /\ w.j = s.j /\ w.missed = s.missed /\ w.create = create
    <3> DEFINE s1 == [s EXCEPT !.pc = "commit"]
               s2 == [s1 EXCEPT !.create = create]
               s3 == [s2 EXCEPT !.absent = absent]
    <3>1. w = s3
      OBVIOUS
    <3>2. "commit" \in Merging
      BY DEF Merging
    <3>3. /\ s1 \in PostState /\ s1.pc = "commit" /\ s1.event = s.event
          /\ s1.i = s.i /\ s1.j = s.j /\ s1.missed = s.missed
      BY <1>1, <3>2, StepShape
    <3> HIDE DEF s1
    <3>4. /\ s2 \in PostState /\ s2.pc = s1.pc /\ s2.event = s1.event
          /\ s2.i = s1.i /\ s2.j = s1.j /\ s2.missed = s1.missed /\ s2.create = create
      BY <2>2, <3>3, CreateShape, Zenon
    <3> HIDE DEF s2
    <3>5. /\ s3 \in PostState /\ s3.pc = s2.pc /\ s3.event = s2.event
          /\ s3.i = s2.i /\ s3.j = s2.j /\ s3.missed = s2.missed /\ s3.create = s2.create
      BY <2>2, <3>4, AbsentShape, Zenon
    <3> HIDE DEF s3, w
    <3> QED
      BY <3>1, <3>3, <3>4, <3>5
  <2> HIDE DEF w
  <2>5. InLoops(w) /\ Ends(w) = Ends(s)
    BY <1>1, <2>4 DEF InLoops, Ends
  <2>6. HandlerOK(w, inbox', Graph')
    BY <1>1, <1>2, <2>1, <2>3, <2>4, <2>5 DEF HandlerOK, Merging, Locked, Checked
  <2>7. Free(h, w)
    BY <2>1, <2>5 DEF Inv, Exclusive, Locked, Free
  <2> QED
    BY <2>1, <2>4, <2>5, <2>6, <2>7, Frame
<1> QED
  BY <1>5, <1>6, <1>7, <1>8

----------------------------------------------------------------------------
(* The commit of an edge *)

\* What is left of state s of another handler when the edges m are committed.
Kept(s, t, m) ==
    /\ t \in PostState
    /\ t.pc = s.pc /\ t.event = s.event /\ t.i = s.i /\ t.j = s.j /\ t.create = s.create
    /\ s.pc \in Checked => t.missed = s.missed \cup m

\* A commit, after which handler h is in state mine: the edge is new and its run
\* is stored, and a cycle it closes runs over an edge its check has missed.
LEMMA CommitInv ==
    ASSUME Inv, NEW h \in Posts, post[h].pc = "commit",
           NEW mine \in PostState, InLoops(mine), mine.pc \in {"lock", "done"},
           mine.pc = "lock" => mine.event = post[h].event,
           Committed(h, mine)
    PROVE  Inv'
<1> DEFINE s == post[h]
           e == Ends(s)
           new == IF s.create THEN {e} ELSE {}
           rec == [src |-> e[1], tgt |-> e[2], run |-> s.event.run, copy |-> Copies(e) + 1]
<1>1. /\ s \in PostState /\ InLoops(s) /\ HandlerOK(s, inbox, Graph)
      /\ Pair(h) = e /\ s.pc \in Merging /\ s.pc \in Locked /\ s.pc \in Checked
  BY DEF Inv, TypeOK, Handlers, InLoops, Pair, Ends, Merging, Locked, Checked
<1>2. /\ s.event \in Events /\ e \in Pairs /\ e[1] \in Datasets /\ e[2] \in Datasets
      /\ e = << e[1], e[2] >> /\ s.event.run \in Runs
  <2>1. TypeOK
    BY DEF Inv
  <2> QED
    BY <1>1, <2>1, PairShape, EventShape
<1>3. /\ e[1] # e[2]
      /\ ~ Reaches(Graph \ s.missed, e[2], e[1])
      /\ s.create => e \notin Graph
      /\ \E x \in inbox : x.run = s.event.run
  BY <1>1 DEF HandlerOK
<1>4. /\ edges' = edges \cup (IF s.create THEN {rec} ELSE {})
      /\ unseen' = unseen \cup (new \X s.missed)
      /\ UNCHANGED << known, inbox >>
      /\ post' = [g \in Posts |->
                     IF g = h THEN mine
                     ELSE IF post[g].pc \in Checked
                     THEN [post[g] EXCEPT !.missed = post[g].missed \cup new]
                     ELSE post[g]]
  BY <1>1 DEF Committed, Checked
<1>5. new \subseteq Pairs
  BY <1>2
<1>6. Graph' = Graph \cup new
  <2>1. rec.src = e[1] /\ rec.tgt = e[2]
    OBVIOUS
  <2> HIDE DEF rec
  <2>2. << rec.src, rec.tgt >> = e
    BY <1>2, <2>1
  <2> HIDE DEF e
  <2>3. CASE s.create
    <3>1. edges' = edges \cup {rec} /\ new = {e}
      BY <1>4, <2>3
    <3> QED
      BY <2>2, <3>1 DEF Graph
  <2>4. CASE ~ s.create
    <3>1. edges' = edges /\ new = {}
      BY <1>4, <2>4
    <3> QED
      BY <3>1 DEF Graph
  <2> QED
    BY <2>3, <2>4
<1>7. post'[h] = mine
  BY <1>4
<1>8. ASSUME NEW g \in Posts \ {h}
      PROVE  Kept(post[g], post'[g], new)
  <2>1. post[g] \in PostState
    BY DEF Inv, TypeOK
  <2>2. CASE post[g].pc \in Checked
    <3>1. post'[g] = [post[g] EXCEPT !.missed = post[g].missed \cup new]
      BY <1>4, <2>2
    <3> HIDE DEF new
    <3> QED
      BY <1>5, <2>1, <3>1, MissedShape DEF Kept
  <2>3. CASE post[g].pc \notin Checked
    BY <1>4, <2>1, <2>3 DEF Kept
  <2> QED
    BY <2>2, <2>3
<1>9. Copies(e) + 1 \in Nat \ {0}
  <2> DEFINE C == {x \in edges : << x.src, x.tgt >> = e}
  <2>1. IsFiniteSet(edges) /\ C \in SUBSET edges
    BY DEF Inv
  <2> HIDE DEF C
  <2>2. Cardinality(C) \in Nat
    BY <2>1, FS_Subset, FS_CardinalityType
  <2> QED
    BY <2>2 DEF Copies, C
<1>10. TypeOK'
  <2>1. edges' \subseteq [src : Datasets, tgt : Datasets, run : Runs, copy : Nat \ {0}]
    <3>1. rec \in [src : Datasets, tgt : Datasets, run : Runs, copy : Nat \ {0}]
      BY <1>2, <1>9
    <3> HIDE DEF rec
    <3> QED
      BY <1>4, <3>1 DEF Inv, TypeOK
  <2>2. unseen' \subseteq Pairs \X Pairs
    <3>1. s.missed \subseteq Pairs
      BY <1>1 DEF PostState
    <3> HIDE DEF new
    <3> QED
      BY <1>4, <1>5, <3>1 DEF Inv, TypeOK
  <2>3. post' \in [Posts -> PostState]
    <3>1. DOMAIN post' = Posts /\ post' = [g \in Posts |-> post'[g]]
      BY <1>4
    <3>2. \A g \in Posts : post'[g] \in PostState
      BY <1>7, <1>8 DEF Kept
    <3> QED
      BY <3>1, <3>2
  <2>4. \A g \in Posts : InLoops(post'[g])
    <3>1. \A g \in Posts \ {h} : InLoops(post[g])
      BY DEF Inv, TypeOK, InLoops
    <3> QED
      BY <1>7, <1>8, <3>1 DEF Kept, InLoops
  <2> QED
    BY <1>4, <2>1, <2>2, <2>3, <2>4 DEF Inv, TypeOK, InLoops
<1>11. IsFiniteSet(edges)'
  <2> HIDE DEF rec
  <2>1. IsFiniteSet(edges)
    BY DEF Inv
  <2> QED
    BY <1>4, <2>1, FS_AddElement
<1>12. Handlers'
  <2>1. HandlerOK(mine, inbox', Graph')
    BY <1>3, <1>4 DEF HandlerOK, Merging, Locked, Checked
  <2>2. ASSUME NEW g \in Posts \ {h}
        PROVE  HandlerOK(post'[g], inbox', Graph')
    <3> DEFINE u == post[g]
               t == post'[g]
    <3>1. Kept(u, t, new) /\ HandlerOK(u, inbox, Graph)
      BY <1>8 DEF Inv, Handlers
    <3>2. Ends(t) = Ends(u) /\ t.pc = u.pc /\ t.event = u.event /\ t.create = u.create
      BY <3>1 DEF Kept, Ends
    <3>3. t.pc \in Checked => ~ Reaches(Graph' \ t.missed, Ends(t)[2], Ends(t)[1])
      <4>1. SUFFICES ASSUME t.pc \in Checked
                     PROVE  ~ Reaches(Graph' \ t.missed, Ends(t)[2], Ends(t)[1])
        OBVIOUS
      <4>2. Graph' \ t.missed \subseteq Graph \ u.missed
        BY <1>6, <3>1, <4>1 DEF Kept
      <4>3. ~ Reaches(Graph \ u.missed, Ends(t)[2], Ends(t)[1])
        BY <3>1, <3>2, <4>1 DEF HandlerOK
      <4> QED
        BY <4>2, <4>3, ReachesMonotone
    <3>4. t.pc = "commit" /\ t.create => Ends(t) \notin Graph'
      <4>1. SUFFICES ASSUME t.pc = "commit", t.create
                     PROVE  Ends(t) \notin Graph'
        OBVIOUS
      <4>2. Ends(t) \notin Graph
        BY <3>1, <3>2, <4>1 DEF HandlerOK
      <4>3. Ends(t)[1] # e[1]
        BY <1>1, <3>2, <4>1 DEF Inv, Exclusive, Locked
      <4>4. Ends(t) # e
        BY <4>3
      <4> HIDE DEF e, t
      <4> QED
        BY <1>6, <4>2, <4>4
    <3> HIDE DEF u, t
    <3> QED
      BY <1>4, <3>1, <3>2, <3>3, <3>4 DEF HandlerOK, u, t
  <2> QED
    BY <1>7, <2>1, <2>2 DEF Handlers
<1>13. Exclusive'
  <2>1. mine.pc \notin Locked
    BY DEF Locked
  <2>2. \A g \in Posts \ {h} : post'[g].pc = post[g].pc /\ Ends(post'[g]) = Ends(post[g])
    BY <1>8 DEF Kept, Ends
  <2> QED
    BY <1>7, <2>1, <2>2 DEF Inv, Exclusive
<1>14. CyclesNeedARace'
  <2> SUFFICES ASSUME NEW n \in 1 .. (cycleMaxDepth + 1), NEW p \in [0 .. n -> Datasets],
                      Cycle(Graph', n, p)
               PROVE  \E i, j \in 0 .. (n - 1) :
                          << << p[i], p[i + 1] >>, << p[j], p[j + 1] >> >> \in unseen'
    BY DEF CyclesNeedARace
  <2>1. CASE \A i \in 0 .. (n - 1) : << p[i], p[i + 1] >> \in Graph
    <3>1. Cycle(Graph, n, p)
      BY <2>1 DEF Cycle
    <3>2. \E i, j \in 0 .. (n - 1) :
              << << p[i], p[i + 1] >>, << p[j], p[j + 1] >> >> \in unseen
      BY <3>1 DEF Inv, CyclesNeedARace
    <3>3. unseen \subseteq unseen'
      BY <1>4
    <3> QED
      BY <3>2, <3>3
  <2>2. ASSUME NEW k \in 0 .. (n - 1), << p[k], p[k + 1] >> \notin Graph
        PROVE  \E i, j \in 0 .. (n - 1) :
                   << << p[i], p[i + 1] >>, << p[j], p[j + 1] >> >> \in unseen'
    <3>1. << p[k], p[k + 1] >> \in Graph \cup new
      BY <1>6 DEF Cycle
    <3>2. << p[k], p[k + 1] >> = e /\ new = {e}
      BY <2>2, <3>1
    <3>3. Cycle(Graph \cup {e}, n, p)
      BY <1>6, <3>2
    <3>4. PICK j \in 0 .. (n - 1) : << p[j], p[j + 1] >> \in s.missed
      <4> HIDE DEF e, s
      <4> QED
        BY <1>2, <1>3, <3>2, <3>3, ClosedUnseen
    <3>5. << << p[k], p[k + 1] >>, << p[j], p[j + 1] >> >> \in new \X s.missed
      BY <3>2, <3>4
    <3> HIDE DEF new, s
    <3> QED
      BY <1>4, <3>5
  <2> QED
    BY <2>1, <2>2
<1>15. EdgesUnique'
  <2>1. rec.src = e[1] /\ rec.tgt = e[2]
    OBVIOUS
  <2> HIDE DEF rec
  <2>2. CASE ~ s.create
    BY <1>4, <2>2 DEF Inv, EdgesUnique
  <2>3. CASE s.create
    <3>1. edges' = edges \cup {rec}
      BY <1>4, <2>3
    <3>2. ASSUME NEW x \in edges, x.src = rec.src, x.tgt = rec.tgt
          PROVE  FALSE
      <4>1. << x.src, x.tgt >> \in Graph
        BY DEF Graph
      <4>2. << x.src, x.tgt >> = e
        BY <1>2, <2>1, <3>2
      <4> HIDE DEF e
      <4> QED
        BY <1>3, <2>3, <4>1, <4>2
    <3> QED
      BY <3>1, <3>2 DEF Inv, EdgesUnique
  <2> QED
    BY <2>2, <2>3
<1>16. EdgesHaveAnEvent'
  <2>1. rec.run = s.event.run
    OBVIOUS
  <2> HIDE DEF rec
  <2> QED
    BY <1>3, <1>4, <2>1 DEF Inv, EdgesHaveAnEvent
<1> QED
  BY <1>10, <1>11, <1>12, <1>13, <1>14, <1>15, <1>16 DEF Inv

----------------------------------------------------------------------------
(* The theorems *)

\* The inductive invariant holds before the first event.
LEMMA InitInv == Init => Inv
<1> SUFFICES ASSUME Init PROVE Inv
  OBVIOUS
<1>1. TypeOK
  BY TypeInit
<1>2. IsFiniteSet(edges)
  BY FS_EmptySet DEF Init
<1>3. \A h \in Posts : post[h].pc = "idle"
  BY RestShape DEF Init
<1>4. Handlers /\ Exclusive
  BY <1>3 DEF Handlers, HandlerOK, Exclusive, Merging, Locked, Checked
<1>5. Graph = {}
  BY DEF Init, Graph
<1>6. CyclesNeedARace
  <2>1. ASSUME NEW n \in 1 .. (cycleMaxDepth + 1), NEW p, Cycle(Graph, n, p)
        PROVE  FALSE
    <3>1. 0 \in 0 .. (n - 1)
      BY DepthAssumption
    <3> QED
      BY <1>5, <2>1, <3>1 DEF Cycle
  <2> QED
    BY <2>1 DEF CyclesNeedARace
<1>7. EdgesUnique /\ EdgesHaveAnEvent
  BY DEF Init, EdgesUnique, EdgesHaveAnEvent
<1> QED
  BY <1>1, <1>2, <1>4, <1>6, <1>7 DEF Inv

\* Every step keeps the inductive invariant.
LEMMA NextInv == Inv /\ [Next]_vars => Inv'
<1> SUFFICES ASSUME Inv, [Next]_vars PROVE Inv'
  OBVIOUS
<1>1. ASSUME NEW h \in Posts, NEW v \in Events, Post(h, v) PROVE Inv'
  BY <1>1, PostInv
<1>2. ASSUME NEW h \in Posts, HandlerStep(h) PROVE Inv'
  <2>1. CASE PersistInbox(h)
    BY <2>1, PersistInboxInv
  <2>2. CASE RejectSelfEdge(h) \/ LockSource(h) \/ validateNoCycleTx(h) \/ MergeEdge(h)
    BY <2>2, MergeStepInv
  <2>3. CASE Commit(h)
    <3>1. post[h].pc = "commit" /\ TypeOK
      BY <2>3 DEF Commit, Inv
    <3>2. CASE Committed(h, Advance(h))
      <4>1. /\ Advance(h) \in PostState /\ InLoops(Advance(h))
            /\ Advance(h).pc \in {"lock", "done"} /\ Advance(h).event = post[h].event
        BY <3>1, AdvanceShape DEF InLoops
      <4> QED
        BY <3>1, <3>2, <4>1, CommitInv
    <3>3. CASE Committed(h, Unavailable)
      <4>1. /\ Unavailable \in PostState /\ Unavailable.pc = "done"
            /\ InLoops(Unavailable)
        BY RestShape, Resting
      <4> QED
        BY <3>1, <3>3, <4>1, CommitInv
    <3> QED
      BY <2>3, <3>2, <3>3 DEF Commit
  <2> QED
    BY <1>2, <2>1, <2>2, <2>3 DEF HandlerStep
<1>3. ASSUME NEW h \in Posts, Fail(h) PROVE Inv'
  <2>1. InboxOnly
    BY <1>3 DEF Fail, InboxOnly, Inv, TypeOK
  <2> QED
    BY <1>3, <2>1, RestInv DEF Fail
<1>4. ASSUME NEW d \in Datasets, RegisterDataset(d) PROVE Inv'
  <2>1. UNCHANGED << edges, inbox, post, unseen >> /\ known' \subseteq Datasets
    BY <1>4 DEF RegisterDataset, Inv, TypeOK
  <2>2. TypeOK'
    BY <2>1 DEF Inv, TypeOK
  <2>3. Graph' = Graph
    BY <2>1 DEF Graph
  <2> QED
    BY <2>1, <2>2, <2>3
    DEF Inv, Handlers, Exclusive, CyclesNeedARace, EdgesUnique, EdgesHaveAnEvent
<1>5. CASE UNCHANGED vars
  <2>1. UNCHANGED << known, edges, inbox, post, unseen >>
    BY <1>5 DEF vars
  <2>2. TypeOK'
    BY <2>1 DEF Inv, TypeOK
  <2>3. Graph' = Graph
    BY <2>1 DEF Graph
  <2> QED
    BY <2>1, <2>2, <2>3
    DEF Inv, Handlers, Exclusive, CyclesNeedARace, EdgesUnique, EdgesHaveAnEvent
<1> QED
  BY <1>1, <1>2, <1>3, <1>4, <1>5 DEF Next

\* Inv holds in every reachable state of the lineage merge.
LEMMA SpecInv == Spec => []Inv
<1> QED
  BY InitInv, NextInv, PTL DEF Spec

\* The loops of the handler stay inside the lists of its event, and lineage_inbox
\* keeps one event per run, for any number of handlers and any events.
THEOREM TypeCorrect == Spec => []TypeOK
<1>1. Inv => TypeOK
  BY DEF Inv
<1> QED
  BY <1>1, SpecInv, PTL

\* validateNoCycleTx with the MERGE that follows it: however many handlers merge
\* edges, a cycle within the depth of the check has an edge whose transaction
\* did not see another edge of the cycle.
THEOREM RaceNeeded == Spec => []CyclesNeedARace
<1>1. Inv => CyclesNeedARace
  BY DEF Inv
<1> QED
  BY <1>1, SpecInv, PTL

\* pg_advisory_xact_lock on the source: LINEAGE_OF edges are never duplicated,
\* though a retry of a post races the first attempt.
THEOREM EdgesSound == Spec => []EdgesUnique
<1>1. Inv => EdgesUnique
  BY DEF Inv
<1> QED
  BY <1>1, SpecInv, PTL

\* persistInbox before the merges: every LINEAGE_OF edge names a run whose event
\* is stored, wherever its handler failed.
THEOREM EdgesTraced == Spec => []EdgesHaveAnEvent
<1>1. Inv => EdgesHaveAnEvent
  BY DEF Inv
<1> QED
  BY <1>1, SpecInv, PTL

----------------------------------------------------------------------------
(* The answers *)

\* The pair (a, b) of the event of s is in graph G, or had no node for an end.
Covered(s, G, a, b) ==
    \/ << a, b >> \in s.absent
    \/ << s.event.ins[a], s.event.outs[b] >> \in G

\* The nested loops of s have passed the pair (a, b).
Passed(s, a, b) == a < s.i \/ (a = s.i /\ b < s.j)

\* With graph G, every pair that the loops of s have passed is covered, the one it
\* commits is covered or about to be, and the answer of s is true.
TruthOK(s, G) ==
    /\ s.pc \in Merging =>
          \A a \in DOMAIN s.event.ins, b \in DOMAIN s.event.outs :
              Passed(s, a, b) => Covered(s, G, a, b)
    /\ s.pc = "commit" => s.create \/ Covered(s, G, s.i, s.j)
    /\ s.status = 202 =>
          \A a \in DOMAIN s.event.ins, b \in DOMAIN s.event.outs : Covered(s, G, a, b)
    /\ s.status = 422 => Ends(s)[1] = Ends(s)[2] \/ Reaches(G, Ends(s)[2], Ends(s)[1])

Truthful == \A h \in Posts : TruthOK(post[h], Graph)

\* t agrees with s in what TruthOK looks at.
Alike(s, t) ==
    /\ t.pc = s.pc /\ t.event = s.event /\ t.i = s.i /\ t.j = s.j
    /\ t.create = s.create /\ t.absent = s.absent /\ t.status = s.status

\* LINEAGE_OF edges are not removed, so nothing that is covered is lost.
LEMMA TruthKept ==
    ASSUME NEW s, NEW t, NEW G, NEW H, G \subseteq H, Alike(s, t), TruthOK(s, G)
    PROVE  TruthOK(t, H)
<1>1. \A a, b : Covered(s, G, a, b) => Covered(t, H, a, b)
  BY DEF Covered, Alike
<1>2. \A a, b : Passed(t, a, b) => Passed(s, a, b)
  BY DEF Passed, Alike
<1>3. Ends(t) = Ends(s)
  BY DEF Ends, Alike
<1>4. Reaches(G, Ends(s)[2], Ends(s)[1]) => Reaches(H, Ends(s)[2], Ends(s)[1])
  BY ReachesMonotone
<1> QED
  BY <1>1, <1>2, <1>3, <1>4 DEF TruthOK, Alike

\* A step of handler h to state w that leaves the graph alone.
LEMMA TruthFrame ==
    ASSUME Inv, Truthful, NEW h \in Posts, NEW w,
           post' = [post EXCEPT ![h] = w], edges' = edges, TruthOK(w, Graph)
    PROVE  Truthful'
<1>1. Graph' = Graph
  BY DEF Graph
<1>2. post \in [Posts -> PostState]
  BY DEF Inv, TypeOK
<1>3. ASSUME NEW g \in Posts PROVE TruthOK(post'[g], Graph)
  BY <1>2 DEF Truthful
<1> QED
  BY <1>1, <1>3 DEF Truthful

\* A handler that is not in its loops and has no answer claims nothing, and
\* neither has one that answered 503.
LEMMA TruthNone ==
    ASSUME NEW s, NEW G, s.pc \in {"idle", "inbox", "done"}, s.status \in {NoStatus, 503}
    PROVE  TruthOK(s, G)
BY DEF TruthOK, Merging, NoStatus

\* persistInbox answers 202 itself only for an event without pairs.
LEMMA PersistInboxTruth ==
    ASSUME Inv, Truthful, NEW h \in Posts, PersistInbox(h)
    PROVE  Truthful'
<1> DEFINE v == post[h].event
<1>1. edges' = edges /\ post[h].pc = "inbox" /\ post[h] \in PostState
  BY DEF PersistInbox, Inv, TypeOK
<1>2. v \in Events
  BY <1>1 DEF Inv, Handlers, HandlerOK
<1>3. /\ v.ins \in Seq(Datasets) /\ v.outs \in Seq(Datasets)
      /\ Len(v.ins) \in Nat /\ Len(v.outs) \in Nat
      /\ DOMAIN v.ins = 1 .. Len(v.ins) /\ DOMAIN v.outs = 1 .. Len(v.outs)
  BY <1>2, EventShape
<1>4. CASE Size(v) = 0 /\ Answer(h, 202)
  <2> DEFINE w == Goto(h, "done", post[h].i, post[h].j, 202)
  <2>1. w.pc = "done" /\ w.status = 202 /\ w.event = v
    BY DEF Goto, At
  <2>2. post' = [post EXCEPT ![h] = w]
    BY <1>4 DEF Answer
  <2> HIDE DEF w
  <2>3. ASSUME NEW x \in Nat, NEW y \in Nat, x * y = 0 PROVE x = 0 \/ y = 0
    BY <2>3
  <2>4. Len(v.ins) = 0 \/ Len(v.outs) = 0
    BY <1>3, <1>4, <2>3 DEF Size
  <2>5. TruthOK(w, Graph)
    BY <1>3, <2>1, <2>4 DEF TruthOK, Merging
  <2> QED
    BY <1>1, <2>2, <2>5, TruthFrame
<1>5. CASE post' = [post EXCEPT ![h] = Goto(h, "lock", 1, 1, NoStatus)]
  <2> DEFINE w == Goto(h, "lock", 1, 1, NoStatus)
  <2>1. w.pc = "lock" /\ w.status = NoStatus /\ w.event = v /\ w.i = 1 /\ w.j = 1
    BY DEF Goto, At
  <2> HIDE DEF w
  <2>2. \A a \in DOMAIN v.ins, b \in DOMAIN v.outs : ~ Passed(w, a, b)
    BY <1>3, <2>1 DEF Passed
  <2>3. TruthOK(w, Graph)
    BY <2>1, <2>2 DEF TruthOK, NoStatus
  <2> QED
    BY <1>1, <1>5, <2>3, TruthFrame DEF w
<1>6. CASE post' = [post EXCEPT ![h] = Unavailable]
  <2>1. TruthOK(Unavailable, Graph)
    BY TruthNone DEF Unavailable, At
  <2> QED
    BY <1>1, <1>6, <2>1, TruthFrame
<1> QED
  BY <1>4, <1>5, <1>6 DEF PersistInbox

\* The statements of the transaction: 422 follows a self-edge or a walk that was
\* found, and a MERGE that creates nothing found the edge, or no node.
LEMMA MergeStepTruth ==
    ASSUME Inv, Truthful, NEW h \in Posts,
           RejectSelfEdge(h) \/ LockSource(h) \/ validateNoCycleTx(h) \/ MergeEdge(h)
    PROVE  Truthful'
<1> DEFINE s == post[h]
<1>1. /\ edges' = edges /\ s \in PostState /\ s.pc \in Merging /\ Pair(h) = Ends(s)
      /\ TruthOK(s, Graph)
  BY DEF RejectSelfEdge, LockSource, validateNoCycleTx, MergeEdge, Inv, TypeOK, Merging,
         Pair, Ends, Truthful
<1>2. CASE Answer(h, 422) /\ (Pair(h)[1] = Pair(h)[2] \/ WouldClose(h))
  <2> DEFINE w == Goto(h, "done", s.i, s.j, 422)
  <2>1. w.pc = "done" /\ w.status = 422 /\ w.event = s.event /\ w.i = s.i /\ w.j = s.j
    BY DEF Goto, At
  <2>2. post' = [post EXCEPT ![h] = w]
    BY <1>2 DEF Answer
  <2> HIDE DEF w
  <2>3. Ends(w) = Pair(h)
    BY <2>1, <1>1 DEF Ends
  <2>4. TruthOK(w, Graph)
    BY <1>2, <2>1, <2>3 DEF TruthOK, Merging, WouldClose
  <2> QED
    BY <1>1, <2>2, <2>4, TruthFrame
<1>3. ASSUME NEW pc \in {"check", "merge"}, post' = [post EXCEPT ![h].pc = pc]
      PROVE  Truthful'
  <2> DEFINE w == [s EXCEPT !.pc = pc]
  <2>1. /\ w.pc = pc /\ w.status = s.status /\ w.event = s.event /\ w.i = s.i
        /\ w.j = s.j /\ w.absent = s.absent
    BY <1>1 DEF PostState
  <2>2. post' = [post EXCEPT ![h] = w]
    BY <1>3
  <2> HIDE DEF w
  <2>3. /\ \A a, b : Covered(w, Graph, a, b) <=> Covered(s, Graph, a, b)
        /\ \A a, b : Passed(w, a, b) <=> Passed(s, a, b)
        /\ Ends(w) = Ends(s)
    BY <2>1 DEF Covered, Passed, Ends
  <2>4. TruthOK(w, Graph)
    BY <1>1, <2>1, <2>3 DEF TruthOK
  <2> QED
    BY <1>1, <2>2, <2>4, TruthFrame
<1>4. CASE MergeEdge(h)
  <2> DEFINE there == {Pair(h)[1], Pair(h)[2]} \subseteq known
             c == there /\ Pair(h) \notin Graph
             abs == s.absent \cup (IF there THEN {} ELSE {<< s.i, s.j >>})
             w == [s EXCEPT !.pc = "commit", !.create = c, !.absent = abs]
  <2>1. /\ w.pc = "commit" /\ w.status = s.status /\ w.event = s.event /\ w.i = s.i
        /\ w.j = s.j /\ w.absent = abs /\ w.create = c
    BY <1>1 DEF PostState
  <2>2. post' = [post EXCEPT ![h] = w]
    BY <1>4 DEF MergeEdge
  <2> HIDE DEF w
  <2>3. /\ \A a, b : Covered(s, Graph, a, b) => Covered(w, Graph, a, b)
        /\ \A a, b : Passed(w, a, b) <=> Passed(s, a, b)
        /\ Ends(w) = Ends(s)
    BY <2>1 DEF Covered, Passed, Ends
  <2>4. w.create \/ Covered(w, Graph, w.i, w.j)
    BY <1>1, <2>1 DEF Covered, Ends
  <2>5. TruthOK(w, Graph)
    BY <1>1, <2>1, <2>3, <2>4 DEF TruthOK
  <2> QED
    BY <1>1, <2>2, <2>5, TruthFrame
<1> QED
  BY <1>2, <1>3, <1>4 DEF RejectSelfEdge, LockSource, validateNoCycleTx

\* The end of the loop body: the pair it has merged is covered, and 202 comes
\* after the last pair.
LEMMA AdvanceTruth ==
    ASSUME Inv, NEW h \in Posts, post[h].pc = "commit", NEW G,
           \A a \in DOMAIN post[h].event.ins, b \in DOMAIN post[h].event.outs :
               Passed(post[h], a, b) => Covered(post[h], G, a, b),
           Covered(post[h], G, post[h].i, post[h].j)
    PROVE  TruthOK(Advance(h), G)
<1> DEFINE s == post[h]
           v == post[h].event
           i == post[h].i
           j == post[h].j
<1>1. /\ v \in Events /\ i \in 1 .. Len(v.ins) /\ j \in 1 .. Len(v.outs)
  BY PairShape DEF Inv, TypeOK, Merging
<1>2. /\ Len(v.ins) \in Nat /\ Len(v.outs) \in Nat
      /\ DOMAIN v.ins = 1 .. Len(v.ins) /\ DOMAIN v.outs = 1 .. Len(v.outs)
  BY <1>1, EventShape
<1>3. ASSUME NEW w, w.event = v, w.absent = s.absent, NEW a, NEW b, Covered(s, G, a, b)
      PROVE  Covered(w, G, a, b)
  BY <1>3 DEF Covered
<1>4. CASE j < Len(v.outs)
  <2> DEFINE w == Goto(h, "lock", i, j + 1, NoStatus)
  <2>1. Advance(h) = w
    BY <1>4 DEF Advance
  <2>2. /\ w.pc = "lock" /\ w.status = NoStatus /\ w.event = v /\ w.i = i /\ w.j = j + 1
        /\ w.absent = s.absent
    BY DEF Goto, At
  <2> HIDE DEF w
  <2>3. ASSUME NEW a \in DOMAIN v.ins, NEW b \in DOMAIN v.outs, Passed(w, a, b)
        PROVE  Passed(s, a, b) \/ (a = i /\ b = j)
    BY <1>1, <1>2, <2>2, <2>3 DEF Passed
  <2>4. ASSUME NEW a \in DOMAIN v.ins, NEW b \in DOMAIN v.outs, Passed(w, a, b)
        PROVE  Covered(w, G, a, b)
    BY <1>3, <2>2, <2>3, <2>4
  <2> QED
    BY <2>1, <2>2, <2>4 DEF TruthOK, NoStatus
<1>5. CASE ~ (j < Len(v.outs)) /\ i < Len(v.ins)
  <2> DEFINE w == Goto(h, "lock", i + 1, 1, NoStatus)
  <2>1. Advance(h) = w
    BY <1>5 DEF Advance
  <2>2. /\ w.pc = "lock" /\ w.status = NoStatus /\ w.event = v /\ w.i = i + 1 /\ w.j = 1
        /\ w.absent = s.absent
    BY DEF Goto, At
  <2> HIDE DEF w
  <2>3. ASSUME NEW a \in DOMAIN v.ins, NEW b \in DOMAIN v.outs, Passed(w, a, b)
        PROVE  Passed(s, a, b) \/ (a = i /\ b = j)
    BY <1>1, <1>2, <1>5, <2>2, <2>3 DEF Passed
  <2>4. ASSUME NEW a \in DOMAIN v.ins, NEW b \in DOMAIN v.outs, Passed(w, a, b)
        PROVE  Covered(w, G, a, b)
    BY <1>3, <2>2, <2>3, <2>4
  <2> QED
    BY <2>1, <2>2, <2>4 DEF TruthOK, NoStatus
<1>6. CASE ~ (j < Len(v.outs)) /\ ~ (i < Len(v.ins))
  <2> DEFINE w == Goto(h, "done", i, j, 202)
  <2>1. Advance(h) = w
    BY <1>6 DEF Advance
  <2>2. w.pc = "done" /\ w.status = 202 /\ w.event = v /\ w.absent = s.absent
    BY DEF Goto, At
  <2> HIDE DEF w
  <2>3. ASSUME NEW a \in DOMAIN v.ins, NEW b \in DOMAIN v.outs
        PROVE  Passed(s, a, b) \/ (a = i /\ b = j)
    BY <1>1, <1>2, <1>6 DEF Passed
  <2>4. ASSUME NEW a \in DOMAIN v.ins, NEW b \in DOMAIN v.outs
        PROVE  Covered(w, G, a, b)
    BY <1>3, <2>2, <2>3
  <2> QED
    BY <2>1, <2>2, <2>4 DEF TruthOK, Merging
<1> QED
  BY <1>4, <1>5, <1>6

\* A commit: its pair is in the graph afterwards, or had no node, or was there.
LEMMA CommitTruth ==
    ASSUME Inv, Truthful, NEW h \in Posts, Commit(h)
    PROVE  Truthful'
<1> DEFINE s == post[h]
           new == IF s.create THEN {Pair(h)} ELSE {}
           rec(e) == [src |-> e[1], tgt |-> e[2], run |-> s.event.run, copy |-> Copies(e) + 1]
<1>1. /\ s.pc = "commit" /\ s.pc \in Merging /\ TruthOK(s, Graph) /\ TypeOK
      /\ post \in [Posts -> PostState]
  BY DEF Commit, Truthful, Inv, TypeOK, Merging
<1>2. Pair(h) = Ends(s) /\ Pair(h) = << Pair(h)[1], Pair(h)[2] >>
  BY <1>1, PairShape DEF Pair, Ends
<1>3. PICK mine : Committed(h, mine) /\ mine \in {Advance(h), Unavailable}
  BY DEF Commit
<1>4. edges' = edges \cup {rec(e) : e \in new}
  BY <1>3 DEF Committed
<1>5. Graph \subseteq Graph' /\ new \subseteq Graph'
  <2>1. edges \subseteq edges'
    BY <1>4
  <2>2. Graph \subseteq Graph'
    BY <2>1 DEF Graph
  <2>3. ASSUME NEW e \in new PROVE e \in Graph'
    <3>1. e = Pair(h)
      OBVIOUS
    <3>2. rec(e) \in edges'
      BY <1>4
    <3>3. << rec(e).src, rec(e).tgt >> = e
      BY <1>2, <3>1
    <3> QED
      BY <3>2, <3>3 DEF Graph
  <2> QED
    BY <2>2, <2>3
<1>6. post' = [g \in Posts |->
                  IF g = h THEN mine
                  ELSE IF post[g].pc \in {"merge", "commit"}
                  THEN [post[g] EXCEPT !.missed = @ \cup new]
                  ELSE post[g]]
  BY <1>3 DEF Committed
<1>7. ASSUME NEW g \in Posts \ {h} PROVE TruthOK(post'[g], Graph')
  <2>1. post[g] \in PostState
    BY <1>1
  <2>2. Alike(post[g], post'[g])
    BY <1>6, <2>1 DEF Alike, PostState
  <2>3. TruthOK(post[g], Graph)
    BY DEF Truthful
  <2> QED
    BY <1>5, <2>2, <2>3, TruthKept
<1>8. TruthOK(mine, Graph')
  <2>1. CASE mine = Advance(h)
    <3>1. \A a, b : Covered(s, Graph, a, b) => Covered(s, Graph', a, b)
      BY <1>5 DEF Covered
    <3>2. \A a \in DOMAIN s.event.ins, b \in DOMAIN s.event.outs :
              Passed(s, a, b) => Covered(s, Graph', a, b)
      BY <1>1, <3>1 DEF TruthOK
    <3>3. Covered(s, Graph', s.i, s.j)
      BY <1>1, <1>2, <1>5, <3>1 DEF TruthOK, Covered, Ends
    <3> QED
      BY <1>1, <2>1, <3>2, <3>3, AdvanceTruth
  <2>2. CASE mine = Unavailable
    BY <2>2, TruthNone DEF Unavailable, At
  <2> QED
    BY <1>3, <2>1, <2>2
<1>9. post'[h] = mine
  BY <1>6
<1> QED
  BY <1>7, <1>8, <1>9 DEF Truthful

\* The answers are true in every reachable state.
LEMMA SpecTruth == Spec => [](Inv /\ Truthful)
<1>1. Init => Truthful
  <2> SUFFICES ASSUME Init, NEW h \in Posts PROVE TruthOK(post[h], Graph)
    BY DEF Truthful
  <2>1. post[h] = Unused
    BY DEF Init
  <2>2. Unused.pc = "idle" /\ Unused.status = NoStatus
    BY DEF Unused, At
  <2> QED
    BY <2>1, <2>2, TruthNone
<1>2. Inv /\ Truthful /\ [Next]_vars => Truthful'
  <2> SUFFICES ASSUME Inv, Truthful, [Next]_vars PROVE Truthful'
    OBVIOUS
  <2>1. ASSUME NEW h \in Posts, NEW v \in Events, Post(h, v) PROVE Truthful'
    <3> DEFINE w == Fresh(v)
    <3>1. TruthOK(w, Graph)
      BY TruthNone DEF Fresh, At
    <3>2. post' = [post EXCEPT ![h] = w] /\ edges' = edges
      BY <2>1 DEF Post
    <3> HIDE DEF w
    <3> QED
      BY <3>1, <3>2, TruthFrame
  <2>2. ASSUME NEW h \in Posts, HandlerStep(h) PROVE Truthful'
    BY <2>2, PersistInboxTruth, MergeStepTruth, CommitTruth DEF HandlerStep
  <2>3. ASSUME NEW h \in Posts, Fail(h) PROVE Truthful'
    <3>1. TruthOK(Unavailable, Graph)
      BY TruthNone DEF Unavailable, At
    <3>2. post' = [post EXCEPT ![h] = Unavailable] /\ edges' = edges
      BY <2>3 DEF Fail
    <3> QED
      BY <3>1, <3>2, TruthFrame
  <2>4. CASE UNCHANGED << edges, post >>
    BY <2>4 DEF Truthful, Graph
  <2> QED
    BY <2>1, <2>2, <2>3, <2>4 DEF Next, RegisterDataset, vars
<1> QED
  BY <1>1, <1>2, SpecInv, PTL DEF Spec

\* The answers of POST /v1/lineage: after 202 every edge of the event is in the
\* graph, or its datasets had no node, and 422 names an edge that would close a
\* cycle, though other handlers commit between any two statements.
THEOREM AnswersHold == Spec => []AnswersAreTrue
<1>1. Inv /\ Truthful => AnswersAreTrue
  <2> SUFFICES ASSUME Truthful, NEW h \in Posts
               PROVE  /\ post[h].status = 202 =>
                            \A i \in DOMAIN post[h].event.ins, j \in DOMAIN post[h].event.outs :
                                \/ << i, j >> \in post[h].absent
                                \/ << post[h].event.ins[i], post[h].event.outs[j] >> \in Graph
                      /\ post[h].status = 422 =>
                            \/ Pair(h)[1] = Pair(h)[2]
                            \/ Reaches(Graph, Pair(h)[2], Pair(h)[1])
    BY DEF AnswersAreTrue
  <2>1. TruthOK(post[h], Graph) /\ Pair(h) = Ends(post[h])
    BY DEF Truthful, Pair, Ends
  <2> QED
    BY <2>1 DEF TruthOK, Covered
<1> QED
  BY <1>1, SpecTruth, PTL
=============================================================================
