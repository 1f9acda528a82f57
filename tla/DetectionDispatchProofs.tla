---------------------- MODULE DetectionDispatchProofs ----------------------
(***************************************************************************)
(* Safety of the detection pipeline for any number of replicas, workers,   *)
(* messages, webhook requests and metadata locations, and any capacity of  *)
(* the channel.                                                            *)
(***************************************************************************)
EXTENDS DetectionDispatch, TLAPS

----------------------------------------------------------------------------
(* The inductive invariant *)

\* The scan of l left its run, or an error in the log.
Recorded(l) == l \in runs \/ \E e \in excuses : e[1] = l

\* The records of its message that a consumer no longer has to send are in S.
SentOK(c, S) ==
    \A m \in c.msg :
        /\ Len(c.todo) <= Len(RecordsOf[m])
        /\ \A i \in DOMAIN RecordsOf[m] :
              i <= Len(RecordsOf[m]) - Len(c.todo) => << m, i >> \in S

ConsumerOK == \A r \in Replicas : SentOK(consumer[r], sent)

\* What a pool takes for seen is being scanned by it, or was recorded.
SeenOK ==
    \A r \in Replicas : \A l \in seen[r] : Scanning(r, l) \/ Recorded(l)

TakenOK ==
    \A l \in taken : (\E r \in Replicas : Scanning(r, l)) \/ Recorded(l)

\* A worker about to post alerts has the run on record, and nobody posted yet ...
AlertOK ==
    \A r \in Replicas, w \in Workers :
        worker[r][w].pc = "alert" =>
            worker[r][w].hit.loc \in runs /\ alerts[worker[r][w].hit.loc] = 0

\* ... and it is the only one, on any replica.
OneAlert ==
    \A q, r \in Replicas, v, w \in Workers :
        /\ worker[q][v].pc = "alert" /\ worker[r][w].pc = "alert"
        /\ worker[q][v].hit.loc = worker[r][w].hit.loc
        => q = r /\ v = w

Inv ==
    /\ TypeOK
    /\ DeletedWasSent
    /\ ConsumerOK
    /\ SeenOK
    /\ TakenOK
    /\ AlertOK
    /\ OneAlert
    /\ AlertedOnce

WorkerState == [pc : {"idle", "load", "emit", "emit_skipped", "alert"}, hit : Hit]
Delivery == [pc : {"none", "send"}, at : SUBSET Replicas, hit : Hit]
Received == [msg : SUBSET Messages, todo : Seq(Locations)]

----------------------------------------------------------------------------
(* Types *)

\* The values a worker, a webhook request and a consumer rest at.
LEMMA RestShape ==
    /\ NoHit \in Hit
    /\ Idle \in WorkerState /\ Idle.pc = "idle"
    /\ NoDelivery \in Delivery /\ NoMessage \in Received
<1>1. SomeLocation \in Locations
  BY LocationsAssumption DEF SomeLocation
<1>2. NoHit \in Hit
  BY <1>1 DEF NoHit, Hit
<1>3. Idle \in WorkerState /\ Idle.pc = "idle"
  BY <1>2 DEF Idle, WorkerState
<1>4. NoDelivery \in Delivery
  BY <1>2 DEF NoDelivery, Delivery
<1>5. NoMessage \in Received
  <2>1. << >> \in Seq(Locations)
    OBVIOUS
  <2> QED
    BY <2>1 DEF NoMessage, Received
<1> QED
  BY <1>2, <1>3, <1>4, <1>5

\* A send into a channel that has room.
LEMMA SendType ==
    ASSUME TypeOK, NEW r \in Replicas, NEW hit \in Hit, Send(r, hit)
    PROVE  /\ channel' \in [Replicas -> Seq(Hit)]
           /\ \A q \in Replicas : Len(channel'[q]) <= Capacity
<1>1. /\ channel \in [Replicas -> Seq(Hit)] /\ Len(channel[r]) < Capacity
      /\ \A q \in Replicas : Len(channel[q]) <= Capacity
      /\ Capacity \in Nat
  BY CapacityAssumption DEF TypeOK, Send, Room
<1> DEFINE c == Append(channel[r], hit)
<1>2. c \in Seq(Hit) /\ Len(c) = Len(channel[r]) + 1 /\ Len(channel[r]) \in Nat
  BY <1>1
<1>3. channel' = [channel EXCEPT ![r] = c]
  BY DEF Send
<1> HIDE DEF c
<1> QED
  BY <1>1, <1>2, <1>3

\* A receive from a channel that is not empty.
LEMMA ReceiveType ==
    ASSUME TypeOK, NEW r \in Replicas, channel[r] # << >>,
           channel' = [channel EXCEPT ![r] = Tail(channel[r])]
    PROVE  /\ Head(channel[r]) \in Hit
           /\ channel' \in [Replicas -> Seq(Hit)]
           /\ \A q \in Replicas : Len(channel'[q]) <= Capacity
<1>1. /\ channel \in [Replicas -> Seq(Hit)] /\ channel[r] \in Seq(Hit)
      /\ \A q \in Replicas : Len(channel[q]) <= Capacity
      /\ Capacity \in Nat
  BY CapacityAssumption DEF TypeOK
<1> DEFINE c == Tail(channel[r])
<1>2. c \in Seq(Hit) /\ Len(c) = Len(channel[r]) - 1 /\ Len(channel[r]) \in Nat
      /\ Head(channel[r]) \in Hit
  BY <1>1
<1> HIDE DEF c
<1>3. channel' = [channel EXCEPT ![r] = c]
  BY DEF c
<1> QED
  BY <1>1, <1>2, <1>3

\* One worker goes to state z.
LEMMA WorkerSet ==
    ASSUME TypeOK, NEW r \in Replicas, NEW w \in Workers, NEW z \in WorkerState,
           worker' = [worker EXCEPT ![r][w] = z]
    PROVE  /\ worker' \in [Replicas -> [Workers -> WorkerState]]
           /\ worker'[r][w] = z
           /\ \A q \in Replicas, v \in Workers :
                 q # r \/ v # w => worker'[q][v] = worker[q][v]
<1>1. worker \in [Replicas -> [Workers -> WorkerState]]
  BY DEF TypeOK, WorkerState
<1>2. worker[r] \in [Workers -> WorkerState]
  BY <1>1
<1> DEFINE f == [worker[r] EXCEPT ![w] = z]
<1>3. f \in [Workers -> WorkerState] /\ f[w] = z /\ \A v \in Workers : v # w => f[v] = worker[r][v]
  BY <1>2
<1>4. worker' = [worker EXCEPT ![r] = f]
  OBVIOUS
<1> HIDE DEF f
<1> QED
  BY <1>1, <1>3, <1>4

\* Goto keeps the hit of the worker.
LEMMA GotoSet ==
    ASSUME TypeOK, NEW r \in Replicas, NEW w \in Workers,
           NEW step \in {"emit", "emit_skipped", "alert"}, Goto(r, w, step)
    PROVE  \E z \in WorkerState :
               /\ worker' = [worker EXCEPT ![r][w] = z]
               /\ z.pc = step /\ z.hit = worker[r][w].hit
<1> DEFINE z == [worker[r][w] EXCEPT !.pc = step]
<1>1. worker[r][w] \in WorkerState
  BY DEF TypeOK, WorkerState
<1>2. z \in WorkerState /\ z.pc = step /\ z.hit = worker[r][w].hit
  BY <1>1 DEF WorkerState
<1>3. worker' = [worker EXCEPT ![r][w] = z]
  BY DEF Goto
<1> QED
  BY <1>2, <1>3

----------------------------------------------------------------------------
(* Initial states *)

\* Nothing is received, scanned or recorded yet.
LEMMA InitInv == Init => Inv
<1> SUFFICES ASSUME Init PROVE Inv
  OBVIOUS
<1> USE DEF Init
<1>1. TypeOK
  <2>1. channel \in [Replicas -> Seq(Hit)] /\ \A r \in Replicas : Len(channel[r]) <= Capacity
    <3>1. << >> \in Seq(Hit) /\ Len(<< >>) = 0
      OBVIOUS
    <3> QED
      BY <3>1, CapacityAssumption
  <2>2. /\ webhook \in [Webhooks -> Delivery]
        /\ consumer \in [Replicas -> Received]
        /\ worker \in [Replicas -> [Workers -> WorkerState]]
    BY RestShape
  <2>3. /\ sqs \in [Messages -> {"visible", "inflight", "deleted"}]
        /\ seen \in [Replicas -> SUBSET Locations]
        /\ alerts \in [Locations -> Nat]
        /\ runs \subseteq Locations /\ sent \subseteq Messages \X Nat /\ taken \subseteq Locations
        /\ excuses \subseteq Locations \X {"failed", "not_loaded"}
    OBVIOUS
  <2> QED
    BY <2>1, <2>2, <2>3 DEF TypeOK, Delivery, Received, WorkerState
<1>2. DeletedWasSent
  BY DEF DeletedWasSent
<1>3. ConsumerOK
  BY DEF ConsumerOK, SentOK, NoMessage
<1>4. SeenOK /\ TakenOK
  BY DEF SeenOK, TakenOK
<1>5. \A r \in Replicas, w \in Workers : worker[r][w].pc = "idle"
  BY RestShape
<1>6. AlertOK /\ OneAlert
  BY <1>5 DEF AlertOK, OneAlert
<1>7. AlertedOnce
  BY DEF AlertedOnce
<1> QED
  BY <1>1, <1>2, <1>3, <1>4, <1>6, <1>7 DEF Inv

----------------------------------------------------------------------------
(* The sources *)

\* What the pool and the database keep is left alone.
PoolStays == UNCHANGED << seen, worker, runs, alerts, taken, excuses >>

\* A step of a source: the pool's part of the invariant is not touched.
LEMMA SourceFrame ==
    ASSUME Inv, PoolStays, TypeOK', DeletedWasSent', ConsumerOK'
    PROVE  Inv'
<1>1. \A r, l : Scanning(r, l)' <=> Scanning(r, l)
  BY DEF PoolStays, Scanning
<1>2. \A l : Recorded(l)' <=> Recorded(l)
  BY DEF PoolStays, Recorded
<1>3. SeenOK' /\ TakenOK'
  BY <1>1, <1>2 DEF PoolStays, SeenOK, TakenOK, Inv
<1>4. AlertOK' /\ OneAlert' /\ AlertedOnce'
  BY DEF PoolStays, AlertOK, OneAlert, AlertedOnce, Inv
<1> QED
  BY <1>3, <1>4 DEF Inv

\* Polls and webhook deliveries: the queue and its consumers are left alone too.
LEMMA HitInv ==
    ASSUME Inv, PoolStays, UNCHANGED << sqs, consumer, sent >>,
           webhook' \in [Webhooks -> Delivery],
           UNCHANGED channel \/ \E r \in Replicas, h \in Hit : Send(r, h)
    PROVE  Inv'
<1>1. /\ channel' \in [Replicas -> Seq(Hit)]
      /\ \A q \in Replicas : Len(channel'[q]) <= Capacity
  BY SendType DEF Inv, TypeOK
<1>2. TypeOK'
  BY <1>1 DEF Inv, TypeOK, PoolStays, Delivery
<1>3. DeletedWasSent' /\ ConsumerOK'
  BY DEF Inv, DeletedWasSent, ConsumerOK
<1> QED
  BY <1>2, <1>3, SourceFrame

\* pollOnce and ServeWebhook.
LEMMA PollWebhookInv ==
    ASSUME Inv,
           \/ \E r \in Replicas, l \in Locations : PollOnce(r, l)
           \/ \E q \in Webhooks :
                 \/ \E r \in Replicas, l \in Locations : WebhookArrive(q, r, l)
                 \/ WebhookCancel(q)
                 \/ WebhookSend(q)
    PROVE  Inv'
<1>1. webhook \in [Webhooks -> Delivery]
  BY DEF Inv, TypeOK, Delivery
<1>2. ASSUME NEW r \in Replicas, NEW l \in Locations, PollOnce(r, l) PROVE Inv'
  <2>1. [loc |-> l, named |-> FALSE] \in Hit
    BY DEF Hit
  <2>2. /\ PoolStays /\ UNCHANGED << sqs, consumer, sent >> /\ webhook' \in [Webhooks -> Delivery]
        /\ Send(r, [loc |-> l, named |-> FALSE])
    BY <1>1, <1>2 DEF PollOnce, PoolStays, sources
  <2> QED
    BY <2>1, <2>2, HitInv
<1>3. ASSUME NEW q \in Webhooks, NEW r \in Replicas, NEW l \in Locations, WebhookArrive(q, r, l)
      PROVE  Inv'
  <2> DEFINE d == [pc |-> "send", at |-> {r}, hit |-> [loc |-> l, named |-> TRUE]]
  <2>1. d \in Delivery
    BY DEF Delivery, Hit
  <2>2. /\ PoolStays /\ UNCHANGED << sqs, consumer, sent, channel >>
        /\ webhook' = [webhook EXCEPT ![q] = d]
    BY <1>3 DEF WebhookArrive, PoolStays
  <2> HIDE DEF d
  <2> QED
    BY <1>1, <2>1, <2>2, HitInv
<1>4. ASSUME NEW q \in Webhooks, WebhookCancel(q) PROVE Inv'
  <2>1. /\ PoolStays /\ UNCHANGED << sqs, consumer, sent, channel >>
        /\ webhook' \in [Webhooks -> Delivery]
    BY <1>1, <1>4, RestShape DEF WebhookCancel, PoolStays
  <2> QED
    BY <2>1, HitInv
<1>5. ASSUME NEW q \in Webhooks, WebhookSend(q) PROVE Inv'
  <2>1. /\ PoolStays /\ UNCHANGED << sqs, consumer, sent >>
        /\ webhook' \in [Webhooks -> Delivery]
    BY <1>1, <1>5, RestShape DEF WebhookSend, PoolStays
  <2>2. \E r \in Replicas, h \in Hit : Send(r, h)
    <3>1. webhook[q] \in Delivery
      BY <1>1
    <3>2. webhook[q].at \subseteq Replicas /\ webhook[q].hit \in Hit
      BY <3>1 DEF Delivery
    <3> QED
      BY <1>5, <3>2 DEF WebhookSend
  <2> QED
    BY <2>1, <2>2, HitInv
<1> QED
  BY <1>2, <1>3, <1>4, <1>5

\* The steps of SQS and of a consumer that send nothing.
LEMMA MessageInv ==
    ASSUME Inv,
           \/ \E m \in Messages : VisibilityTimeout(m)
           \/ \E r \in Consumers :
                 (\E m \in Messages : ReceiveMessage(r, m)) \/ DeleteMessage(r)
    PROVE  Inv'
<1>1. /\ sqs \in [Messages -> {"visible", "inflight", "deleted"}]
      /\ consumer \in [Replicas -> Received] /\ Consumers \subseteq Replicas
  BY ConsumersAssumption DEF Inv, TypeOK, Received
<1>2. /\ PoolStays /\ UNCHANGED << webhook, channel, sent >>
  BY DEF VisibilityTimeout, ReceiveMessage, DeleteMessage, PoolStays
<1>3. ASSUME sqs' \in [Messages -> {"visible", "inflight", "deleted"}],
             consumer' \in [Replicas -> Received]
      PROVE  TypeOK'
  BY <1>2, <1>3 DEF Inv, TypeOK, PoolStays, Received
<1>4. ASSUME NEW m \in Messages, VisibilityTimeout(m) PROVE Inv'
  <2>1. sqs' = [sqs EXCEPT ![m] = "visible"] /\ consumer' = consumer
    BY <1>4 DEF VisibilityTimeout
  <2>2. TypeOK'
    BY <1>1, <1>3, <2>1
  <2>3. DeletedWasSent' /\ ConsumerOK'
    BY <1>1, <1>2, <2>1 DEF Inv, DeletedWasSent, ConsumerOK
  <2> QED
    BY <1>2, <2>2, <2>3, SourceFrame
<1>5. ASSUME NEW r \in Consumers, NEW m \in Messages, ReceiveMessage(r, m) PROVE Inv'
  <2> DEFINE c == [msg |-> {m}, todo |-> RecordsOf[m]]
  <2>1. /\ sqs' = [sqs EXCEPT ![m] = "inflight"]
        /\ consumer' = [consumer EXCEPT ![r] = c] \/ consumer' = consumer
    BY <1>5 DEF ReceiveMessage
  <2>2. RecordsOf[m] \in Seq(Locations)
    BY RecordsAssumption
  <2>3. c \in Received /\ c.msg = {m} /\ c.todo = RecordsOf[m]
    BY <2>2 DEF Received
  <2> HIDE DEF c
  <2>4. TypeOK'
    BY <1>1, <1>3, <2>1, <2>3
  <2>5. DeletedWasSent'
    BY <1>1, <1>2, <2>1 DEF Inv, DeletedWasSent
  <2>6. SentOK(c, sent)
    BY <2>2, <2>3 DEF SentOK
  <2>7. ConsumerOK'
    BY <1>1, <1>2, <2>1, <2>6 DEF Inv, ConsumerOK
  <2> QED
    BY <1>2, <2>4, <2>5, <2>7, SourceFrame
<1>6. ASSUME NEW r \in Consumers, DeleteMessage(r) PROVE Inv'
  <2>1. /\ \/ sqs' = [m \in Messages |-> IF m \in consumer[r].msg THEN "deleted" ELSE sqs[m]]
           \/ sqs' = sqs
        /\ consumer' = [consumer EXCEPT ![r] = NoMessage]
        /\ consumer[r].todo = << >>
    BY <1>6 DEF DeleteMessage
  <2>2. NoMessage.msg = {} /\ NoMessage \in Received
    BY RestShape DEF NoMessage
  <2>3. TypeOK'
    BY <1>1, <1>3, <2>1, <2>2
  <2>4. ASSUME NEW m \in consumer[r].msg, m \in Messages, NEW i \in DOMAIN RecordsOf[m]
        PROVE  << m, i >> \in sent
    <3>1. RecordsOf[m] \in Seq(Locations)
      BY <2>4, RecordsAssumption
    <3>2. i <= Len(RecordsOf[m]) - Len(consumer[r].todo)
      BY <2>1, <3>1
    <3> QED
      BY <1>1, <3>2 DEF Inv, ConsumerOK, SentOK
  <2>5. DeletedWasSent'
    BY <1>1, <1>2, <2>1, <2>4 DEF Inv, DeletedWasSent
  <2>6. SentOK(NoMessage, sent)
    BY <2>2 DEF SentOK
  <2>7. ConsumerOK'
    BY <1>1, <1>2, <2>1, <2>6 DEF Inv, ConsumerOK
  <2> QED
    BY <1>2, <2>3, <2>5, <2>7, SourceFrame
<1> QED
  BY <1>4, <1>5, <1>6

\* A consumer sends the next record of its message.
LEMMA ConsumerSendInv ==
    ASSUME Inv, NEW r \in Consumers, ConsumerSend(r)
    PROVE  Inv'
<1> DEFINE c == consumer[r]
           d == [consumer[r] EXCEPT !.todo = Tail(consumer[r].todo)]
           at(m) == Len(RecordsOf[m]) - Len(c.todo) + 1
<1>1. /\ consumer \in [Replicas -> Received] /\ r \in Replicas /\ c \in Received
      /\ sent \subseteq Messages \X Nat
  BY ConsumersAssumption DEF Inv, TypeOK, Received
<1>2. /\ PoolStays /\ UNCHANGED << sqs, webhook >>
      /\ c.todo # << >>
      /\ Send(r, [loc |-> Head(c.todo), named |-> FALSE])
      /\ consumer' = [consumer EXCEPT ![r] = d]
      /\ sent' = sent \cup {<< m, at(m) >> : m \in c.msg}
  BY DEF ConsumerSend, PoolStays
<1>3. /\ c.todo \in Seq(Locations) /\ c.msg \subseteq Messages
      /\ Head(c.todo) \in Locations
      /\ Tail(c.todo) \in Seq(Locations) /\ Len(Tail(c.todo)) = Len(c.todo) - 1
      /\ Len(c.todo) \in Nat
  <2>1. c.todo \in Seq(Locations) /\ c.msg \subseteq Messages
    BY <1>1 DEF Received
  <2> QED
    BY <1>2, <2>1
<1>4. d \in Received /\ d.msg = c.msg /\ d.todo = Tail(c.todo)
  BY <1>1, <1>3 DEF Received
<1>5. \A m \in c.msg : Len(RecordsOf[m]) \in Nat /\ at(m) \in Nat /\ Len(c.todo) <= Len(RecordsOf[m])
                       /\ DOMAIN RecordsOf[m] = 1 .. Len(RecordsOf[m])
  <2> SUFFICES ASSUME NEW m \in c.msg
               PROVE  /\ Len(RecordsOf[m]) \in Nat /\ at(m) \in Nat
                      /\ Len(c.todo) <= Len(RecordsOf[m])
                      /\ DOMAIN RecordsOf[m] = 1 .. Len(RecordsOf[m])
    OBVIOUS
  <2>1. RecordsOf[m] \in Seq(Locations)
    BY <1>3, RecordsAssumption
  <2>2. Len(c.todo) <= Len(RecordsOf[m])
    BY <1>1 DEF Inv, ConsumerOK, SentOK
  <2> QED
    BY <1>3, <2>1, <2>2
<1> HIDE DEF d
<1>6. sent \subseteq sent' /\ sent' \subseteq Messages \X Nat
  <2>1. ASSUME NEW m \in c.msg PROVE << m, at(m) >> \in Messages \X Nat
    BY <1>3, <1>5
  <2> HIDE DEF at
  <2> QED
    BY <1>1, <1>2, <2>1
<1>7. SentOK(d, sent')
  <2> SUFFICES ASSUME NEW m \in c.msg
               PROVE  /\ Len(d.todo) <= Len(RecordsOf[m])
                      /\ \A i \in DOMAIN RecordsOf[m] :
                            i <= Len(RecordsOf[m]) - Len(d.todo) => << m, i >> \in sent'
    BY <1>4 DEF SentOK
  <2>1. SentOK(c, sent)
    BY <1>1 DEF Inv, ConsumerOK
  <2>2. ASSUME NEW i \in DOMAIN RecordsOf[m], i <= Len(RecordsOf[m]) - Len(d.todo)
        PROVE  << m, i >> \in sent'
    <3>1. i <= Len(RecordsOf[m]) - Len(c.todo) \/ i = at(m)
      <4>1. ASSUME NEW a \in Nat, NEW b \in Nat, NEW k \in 1 .. a, k <= a - (b - 1)
            PROVE  k <= a - b \/ k = a - b + 1
        BY <4>1
      <4>2. i \in 1 .. Len(RecordsOf[m]) /\ Len(RecordsOf[m]) \in Nat
        BY <1>5
      <4>3. i <= Len(RecordsOf[m]) - (Len(c.todo) - 1)
        BY <1>3, <1>4, <2>2
      <4> QED
        BY <1>3, <4>1, <4>2, <4>3
    <3>2. i <= Len(RecordsOf[m]) - Len(c.todo) => << m, i >> \in sent
      BY <2>1 DEF SentOK
    <3> QED
      BY <1>2, <1>6, <3>1, <3>2
  <2>3. Len(d.todo) <= Len(RecordsOf[m])
    BY <1>3, <1>4, <1>5
  <2> QED
    BY <2>2, <2>3
<1>8. ConsumerOK'
  <2>1. ASSUME NEW q \in Replicas PROVE SentOK(consumer'[q], sent')
    <3>1. CASE q = r
      BY <1>1, <1>2, <1>7, <3>1
    <3>2. CASE q # r
      <4>1. consumer'[q] = consumer[q] /\ SentOK(consumer[q], sent)
        BY <1>1, <1>2, <3>2 DEF Inv, ConsumerOK
      <4> QED
        BY <1>6, <4>1 DEF SentOK
    <3> QED
      BY <3>1, <3>2
  <2> QED
    BY <2>1 DEF ConsumerOK
<1>9. TypeOK'
  <2>1. [loc |-> Head(c.todo), named |-> FALSE] \in Hit
    BY <1>3 DEF Hit
  <2>2. /\ channel' \in [Replicas -> Seq(Hit)]
        /\ \A q \in Replicas : Len(channel'[q]) <= Capacity
    <3>1. TypeOK
      BY DEF Inv
    <3> QED
      BY <1>1, <1>2, <2>1, <3>1, SendType
  <2>3. consumer' \in [Replicas -> Received]
    BY <1>1, <1>2, <1>4
  <2> QED
    BY <1>2, <1>6, <2>2, <2>3 DEF Inv, TypeOK, PoolStays, Received
<1>10. DeletedWasSent'
  BY <1>2, <1>6 DEF Inv, DeletedWasSent
<1> QED
  BY <1>2, <1>8, <1>9, <1>10, SourceFrame

----------------------------------------------------------------------------
(* The pool *)

\* Worker w of replica r goes to state z, and nothing else of the pool's part
\* but what the database and the log keep.
Works(r, w, z) ==
    /\ worker' = [worker EXCEPT ![r][w] = z]
    /\ runs \subseteq runs' /\ runs' \subseteq Locations
    /\ excuses \subseteq excuses' /\ excuses' \subseteq Locations \X {"failed", "not_loaded"}
    /\ UNCHANGED << sqs, webhook, consumer, sent >>

\* The scan goes on with its location, or has left its record.
Accounts(r, w, z) ==
    LET l == worker[r][w].hit.loc IN
    worker[r][w].pc # "idle" =>
        \/ z.pc # "idle" /\ z.hit.loc = l
        \/ l \in runs' \/ \E e \in excuses' : e[1] = l

\* Such a step moves this worker only.
LEMMA WorksShape ==
    ASSUME TypeOK, NEW r \in Replicas, NEW w \in Workers, NEW z \in WorkerState,
           Works(r, w, z)
    PROVE  /\ worker' \in [Replicas -> [Workers -> WorkerState]]
           /\ worker'[r][w] = z
           /\ \A q \in Replicas, v \in Workers :
                 q # r \/ v # w => worker'[q][v] = worker[q][v]
BY WorkerSet DEF Works

\* Under such a step no scan is lost.
LEMMA ScanKept ==
    ASSUME TypeOK, NEW r \in Replicas, NEW w \in Workers, NEW z \in WorkerState,
           Works(r, w, z), Accounts(r, w, z)
    PROVE  /\ \A l : Recorded(l) => Recorded(l)'
           /\ \A q \in Replicas : \A l : Scanning(q, l) => Scanning(q, l)' \/ Recorded(l)'
<1>1. \A l : Recorded(l) => Recorded(l)'
  BY DEF Recorded, Works
<1>2. /\ worker'[r][w] = z
      /\ \A q \in Replicas, v \in Workers : q # r \/ v # w => worker'[q][v] = worker[q][v]
  BY WorksShape
<1>3. ASSUME NEW q \in Replicas, NEW l, Scanning(q, l)
      PROVE  Scanning(q, l)' \/ Recorded(l)'
  <2>1. PICK v \in Workers : worker[q][v].pc # "idle" /\ worker[q][v].hit.loc = l
    BY <1>3 DEF Scanning
  <2>2. CASE q # r \/ v # w
    BY <1>2, <2>1, <2>2 DEF Scanning
  <2>3. CASE q = r /\ v = w
    BY <1>2, <2>1, <2>3 DEF Scanning, Recorded, Accounts
  <2> QED
    BY <2>2, <2>3
<1> QED
  BY <1>1, <1>3

\* A step of a worker other than Take: it accounts for its scan; it is about to
\* alert only if it has just inserted the run; and it alerts only then.
LEMMA ScanFrame ==
    ASSUME Inv, NEW r \in Replicas, NEW w \in Workers, NEW z \in WorkerState,
           Works(r, w, z), Accounts(r, w, z),
           UNCHANGED << channel, seen, taken >>,
           z.pc = "alert" => z.hit.loc \notin runs /\ z.hit.loc \in runs',
           \/ UNCHANGED alerts
           \/ /\ worker[r][w].pc = "alert" /\ z.pc = "idle"
              /\ alerts' = [alerts EXCEPT ![worker[r][w].hit.loc] = @ + 1]
    PROVE  Inv'
<1> DEFINE l == worker[r][w].hit.loc
<1>1. /\ TypeOK /\ worker[r][w] \in WorkerState /\ l \in Locations
      /\ alerts \in [Locations -> Nat]
  <2>1. TypeOK /\ worker[r][w] \in WorkerState /\ alerts \in [Locations -> Nat]
    BY DEF Inv, TypeOK, WorkerState
  <2> QED
    BY <2>1 DEF WorkerState, Hit
<1>2. /\ worker' \in [Replicas -> [Workers -> WorkerState]]
      /\ worker'[r][w] = z
      /\ \A q \in Replicas, v \in Workers : q # r \/ v # w => worker'[q][v] = worker[q][v]
  BY <1>1, WorksShape
<1>3. alerts' \in [Locations -> Nat]
  BY <1>1
<1>4. TypeOK'
  BY <1>2, <1>3 DEF Inv, TypeOK, Works, WorkerState
<1>5. DeletedWasSent' /\ ConsumerOK'
  BY DEF Inv, DeletedWasSent, ConsumerOK, Works
<1>6. SeenOK' /\ TakenOK'
  BY <1>1, ScanKept DEF Inv, SeenOK, TakenOK, TypeOK
<1>7. runs \subseteq runs'
  BY DEF Works
<1>8. \A x \in Locations : alerts'[x] = alerts[x] \/ (worker[r][w].pc = "alert" /\ z.pc = "idle" /\ x = l /\ alerts'[x] = alerts[x] + 1)
  BY <1>1
<1>9. ASSUME NEW q \in Replicas, NEW v \in Workers
      PROVE  worker[q][v].hit.loc \in Locations
  <2>1. worker[q][v] \in WorkerState
    BY DEF Inv, TypeOK, WorkerState
  <2> QED
    BY <2>1 DEF WorkerState, Hit
<1>10. \A x \in Locations : x \notin runs => alerts[x] = 0
  BY <1>1 DEF Inv, AlertedOnce
<1>11. AlertOK'
  <2>1. ASSUME NEW q \in Replicas, NEW v \in Workers, worker'[q][v].pc = "alert"
        PROVE  worker'[q][v].hit.loc \in runs' /\ alerts'[worker'[q][v].hit.loc] = 0
    <3>1. CASE q # r \/ v # w
      <4>1. worker'[q][v] = worker[q][v]
        BY <1>2, <3>1
      <4> DEFINE x == worker[q][v].hit.loc
      <4>2. x \in Locations /\ x \in runs /\ alerts[x] = 0
        BY <1>9, <2>1, <4>1 DEF Inv, AlertOK
      <4>3. ~ (worker[r][w].pc = "alert" /\ x = l)
        BY <2>1, <3>1, <4>1 DEF Inv, OneAlert
      <4> HIDE DEF x, l
      <4> QED
        BY <1>7, <1>8, <4>1, <4>2, <4>3 DEF x
    <3>2. CASE q = r /\ v = w
      <4>1. z.pc = "alert" /\ z.hit.loc \in Locations /\ z.hit.loc \notin runs /\ z.hit.loc \in runs'
        BY <1>2, <2>1, <3>2 DEF WorkerState, Hit
      <4>2. alerts'[z.hit.loc] = 0
        BY <1>8, <1>10, <4>1
      <4> QED
        BY <1>2, <3>2, <4>1, <4>2
    <3> QED
      BY <3>1, <3>2
  <2> QED
    BY <2>1 DEF AlertOK
<1>12. OneAlert'
  <2>1. ASSUME NEW q \in Replicas, NEW v \in Workers, q # r \/ v # w,
               worker'[q][v].pc = "alert", z.pc = "alert"
        PROVE  worker'[q][v].hit.loc # z.hit.loc
    <3>1. worker[q][v].hit.loc \in runs /\ worker'[q][v] = worker[q][v]
      BY <1>2, <2>1 DEF Inv, AlertOK
    <3> QED
      BY <2>1, <3>1
  <2>2. ASSUME NEW q \in Replicas, NEW v \in Workers, NEW p \in Replicas, NEW u \in Workers,
               worker'[q][v].pc = "alert", worker'[p][u].pc = "alert",
               worker'[q][v].hit.loc = worker'[p][u].hit.loc
        PROVE  q = p /\ v = u
    <3>1. CASE q = r /\ v = w
      BY <1>2, <2>1, <2>2, <3>1
    <3>2. CASE p = r /\ u = w
      BY <1>2, <2>1, <2>2, <3>2
    <3>3. CASE (q # r \/ v # w) /\ (p # r \/ u # w)
      <4>1. worker'[q][v] = worker[q][v] /\ worker'[p][u] = worker[p][u]
        BY <1>2, <3>3
      <4> QED
        BY <2>2, <4>1 DEF Inv, OneAlert
    <3> QED
      BY <3>1, <3>2, <3>3
  <2> QED
    BY <2>2 DEF OneAlert
<1>13. AlertedOnce'
  <2>1. ASSUME NEW x \in Locations
        PROVE  alerts'[x] <= 1 /\ (alerts'[x] = 1 => x \in runs')
    <3>1. alerts[x] \in Nat /\ alerts[x] <= 1 /\ (alerts[x] = 1 => x \in runs)
      BY <1>1 DEF Inv, AlertedOnce
    <3>2. worker[r][w].pc = "alert" => l \in runs /\ alerts[l] = 0
      BY DEF Inv, AlertOK
    <3> QED
      BY <1>7, <1>8, <3>1, <3>2
  <2> QED
    BY <2>1 DEF AlertedOnce
<1> QED
  BY <1>4, <1>5, <1>6, <1>11, <1>12, <1>13 DEF Inv

\* The steps of a scan.
LEMMA ScanInv ==
    ASSUME Inv, NEW r \in Replicas, NEW w \in Workers,
           \/ LoadTable(r, w) \/ EmitSkipped(r, w)
           \/ EmitDetectionResults(r, w) \/ PostAlerts(r, w)
    PROVE  Inv'
<1> DEFINE l == worker[r][w].hit.loc
<1>1. TypeOK /\ worker[r][w] \in WorkerState /\ l \in Locations
  <2>1. TypeOK /\ worker[r][w] \in WorkerState
    BY DEF Inv, TypeOK, WorkerState
  <2> QED
    BY <2>1 DEF WorkerState, Hit
<1>2. /\ UNCHANGED << sqs, webhook, consumer, sent, channel, seen, taken >>
      /\ runs \subseteq Locations /\ excuses \subseteq Locations \X {"failed", "not_loaded"}
  BY DEF LoadTable, EmitSkipped, EmitDetectionResults, PostAlerts, sources, Inv, TypeOK
<1>3. ASSUME NEW why \in {"failed", "not_loaded"}, Excuse(r, w, why)
      PROVE  /\ excuses \subseteq excuses' /\ excuses' \subseteq Locations \X {"failed", "not_loaded"}
             /\ \E e \in excuses' : e[1] = l
  <2>1. excuses' = excuses \cup {<< l, why >>}
    BY <1>3 DEF Excuse
  <2>2. << l, why >> \in Locations \X {"failed", "not_loaded"} /\ << l, why >>[1] = l
    BY <1>1
  <2> QED
    BY <1>2, <2>1, <2>2
<1>4. Idle \in WorkerState /\ Idle.pc = "idle"
  BY RestShape
<1>5. ASSUME Done(r, w), UNCHANGED << runs, alerts >>,
             Excuse(r, w, "failed") \/ Excuse(r, w, "not_loaded")
      PROVE  Inv'
  <2>1. Works(r, w, Idle)
    BY <1>2, <1>3, <1>5 DEF Works, Done
  <2>2. Accounts(r, w, Idle)
    BY <1>3, <1>5 DEF Accounts
  <2> QED
    BY <1>2, <1>4, <1>5, <2>1, <2>2, ScanFrame
<1>6. CASE LoadTable(r, w)
  <2>1. ASSUME NEW step \in {"emit", "emit_skipped"}, Goto(r, w, step),
               UNCHANGED excuses \/ Excuse(r, w, "failed")
        PROVE  Inv'
    <3>1. PICK z \in WorkerState :
              /\ worker' = [worker EXCEPT ![r][w] = z]
              /\ z.pc = step /\ z.hit = worker[r][w].hit
      BY <1>1, <2>1, GotoSet
    <3>2. UNCHANGED << runs, alerts >>
      BY <1>6 DEF LoadTable
    <3>3. Works(r, w, z)
      BY <1>2, <1>3, <2>1, <3>1, <3>2 DEF Works
    <3>4. Accounts(r, w, z) /\ z.pc # "alert"
      BY <3>1 DEF Accounts
    <3> QED
      BY <1>2, <3>2, <3>3, <3>4, ScanFrame
  <2>2. UNCHANGED << runs, alerts >>
    BY <1>6 DEF LoadTable
  <2> QED
    BY <1>5, <1>6, <2>1, <2>2 DEF LoadTable
<1>7. CASE EmitSkipped(r, w)
  BY <1>5, <1>7 DEF EmitSkipped
<1>8. CASE EmitDetectionResults(r, w)
  <2>1. ASSUME l \notin runs, runs' = runs \cup {l}, Goto(r, w, "alert"), UNCHANGED << excuses, alerts >>
        PROVE  Inv'
    <3>1. PICK z \in WorkerState :
              /\ worker' = [worker EXCEPT ![r][w] = z]
              /\ z.pc = "alert" /\ z.hit = worker[r][w].hit
      BY <1>1, <2>1, GotoSet
    <3>2. Works(r, w, z)
      BY <1>1, <1>2, <2>1, <3>1 DEF Works
    <3>3. Accounts(r, w, z) /\ z.hit.loc \notin runs /\ z.hit.loc \in runs'
      BY <2>1, <3>1 DEF Accounts
    <3> QED
      BY <1>2, <2>1, <3>2, <3>3, ScanFrame
  <2>2. ASSUME runs' = runs \cup {l} \/ (runs' = runs /\ l \in runs), Done(r, w), UNCHANGED << excuses, alerts >>
        PROVE  Inv'
    <3>1. Works(r, w, Idle)
      BY <1>1, <1>2, <2>2 DEF Works, Done
    <3>2. Accounts(r, w, Idle)
      BY <2>2 DEF Accounts
    <3> QED
      BY <1>2, <1>4, <2>2, <3>1, <3>2, ScanFrame
  <2>3. UNCHANGED alerts
    BY <1>8 DEF EmitDetectionResults
  <2> QED
    BY <1>5, <1>8, <2>1, <2>2, <2>3 DEF EmitDetectionResults
<1>9. CASE PostAlerts(r, w)
  <2>1. /\ worker[r][w].pc = "alert" /\ Done(r, w) /\ UNCHANGED << runs, excuses >>
        /\ UNCHANGED alerts \/ alerts' = [alerts EXCEPT ![l] = @ + 1]
    BY <1>9 DEF PostAlerts
  <2>2. Works(r, w, Idle)
    BY <1>2, <2>1 DEF Works, Done
  <2>3. Accounts(r, w, Idle)
    BY <2>1 DEF Accounts, Inv, AlertOK
  <2> QED
    BY <1>2, <1>4, <2>1, <2>2, <2>3, ScanFrame
<1> QED
  BY <1>6, <1>7, <1>8, <1>9

\* processHit takes a hit: a new location is scanned, and one that was seen is
\* in the hands of another worker of the pool, or on record.
LEMMA TakeInv ==
    ASSUME Inv, NEW r \in Replicas, NEW w \in Workers, Take(r, w)
    PROVE  Inv'
<1> DEFINE h == Head(channel[r])
           new == [pc |-> "load", hit |-> h]
<1>1. TypeOK
  BY DEF Inv
<1>2. /\ worker[r][w].pc = "idle" /\ channel[r] # << >>
      /\ channel' = [channel EXCEPT ![r] = Tail(channel[r])]
      /\ UNCHANGED << sqs, webhook, consumer, runs, alerts, sent, excuses >>
      /\ taken' = taken \cup {h.loc}
      /\ seen' = [seen EXCEPT ![r] = seen[r] \cup {h.loc}]
  BY DEF Take, sources
<1>3. /\ h \in Hit
      /\ channel' \in [Replicas -> Seq(Hit)]
      /\ \A q \in Replicas : Len(channel'[q]) <= Capacity
  BY <1>1, <1>2, ReceiveType
<1>4. PICK k \in Locations : k = h.loc
  BY <1>3 DEF Hit
<1>5. new \in WorkerState /\ new.pc = "load" /\ new.hit = h
  BY <1>3 DEF WorkerState
<1>6. \/ h.loc \in seen[r] /\ worker' = [worker EXCEPT ![r][w] = Idle]
      \/ h.loc \notin seen[r] /\ worker' = [worker EXCEPT ![r][w] = new]
  BY DEF Take
<1> HIDE DEF new, h
<1>7. PICK z \in WorkerState :
          /\ worker' = [worker EXCEPT ![r][w] = z]
          /\ \/ h.loc \in seen[r] /\ z.pc = "idle"
             \/ z.pc = "load" /\ z.hit = h
  BY <1>5, <1>6, RestShape
<1>8. Works(r, w, z)
  BY <1>2, <1>7 DEF Works, Inv, TypeOK
<1>9. Accounts(r, w, z)
  BY <1>2 DEF Accounts
<1>10. /\ \A l : Recorded(l) => Recorded(l)'
       /\ \A q \in Replicas : \A l : Scanning(q, l) => Scanning(q, l)' \/ Recorded(l)'
  BY <1>1, <1>8, <1>9, ScanKept
<1>11. /\ worker' \in [Replicas -> [Workers -> WorkerState]]
       /\ worker'[r][w] = z
       /\ \A q \in Replicas, v \in Workers : q # r \/ v # w => worker'[q][v] = worker[q][v]
  BY <1>1, <1>8, WorksShape
<1>12. Scanning(r, k)' \/ Recorded(k)'
  <2>1. CASE k \in seen[r]
    BY <1>10, <2>1 DEF Inv, SeenOK
  <2>2. CASE z.pc = "load" /\ z.hit = h
    BY <1>4, <1>11, <2>2 DEF Scanning
  <2> QED
    BY <1>4, <1>7, <2>1, <2>2
<1>13. seen \in [Replicas -> SUBSET Locations]
  BY <1>1 DEF TypeOK
<1>14. SeenOK'
  <2>1. ASSUME NEW q \in Replicas, NEW l \in seen'[q] PROVE Scanning(q, l)' \/ Recorded(l)'
    <3>1. l \in seen[q] \/ (q = r /\ l = k)
      BY <1>2, <1>4, <1>13
    <3> QED
      BY <1>10, <1>12, <3>1 DEF Inv, SeenOK
  <2> QED
    BY <2>1 DEF SeenOK
<1>15. TakenOK'
  BY <1>2, <1>4, <1>10, <1>12 DEF Inv, TakenOK
<1>16. TypeOK'
  <2>1. seen' \in [Replicas -> SUBSET Locations] /\ taken' \subseteq Locations
    BY <1>1, <1>2, <1>4, <1>13 DEF TypeOK
  <2> QED
    BY <1>1, <1>2, <1>3, <1>11, <2>1 DEF TypeOK, WorkerState
<1>17. DeletedWasSent' /\ ConsumerOK' /\ AlertedOnce'
  BY <1>2 DEF Inv, DeletedWasSent, ConsumerOK, AlertedOnce
<1>18. \A q \in Replicas, v \in Workers :
           worker'[q][v].pc = "alert" => worker'[q][v] = worker[q][v]
  BY <1>7, <1>11
<1>19. AlertOK' /\ OneAlert'
  BY <1>2, <1>18 DEF Inv, AlertOK, OneAlert
<1> QED
  BY <1>14, <1>15, <1>16, <1>17, <1>19 DEF Inv

\* The hourly sweep of the seen map.
LEMMA EvictInv ==
    ASSUME Inv, NEW r \in Replicas, NEW l \in Locations, EvictSeen(r, l)
    PROVE  Inv'
<1>1. /\ seen' = [seen EXCEPT ![r] = seen[r] \ {l}]
      /\ UNCHANGED << sqs, webhook, consumer, channel, worker, runs, alerts, sent, taken, excuses >>
      /\ seen \in [Replicas -> SUBSET Locations]
  BY DEF EvictSeen, sources, Inv, TypeOK
<1>2. /\ \A q, x : Scanning(q, x)' <=> Scanning(q, x)
      /\ \A x : Recorded(x)' <=> Recorded(x)
  BY <1>1 DEF Scanning, Recorded
<1>3. \A q \in Replicas : seen'[q] \subseteq seen[q]
  BY <1>1
<1>4. SeenOK' /\ TakenOK'
  BY <1>1, <1>2, <1>3 DEF Inv, SeenOK, TakenOK
<1>5. TypeOK'
  <2>1. seen' \in [Replicas -> SUBSET Locations]
    BY <1>1
  <2> QED
    BY <1>1, <2>1 DEF Inv, TypeOK
<1> QED
  BY <1>1, <1>4, <1>5
  DEF Inv, DeletedWasSent, ConsumerOK, AlertOK, OneAlert, AlertedOnce

\* A restart loses what the replica holds in memory: its scans leave an error.
LEMMA RestartInv ==
    ASSUME Inv, NEW r \in Replicas, Restart(r)
    PROVE  Inv'
<1> DEFINE lost == {x \in Locations : Scanning(r, x)}
           rest == [w \in Workers |-> Idle]
<1>1. /\ channel' = [channel EXCEPT ![r] = << >>]
      /\ consumer' = [consumer EXCEPT ![r] = NoMessage]
      /\ seen' = [seen EXCEPT ![r] = {}]
      /\ worker' = [worker EXCEPT ![r] = rest]
      /\ webhook' = [q \in Webhooks |->
                        IF webhook[q].pc = "send" /\ r \in webhook[q].at
                        THEN NoDelivery ELSE webhook[q]]
      /\ excuses' = excuses \cup {<< l, "failed" >> : l \in lost}
      /\ UNCHANGED << sqs, runs, alerts, sent, taken >>
  BY DEF Restart
<1>2. /\ channel \in [Replicas -> Seq(Hit)] /\ consumer \in [Replicas -> Received]
      /\ seen \in [Replicas -> SUBSET Locations]
      /\ worker \in [Replicas -> [Workers -> WorkerState]]
      /\ webhook \in [Webhooks -> Delivery]
      /\ excuses \subseteq Locations \X {"failed", "not_loaded"}
      /\ \A q \in Replicas : Len(channel[q]) <= Capacity
  BY DEF Inv, TypeOK, Received, WorkerState, Delivery
<1>3. rest \in [Workers -> WorkerState] /\ \A w \in Workers : rest[w].pc = "idle"
  BY RestShape
<1> HIDE DEF rest
<1>4. \A l \in lost : << l, "failed" >> \in excuses'
  BY <1>1
<1>5. excuses \subseteq excuses' /\ excuses' \subseteq Locations \X {"failed", "not_loaded"}
  BY <1>1, <1>2
<1>6. TypeOK'
  <2>1. /\ channel' \in [Replicas -> Seq(Hit)]
        /\ \A q \in Replicas : Len(channel'[q]) <= Capacity
    <3>1. << >> \in Seq(Hit) /\ Len(<< >>) = 0
      OBVIOUS
    <3> QED
      BY <1>1, <1>2, <3>1, CapacityAssumption
  <2>2. /\ consumer' \in [Replicas -> Received]
        /\ seen' \in [Replicas -> SUBSET Locations]
        /\ worker' \in [Replicas -> [Workers -> WorkerState]]
    BY <1>1, <1>2, <1>3, RestShape
  <2>3. webhook' \in [Webhooks -> Delivery]
    BY <1>1, <1>2, RestShape
  <2> QED
    BY <1>1, <1>5, <2>1, <2>2, <2>3 DEF Inv, TypeOK, Received, WorkerState, Delivery
<1>7. \A q \in Replicas, w \in Workers :
          worker'[q][w].pc # "idle" => q # r /\ worker'[q][w] = worker[q][w]
  BY <1>1, <1>2, <1>3
<1>8. \A q \in Replicas : q # r => worker'[q] = worker[q]
  BY <1>1, <1>2
<1>9. \A l : Recorded(l) => Recorded(l)'
  BY <1>1, <1>5 DEF Recorded
<1>10. \A q \in Replicas : \A l : q # r /\ Scanning(q, l) => Scanning(q, l)'
  BY <1>8 DEF Scanning
<1>11. ASSUME NEW l \in Locations, Scanning(r, l) PROVE Recorded(l)'
  <2>1. << l, "failed" >> \in excuses'
    BY <1>4, <1>11
  <2>2. << l, "failed" >>[1] = l
    OBVIOUS
  <2> QED
    BY <2>1, <2>2 DEF Recorded
<1>12. SeenOK'
  <2>1. \A q \in Replicas : \A l \in seen'[q] : q # r /\ l \in seen[q]
    BY <1>1, <1>2
  <2> QED
    BY <1>9, <1>10, <2>1 DEF Inv, SeenOK
<1>13. TakenOK'
  <2>1. taken' = taken /\ taken \subseteq Locations
    BY <1>1 DEF Inv, TypeOK
  <2> QED
    BY <1>9, <1>10, <1>11, <2>1 DEF Inv, TakenOK
<1>14. AlertOK' /\ OneAlert' /\ AlertedOnce'
  BY <1>1, <1>7 DEF Inv, AlertOK, OneAlert, AlertedOnce
<1>15. DeletedWasSent' /\ ConsumerOK'
  <2>1. SentOK(NoMessage, sent)
    BY DEF SentOK, NoMessage
  <2> QED
    BY <1>1, <1>2, <2>1 DEF Inv, DeletedWasSent, ConsumerOK
<1> QED
  BY <1>6, <1>12, <1>13, <1>14, <1>15 DEF Inv

----------------------------------------------------------------------------
(* The theorems *)

\* Every step keeps the inductive invariant.
LEMMA NextInv == Inv /\ [Next]_vars => Inv'
<1> SUFFICES ASSUME Inv, [Next]_vars PROVE Inv'
  OBVIOUS
<1>1. ASSUME NEW r \in Replicas, NEW w \in Workers, WorkerStep(r, w) PROVE Inv'
  BY <1>1, TakeInv, ScanInv DEF WorkerStep
<1>2. CASE UNCHANGED vars
  <2>1. PoolStays /\ UNCHANGED << sqs, webhook, channel, consumer, sent >>
    BY <1>2 DEF vars, PoolStays
  <2>2. TypeOK' /\ DeletedWasSent' /\ ConsumerOK'
    BY <2>1 DEF Inv, TypeOK, DeletedWasSent, ConsumerOK, PoolStays
  <2> QED
    BY <2>1, <2>2, SourceFrame
<1> QED
  BY <1>1, <1>2, PollWebhookInv, MessageInv, ConsumerSendInv, EvictInv, RestartInv DEF Next

\* Inv holds in every reachable state of the pipeline.
LEMMA SpecInv == Spec => []Inv
BY InitInv, NextInv, PTL DEF Spec

\* From the three sources to detection_runs: no channel overflows, a message is
\* deleted only when all its records were sent, and a hit that a worker took has
\* its run or an error in the log, whatever peers, duplicates and restarts do.
THEOREM NothingLostHolds == Spec => []NothingLost
<1>1. Inv => NothingLost
  BY DEF Inv, NothingLost, TakenOK, TakenIsRecorded, Recorded
<1> QED
  BY <1>1, SpecInv, PTL

\* The UNIQUE key of detection_runs and the order of insert and alert: security is
\* alerted of a metadata location at most once, and only of one with a run.
THEOREM AlertedOnceHolds == Spec => []AlertedOnce
<1>1. Inv => AlertedOnce
  BY DEF Inv
<1> QED
  BY <1>1, SpecInv, PTL
=============================================================================
