------------------------- MODULE DetectionDispatch -------------------------
(***************************************************************************)
(* The L3 detection pipeline of one tenant (internal/detect/dispatch, the  *)
(* regexScanner of cmd/neksur-server and internal/detect/regex/emit.go):   *)
(* the poller, the Polaris webhook and the S3 event consumer of every      *)
(* server replica feed one bounded channel per replica, whose workers      *)
(* scan each metadata location once and record a detection run.            *)
(*                                                                         *)
(* Every receive, send, catalog call and transaction is a step of its      *)
(* own.  SQS delivers at least once.  A replica may be restarted: what it  *)
(* holds in memory is lost.  A hit is the metadata location it is about    *)
(* and whether it names its table, which only a webhook hit does.          *)
(***************************************************************************)
EXTENDS Naturals, Sequences, FiniteSets

CONSTANTS
    Replicas,     \* server processes
    Consumers,    \* those started with NEKSUR_S3_EVENTS_QUEUE_URL
    Workers,      \* goroutines of each pool
    Locations,    \* metadata locations
    Messages,     \* SQS messages
    RecordsOf,    \* the metadata locations of each message, in order
    Webhooks,     \* webhook requests in progress
    Capacity      \* capacity of the channel

ASSUME RecordsAssumption == RecordsOf \in [Messages -> Seq(Locations)]
ASSUME ConsumersAssumption == Consumers \subseteq Replicas
ASSUME LocationsAssumption == Locations # {}
ASSUME CapacityAssumption == Capacity \in Nat \ {0}

VARIABLES
    sqs,        \* state of each SQS message
    webhook,    \* the delivery each webhook request waits to send, if any
    channel,    \* the hits waiting in each replica's channel
    consumer,   \* message in the consumer's hands, and its records not yet sent
    seen,       \* each pool's seen map
    worker,     \* local state of each worker
    runs,       \* locations with a detection_runs row
    alerts,     \* number of alert rounds per location
    sent,       \* history: << message, index >> of records that entered a channel
    taken,      \* history: locations of hits that workers took
    excuses     \* history: << location, reason >> of logged errors and restarts

vars == << sqs, webhook, channel, consumer, seen, worker, runs,
           alerts, sent, taken, excuses >>
sources == << sqs, webhook, consumer >>

Hit == [loc : Locations, named : BOOLEAN]
SomeLocation == CHOOSE l \in Locations : TRUE
NoHit == [loc |-> SomeLocation, named |-> FALSE]

Idle == [pc |-> "idle", hit |-> NoHit]
NoDelivery == [pc |-> "none", at |-> {}, hit |-> NoHit]
NoMessage == [msg |-> {}, todo |-> << >>]

Init ==
    /\ sqs = [m \in Messages |-> "visible"]
    /\ webhook = [q \in Webhooks |-> NoDelivery]
    /\ channel = [r \in Replicas |-> << >>]
    /\ consumer = [r \in Replicas |-> NoMessage]
    /\ seen = [r \in Replicas |-> {}]
    /\ worker = [r \in Replicas |-> [w \in Workers |-> Idle]]
    /\ runs = {}
    /\ alerts = [l \in Locations |-> 0]
    /\ sent = {}
    /\ taken = {}
    /\ excuses = {}

\* Mutant: a channel without a capacity.
RoomAlways(r) == TRUE

Room(r) == Len(channel[r]) < Capacity

Send(r, hit) ==
    /\ Room(r)
    /\ channel' = [channel EXCEPT ![r] = Append(@, hit)]

----------------------------------------------------------------------------
(* The poller *)

\* A send of pollOnce.  The query returns Snapshot nodes committed within the
\* look-back window, in no order and up to a limit: which locations it sends,
\* and how often, is the environment's choice.
PollOnce(r, l) ==
    /\ Send(r, [loc |-> l, named |-> FALSE])
    /\ UNCHANGED << sources, seen, worker, runs, alerts, sent, taken, excuses >>

----------------------------------------------------------------------------
(* The S3 event consumer *)

\* A message that was received and not deleted is delivered again.
VisibilityTimeout(m) ==
    /\ sqs[m] = "inflight"
    /\ sqs' = [sqs EXCEPT ![m] = "visible"]
    /\ UNCHANGED << webhook, channel, consumer, seen, worker, runs,
                    alerts, sent, taken, excuses >>

\* A message that does not parse is logged, and not deleted.
ReceiveMessage(r, m) ==
    /\ consumer[r] = NoMessage
    /\ sqs[m] = "visible"
    /\ sqs' = [sqs EXCEPT ![m] = "inflight"]
    /\ \/ consumer' = [consumer EXCEPT ![r] = [msg |-> {m}, todo |-> RecordsOf[m]]]
       \/ UNCHANGED consumer
    /\ UNCHANGED << webhook, channel, seen, worker, runs, alerts,
                    sent, taken, excuses >>

ConsumerSend(r) ==
    /\ consumer[r].todo # << >>
    /\ Send(r, [loc |-> Head(consumer[r].todo), named |-> FALSE])
    /\ consumer' = [consumer EXCEPT ![r].todo = Tail(@)]
    /\ sent' = sent \cup
          {<< m, Len(RecordsOf[m]) - Len(consumer[r].todo) + 1 >> : m \in consumer[r].msg}
    /\ UNCHANGED << sqs, webhook, seen, worker, runs, alerts, taken,
                    excuses >>

\* Mutant: the message is deleted when it has been parsed.
DeleteOnReceipt(r) ==
    /\ consumer[r] # NoMessage
    /\ \/ sqs' = [m \in Messages |-> IF m \in consumer[r].msg THEN "deleted" ELSE sqs[m]]
       \/ UNCHANGED sqs
    /\ consumer' = [consumer EXCEPT ![r] = NoMessage]
    /\ UNCHANGED << webhook, channel, seen, worker, runs, alerts,
                    sent, taken, excuses >>

\* After the last send; the delete may fail, which is logged.
DeleteMessage(r) ==
    /\ consumer[r] # NoMessage
    /\ consumer[r].todo = << >>
    /\ \/ sqs' = [m \in Messages |-> IF m \in consumer[r].msg THEN "deleted" ELSE sqs[m]]
       \/ UNCHANGED sqs
    /\ consumer' = [consumer EXCEPT ![r] = NoMessage]
    /\ UNCHANGED << webhook, channel, seen, worker, runs, alerts,
                    sent, taken, excuses >>

----------------------------------------------------------------------------
(* The webhook *)

\* A delivery, the first or a retry, passes the checks of method, headers,
\* secret, HMAC and body.  It names its table: one that does not is to the
\* pool what a hit of the poller is.
WebhookArrive(q, r, l) ==
    /\ webhook[q].pc = "none"
    /\ webhook' = [webhook EXCEPT ![q] = [pc |-> "send", at |-> {r}, hit |-> [loc |-> l, named |-> TRUE]]]
    /\ UNCHANGED << sqs, channel, consumer, seen, worker, runs,
                    alerts, sent, taken, excuses >>

\* The client gives up while the channel is full.
WebhookCancel(q) ==
    /\ webhook[q].pc = "send"
    /\ webhook' = [webhook EXCEPT ![q] = NoDelivery]
    /\ UNCHANGED << sqs, channel, consumer, seen, worker, runs,
                    alerts, sent, taken, excuses >>

WebhookSend(q) ==
    /\ webhook[q].pc = "send"
    /\ \E r \in webhook[q].at : Send(r, webhook[q].hit)
    /\ webhook' = [webhook EXCEPT ![q] = NoDelivery]
    /\ UNCHANGED << sqs, consumer, seen, worker, runs, alerts, sent, taken,
                    excuses >>

----------------------------------------------------------------------------
(* The pool and the scanner *)

Goto(r, w, step) == worker' = [worker EXCEPT ![r][w].pc = step]
Done(r, w) == worker' = [worker EXCEPT ![r][w] = Idle]
Excuse(r, w, why) == excuses' = excuses \cup {<< worker[r][w].hit.loc, why >>}

\* processHit up to the scan: LoadOrStore on the seen map.
Take(r, w) ==
    /\ worker[r][w].pc = "idle"
    /\ channel[r] # << >>
    /\ LET h == Head(channel[r]) IN
          /\ worker' = [worker EXCEPT ![r][w] =
                          IF h.loc \in seen[r] THEN Idle ELSE [pc |-> "load", hit |-> h]]
          /\ seen' = [seen EXCEPT ![r] = @ \cup {h.loc}]
          /\ taken' = taken \cup {h.loc}
    /\ channel' = [channel EXCEPT ![r] = Tail(@)]
    /\ UNCHANGED << sources, runs, alerts, sent, excuses >>

\* Credentials, adapter and LoadTable.  A failed LoadTable, and a hit that
\* names no table, go on to the emission with the strategy "skipped".
LoadTable(r, w) ==
    /\ worker[r][w].pc = "load"
    /\ \/ /\ worker[r][w].hit.named
          /\ Goto(r, w, "emit")
          /\ UNCHANGED excuses
       \/ /\ ~ worker[r][w].hit.named
          /\ Goto(r, w, "emit_skipped")
          /\ UNCHANGED excuses
       \/ /\ worker[r][w].hit.named
          /\ Goto(r, w, "emit_skipped")
          /\ Excuse(r, w, "failed")
       \/ /\ Done(r, w)
          /\ Excuse(r, w, "failed")
    /\ UNCHANGED << sources, channel, seen, runs, alerts, sent, taken >>

\* Mutant: an emission that failed is tried again at once.
EmitRetried(r, w) ==
    /\ worker[r][w].pc = "emit_skipped"
    /\ Goto(r, w, "load")
    /\ UNCHANGED << sources, channel, seen, runs, alerts, sent, taken, excuses >>

\* The CHECK of detection_runs admits the strategy "regex" only.
EmitSkipped(r, w) ==
    /\ worker[r][w].pc = "emit_skipped"
    /\ Done(r, w)
    /\ Excuse(r, w, "not_loaded")
    /\ UNCHANGED << sources, channel, seen, runs, alerts, sent, taken >>

\* Mutant: the row that ON CONFLICT DO NOTHING did not return is not missed.
EmitWhateverTheRow(r, w) ==
    /\ worker[r][w].pc = "emit"
    /\ runs' = runs \cup {worker[r][w].hit.loc}
    /\ Goto(r, w, "alert")
    /\ UNCHANGED << sources, channel, seen, alerts, sent, taken, excuses >>

\* Mutant: any error of the insert is taken for a peer's row.
EmitErrorAsPeer(r, w) ==
    LET l == worker[r][w].hit.loc IN
    /\ worker[r][w].pc = "emit"
    /\ \/ /\ l \notin runs
          /\ runs' = runs \cup {l}
          /\ Goto(r, w, "alert")
       \/ /\ Done(r, w)
          /\ UNCHANGED runs
    /\ UNCHANGED << sources, channel, seen, alerts, sent, taken, excuses >>

\* EmitDetectionResults.  The transaction inserts the run, finds a peer's row,
\* or rolls back; its commit may also be reported as an error.
EmitDetectionResults(r, w) ==
    LET l == worker[r][w].hit.loc IN
    /\ worker[r][w].pc = "emit"
    /\ \/ /\ l \notin runs
          /\ runs' = runs \cup {l}
          /\ Goto(r, w, "alert") \/ Done(r, w)
          /\ UNCHANGED excuses
       \/ /\ l \in runs
          /\ Done(r, w)
          /\ UNCHANGED << runs, excuses >>
       \/ /\ Done(r, w)
          /\ Excuse(r, w, "failed")
          /\ UNCHANGED runs
    /\ UNCHANGED << sources, channel, seen, alerts, sent, taken >>

\* One alert per finding above the threshold, if any; a failed post is logged.
PostAlerts(r, w) ==
    /\ worker[r][w].pc = "alert"
    /\ \/ alerts' = [alerts EXCEPT ![worker[r][w].hit.loc] = @ + 1]
       \/ UNCHANGED alerts
    /\ Done(r, w)
    /\ UNCHANGED << sources, channel, seen, runs, sent, taken, excuses >>

Scanning(r, l) == \E w \in Workers : worker[r][w].pc # "idle" /\ worker[r][w].hit.loc = l

\* The hourly sweep of entries older than a day; no scan takes that long.
EvictSeen(r, l) ==
    /\ l \in seen[r]
    /\ ~ Scanning(r, l)
    /\ seen' = [seen EXCEPT ![r] = @ \ {l}]
    /\ UNCHANGED << sources, channel, worker, runs, alerts, sent, taken, excuses >>

\* The process ends, however, and starts again.
Restart(r) ==
    /\ channel' = [channel EXCEPT ![r] = << >>]
    /\ consumer' = [consumer EXCEPT ![r] = NoMessage]
    /\ seen' = [seen EXCEPT ![r] = {}]
    /\ worker' = [worker EXCEPT ![r] = [w \in Workers |-> Idle]]
    /\ webhook' = [q \in Webhooks |->
                      IF webhook[q].pc = "send" /\ r \in webhook[q].at
                      THEN NoDelivery ELSE webhook[q]]
    /\ excuses' = excuses \cup
          {<< l, "failed" >> : l \in {x \in Locations : Scanning(r, x)}}
    /\ UNCHANGED << sqs, runs, alerts, sent, taken >>

----------------------------------------------------------------------------
WorkerStep(r, w) ==
    \/ Take(r, w)
    \/ LoadTable(r, w)
    \/ EmitSkipped(r, w)
    \/ EmitDetectionResults(r, w)
    \/ PostAlerts(r, w)

Next ==
    \/ \E m \in Messages : VisibilityTimeout(m)
    \/ \E r \in Replicas :
          \/ \E l \in Locations : PollOnce(r, l)
          \/ \E w \in Workers : WorkerStep(r, w)
          \/ \E l \in Locations : EvictSeen(r, l)
          \/ Restart(r)
    \/ \E r \in Consumers :
          \/ \E m \in Messages : ReceiveMessage(r, m)
          \/ ConsumerSend(r) \/ DeleteMessage(r)
    \/ \E q \in Webhooks :
          \/ \E r \in Replicas, l \in Locations : WebhookArrive(q, r, l)
          \/ WebhookCancel(q)
          \/ WebhookSend(q)

Spec == Init /\ [][Next]_vars

\* Every call of a worker returns, and the senders that wait for a full channel
\* are served in the order of their arrival.
Fairness ==
    /\ \A r \in Replicas, w \in Workers : WF_vars(WorkerStep(r, w))
    /\ \A q \in Webhooks : SF_vars(WebhookSend(q))
FairSpec == Spec /\ Fairness

----------------------------------------------------------------------------
(* Properties *)

\* Every variable has its type, and no channel holds more than its capacity.
TypeOK ==
    /\ sqs \in [Messages -> {"visible", "inflight", "deleted"}]
    /\ webhook \in [Webhooks -> [pc : {"none", "send"},
                                 at : SUBSET Replicas, hit : Hit]]
    /\ channel \in [Replicas -> Seq(Hit)]
    /\ \A r \in Replicas : Len(channel[r]) <= Capacity
    /\ consumer \in [Replicas -> [msg : SUBSET Messages, todo : Seq(Locations)]]
    /\ seen \in [Replicas -> SUBSET Locations]
    /\ worker \in [Replicas -> [Workers ->
          [pc : {"idle", "load", "emit", "emit_skipped", "alert"}, hit : Hit]]]
    /\ runs \subseteq Locations
    /\ alerts \in [Locations -> Nat]
    /\ sent \subseteq Messages \X Nat
    /\ taken \subseteq Locations
    /\ excuses \subseteq Locations \X {"failed", "not_loaded"}

\* Security is alerted of a metadata location at most once, and only of one
\* whose run is on record, though three sources on every replica report it,
\* SQS delivers it again, entries leave the seen map and replicas restart.
AlertedOnce ==
    \A l \in Locations : alerts[l] <= 1 /\ (alerts[l] = 1 => l \in runs)

\* A message leaves the queue only when each of its records entered a channel:
\* a consumer that fails or restarts between two records loses none of them.
DeletedWasSent ==
    \A m \in Messages :
        sqs[m] = "deleted" => \A i \in DOMAIN RecordsOf[m] : << m, i >> \in sent

\* No hit vanishes silently between the channel and the database: a location
\* that a worker took and nobody is scanning has its run, or the log has an
\* error of its scan, though peers, duplicates and restarts interfere.
TakenIsRecorded ==
    \A l \in taken :
        (\A r \in Replicas : ~ Scanning(r, l)) =>
            l \in runs \/ \E e \in excuses : e[1] = l

\* Nothing is lost on the way from the three sources to detection_runs, at the
\* queue or behind the channel, without a trace, and no channel overflows.
NothingLost == TypeOK /\ DeletedWasSent /\ TakenIsRecorded

\* A webhook delivery that waits for room in the channel is answered: the pool
\* goes on whatever its scans end in.
WebhookAnswered ==
    \A q \in Webhooks :
        (webhook[q].pc = "send") ~> (webhook[q].pc = "none")
=============================================================================
