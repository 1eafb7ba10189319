--------------------------- MODULE StatusReporter ---------------------------
(***************************************************************************)
(* Status::StatusReporter with the Kafka producer that it owns: the thread *)
(* whose timer publishes the state of the program, the main thread, which  *)
(* redirects the reports for the time of a job and in the end destroys     *)
(* Master and with it the reporter, and the broker.                        *)
(*                                                                         *)
(* useAlternativeStatusTopic and revertToDefaultStatusTopic swap the two   *)
(* pointers to topics without StatusMutex while the thread may be reading  *)
(* StatusProducerTopic.  std::swap of two unique_ptr exchanges the raw     *)
(* pointers, so a reader meets the old one or the new one.                 *)
(***************************************************************************)
EXTENDS Naturals, FiniteSets

CONSTANTS
    NoTopic,     \* a null pointer
    MaxQueue,    \* messages that librdkafka keeps
    MaxPolls,    \* NumberOfIterations in ~Producer
    \* Bounds.
    MaxJobs,     \* jobs
    MaxFaults    \* topics that cannot be created, messages that are refused

ASSUME StatusAssumption ==
    /\ {MaxQueue, MaxPolls, MaxJobs, MaxFaults} \subseteq Nat
    /\ NoTopic \notin Nat

\* Topic objects: 0 is that of the command topic, j that of the jth job.
Topic == 0 .. MaxJobs
Default == 0
\* ProducerMessage objects, more than can be queued.
Message == 0 .. MaxQueue + 1

VARIABLES
    main,       \* what the main thread is doing
    job,        \* CurrentStatus of Master: the job, 0 if it is idle
    jobs,       \* bound: jobs so far
    getter,     \* setStatusGetter was called
    StatusProducerTopic, AltStatusProducerTopic, UsingAlternativeStatusTopic,
    topics,     \* the topic objects that exist
    thread,     \* what the thread of the timer is doing
    using,      \* the pointer it calls produce with
    report,     \* the job it reports on
    heap,       \* the messages that are allocated
    queue,      \* those that librdkafka has
    reported,   \* those of them whose delivery report waits for a poll
    polls,      \* polls of ~Producer
    own,        \* history: the jobs with a topic of their own
    early,      \* history: this report began before the getter was set
    stale,      \* history: this report read the status after its destruction
    switches,   \* history: switches of the topic that this report overlaps
    faults      \* history

mainVars == <<main, job, jobs, getter>>
topicVars == <<StatusProducerTopic, AltStatusProducerTopic,
               UsingAlternativeStatusTopic, topics>>
threadVars == <<thread, using, report>>
kafka == <<heap, queue, reported, polls>>
history == <<own, early, stale, switches, faults>>
vars == <<mainVars, topicVars, threadVars, kafka, history>>

Init ==
    /\ main = "constructed" /\ job = 0 /\ jobs = 0
    /\ getter = FALSE
    /\ StatusProducerTopic = Default
    /\ AltStatusProducerTopic = NoTopic
    /\ UsingAlternativeStatusTopic = FALSE
    /\ topics = {Default}
    /\ thread = "waiting" /\ using = NoTopic /\ report = 0
    /\ heap = {} /\ queue = {} /\ reported = {} /\ polls = 0
    /\ own = {} /\ early = FALSE /\ stale = FALSE /\ switches = 0 /\ faults = 0

\* The thread is inside reportStatus, with StatusMutex held shared.
Reporting == thread \notin {"waiting", "dead", "joined"}

-----------------------------------------------------------------------------
\* The main thread.

\* The constructor of Master; the timer has been running since the reporter
\* was constructed.  StatusMutex is taken exclusively.
setStatusGetter ==
    /\ main = "constructed" /\ ~Reporting
    /\ getter' = TRUE /\ main' = "idle"
    /\ UNCHANGED <<job, jobs, topicVars, threadVars, kafka, history>>

\* Master::startWriting without a control topic.
StartOnDefault ==
    /\ main = "idle" /\ jobs < MaxJobs
    /\ main' = "writing" /\ job' = jobs + 1 /\ jobs' = jobs + 1
    /\ UNCHANGED <<getter, topicVars, threadVars, kafka, history>>

\* History: a switch begins while a report may be going on.
Overlapped == IF Reporting THEN switches + 1 ELSE switches

\* std::swap of the two pointers.
Swap ==
    /\ StatusProducerTopic' = AltStatusProducerTopic
    /\ AltStatusProducerTopic' = StatusProducerTopic

\* useAlternativeStatusTopic: the new topic takes the place of the one of an
\* earlier job, which is destroyed ...
useAlternativeStatusTopic ==
    /\ main = "idle" /\ jobs < MaxJobs /\ ~UsingAlternativeStatusTopic
    /\ main' = "switching" /\ jobs' = jobs + 1
    /\ AltStatusProducerTopic' = jobs + 1
    /\ topics' = (topics \ {AltStatusProducerTopic}) \cup {jobs + 1}
    /\ own' = own \cup {jobs + 1}
    /\ switches' = Overlapped
    /\ UNCHANGED <<job, getter, StatusProducerTopic,
                   UsingAlternativeStatusTopic, threadVars, kafka, early, stale,
                   faults>>

\* ... and is then used.
SwapIn ==
    /\ main = "switching"
    /\ main' = "switched"
    /\ Swap /\ UsingAlternativeStatusTopic' = TRUE
    /\ UNCHANGED <<job, jobs, getter, topics, threadVars, kafka, history>>

\* RdKafka::Topic::create fails: TopicCreationError leaves startWriting, the
\* state stays idle.
TopicCreationError ==
    /\ main = "idle" /\ jobs < MaxJobs /\ ~UsingAlternativeStatusTopic
    /\ faults < MaxFaults
    /\ jobs' = jobs + 1 /\ faults' = faults + 1
    /\ UNCHANGED <<main, job, getter, topicVars, threadVars, kafka, own, early,
                   stale, switches>>

\* The end of startWriting.
setCurrentStatus ==
    /\ main = "switched"
    /\ main' = "writing" /\ job' = jobs
    /\ UNCHANGED <<jobs, getter, topicVars, threadVars, kafka, history>>

\* Master::setToIdle resets the status, then revertToDefaultStatusTopic.
setToIdle ==
    /\ main = "writing"
    /\ job' = 0
    /\ main' = IF UsingAlternativeStatusTopic THEN "reverting" ELSE "idle"
    /\ switches' = IF UsingAlternativeStatusTopic THEN Overlapped ELSE switches
    /\ UNCHANGED <<jobs, getter, topicVars, threadVars, kafka, own, early, stale,
                   faults>>

\* Mutant: the flag is only ever set.
revertToDefaultStatusTopic_FlagStays ==
    /\ main = "reverting"
    /\ main' = "idle"
    /\ Swap
    /\ UNCHANGED <<job, jobs, getter, UsingAlternativeStatusTopic, topics,
                   threadVars, kafka, history>>

\* Mutant: the topic of a job is destroyed when its job ends.
revertToDefaultStatusTopic_Frees ==
    /\ main = "reverting"
    /\ main' = "idle"
    /\ StatusProducerTopic' = AltStatusProducerTopic
    /\ AltStatusProducerTopic' = NoTopic
    /\ topics' = topics \ {StatusProducerTopic}
    /\ UsingAlternativeStatusTopic' = FALSE
    /\ UNCHANGED <<job, jobs, getter, threadVars, kafka, history>>

\* The topic of the job is kept until the next job brings its own.
revertToDefaultStatusTopic ==
    /\ main = "reverting"
    /\ main' = "idle"
    /\ Swap /\ UsingAlternativeStatusTopic' = FALSE
    /\ UNCHANGED <<job, jobs, getter, topics, threadVars, kafka, history>>

\* ~Master destroys its members in the reverse order of their declaration:
\* CurrentStatus and its mutex before the reporter, whose thread may read them
\* until waitForStop.
DestroyMembers ==
    /\ main \in {"idle", "writing"}
    /\ main' = "destroying"
    /\ UNCHANGED <<job, jobs, getter, topicVars, threadVars, kafka, history>>

\* waitForStop: IO.stop(), after which no report begins ...
Stop ==
    /\ main = "destroying"
    /\ main' = "stopping"
    /\ UNCHANGED <<job, jobs, getter, topicVars, threadVars, kafka, history>>

\* Mutant: the thread is only joined while its timer is set.
Join_NeedsTimer ==
    /\ main = "stopping" /\ thread = "waiting"
    /\ main' = "draining" /\ thread' = "joined"
    /\ UNCHANGED <<job, jobs, getter, topicVars, using, report, kafka, history>>

\* ... and join(), once the report that is going on is done.
Join ==
    /\ main = "stopping" /\ ~Reporting
    /\ main' = "draining" /\ thread' = "joined"
    /\ UNCHANGED <<job, jobs, getter, topicVars, using, report, kafka, history>>

-----------------------------------------------------------------------------
\* Kafka::Producer and the broker.

\* The broker acknowledges a message, or it fails: either way a report waits
\* for the next poll.
Deliver(m) ==
    /\ m \in queue \ reported /\ main \notin {"gone", "crashed"}
    /\ reported' = reported \cup {m}
    /\ UNCHANGED <<mainVars, topicVars, threadVars, heap, queue, polls, history>>

\* Mutant: the unique_ptr keeps, and frees, the message it handed over.
Kept_Never(m) == {}

\* Msg.release(): a message that was accepted is left to librdkafka.
Kept(m) == {m}

\* ERR__QUEUE_FULL.
Full(waiting) == Cardinality(waiting) >= MaxQueue

\* RdKafka::Producer::poll calls dr_cb, which deletes the messages that were
\* reported.
poll == [heap |-> heap \ reported, queue |-> queue \ reported]

\* ProducerTopic::produce: a poll, then the new message is accepted or refused
\* (the queue is full, or some other error); what is refused is freed.
Produce ==
    LET m == CHOOSE n \in Message : n \notin heap
        full == Full(poll.queue)
    IN  /\ reported' = {}
        /\ \/ /\ ~full
              /\ queue' = poll.queue \cup {m}
              /\ heap' = poll.heap \cup Kept(m)
              /\ UNCHANGED faults
           \/ /\ full \/ faults < MaxFaults
              /\ queue' = poll.queue
              /\ heap' = poll.heap
              /\ faults' = IF full THEN faults ELSE faults + 1
        /\ UNCHANGED polls

\* ~Producer polls until the queue is empty or it has tried often enough; what
\* the producer still has when it is destroyed is never reported, nor deleted.
Drain ==
    /\ main = "draining"
    /\ IF queue = {} \/ polls = MaxPolls
       THEN /\ main' = "gone"
            /\ queue' = {}
            /\ UNCHANGED <<heap, polls>>
       ELSE /\ polls' = polls + 1
            /\ heap' = poll.heap
            /\ queue' = poll.queue
            /\ UNCHANGED main
    /\ reported' = {}
    /\ UNCHANGED <<job, jobs, getter, topicVars, threadVars, history>>

-----------------------------------------------------------------------------
\* The thread of the timer: reportStatus.

\* The timer fires.  Without a topic the report ends, and the timer with it.
Fire ==
    /\ thread = "waiting" /\ main # "stopping"
    /\ thread' = IF StatusProducerTopic = NoTopic THEN "dead" ELSE "status"
    /\ early' = ~getter /\ stale' = FALSE
    /\ switches' = IF main \in {"switching", "reverting"} THEN 1 ELSE 0
    /\ UNCHANGED <<mainVars, topicVars, using, report, kafka, own, faults>>

\* The members that the getter reads are gone.
StatusGone == main \in {"destroying", "stopping"}

\* createJSONReport; the getter that is there at first throws, and the handler
\* of the exception does not set the timer again.
createJSONReport ==
    /\ thread = "status" /\ ~StatusGone
    /\ IF getter
       THEN thread' = "topic" /\ report' = job
       ELSE thread' = "dead" /\ UNCHANGED report
    /\ UNCHANGED <<mainVars, topicVars, using, kafka, history>>

\* It reads a status that was destroyed: whatever is there is reported, or the
\* process ends.
ReadsDestroyedStatus ==
    /\ thread = "status" /\ StatusGone
    /\ \/ thread' = "topic" /\ report' \in 0 .. MaxJobs /\ UNCHANGED main
       \/ thread' = "dead" /\ main' = "crashed" /\ UNCHANGED report
    /\ stale' = TRUE
    /\ UNCHANGED <<job, jobs, getter, topicVars, using, kafka, own, early,
                   switches, faults>>

\* StatusProducerTopic is read again for the call of produce.
LoadTopic ==
    /\ thread = "topic"
    /\ using' = StatusProducerTopic
    /\ thread' = "produce"
    /\ UNCHANGED <<mainVars, topicVars, report, kafka, history>>

Rearmed == "waiting"

\* produce is called through a pointer to a topic that was destroyed: the
\* process ends, or the memory of the topic is as it was (Publish).
Crash ==
    /\ thread = "produce" /\ using \notin topics
    /\ thread' = "dead" /\ main' = "crashed"
    /\ UNCHANGED <<job, jobs, getter, topicVars, using, report, kafka, history>>

\* produce, then postReportStatusActions whatever produce has returned.
Publish ==
    /\ thread = "produce"
    /\ Produce
    /\ thread' = Rearmed
    /\ using' = NoTopic /\ report' = 0
    /\ UNCHANGED <<mainVars, topicVars, own, early, stale, switches>>

-----------------------------------------------------------------------------
Timer ==
    \/ createJSONReport \/ ReadsDestroyedStatus \/ LoadTopic
    \/ Publish \/ Crash

Next ==
    \/ setStatusGetter \/ StartOnDefault \/ useAlternativeStatusTopic \/ SwapIn
    \/ TopicCreationError \/ setCurrentStatus \/ setToIdle
    \/ revertToDefaultStatusTopic \/ DestroyMembers \/ Stop \/ Join \/ Drain
    \/ Fire \/ Timer
    \/ \E m \in Message : Deliver(m)

Spec == Init /\ [][Next]_vars

\* Both threads are scheduled; the broker owes nothing.
Fairness ==
    /\ WF_vars(Timer)
    /\ WF_vars(Stop \/ Join \/ Drain)

FairSpec == Spec /\ Fairness

-----------------------------------------------------------------------------
\* The variables have their types; librdkafka never has more than it may.
TypeOK ==
    /\ main \in {"constructed", "idle", "switching", "switched", "writing",
                 "reverting", "destroying", "stopping", "draining", "gone",
                 "crashed"}
    /\ {job, jobs, report} \subseteq 0 .. MaxJobs
    /\ {getter, UsingAlternativeStatusTopic, early, stale} \subseteq BOOLEAN
    /\ {StatusProducerTopic, AltStatusProducerTopic, using}
           \subseteq Topic \cup {NoTopic}
    /\ topics \subseteq Topic /\ own \subseteq Topic
    /\ thread \in {"waiting", "status", "topic", "produce", "dead", "joined"}
    /\ heap \subseteq Message
    /\ reported \subseteq queue /\ Cardinality(queue) <= MaxQueue
    /\ polls \in 0 .. MaxPolls /\ faults \in 0 .. MaxFaults /\ switches \in Nat

\* Until the producer is gone librdkafka has every message that is allocated
\* and no other: none is freed below it and none is leaked, whether it is
\* accepted, refused, acknowledged or has failed (ProducerTopic::produce and
\* dr_cb).  Messages outlive the producer only if all the polls of ~Producer
\* were not enough.
MessageOwnedOnce ==
    IF main = "gone" THEN queue = {} /\ (heap # {} => polls = MaxPolls)
    ELSE heap = queue

\* Between two switches the reports go to the topic of the job that asked for
\* one and otherwise to the default one, whatever topics could not be created,
\* and no topic object is forgotten or pointed at after its end.
SettledTopics ==
    main \notin {"switching", "reverting", "crashed"} =>
        /\ StatusProducerTopic =
               IF UsingAlternativeStatusTopic THEN jobs ELSE Default
        /\ topics = {StatusProducerTopic, AltStatusProducerTopic} \ {NoTopic}

TopicOf(j) == IF j \in own THEN j ELSE Default

\* What the unlocked switch and the destruction of the status can do to a
\* report, and no more.  It calls produce through a pointer to a topic that was
\* destroyed only if two switches overlap it (a job has ended and the next has
\* started meanwhile); it is sent to another topic than that of the job it
\* reports on only if one does, or if its status was gone when it was read.
\* The reports end before the reporter does only for one of these reasons or
\* because the first was before Master was there: no full queue, no refused
\* message and no single switch ends them (reportStatus).
ReportUndisturbed ==
    /\ thread = "produce" /\ using \notin topics => switches > 1
    /\ thread = "produce" /\ report # 0 /\ switches = 0 /\ ~stale =>
           using = TopicOf(report)
    /\ thread = "dead" => early \/ stale \/ switches > 1
    /\ main = "crashed" => stale \/ switches > 1

\* The destructor of the reporter comes to an end, whatever the thread is doing
\* and whether or not the broker answers, unless the process crashes.
DestructorReturns == main = "destroying" ~> main \in {"gone", "crashed"}
=============================================================================
