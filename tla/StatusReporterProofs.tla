------------------------ MODULE StatusReporterProofs ------------------------
(***************************************************************************)
(* What StatusReporter promises for any number of jobs, any queue of       *)
(* librdkafka and any number of polls and faults.                          *)
(***************************************************************************)
EXTENDS StatusReporter, FiniteSetTheorems, TLAPS

\* A switch of the topic is going on.
Switching == main \in {"switching", "reverting"}

Current == IF UsingAlternativeStatusTopic THEN jobs ELSE Default

\* Where the two topics are.  The topic of an earlier job, if there was one,
\* waits in AltStatusProducerTopic while the default one is used.
Pointers ==
    main # "crashed" =>
        /\ StatusProducerTopic = Current
        /\ UsingAlternativeStatusTopic => jobs > 0 /\ jobs \in own
        /\ IF main = "switching"
           THEN /\ jobs > 0 /\ jobs \in own /\ AltStatusProducerTopic = jobs
                /\ topics = {Default, jobs}
           ELSE /\ AltStatusProducerTopic \in
                       IF UsingAlternativeStatusTopic THEN {Default}
                       ELSE (1 .. jobs) \cup {NoTopic}
                /\ topics = {StatusProducerTopic, AltStatusProducerTopic} \ {NoTopic}

\* The steps of the main thread: when the topic of a job is used, and that the
\* status is the one whose topic is.
Phases ==
    /\ main \in {"constructed", "idle", "switching"} =>
           ~UsingAlternativeStatusTopic
    /\ main \in {"switched", "reverting"} => UsingAlternativeStatusTopic
    /\ main \in {"constructed", "idle", "switching", "switched", "reverting"} =>
           job = 0
    /\ own \subseteq 1 .. jobs
    /\ main # "crashed" /\ job # 0 => TopicOf(job) = StatusProducerTopic
    /\ main = "crashed" => thread = "dead"
    /\ main \in {"draining", "gone"} => thread = "joined"

\* A report that sees a switch has counted it, and one that uses a pointer
\* that is no longer current has seen one.
CountsSwitches ==
    /\ Reporting /\ Switching => switches > 0
    /\ Reporting /\ ~getter => early
    /\ thread = "topic" /\ report # 0 /\ switches = 0 /\ ~stale =>
           TopicOf(report) = StatusProducerTopic
    /\ thread = "produce" =>
           using \in {Default, StatusProducerTopic} \/ switches > 0

Reports == Pointers /\ Phases /\ CountsSwitches /\ ReportUndisturbed

IInv == TypeOK /\ MessageOwnedOnce /\ Reports
-----------------------------------------------------------------------------
\* The messages: librdkafka, the heap and the bound of the queue.

\* A set of messages can be counted.
LEMMA MessagesAreFinite ==
    ASSUME NEW S \in SUBSET Message
    PROVE  IsFiniteSet(S) /\ Cardinality(S) \in Nat
<1>1. 0 \in Int /\ MaxQueue + 1 \in Int
  BY StatusAssumption
<1>2. IsFiniteSet(Message)
  BY <1>1, FS_Interval DEF Message
<1>3. IsFiniteSet(S)
  BY <1>2, FS_Subset
<1>. QED  BY <1>3, FS_CardinalityType

\* A poll frees what it takes off the queue and makes the queue no longer.
LEMMA PollFrees ==
    ASSUME TypeOK, heap = queue
    PROVE  /\ poll.heap = poll.queue
           /\ poll.queue \subseteq Message
           /\ Cardinality(poll.queue) \in Nat
           /\ Cardinality(poll.queue) <= MaxQueue
<1>1. poll.heap = heap \ reported /\ poll.queue = queue \ reported
  BY DEF poll
<1>2. heap = queue /\ queue \subseteq Message
  BY DEF TypeOK
<1>3. IsFiniteSet(queue) /\ Cardinality(queue) \in Nat
  BY <1>2, MessagesAreFinite
<1>4. /\ Cardinality(queue \ reported) <= Cardinality(queue)
      /\ Cardinality(queue \ reported) \in Nat
  BY <1>2, <1>3, FS_Subset, MessagesAreFinite
<1>5. Cardinality(queue) <= MaxQueue /\ MaxQueue \in Nat
  BY StatusAssumption DEF TypeOK
<1>. QED  BY <1>1, <1>2, <1>3, <1>4, <1>5

\* There is always a message that is not allocated: MaxQueue are at most.
LEMMA SomeMessageIsFree ==
    ASSUME TypeOK, heap = queue
    PROVE  LET m == CHOOSE n \in Message : n \notin heap
           IN  m \in Message /\ m \notin heap
<1>1. Cardinality(heap) <= MaxQueue /\ MaxQueue \in Nat
  BY StatusAssumption DEF TypeOK
<1>2. 0 \in Int /\ MaxQueue + 1 \in Int /\ ~ 0 > MaxQueue + 1
  BY StatusAssumption
<1>3. Cardinality(Message) = MaxQueue + 1 - 0 + 1
  BY <1>2, FS_Interval DEF Message
<1>4. heap # Message
  BY <1>1, <1>3
<1>5. \E n \in Message : n \notin heap
  BY <1>4, Zenon DEF TypeOK
<1>. QED  BY <1>5

\* ProducerTopic::produce hands a message over or frees it.
LEMMA ProduceHandsOver ==
    ASSUME TypeOK, heap = queue, Produce
    PROVE  /\ heap' = queue' /\ heap' \subseteq Message
           /\ reported' = {} /\ polls' = polls
           /\ Cardinality(queue') <= MaxQueue
           /\ faults' \in 0 .. MaxFaults
<1> DEFINE m == CHOOSE n \in Message : n \notin heap
<1>1. m \in Message /\ m \notin heap
  BY SomeMessageIsFree
<1>2. /\ poll.heap = poll.queue /\ poll.queue \subseteq Message
      /\ Cardinality(poll.queue) \in Nat /\ Cardinality(poll.queue) <= MaxQueue
  BY PollFrees
<1>3. reported' = {} /\ polls' = polls
  BY DEF Produce
<1>4. MaxQueue \in Nat /\ MaxFaults \in Nat /\ faults \in 0 .. MaxFaults
  BY StatusAssumption DEF TypeOK
<1>5. CASE /\ ~Full(poll.queue) /\ UNCHANGED faults
           /\ queue' = poll.queue \cup {m} /\ heap' = poll.heap \cup Kept(m)
  <2>1. Cardinality(poll.queue) + 1 <= MaxQueue
    BY <1>2, <1>4, <1>5 DEF Full
  <2>2. IsFiniteSet(poll.queue)
    BY <1>2, MessagesAreFinite
  <2>3. Cardinality(queue') = Cardinality(poll.queue)
        \/ Cardinality(queue') = Cardinality(poll.queue) + 1
    BY <1>5, <2>2, FS_AddElement
  <2>4. Cardinality(queue') <= MaxQueue
    BY <1>2, <1>4, <2>1, <2>3
  <2>5. heap' = queue' /\ heap' \subseteq Message
    BY <1>1, <1>2, <1>5 DEF Kept
  <2>6. faults' \in 0 .. MaxFaults
    BY <1>4, <1>5
  <2>. QED  BY <1>3, <2>4, <2>5, <2>6
<1>6. CASE /\ Full(poll.queue) \/ faults < MaxFaults
           /\ queue' = poll.queue /\ heap' = poll.heap
           /\ faults' = IF Full(poll.queue) THEN faults ELSE faults + 1
  BY <1>2, <1>3, <1>4, <1>6
<1>. QED  BY <1>5, <1>6 DEF Produce
-----------------------------------------------------------------------------
\* A step of any thread keeps the types, and a message with librdkafka if and
\* only if it is allocated.
LEMMA TypeStep ==
    ASSUME TypeOK, MessageOwnedOnce, Phases, [Next]_vars
    PROVE  TypeOK' /\ MessageOwnedOnce'
<1>0. /\ {MaxQueue, MaxPolls, MaxJobs, MaxFaults} \subseteq Nat
      /\ TypeOK /\ MessageOwnedOnce
      /\ main \in {"draining", "gone"} => thread = "joined"
  BY StatusAssumption DEF Phases
<1> USE <1>0 DEF TypeOK, MessageOwnedOnce, Topic, Default, mainVars, topicVars,
                 threadVars, kafka, history
<1>1. CASE setStatusGetter
  BY <1>1 DEF setStatusGetter
<1>2. CASE StartOnDefault
  BY <1>2 DEF StartOnDefault
<1>3. CASE useAlternativeStatusTopic
  <2>1. jobs + 1 \in 0 .. MaxJobs /\ switches' \in Nat
    BY <1>3 DEF useAlternativeStatusTopic, Overlapped
  <2>2. topics' \subseteq Topic /\ own' \subseteq Topic
    BY <1>3, <2>1, Zenon DEF useAlternativeStatusTopic
  <2>. QED  BY <1>3, <2>1, <2>2 DEF useAlternativeStatusTopic
<1>4. CASE TopicCreationError
  BY <1>4 DEF TopicCreationError
<1>5. CASE SwapIn
  BY <1>5 DEF SwapIn, Swap
<1>6. CASE setCurrentStatus
  BY <1>6 DEF setCurrentStatus
<1>7. CASE revertToDefaultStatusTopic
  BY <1>7, Zenon DEF revertToDefaultStatusTopic, Swap
<1>8. CASE setToIdle
  BY <1>8 DEF setToIdle, Overlapped, Reporting
<1>9. CASE DestroyMembers
  BY <1>9 DEF DestroyMembers
<1>10. CASE Stop
  BY <1>10 DEF Stop
<1>11. CASE Join
  BY <1>11 DEF Join
<1>12. CASE Fire
  BY <1>12, Zenon DEF Fire
<1>13. CASE createJSONReport
  BY <1>13 DEF createJSONReport, StatusGone
<1>16. CASE ReadsDestroyedStatus
  BY <1>16 DEF ReadsDestroyedStatus, StatusGone
<1>14. CASE LoadTopic
  BY <1>14 DEF LoadTopic
<1>15. CASE Crash
  BY <1>15 DEF Crash
<1>20. CASE Drain
  <2>1. CASE queue = {} \/ polls = MaxPolls
    <3>1. Cardinality({}) <= MaxQueue
      BY FS_EmptySet
    <3>2. heap = queue
      BY <1>20 DEF Drain
    <3>. QED  BY <1>20, <2>1, <3>1, <3>2 DEF Drain
  <2>2. CASE ~(queue = {} \/ polls = MaxPolls)
    <3>1. /\ heap' = poll.heap /\ queue' = poll.queue /\ reported' = {}
          /\ polls' = polls + 1 /\ polls # MaxPolls
          /\ UNCHANGED <<mainVars, topicVars, threadVars, history>>
          /\ heap = queue /\ main # "gone"
      BY <1>20, <2>2 DEF Drain
    <3>2. /\ heap' = queue' /\ heap' \subseteq Message
          /\ Cardinality(queue') <= MaxQueue
      BY <3>1, PollFrees
    <3>3. polls' \in 0 .. MaxPolls
      BY <3>1
    <3>. QED  BY <3>1, <3>2, <3>3
  <2>. QED  BY <2>1, <2>2
<1>21. CASE Publish
  <2>0. main # "gone" /\ heap = queue
    BY <1>21 DEF Publish
  <2>1. /\ heap' = queue' /\ heap' \subseteq Message
        /\ reported' = {} /\ polls' = polls
        /\ Cardinality(queue') <= MaxQueue
        /\ faults' \in 0 .. MaxFaults
    BY <1>21, <2>0, ProduceHandsOver DEF Publish
  <2>2. /\ thread' = "waiting" /\ using' = NoTopic /\ report' = 0
        /\ UNCHANGED <<mainVars, topicVars, own, early, stale, switches>>
    BY <1>21 DEF Publish, Rearmed
  <2>. QED  BY <2>0, <2>1, <2>2
<1>22. ASSUME NEW m \in Message, Deliver(m)
       PROVE  TypeOK' /\ MessageOwnedOnce'
  BY <1>22 DEF Deliver
<1>23. CASE UNCHANGED vars
  BY <1>23 DEF vars
<1>. QED  BY <1>1, <1>2, <1>3, <1>4, <1>5, <1>6, <1>7, <1>8, <1>9, <1>10,
             <1>11, <1>12, <1>13, <1>14, <1>15, <1>16, <1>20, <1>21, <1>22, <1>23,
             Zenon
          DEF Next, Timer
-----------------------------------------------------------------------------
\* A step of any thread keeps the two topics where they belong, and a report
\* counts the switches that can hurt it.
LEMMA ReportStep ==
    ASSUME TypeOK, Reports, [Next]_vars
    PROVE  Reports'
<1>0. /\ jobs \in Nat /\ NoTopic \notin Nat /\ switches \in Nat /\ job \in Nat
      /\ getter \in BOOLEAN /\ UsingAlternativeStatusTopic \in BOOLEAN
      /\ report \in Nat /\ stale \in BOOLEAN
      /\ Pointers /\ Phases /\ CountsSwitches /\ ReportUndisturbed
  BY StatusAssumption DEF TypeOK, Reports
<1> USE <1>0 DEF Pointers, Phases, CountsSwitches, ReportUndisturbed, Switching,
                 Current, TopicOf, Default, Reporting, mainVars, topicVars,
                 threadVars, kafka, history
<1> SUFFICES Pointers' /\ Phases' /\ CountsSwitches' /\ ReportUndisturbed'
  BY Zenon DEF Reports
<1>1. CASE setStatusGetter
  BY <1>1 DEF setStatusGetter
<1>2. CASE StartOnDefault
  BY <1>2 DEF StartOnDefault
<1>3. CASE useAlternativeStatusTopic
  BY <1>3 DEF useAlternativeStatusTopic, Overlapped
<1>4. CASE SwapIn
  BY <1>4 DEF SwapIn, Swap
<1>5. CASE TopicCreationError
  BY <1>5 DEF TopicCreationError
<1>6. CASE setCurrentStatus
  BY <1>6 DEF setCurrentStatus
<1>7. CASE setToIdle
  BY <1>7 DEF setToIdle, Overlapped
<1>8. CASE revertToDefaultStatusTopic
  BY <1>8 DEF revertToDefaultStatusTopic, Swap
<1>9. CASE DestroyMembers
  BY <1>9 DEF DestroyMembers
<1>10. CASE Stop
  BY <1>10 DEF Stop
<1>11. CASE Join
  BY <1>11 DEF Join
<1>12. CASE Drain
  BY <1>12 DEF Drain
<1>13. CASE Fire
  <2>0. /\ thread = "waiting" /\ thread' \in {"dead", "status"}
        /\ early' = ~getter /\ switches' \in Nat
        /\ Switching => switches' > 0
        /\ UNCHANGED <<mainVars, topicVars, own>>
    BY <1>13 DEF Fire
  <2>1. Pointers'
    BY <2>0
  <2>2. Phases'
    BY <2>0
  <2>3. CountsSwitches'
    BY <2>0, Zenon
  <2>4. ReportUndisturbed'
    BY <1>13 DEF Fire
  <2>. QED  BY <2>1, <2>2, <2>3, <2>4, Zenon
<1>14. CASE createJSONReport
  BY <1>14 DEF createJSONReport, StatusGone
<1>15. CASE ReadsDestroyedStatus
  BY <1>15 DEF ReadsDestroyedStatus, StatusGone
<1>16. CASE LoadTopic
  BY <1>16 DEF LoadTopic
<1>17. CASE Crash
  BY <1>17 DEF Crash
<1>18. CASE Publish
  BY <1>18 DEF Publish, Rearmed
<1>20. ASSUME NEW m \in Message, Deliver(m)
       PROVE  Pointers' /\ Phases' /\ CountsSwitches' /\ ReportUndisturbed'
  BY <1>20 DEF Deliver
<1>21. CASE UNCHANGED vars
  BY <1>21 DEF vars
<1>. QED  BY <1>1, <1>2, <1>3, <1>4, <1>5, <1>6, <1>7, <1>8, <1>9, <1>10,
             <1>11, <1>12, <1>13, <1>14, <1>15, <1>16, <1>17, <1>18, <1>20,
             <1>21, ZenonT(30)
          DEF Next, Timer
-----------------------------------------------------------------------------
\* The inductive invariant.
LEMMA Invariance == Spec => []IInv
<1>1. Init => IInv
  <2> SUFFICES ASSUME Init PROVE IInv
    OBVIOUS
  <2>1. Cardinality(queue) = 0
    BY FS_EmptySet DEF Init
  <2>2. TypeOK /\ MessageOwnedOnce
    <3>1. {getter, UsingAlternativeStatusTopic, early, stale} \subseteq BOOLEAN
      BY Zenon DEF Init
    <3>2. /\ {job, jobs, report} \subseteq 0 .. MaxJobs
          /\ {StatusProducerTopic, AltStatusProducerTopic, using}
                 \subseteq Topic \cup {NoTopic}
          /\ topics \subseteq Topic /\ own \subseteq Topic
          /\ polls \in 0 .. MaxPolls /\ faults \in 0 .. MaxFaults
          /\ switches \in Nat
      BY StatusAssumption DEF Init, Topic, Default
    <3>3. heap = queue /\ heap \subseteq Message /\ reported \subseteq queue
      BY DEF Init
    <3>4. Cardinality(queue) <= MaxQueue
      BY <2>1, StatusAssumption
    <3>. QED  BY <3>1, <3>2, <3>3, <3>4 DEF Init, TypeOK, MessageOwnedOnce
  <2>3. {Default, NoTopic} \ {NoTopic} = {Default}
    BY StatusAssumption DEF Default
  <2>4. Pointers
    BY <2>3 DEF Init, Pointers, Current
  <2>5. Phases /\ CountsSwitches /\ ReportUndisturbed
    BY DEF Init, Phases, CountsSwitches, ReportUndisturbed, Switching, Reporting
  <2>. QED  BY <2>2, <2>4, <2>5 DEF IInv, Reports
<1>2. IInv /\ [Next]_vars => IInv'
  BY TypeStep, ReportStep DEF IInv, Reports
<1>. QED  BY <1>1, <1>2, PTL DEF Spec

\* The variables of the reporter have their types, and librdkafka never has
\* more messages than its queue holds (ProducerTopic::produce).
THEOREM ReporterTypes == Spec => []TypeOK
<1>1. IInv => TypeOK
  BY DEF IInv
<1>. QED  BY <1>1, Invariance, PTL

\* No message is freed below librdkafka and none is leaked while the producer
\* lives, nor after it if its polls were enough, for any length of its queue and
\* any number of faults (ProducerTopic::produce, dr_cb and ~Producer).
THEOREM NoMessageLeaks == Spec => []MessageOwnedOnce
<1>1. IInv => MessageOwnedOnce
  BY DEF IInv
<1>. QED  BY <1>1, Invariance, PTL

\* After any number of jobs, with and without a topic of their own, reports go
\* to the topic of the job or the default one, and no topic object is forgotten
\* (useAlternativeStatusTopic and revertToDefaultStatusTopic).
THEOREM TopicsSettle == Spec => []SettledTopics
<1>1. IInv => SettledTopics
  BY DEF IInv, Reports, Pointers, Current, SettledTopics
<1>. QED  BY <1>1, Invariance, PTL

\* A report calls produce through a pointer to a destroyed topic only if two
\* switches overlap it, goes to the topic of the job it reports on unless one
\* does, and only such a race, a status that is gone or a report before Master
\* is there ends the reports (reportStatus against the unlocked swap and the
\* order of the members of Master).
THEOREM OnlyRacesDisturb == Spec => []ReportUndisturbed
<1>1. IInv => ReportUndisturbed
  BY DEF IInv, Reports
<1>. QED  BY <1>1, Invariance, PTL
=============================================================================
