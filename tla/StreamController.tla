-------------------------- MODULE StreamController --------------------------
(***************************************************************************)
(* One file-writing job from the construction of its StreamController to   *)
(* the closing of the file: the main thread that owns the controller, the  *)
(* controller's executor thread, the topics with their executor threads,   *)
(* the partitions' threads and the MessageWriter's thread.                 *)
(*                                                                         *)
(* A partition is abstracted to what module Partition shows of it: while   *)
(* it runs it may forward messages and may hold back one buffered message  *)
(* that its destructor forwards; it finishes once stopped, once its stop   *)
(* time has passed, or on its own (errors, no filters left).  Messages are *)
(* counted, not told apart.                                                *)
(***************************************************************************)
EXTENDS Naturals, Sequences, FiniteSets, Functions

CONSTANTS
    TopicSeq,         \* the topics in the order of the Streamers vector
    Part,             \* the partitions
    TopicOf,          \* [Part -> topics]
    NullTopic,        \* a moved-from std::unique_ptr<Topic>
    NoTime,           \* time_point::max(): no stop time was given
    StopTimes,        \* the stop times that may be set
    MaxQueuedWrites,  \* StreamerOptions.MaxQueuedWrites
    CanStopNow,       \* the job may be stopped at once
    CanFail,          \* metadata calls of a topic may fail until it gives up
    \* Bounds.
    Horizon,          \* the clock stops here
    MaxMessages,      \* messages within the window, per partition
    MaxRetries,       \* failed metadata calls that are retried
    MaxSetStops       \* calls of setStopTime

Topic == {TopicSeq[i] : i \in DOMAIN TopicSeq}

StopTime == 1 .. Horizon \cup {NoTime}

ASSUME ControllerAssumption ==
    /\ TopicSeq \in Seq(Topic)
    /\ IsInjective(TopicSeq)   \* they are the keys of a std::map
    /\ IsFiniteSet(Part) /\ TopicOf \in [Part -> Topic]
    /\ NullTopic \notin Topic
    /\ NoTime \in Nat /\ NoTime > Horizon
    /\ StopTimes \subseteq 1 .. Horizon
    /\ CanStopNow \in BOOLEAN /\ CanFail \in BOOLEAN
    /\ MaxQueuedWrites # 0   \* it is 1000
    /\ Horizon # 0           \* the clock starts at 1
    /\ {MaxQueuedWrites, Horizon, MaxMessages, MaxRetries, MaxSetStops}
           \subseteq Nat

VARIABLES
    now,
    \* main thread
    main,               \* where it is, see Main below
    setStops,           \* bound: calls of setStopTime
    how,                \* history: why isDoneWriting was true
    reported,           \* history: what setToIdle reported
    \* controller
    StopTimestamp, StopNow, HasError, StreamersRemaining, StreamersPaused,
    Streamers,          \* the vector of topics
    task,               \* the low-priority task of the executor
    newEnd,             \* what std::remove_if returned to erase
    stopTasks,          \* its high-priority tasks, all from setStopTime
    retries,            \* bound: failed metadata calls
    \* topics
    stage,              \* the next task in the chain of a topic's executor
    topicStopTasks,     \* its tasks from setStopTime
    StopConsumeTime, IsDone, TopicHasError,
    \* partitions
    part,               \* "none", "running", "finished" or "gone"
    partStop,           \* the stop time last passed to set_stop_time
    partForced,         \* stop() has been called
    buffered,           \* a message is held back
    messages,           \* bound: messages within the window
    \* MessageWriter
    RunThread,
    writer,             \* "loop", "final" or "done"
    queue,              \* WriteJobs
    written, forwarded  \* messages written and messages forwarded

mainVars == <<main, setStops, how, reported>>
controllerVars == <<StopTimestamp, StopNow, HasError, StreamersRemaining,
                    StreamersPaused, Streamers, task, newEnd,
                    stopTasks>>
topicVars == <<stage, topicStopTasks, StopConsumeTime, IsDone, TopicHasError,
               retries>>
partVars == <<part, partStop, partForced, buffered, messages>>
writerVars == <<RunThread, writer, queue, written, forwarded>>
vars == <<now, mainVars, controllerVars, topicVars, partVars, writerVars>>

MainTypeOK ==
    /\ main \in {"writing", "finish", "stop", "exit", "join", "free", "idle",
                 "crashed"}
    /\ setStops \in 0 .. MaxSetStops
    /\ how \in {"none", "error", "stop_now", "stop_time"}
    /\ reported \in {"none", "success", "failure"}

ControllerTypeOK ==
    /\ StopTimestamp \in StopTime
    /\ StopNow \in BOOLEAN /\ HasError \in BOOLEAN
    /\ StreamersRemaining \in BOOLEAN /\ StreamersPaused \in BOOLEAN
    /\ Streamers \in Seq(Topic \cup {NullTopic})
    /\ task \in {"getTopicNames", "initStreams", "periodic", "erasing",
                 "failing", "none"}
    /\ newEnd \in 0 .. Len(TopicSeq)
    /\ stopTasks \in Seq(StopTime)

TopicTypeOK ==
    /\ stage \in [Topic -> {"none", "partitions", "offsets", "create", "check",
                            "failed", "gone"}]
    /\ topicStopTasks \in [Topic -> Seq(StopTime)]
    /\ StopConsumeTime \in [Topic -> StopTime]
    /\ IsDone \in [Topic -> BOOLEAN] /\ TopicHasError \in [Topic -> BOOLEAN]
    /\ retries \in Nat

PartTypeOK ==
    /\ part \in [Part -> {"none", "running", "finished", "gone"}]
    /\ partStop \in [Part -> StopTime]
    /\ partForced \in [Part -> BOOLEAN] /\ buffered \in [Part -> BOOLEAN]
    /\ messages \in [Part -> 0 .. MaxMessages]

WriterTypeOK ==
    /\ RunThread \in BOOLEAN
    /\ writer \in {"loop", "final", "done"}
    /\ queue \in Nat /\ written \in Nat /\ forwarded \in Nat

TypeOK ==
    /\ now \in 1 .. Horizon
    /\ MainTypeOK /\ ControllerTypeOK /\ TopicTypeOK /\ PartTypeOK
    /\ WriterTypeOK

\* start() has just been called.
Init ==
    /\ now = 1
    /\ main = "writing" /\ setStops = 0 /\ how = "none"
    /\ reported = "none"
    /\ StopTimestamp \in StopTimes \cup {NoTime} /\ StopNow = FALSE /\ HasError = FALSE
    /\ StreamersRemaining = TRUE /\ StreamersPaused = FALSE
    /\ Streamers = <<>> /\ task = "getTopicNames" /\ newEnd = 0
    /\ stopTasks = <<>> /\ retries = 0
    /\ stage = [t \in Topic |-> "none"]
    /\ topicStopTasks = [t \in Topic |-> <<>>]
    /\ StopConsumeTime = [t \in Topic |-> NoTime]
    /\ IsDone = [t \in Topic |-> FALSE]
    /\ TopicHasError = [t \in Topic |-> FALSE]
    /\ part = [p \in Part |-> "none"]
    /\ partStop = [p \in Part |-> NoTime]
    /\ partForced = [p \in Part |-> FALSE]
    /\ buffered = [p \in Part |-> FALSE]
    /\ messages = [p \in Part |-> 0]
    /\ RunThread = TRUE /\ writer = "loop"
    /\ queue = 0 /\ written = 0 /\ forwarded = 0

-----------------------------------------------------------------------------
PartsOf(t) == {p \in Part : TopicOf[p] = t}

\* Topic::stop reaches the partitions that createStreams has made so far.
Created(S) == {p \in Part : TopicOf[p] \in S /\ part[p] # "none"}

\* StreamController::stop, which main, the destructor and the error path of
\* the executor call.
StopAll ==
    /\ partForced' = [p \in Part |-> partForced[p]
                                     \/ p \in Created(Range(Streamers))]
    /\ RunThread' = FALSE
    /\ StopNow' = TRUE

\* The destructors of topics: their partitions end and forward what they
\* hold back.  Nothing is written once the writer's thread has ended.
Free(topics) ==
    LET gone == {p \in Part : TopicOf[p] \in topics /\ part[p] # "none"}
        held == {p \in gone : buffered[p]}
    IN  /\ part' = [p \in Part |-> IF p \in gone THEN "gone" ELSE part[p]]
        /\ buffered' = [p \in Part |-> buffered[p] /\ p \notin held]
        /\ forwarded' = forwarded + Cardinality(held)
        /\ queue' = queue + Cardinality(held)
        /\ stage' = [t \in Topic |-> IF t \in topics THEN "gone" ELSE stage[t]]

\* A loop over the vector of topics dereferences a moved-from pointer.
MeetsNull == NullTopic \in Range(Streamers)

Crash ==
    /\ main' = "crashed"
    /\ UNCHANGED <<now, setStops, how, reported, controllerVars, topicVars,
                   partVars, writerVars>>

-----------------------------------------------------------------------------
\* Main thread: commands while the job is written (Master::setStopTime and
\* Master::stopNow), and the end of the job (Master::setToIdle).

setStopTime(t) ==
    /\ main = "writing" /\ ~StopNow
    /\ setStops < MaxSetStops
    /\ StopTimestamp >= now   \* else refused: the stop time has passed
    /\ setStops' = setStops + 1
    /\ StopTimestamp' = t
    /\ stopTasks' = Append(stopTasks, t)
    /\ UNCHANGED <<now, main, how, reported, StopNow, HasError,
                   StreamersRemaining, StreamersPaused, Streamers, newEnd,
                   task, topicVars, partVars, writerVars>>

stopNow ==
    /\ main = "writing" /\ ~StopNow /\ CanStopNow
    /\ IF MeetsNull THEN Crash
       ELSE /\ StopAll
            /\ StopTimestamp' = now
            /\ stopTasks' = Append(stopTasks, now)
            /\ UNCHANGED <<now, mainVars, HasError, StreamersRemaining,
                           StreamersPaused, Streamers, newEnd, task, topicVars,
                           part, partStop, buffered, messages, writer, queue,
                           written, forwarded>>

isDoneWriting ==
    \/ HasError
    \/ StopNow
    \/ ~StreamersRemaining /\ StopTimestamp # 0 /\ now > StopTimestamp

hasWritingStopped ==
    /\ main = "writing" /\ isDoneWriting
    /\ main' = "finish"
    /\ how' = IF HasError THEN "error"
              ELSE IF StopNow THEN "stop_now" ELSE "stop_time"
    /\ UNCHANGED <<now, setStops, reported, controllerVars, topicVars, partVars,
                   writerVars>>

\* The finished-writing message is sent before the controller is destroyed.
setToIdle ==
    /\ main = "finish"
    /\ main' = "stop"
    /\ reported' = IF HasError THEN "failure" ELSE "success"
    /\ UNCHANGED <<now, setStops, how, controllerVars, topicVars, partVars,
                   writerVars>>

\* ~StreamController, and the members in reverse order of declaration: the
\* executor, the writer, the topics, the file.
DestructorStop ==
    /\ main = "stop"
    /\ IF MeetsNull THEN Crash
       ELSE /\ main' = "exit"
            /\ StopAll
            /\ UNCHANGED <<now, setStops, how, reported, StopTimestamp,
                           HasError, StreamersRemaining, StreamersPaused,
                           Streamers, newEnd, task, stopTasks, topicVars, part,
                           partStop, buffered, messages, writer, queue,
                           written, forwarded>>

\* The executor's thread is inside a task that takes several steps.
InTask ==
    \/ task = "initStreams" /\ Streamers # <<>>
    \/ task \in {"erasing", "failing"}

ExecutorExits ==
    /\ main = "exit" /\ stopTasks = <<>> /\ ~InTask
    /\ main' = "join"
    /\ task' = "none"
    /\ UNCHANGED <<now, setStops, how, reported, StopTimestamp, StopNow,
                   HasError, StreamersRemaining, StreamersPaused, Streamers,
                   newEnd, stopTasks, topicVars, partVars, writerVars>>

WriterJoined ==
    /\ main = "join" /\ writer = "done"
    /\ main' = "free"
    /\ UNCHANGED <<now, setStops, how, reported, controllerVars, topicVars,
                   partVars, writerVars>>

StreamersFreed ==
    /\ main = "free"
    /\ main' = "idle"
    /\ Free(Range(Streamers))
    /\ UNCHANGED <<now, setStops, how, reported, controllerVars, topicStopTasks,
                   StopConsumeTime, IsDone, TopicHasError, retries, partStop,
                   partForced, messages, RunThread, writer, written>>

-----------------------------------------------------------------------------
\* The executor of the controller.

Executing == main \in {"writing", "finish", "stop", "exit"}

\* A low-priority task starts only when no high-priority one is waiting; the
\* destructor sends a high-priority one.
LowPriority == Executing /\ main # "exit" /\ stopTasks = <<>>

SetStopTimeTask ==
    /\ Executing /\ stopTasks # <<>> /\ ~InTask
    /\ stopTasks' = Tail(stopTasks)
    /\ topicStopTasks' = [t \in Topic |->
                            IF t \in Range(Streamers)
                              THEN Append(topicStopTasks[t], Head(stopTasks))
                              ELSE topicStopTasks[t]]
    /\ UNCHANGED <<now, mainVars, StopTimestamp, StopNow, HasError,
                   StreamersRemaining, StreamersPaused, Streamers, newEnd,
                   task, stage, StopConsumeTime, IsDone, TopicHasError,
                   retries, partVars, writerVars>>

\* A failed call is retried for ever.  When the job has no topics, the loop of
\* initStreams has no rounds.
getTopicNames ==
    /\ LowPriority /\ task = "getTopicNames"
    /\ \/ /\ task' = IF TopicSeq = <<>> THEN "periodic" ELSE "initStreams"
          /\ UNCHANGED retries
       \/ /\ retries < MaxRetries
          /\ retries' = retries + 1
          /\ UNCHANGED task
    /\ UNCHANGED <<now, mainVars, StopTimestamp, StopNow, HasError,
                   StreamersRemaining, StreamersPaused, Streamers, newEnd,
                   stopTasks, stage, topicStopTasks, StopConsumeTime, IsDone,
                   TopicHasError, partVars, writerVars>>

\* A topic of the job is not known to the broker.
TopicMissing ==
    /\ LowPriority /\ task = "initStreams" /\ Streamers = <<>> /\ CanFail
    /\ HasError' = TRUE
    /\ task' = "none"
    /\ UNCHANGED <<now, mainVars, StopTimestamp, StopNow, StreamersRemaining,
                   StreamersPaused, Streamers, newEnd, stopTasks, topicVars,
                   partVars, writerVars>>

\* One round of the loop of initStreams; the task is not interrupted.
initStreams ==
    /\ task = "initStreams"
    /\ InTask \/ LowPriority
    /\ LET t == TopicSeq[Len(Streamers) + 1]
       IN  /\ Streamers' = Append(Streamers, t)
           /\ StopConsumeTime' = [StopConsumeTime EXCEPT ![t] = StopTimestamp]
           /\ stage' = [stage EXCEPT ![t] = "partitions"]
    /\ task' = IF Len(Streamers') = Len(TopicSeq) THEN "periodic" ELSE task
    /\ UNCHANGED <<now, mainVars, StopTimestamp, StopNow, HasError,
                   StreamersRemaining, StreamersPaused, newEnd, stopTasks,
                   topicStopTasks, IsDone, TopicHasError, retries, partVars,
                   writerVars>>

\* Mutant: the consumers are not resumed.
throttle_NoResume ==
    StreamersPaused' = (StreamersPaused \/ queue > MaxQueuedWrites)

throttleIfWriteQueueIsFull ==
    StreamersPaused' = \/ ~StreamersPaused /\ queue > MaxQueuedWrites
                       \/ StreamersPaused /\ ~(10 * queue < 8 * MaxQueuedWrites)

\* The elements of the vector at the positions of S, in their order.
Elements(S) ==
    [j \in 1 .. Cardinality(S) |->
       Streamers[CHOOSE i \in S : Cardinality({k \in S : k <= i}) = j]]

\* Mutant: the elements that are done are kept, the others removed.
Kept_Negated(n) == Elements({i \in 1 .. n : IsDone[Streamers[i]]})

\* std::remove_if up to element n: the elements to keep move to the front and
\* leave null pointers where they were; the pointers they overwrite are freed.
Kept(n) == Elements({i \in 1 .. n : ~IsDone[Streamers[i]]})

Compacted(n) ==
    LET kept == Kept(n)
    IN  [i \in DOMAIN Streamers |->
           IF i <= Len(kept) THEN kept[i]
           ELSE IF i <= n /\ ~IsDone[Streamers[i]] THEN NullTopic
           ELSE Streamers[i]]

\* Mutant: the error of a topic is not noticed.
Checked_NoError == Len(Streamers)

\* Topics before the first that throws; all of them when none does.
Checked ==
    LET throwing == {i \in DOMAIN Streamers : TopicHasError[Streamers[i]]}
    IN  IF throwing = {} THEN Len(Streamers)
        ELSE (CHOOSE i \in throwing : \A j \in throwing : i <= j) - 1

\* checkIfStreamsAreDone finds nothing to remove.
NoneDone ==
    /\ LowPriority /\ task = "periodic"
    /\ \A t \in Range(Streamers) : ~IsDone[t] /\ ~TopicHasError[t]
    /\ StreamersRemaining' = (StreamersRemaining /\ Streamers # <<>>)
    /\ throttleIfWriteQueueIsFull
    /\ UNCHANGED <<now, mainVars, StopTimestamp, StopNow, HasError, Streamers,
                   newEnd, task, stopTasks, topicVars, partVars, writerVars>>

\* std::remove_if, which isDone of a topic may end with an exception.
RemoveIf ==
    /\ LowPriority /\ task = "periodic"
    /\ \E t \in Range(Streamers) : IsDone[t] \/ TopicHasError[t]
    /\ Streamers' = Compacted(Checked)
    /\ Free(Range(Streamers) \ Range(Streamers'))
    /\ IF Checked = Len(Streamers)
         THEN /\ task' = "erasing" /\ newEnd' = Len(Kept(Checked))
              /\ UNCHANGED HasError
         ELSE /\ task' = "failing" /\ HasError' = TRUE
              /\ UNCHANGED newEnd
    /\ UNCHANGED <<now, mainVars, StopTimestamp, StopNow, StreamersRemaining,
                   StreamersPaused, stopTasks, topicStopTasks, StopConsumeTime,
                   IsDone, TopicHasError, retries, partStop, partForced,
                   messages, RunThread, writer, written>>

\* The call of erase, and the rest of performPeriodicChecks.
Erase ==
    /\ task = "erasing"
    /\ Streamers' = SubSeq(Streamers, 1, newEnd)
    /\ newEnd' = 0
    /\ Free(Range(Streamers) \ Range(Streamers'))
    /\ StreamersRemaining' = (StreamersRemaining /\ Streamers' # <<>>)
    /\ throttleIfWriteQueueIsFull
    /\ task' = "periodic"
    /\ UNCHANGED <<now, mainVars, StopTimestamp, StopNow, HasError, stopTasks,
                   topicStopTasks, StopConsumeTime, IsDone, TopicHasError,
                   retries, partStop, partForced, messages, RunThread, writer,
                   written>>

\* The catch clause, and the rest of performPeriodicChecks.
StreamError ==
    /\ task = "failing"
    /\ IF MeetsNull THEN Crash
       ELSE /\ StopAll
            /\ StreamersRemaining' = FALSE
            /\ throttleIfWriteQueueIsFull
            /\ task' = "periodic"
            /\ UNCHANGED <<now, mainVars, StopTimestamp, HasError, Streamers,
                           newEnd, stopTasks, topicVars, part, partStop,
                           buffered, messages, writer, queue, written,
                           forwarded>>

-----------------------------------------------------------------------------
\* The executor of topic t.  The tasks of its chain that follow a success have
\* high priority, as has the task of setStopTime, which comes from another
\* producer: their order is not fixed.

Alive(t) == stage[t] \notin {"none", "gone"} /\ main # "idle"

\* Mutant: partitions that are created later do not learn the stop time.
TopicSetStopTime_NotKept(t) ==
    /\ Alive(t) /\ topicStopTasks[t] # <<>>
    /\ topicStopTasks' = [topicStopTasks EXCEPT ![t] = Tail(@)]
    /\ partStop' = [p \in Part |->
                      IF p \in Created({t}) THEN Head(topicStopTasks[t])
                      ELSE partStop[p]]
    /\ UNCHANGED <<now, mainVars, controllerVars, stage, StopConsumeTime,
                   IsDone, TopicHasError, retries, part, partForced, buffered,
                   messages, writerVars>>

TopicSetStopTime(t) ==
    /\ Alive(t) /\ topicStopTasks[t] # <<>>
    /\ topicStopTasks' = [topicStopTasks EXCEPT ![t] = Tail(@)]
    /\ StopConsumeTime' = [StopConsumeTime EXCEPT ![t] =
                             Head(topicStopTasks[t])]
    /\ partStop' = [p \in Part |->
                      IF p \in Created({t}) THEN Head(topicStopTasks[t])
                      ELSE partStop[p]]
    /\ UNCHANGED <<now, mainVars, controllerVars, stage, IsDone, TopicHasError,
                   retries, part, partForced, buffered, messages, writerVars>>

\* getPartitionsForTopic and getOffsetsForPartitions: success.
MetadataCall(t) ==
    /\ stage[t] \in {"partitions", "offsets"}
    /\ stage' = [stage EXCEPT ![t] = IF @ = "partitions" THEN "offsets"
                                     ELSE "create"]
    /\ UNCHANGED <<now, mainVars, controllerVars, topicStopTasks,
                   StopConsumeTime, IsDone, TopicHasError, retries, partVars,
                   writerVars>>

\* Failure: the call is repeated until shouldGiveUp.
MetadataCallFails(t) ==
    /\ stage[t] \in {"partitions", "offsets"}
    /\ \/ /\ retries < MaxRetries
          /\ retries' = retries + 1
          /\ UNCHANGED <<stage, TopicHasError>>
       \/ /\ CanFail
          /\ stage' = [stage EXCEPT ![t] = "failed"]
          /\ TopicHasError' = [TopicHasError EXCEPT ![t] = TRUE]
          /\ UNCHANGED retries
    /\ UNCHANGED <<now, mainVars, controllerVars, topicStopTasks,
                   StopConsumeTime, IsDone, partVars, writerVars>>

createStreams(t) ==
    /\ stage[t] = "create"
    /\ stage' = [stage EXCEPT ![t] = "check"]
    /\ part' = [p \in Part |-> IF TopicOf[p] = t THEN "running" ELSE part[p]]
    /\ partStop' = [p \in Part |-> IF TopicOf[p] = t THEN StopConsumeTime[t]
                                   ELSE partStop[p]]
    /\ UNCHANGED <<now, mainVars, controllerVars, topicStopTasks,
                   StopConsumeTime, IsDone, TopicHasError, retries, partForced,
                   buffered, messages, writerVars>>

checkIfDone(t) ==
    /\ stage[t] = "check" /\ topicStopTasks[t] = <<>> /\ ~IsDone[t]
    /\ \A p \in PartsOf(t) : part[p] = "finished"
    /\ IsDone' = [IsDone EXCEPT ![t] = TRUE]
    /\ UNCHANGED <<now, mainVars, controllerVars, stage, topicStopTasks,
                   StopConsumeTime, TopicHasError, retries, partVars,
                   writerVars>>

-----------------------------------------------------------------------------
\* The thread of partition p; see module Partition.

\* Messages before the start time: the newest is held back.
Hold(p) ==
    /\ part[p] = "running" /\ ~StreamersPaused
    /\ messages[p] = 0 /\ ~buffered[p]
    /\ buffered' = [buffered EXCEPT ![p] = TRUE]
    /\ UNCHANGED <<now, mainVars, controllerVars, topicVars, part, partStop,
                   partForced, messages, writerVars>>

\* A message within the window, after the one held back.
ForwardMessage(p) ==
    LET n == IF buffered[p] THEN 2 ELSE 1
    IN  /\ part[p] = "running" /\ ~StreamersPaused
        /\ messages[p] < MaxMessages
        /\ messages' = [messages EXCEPT ![p] = @ + 1]
        /\ buffered' = [buffered EXCEPT ![p] = FALSE]
        /\ forwarded' = forwarded + n
        /\ queue' = queue + n
        /\ UNCHANGED <<now, mainVars, controllerVars, topicVars, part, partStop,
                       partForced, RunThread, writer, written>>

\* A paused partition does not look at its stop time.
FinishPartition(p) ==
    /\ part[p] = "running"
    /\ partForced[p] \/ (~StreamersPaused /\ now > partStop[p])
    /\ part' = [part EXCEPT ![p] = "finished"]
    /\ UNCHANGED <<now, mainVars, controllerVars, topicVars, partStop,
                   partForced, buffered, messages, writerVars>>

\* It ends by itself: poll errors, or no filters are left.
PartitionEnds(p) ==
    /\ CanFail /\ part[p] = "running" /\ ~StreamersPaused
    /\ part' = [part EXCEPT ![p] = "finished"]
    /\ UNCHANGED <<now, mainVars, controllerVars, topicVars, partStop,
                   partForced, buffered, messages, writerVars>>

-----------------------------------------------------------------------------
\* The thread of the MessageWriter.

WriteOne ==
    /\ writer # "done" /\ queue > 0
    /\ queue' = queue - 1
    /\ written' = written + 1
    /\ UNCHANGED <<now, mainVars, controllerVars, topicVars, partVars,
                   RunThread, writer, forwarded>>

\* The loop ends, and the last WriteOperation begins.
LeaveLoop ==
    /\ writer = "loop" /\ ~RunThread
    /\ writer' = "final"
    /\ UNCHANGED <<now, mainVars, controllerVars, topicVars, partVars,
                   RunThread, queue, written, forwarded>>

\* Mutant: the thread ends without the last WriteOperation.
WriterEnds_NotDrained ==
    /\ writer = "final"
    /\ writer' = "done"
    /\ UNCHANGED <<now, mainVars, controllerVars, topicVars, partVars,
                   RunThread, queue, written, forwarded>>

WriterEnds ==
    /\ writer = "final" /\ queue = 0
    /\ writer' = "done"
    /\ UNCHANGED <<now, mainVars, controllerVars, topicVars, partVars,
                   RunThread, queue, written, forwarded>>

Tick ==
    /\ now < Horizon /\ main # "idle"
    /\ now' = now + 1
    /\ UNCHANGED <<mainVars, controllerVars, topicVars, partVars, writerVars>>

-----------------------------------------------------------------------------
Command == stopNow \/ \E t \in StopTimes : setStopTime(t)

EndOfJob ==
    \/ hasWritingStopped \/ setToIdle \/ DestructorStop \/ ExecutorExits
    \/ WriterJoined \/ StreamersFreed

ExecutorStep ==
    \/ SetStopTimeTask \/ getTopicNames \/ TopicMissing \/ initStreams
    \/ NoneDone \/ RemoveIf \/ Erase \/ StreamError

TopicStep(t) ==
    \/ TopicSetStopTime(t) \/ MetadataCall(t) \/ MetadataCallFails(t)
    \/ createStreams(t) \/ checkIfDone(t)

PartitionStep(p) ==
    Hold(p) \/ ForwardMessage(p) \/ FinishPartition(p) \/ PartitionEnds(p)

WriterStep == WriteOne \/ LeaveLoop \/ WriterEnds

Next ==
    /\ main # "crashed"
    /\ \/ Tick \/ Command \/ EndOfJob \/ ExecutorStep
       \/ \E t \in Topic : TopicStep(t)
       \/ \E p \in Part : PartitionStep(p)
       \/ WriterStep

Spec == Init /\ [][Next]_vars

-----------------------------------------------------------------------------
\* Every thread goes on with its work: the threads block on nothing but each
\* other, a poll returns and a partition ends as module Partition shows, and
\* metadata calls fail at most MaxRetries times.
Fairness ==
    /\ WF_vars(Tick)
    /\ WF_vars(EndOfJob)
    /\ WF_vars(ExecutorStep)
    /\ \A t \in Topic : WF_vars(TopicStep(t))
    /\ \A p \in Part : WF_vars(FinishPartition(p))
    /\ WF_vars(WriterStep)

FairSpec == Spec /\ Fairness

-----------------------------------------------------------------------------
\* A job that ended because its stop time passed is complete: no topic failed,
\* each partition was consumed and freed, and all that it forwarded, the
\* message it held back included, was written before the file was closed.
CompleteJob ==
    main = "idle" /\ how = "stop_time" =>
        /\ reported = "success"
        /\ \A t \in Topic : ~TopicHasError[t]
        /\ \A p \in Part : part[p] = "gone" /\ ~buffered[p]
        /\ written = forwarded

\* The stop time reaches every partition: when no call of setStopTime is on
\* its way through the executors, a running partition has the stop time of the
\* job, whether it was created before or after the call.
StopTimePropagated ==
    \A p \in Part :
        /\ part[p] = "running" /\ main \in {"writing", "finish", "stop"}
        /\ stopTasks = <<>> /\ topicStopTasks[TopicOf[p]] = <<>>
        => partStop[p] = StopTimestamp

\* A topic that gave up ends the job, and the job is reported as failed unless
\* it was stopped at once: the periodic check of the controller meets the error
\* before it can find that no streams remain.
ErrorReported ==
    (\E t \in Topic : TopicHasError[t])
        ~> (reported = "failure" \/ how = "stop_now")

\* A topic is freed once all its partitions have finished, or with the
\* controller: neither the compaction of the vector nor an exception in the
\* middle of it lets go of a topic that is still consumed.
FreedWhenDone ==
    [][\A t \in Topic : stage'[t] = "gone" /\ stage[t] # "gone"
         => IsDone[t] \/ main = "free"]_vars

\* A job with a stop time ends, and so does one that is stopped at once.
JobEnds == (StopTimestamp # NoTime \/ StopNow) ~> main = "idle"

\* The consumers that were paused for a full queue are resumed while the job
\* goes on: the writer drains the queue below the threshold.
PauseEnds == StreamersPaused ~> (~StreamersPaused \/ main # "writing")

\* A message held back is recorded in the end, whatever ends the job:
\* SourceFilter "should always be able to record at least the data from a
\* single message".
HeldBackIsWritten == main = "idle" => written = forwarded

\* stop() and the periodic checks use no pointer of a topic that is gone.
NoNullDereference == main # "crashed"
=============================================================================
