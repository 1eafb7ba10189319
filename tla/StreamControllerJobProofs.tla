--------------------- MODULE StreamControllerJobProofs ----------------------
(***************************************************************************)
(* The rest of the inductive invariant of StreamControllerProofs (the end  *)
(* of the job and the types), and the theorems about a file-writing job.   *)
(***************************************************************************)
EXTENDS StreamControllerProofs

\* The end of the job.

\* No streams remain, and no error was met.
AllDone == ~HasError /\ ~StreamersRemaining

LEMMA AllDoneMeans ==
    ASSUME IInv
    PROVE  /\ how = "stop_time" => AllDone
           /\ AllDone =>
                 /\ task \in {"periodic", "none"} /\ Streamers = <<>>
                 /\ Range(Streamers) = {}
                 /\ \A t \in Topic : stage[t] = "gone" /\ IsDone[t]
                 /\ \A p \in Part : part[p] = "gone" /\ ~buffered[p]
  <1>1. how = "stop_time" => AllDone
    BY DEF IInv, JobInv, AllDone
  <1>2. AllDone => /\ task \in {"periodic", "none"} /\ Streamers = <<>>
                   /\ \A t \in Topic : stage[t] = "gone" /\ IsDone[t]
    BY DEF IInv, JobInv, AllDone
  <1>3. AllDone => \A p \in Part : part[p] = "gone" /\ ~buffered[p]
    BY <1>2, ConstantTypes DEF IInv, PartInv
  <1>4. Range(<<>>) = {}
    BY DEF Range
  <1> QED
    BY <1>1, <1>2, <1>3, <1>4

LEMMA CountTypes ==
    ASSUME IInv
    PROVE  /\ queue \in Nat /\ written \in Nat /\ forwarded \in Nat
           /\ written + queue = forwarded
  BY TypeGroups DEF IInv, WriterTypeOK, JobInv

JobVars == <<written, queue, forwarded, StopNow, RunThread, writer, task,
             HasError, StreamersRemaining, Streamers, stage, IsDone, how,
             reported>>

LEMMA JobStill ==
    ASSUME IInv, UNCHANGED JobVars,
           main' = main \/ main' = "crashed"
    PROVE  JobInv'
  BY DEF IInv, JobInv, JobVars

LEMMA JobMain ==
    ASSUME IInv, \/ stopNow \/ hasWritingStopped \/ setToIdle \/ DestructorStop
                 \/ ExecutorExits \/ WriterJoined
    PROVE  JobInv'
  <1> USE DEF mainVars, controllerVars, topicVars, partVars, writerVars
  <1>1. ASSUME Crash PROVE JobInv'
    BY <1>1, JobStill, Zenon DEF Crash, JobVars
  <1>2. CASE stopNow
    BY <1>1, <1>2, Zenon DEF stopNow, StopAll, IInv, JobInv
  <1>3. CASE hasWritingStopped
    <2>1. /\ main' = "finish"
          /\ UNCHANGED <<written, queue, forwarded, StopNow, RunThread, writer, task,
                         HasError, StreamersRemaining, Streamers, stage, IsDone>>
          /\ how' = "stop_time" => ~HasError /\ ~StopNow /\ ~StreamersRemaining
      BY <1>3 DEF hasWritingStopped, isDoneWriting
    <2>2. ~StopNow => writer # "done"
      BY SMTT(30) DEF IInv, JobInv
    <2> QED
      BY <2>1, <2>2 DEF IInv, JobInv
  <1>4. CASE setToIdle
    BY <1>4, Zenon DEF setToIdle, IInv, JobInv
  <1>5. CASE DestructorStop
    BY <1>1, <1>5, Zenon DEF DestructorStop, StopAll, IInv, JobInv
  <1>6. CASE ExecutorExits
    BY <1>6, Zenon DEF ExecutorExits, IInv, JobInv
  <1>7. CASE WriterJoined
    BY <1>7 DEF WriterJoined, IInv, JobInv
  <1> QED
    BY <1>2, <1>3, <1>4, <1>5, <1>6, <1>7, Zenon

LEMMA JobWriter ==
    ASSUME IInv, WriterStep
    PROVE  JobInv'
  <1> USE DEF mainVars, controllerVars, topicVars
  <1>1. CASE WriteOne
    BY <1>1, CountTypes, SMTT(30) DEF WriteOne, IInv, JobInv
  <1>2. CASE LeaveLoop
    BY <1>2 DEF LeaveLoop, IInv, JobInv
  <1>3. CASE WriterEnds
    BY <1>3, SMTT(30) DEF WriterEnds, IInv, JobInv
  <1> QED
    BY <1>1, <1>2, <1>3, Zenon DEF WriterStep

\* While topics remain, a job has not ended by its stop time.
LEMMA JobForward ==
    ASSUME IInv, ~AllDone, ~AllDone', NEW k \in Nat,
           forwarded' = forwarded + k, queue' = queue + k,
           UNCHANGED <<written, StopNow, RunThread, writer, how, main>>,
           task' = "failing" => HasError'
    PROVE  JobInv'
  <1>1. how # "stop_time"
    BY AllDoneMeans
  <1>2. written' + queue' = forwarded'
    BY CountTypes
  <1> QED
    BY <1>1, <1>2 DEF IInv, JobInv, AllDone

LEMMA JobTopic ==
    ASSUME IInv, \/ \E t \in Topic : \/ TopicSetStopTime(t) \/ MetadataCall(t)
                                     \/ MetadataCallFails(t) \/ createStreams(t)
                                     \/ checkIfDone(t)
                 \/ \E p \in Part : \/ Hold(p) \/ ForwardMessage(p)
                                    \/ FinishPartition(p) \/ PartitionEnds(p)
    PROVE  JobInv'
  <1> USE DEF mainVars, controllerVars, topicVars, partVars, writerVars
  <1>1. CASE \E t \in Topic : TopicSetStopTime(t)
    BY <1>1, SetStopFrame, JobStill DEF JobVars
  <1>2. CASE \E t \in Topic : \/ MetadataCall(t) \/ MetadataCallFails(t)
                              \/ createStreams(t) \/ checkIfDone(t)
    <2>1. PICK t \in Topic : \/ MetadataCall(t) \/ MetadataCallFails(t)
                             \/ createStreams(t) \/ checkIfDone(t)
      BY <1>2, SMTT(30)
    <2>2. UNCHANGED <<mainVars, controllerVars, writerVars>> /\ stage[t] # "gone"
      BY <2>1, ZenonT(40) DEF MetadataCall, MetadataCallFails, createStreams, checkIfDone
    <2>3. ~AllDone
      BY <2>2, AllDoneMeans
    <2>4. forwarded' = forwarded + 0 /\ queue' = queue + 0
      BY <2>2, CountTypes, SMTT(30)
    <2>5. ~AllDone' /\ (task' = "failing" => HasError')
      BY <2>2, <2>3, ZenonT(40) DEF AllDone, IInv, JobInv
    <2> QED
      BY <2>2, <2>3, <2>4, <2>5, JobForward, Zenon
  <1>3. CASE \E p \in Part : \/ Hold(p) \/ ForwardMessage(p)
                             \/ FinishPartition(p) \/ PartitionEnds(p)
    <2>1. PICK p \in Part : \/ Hold(p) \/ ForwardMessage(p)
                            \/ FinishPartition(p) \/ PartitionEnds(p)
      BY <1>3, SMTT(30)
    <2>2. /\ UNCHANGED <<mainVars, controllerVars, RunThread, writer, written>>
          /\ part[p] = "running"
      BY <2>1, PartitionFrame, ZenonT(40)
    <2>3. ~AllDone
      BY <2>2, AllDoneMeans
    <2>4. \E k \in Nat : forwarded' = forwarded + k /\ queue' = queue + k
      <3>1. queue = queue + 0 /\ forwarded = forwarded + 0
        BY CountTypes, SMTT(30)
      <3> QED
        BY <2>1, <3>1, ZenonT(40) DEF Hold, ForwardMessage, FinishPartition, PartitionEnds
    <2>5. ~AllDone' /\ (task' = "failing" => HasError')
      BY <2>2, <2>3 DEF AllDone, IInv, JobInv
    <2> QED
      BY <2>2, <2>3, <2>4, <2>5, JobForward, Zenon
  <1> QED
    BY <1>1, <1>2, <1>3, Zenon

LEMMA JobExecutor ==
    ASSUME IInv, \/ getTopicNames \/ TopicMissing \/ initStreams \/ NoneDone
                 \/ StreamError \/ SetStopTimeTask
    PROVE  JobInv'
  <1> USE DEF mainVars, controllerVars, topicVars, partVars, writerVars
  <1>0. UNCHANGED <<forwarded, queue>> =>
           forwarded' = forwarded + 0 /\ queue' = queue + 0
    BY CountTypes, SMTT(30)
  <1>1. CASE SetStopTimeTask
    BY <1>1, JobStill DEF SetStopTimeTask, JobVars
  <1>2. CASE getTopicNames \/ TopicMissing \/ initStreams
    <2>1. task \in {"getTopicNames", "initStreams"}
      BY <1>2, Zenon DEF getTopicNames, TopicMissing, initStreams
    <2>2. ~AllDone
      BY <2>1, AllDoneMeans
    <2>3. /\ UNCHANGED <<written, queue, forwarded, StopNow, RunThread, writer, how,
                         main, StreamersRemaining>>
          /\ HasError' = HasError \/ HasError' = TRUE
          /\ task' # "failing"
      BY <1>2, <2>1, ZenonT(40) DEF getTopicNames, TopicMissing, initStreams
    <2>4. ~AllDone'
      BY <2>2, <2>3 DEF AllDone
    <2> QED
      BY <1>0, <2>2, <2>3, <2>4, JobForward, Zenon
  <1>3. CASE StreamError
    <2>1. HasError /\ ~AllDone
      BY <1>3, Zenon DEF StreamError, IInv, JobInv, AllDone
    <2>2. UNCHANGED <<written, queue, forwarded, writer, how, HasError>>
      BY <1>3, Zenon DEF StreamError, Crash
    <2>3. \/ UNCHANGED <<StopNow, RunThread, task>> /\ main' = "crashed"
          \/ StopNow' /\ ~RunThread' /\ task' = "periodic" /\ main' = main
      BY <1>3 DEF StreamError, Crash, StopAll
    <2>4. how # "stop_time"
      BY <2>1, AllDoneMeans, Zenon
    <2>5. /\ written' + queue' = forwarded'
          /\ ~StopNow' => RunThread'
          /\ RunThread' => writer' = "loop"
          /\ HasError' /\ how' # "stop_time"
          /\ main' \in {"free", "idle"} => writer' = "done"
      BY <2>1, <2>2, <2>3, <2>4, SMTT(30) DEF IInv, JobInv
    <2> QED
      BY <2>5, ZenonT(40) DEF JobInv
  <1>4. CASE NoneDone
    <2>1. /\ task = "periodic" /\ main # "idle"
          /\ StreamersRemaining' = (StreamersRemaining /\ Streamers # <<>>)
          /\ UNCHANGED <<written, queue, forwarded, StopNow, RunThread, writer, task,
                         HasError, Streamers, stage, IsDone, how, reported, main>>
      BY <1>4 DEF NoneDone, LowPriority, Executing
    <2>2. Streamers = <<>> => \A t \in Topic : stage[t] = "gone" /\ IsDone[t]
      <3>1. Streamers = <<>> => Range(Streamers) = {}
        BY SMTT(30) DEF Range
      <3>2. Streamers = <<>> => \A t \in Topic : ~Live(t) /\ stage[t] # "none"
        BY <2>1, <3>1, ZenonT(40) DEF IInv, VectorInv
      <3> QED
        BY <2>1, <3>2, Zenon DEF Live, IInv, TopicInv
    <2>3. StreamersRemaining \in BOOLEAN /\ StreamersRemaining' \in BOOLEAN
      BY <2>1, TypeGroups DEF ControllerTypeOK
    <2>4. /\ ~StreamersRemaining' <=> ~StreamersRemaining \/ Streamers = <<>>
          /\ ~StreamersRemaining => ~StreamersRemaining'
      BY <2>1, <2>3, ZenonT(40)
    <2> QED
      BY <2>1, <2>2, <2>4, Zenon DEF IInv, JobInv
  <1> QED
    BY <1>1, <1>2, <1>3, <1>4

LEMMA JobFree ==
    ASSUME IInv, RemoveIf \/ Erase \/ StreamersFreed, VectorInv', TopicInv'
    PROVE  JobInv'
  <1> USE DEF mainVars, controllerVars, topicVars, partVars, writerVars
  <1>1. CASE RemoveIf
    <2>1. ~AllDone
      BY <1>1, AllDoneMeans, SMTT(30) DEF RemoveIf
    <2>2. PICK k \in Nat : forwarded' = forwarded + k /\ queue' = queue + k
      BY <1>1, FreeEffect, ZenonT(40) DEF RemoveIf
    <2>3. /\ UNCHANGED <<written, StopNow, RunThread, writer, how, main,
                         StreamersRemaining>>
          /\ HasError' = HasError \/ HasError' = TRUE
          /\ task' = "failing" => HasError'
      BY <1>1, Zenon DEF RemoveIf
    <2>4. ~AllDone'
      BY <2>1, <2>3, SMTT(30) DEF AllDone
    <2> QED
      BY <2>1, <2>2, <2>3, <2>4, JobForward, Zenon
  <1>2. CASE Erase
    <2>1. ~AllDone
      BY <1>2, AllDoneMeans, Zenon DEF Erase
    <2>2. PICK k \in Nat : forwarded' = forwarded + k /\ queue' = queue + k
      BY <1>2, FreeEffect, Zenon DEF Erase
    <2>3. /\ UNCHANGED <<written, StopNow, RunThread, writer, how, main, HasError>>
          /\ StreamersRemaining' = (StreamersRemaining /\ Streamers' # <<>>)
          /\ task = "erasing" /\ task' = "periodic"
      BY <1>2, Zenon DEF Erase
    <2>4. main' # "idle"
      BY <2>3, Zenon DEF VectorInv
    <2>5. Streamers' = <<>> => \A t \in Topic : stage'[t] = "gone" /\ IsDone'[t]
      <3>1. Streamers' = <<>> => Range(Streamers') = {}
        BY SMTT(30) DEF Range
      <3>2. Streamers' = <<>> => \A t \in Topic : ~Live(t)' /\ stage'[t] # "none"
        BY <2>3, <2>4, <3>1 DEF VectorInv
      <3> QED
        BY <2>4, <3>2 DEF Live, TopicInv
    <2>6. ~HasError => StreamersRemaining
      BY <2>1 DEF AllDone
    <2>7. ~HasError' /\ ~StreamersRemaining' => Streamers' = <<>>
      BY <2>3, <2>6, ZenonT(40)
    <2>8. how # "stop_time"
      BY <2>1, AllDoneMeans
    <2>9. written' + queue' = forwarded'
      BY <2>2, <2>3, CountTypes
    <2> QED
      <3>1. JobInv
        BY Zenon DEF IInv
      <3> QED
        BY <2>3, <2>5, <2>7, <2>8, <2>9, <3>1, Zenon DEF JobInv
  <1>3. CASE StreamersFreed
    <2>1. PICK k \in Nat : /\ forwarded' = forwarded + k /\ queue' = queue + k
                           /\ Range(Streamers) = {} => k = 0
      BY <1>3, FreeEffect, ZenonT(40) DEF StreamersFreed
    <2>2. /\ main = "free" /\ main' = "idle"
          /\ UNCHANGED <<written, StopNow, RunThread, writer, how, reported,
                         HasError, StreamersRemaining, Streamers, task, IsDone>>
          /\ stage' = [t \in Topic |-> IF t \in Range(Streamers) THEN "gone"
                                       ELSE stage[t]]
      BY <1>3, FreeEffect, Zenon DEF StreamersFreed
    <2>3. written' + queue' = forwarded'
      BY <2>1, <2>2, CountTypes
    <2>4. how = "stop_time" => queue' = queue
      <3>1. how = "stop_time" => Range(Streamers) = {}
        BY AllDoneMeans, SMTT(30)
      <3> QED
        BY <2>1, <3>1, CountTypes, SMTT(30)
    <2>5. AllDone => \A t \in Topic : stage'[t] = "gone"
      BY <2>2, AllDoneMeans, ZenonT(40)
    <2> QED
      BY <2>2, <2>3, <2>4, <2>5, Zenon DEF AllDone, IInv, JobInv
  <1> QED
    BY <1>1, <1>2, <1>3

LEMMA JobStep ==
    ASSUME IInv, Next
    PROVE  JobInv'
  <1> USE DEF mainVars, controllerVars, topicVars, partVars, writerVars
  <1>1. CASE Tick \/ \E t \in StopTimes : setStopTime(t)
    BY <1>1, JobStill DEF Tick, setStopTime, JobVars
  <1> QED
    BY <1>1, Actions, JobMain, JobWriter, JobTopic, JobExecutor, JobFree,
       VectorStep, TopicStepInv, Zenon

-----------------------------------------------------------------------------
\* The types, group by group.

LEMMA TypeCrash ==
    ASSUME IInv, Crash
    PROVE  TypeOK'
  <1>1. MainTypeOK'
    BY TypeGroups DEF Crash, MainTypeOK
  <1>2. UNCHANGED <<now, controllerVars, topicVars, partVars, writerVars>>
    BY DEF Crash
  <1> QED
    BY <1>1, <1>2, TypeGroups, Zenon DEF TypeOK

\* StreamController::stop, with the variables of the writer and the partitions
\* that it leaves alone.
LEMMA TypeStopAll ==
    ASSUME IInv, StopAll,
           UNCHANGED <<part, partStop, buffered, messages, writer, queue,
                       written, forwarded>>
    PROVE  PartTypeOK' /\ WriterTypeOK' /\ StopNow' \in BOOLEAN
  <1>1. partForced' \in [Part -> BOOLEAN] /\ RunThread' = FALSE /\ StopNow' = TRUE
    BY DEF StopAll
  <1>2. PartTypeOK'
    BY <1>1, TypeGroups DEF PartTypeOK
  <1>3. WriterTypeOK'
    BY <1>1, TypeGroups, Zenon DEF WriterTypeOK
  <1> QED
    BY <1>1, <1>2, <1>3

LEMMA TypeCommand ==
    ASSUME IInv, stopNow \/ \E t \in StopTimes : setStopTime(t)
    PROVE  TypeOK'
  <1>1. CASE stopNow /\ ~Crash
    <2>1. now \in StopTime /\ stopTasks \in Seq(StopTime)
      BY TypeGroups DEF ControllerTypeOK, StopTime
    <2>2. /\ StopAll
          /\ StopTimestamp' = now /\ stopTasks' = Append(stopTasks, now)
          /\ UNCHANGED <<now, mainVars, topicVars>>
          /\ UNCHANGED <<HasError, StreamersRemaining, StreamersPaused,
                         Streamers, newEnd, task>>
          /\ UNCHANGED <<part, partStop, buffered, messages, writer, queue,
                         written, forwarded>>
      BY <1>1 DEF stopNow
    <2>3. PartTypeOK' /\ WriterTypeOK' /\ StopNow' \in BOOLEAN
      BY <2>2, TypeStopAll
    <2>4. stopTasks' \in Seq(StopTime)
      BY <2>1, <2>2, SMTT(30)
    <2>5. ControllerTypeOK'
      BY <2>1, <2>2, <2>3, <2>4, TypeGroups, Zenon DEF ControllerTypeOK
    <2> QED
      BY <2>2, <2>3, <2>5, TypeGroups, Zenon DEF TypeOK
  <1>2. CASE \E t \in StopTimes : setStopTime(t)
    <2>1. PICK t \in StopTimes : setStopTime(t)
      BY <1>2, Zenon
    <2>2. /\ setStops < MaxSetStops /\ setStops' = setStops + 1
          /\ StopTimestamp' = t /\ stopTasks' = Append(stopTasks, t)
          /\ UNCHANGED <<now, topicVars, partVars, writerVars>>
          /\ UNCHANGED <<main, how, reported>>
          /\ UNCHANGED <<StopNow, HasError, StreamersRemaining,
                         StreamersPaused, Streamers, newEnd, task>>
      BY <2>1, Zenon DEF setStopTime
    <2>3. t \in StopTime /\ setStops \in 0 .. MaxSetStops
             /\ stopTasks \in Seq(StopTime)
      BY TypeGroups, ConstantTypes, Zenon DEF MainTypeOK, ControllerTypeOK
    <2>4. setStops' \in 0 .. MaxSetStops
      BY <2>2, <2>3, ConstantTypes
    <2>5. stopTasks' \in Seq(StopTime)
      BY <2>2, <2>3, SMTT(30)
    <2>6. MainTypeOK'
      BY <2>2, <2>4, TypeGroups, Zenon DEF MainTypeOK
    <2>7. ControllerTypeOK'
      BY <2>2, <2>3, <2>5, TypeGroups, Zenon DEF ControllerTypeOK
    <2> QED
      BY <2>2, <2>6, <2>7, TypeGroups DEF TypeOK
  <1> QED
    BY <1>1, <1>2, TypeCrash, Zenon

LEMMA TypeEnd ==
    ASSUME IInv, \/ Tick \/ hasWritingStopped \/ setToIdle \/ DestructorStop
                 \/ ExecutorExits \/ WriterJoined
    PROVE  TypeOK'
  <1>1. CASE Tick
    <2>1. now' = now + 1 /\ now < Horizon
             /\ UNCHANGED <<mainVars, controllerVars, topicVars, partVars, writerVars>>
      BY <1>1 DEF Tick
    <2>2. now' \in 1 .. Horizon
      BY <2>1, TypeGroups, ConstantTypes, SMTT(30)
    <2> QED
      BY <2>1, <2>2, TypeGroups DEF TypeOK
  <1>2. CASE hasWritingStopped \/ setToIdle \/ WriterJoined
    <2>1. MainTypeOK'
      BY <1>2, TypeGroups, Zenon DEF hasWritingStopped, setToIdle, WriterJoined, MainTypeOK
    <2>2. UNCHANGED <<now, controllerVars, topicVars, partVars, writerVars>>
      BY <1>2 DEF hasWritingStopped, setToIdle, WriterJoined
    <2> QED
      BY <2>1, <2>2, TypeGroups, Zenon DEF TypeOK
  <1>3. CASE DestructorStop /\ ~Crash
    <2>1. /\ StopAll /\ main' = "exit"
          /\ UNCHANGED <<setStops, how, reported>>
          /\ UNCHANGED <<now, topicVars>>
          /\ UNCHANGED <<StopTimestamp, HasError, StreamersRemaining,
                         StreamersPaused, Streamers, newEnd, task, stopTasks>>
          /\ UNCHANGED <<part, partStop, buffered, messages, writer, queue,
                         written, forwarded>>
      BY <1>3 DEF DestructorStop
    <2>2. PartTypeOK' /\ WriterTypeOK' /\ StopNow' \in BOOLEAN
      BY <2>1, TypeStopAll, Zenon
    <2>3. MainTypeOK'
      BY <2>1, TypeGroups, Zenon DEF MainTypeOK
    <2>4. ControllerTypeOK'
      BY <2>1, <2>2, TypeGroups, Zenon DEF ControllerTypeOK
    <2> QED
      BY <2>1, <2>2, <2>3, <2>4, TypeGroups, Zenon DEF TypeOK
  <1>4. CASE ExecutorExits
    <2>1. MainTypeOK'
      BY <1>4, TypeGroups, Zenon DEF ExecutorExits, MainTypeOK
    <2>2. ControllerTypeOK'
      BY <1>4, TypeGroups, Zenon DEF ExecutorExits, ControllerTypeOK
    <2>3. UNCHANGED <<now, topicVars, partVars, writerVars>>
      BY <1>4 DEF ExecutorExits
    <2> QED
      BY <2>1, <2>2, <2>3, TypeGroups, Zenon DEF TypeOK
  <1> QED
    BY <1>1, <1>2, <1>3, <1>4, TypeCrash, Zenon DEF DestructorStop

LEMMA TypeTopic ==
    ASSUME IInv, NEW t \in Topic,
           \/ TopicSetStopTime(t) \/ MetadataCall(t) \/ MetadataCallFails(t)
           \/ createStreams(t) \/ checkIfDone(t)
    PROVE  TypeOK'
  <1>1. CASE TopicSetStopTime(t)
    <2>1. topicStopTasks[t] \in Seq(StopTime) /\ topicStopTasks[t] # <<>>
      BY <1>1, TypeGroups, SMTT(30) DEF TopicTypeOK, TopicSetStopTime
    <2>2. Tail(topicStopTasks[t]) \in Seq(StopTime)
             /\ Head(topicStopTasks[t]) \in StopTime
      BY <2>1, NewestOf, ZenonT(40)
    <2>3. TopicTypeOK'
      BY <1>1, <2>2, TypeGroups, Zenon DEF TopicSetStopTime, TopicTypeOK
    <2>4. PartTypeOK'
      BY <1>1, <2>2, TypeGroups, Zenon DEF TopicSetStopTime, PartTypeOK
    <2>5. UNCHANGED <<now, mainVars, controllerVars, writerVars>>
      BY <1>1, Zenon DEF TopicSetStopTime
    <2> QED
      BY <2>3, <2>4, <2>5, TypeGroups, Zenon DEF TypeOK
  <1>2. CASE MetadataCall(t) \/ MetadataCallFails(t)
    <2>1. TopicMoves(t)
      BY <1>2, TopicMovesSteps, Zenon
    <2>2. UNCHANGED <<now, mainVars, controllerVars, partVars, writerVars>>
             /\ UNCHANGED <<topicStopTasks, StopConsumeTime, IsDone>>
      BY <1>2, Zenon DEF MetadataCall, MetadataCallFails
    <2>3. /\ retries' = retries \/ retries' = retries + 1
          /\ \/ UNCHANGED TopicHasError
             \/ TopicHasError' = [TopicHasError EXCEPT ![t] = TRUE]
      BY <1>2, Zenon DEF MetadataCall, MetadataCallFails
    <2>4. retries' \in Nat
      BY <2>3, TypeGroups, SMTT(30) DEF TopicTypeOK
    <2>5. TopicHasError' \in [Topic -> BOOLEAN]
      BY <2>3, TypeGroups, ZenonT(40) DEF TopicTypeOK
    <2>6. TopicTypeOK'
      BY <2>1, <2>2, <2>4, <2>5, TypeGroups, Zenon DEF TopicMoves, TopicTypeOK
    <2> QED
      BY <2>2, <2>6, TypeGroups, Zenon DEF TypeOK
  <1>3. CASE createStreams(t)
    <2>1. TopicTypeOK'
      BY <1>3, TypeGroups, ZenonT(40) DEF createStreams, TopicTypeOK
    <2>2. StopConsumeTime[t] \in StopTime
      BY TypeGroups, SMTT(30) DEF TopicTypeOK
    <2>3. PartTypeOK'
      BY <1>3, <2>2, TypeGroups, Zenon DEF createStreams, PartTypeOK
    <2>4. UNCHANGED <<now, mainVars, controllerVars, writerVars>>
      BY <1>3, ZenonT(40) DEF createStreams
    <2> QED
      BY <2>1, <2>3, <2>4, TypeGroups DEF TypeOK
  <1>4. CASE checkIfDone(t)
    <2>1. TopicTypeOK'
      BY <1>4, TypeGroups DEF checkIfDone, TopicTypeOK
    <2>2. UNCHANGED <<now, mainVars, controllerVars, partVars, writerVars>>
      BY <1>4, Zenon DEF checkIfDone
    <2> QED
      BY <2>1, <2>2, TypeGroups, Zenon DEF TypeOK
  <1> QED
    BY <1>1, <1>2, <1>3, <1>4, Zenon

LEMMA TypePartition ==
    ASSUME IInv, \/ \E p \in Part : \/ Hold(p) \/ ForwardMessage(p)
                                    \/ FinishPartition(p) \/ PartitionEnds(p)
                 \/ WriterStep
    PROVE  TypeOK'
  <1>1. CASE \E p \in Part : Hold(p)
    <2>1. PartTypeOK'
      BY <1>1, TypeGroups DEF Hold, PartTypeOK
    <2>2. UNCHANGED <<now, mainVars, controllerVars, topicVars, writerVars>>
      BY <1>1, ZenonT(40) DEF Hold
    <2> QED
      BY <2>1, <2>2, TypeGroups, Zenon DEF TypeOK
  <1>2. CASE \E p \in Part : ForwardMessage(p)
    <2>1. PICK p \in Part : ForwardMessage(p)
      BY <1>2, Zenon
    <2>2. /\ messages[p] < MaxMessages
          /\ messages' = [messages EXCEPT ![p] = @ + 1]
          /\ buffered' = [buffered EXCEPT ![p] = FALSE]
          /\ UNCHANGED <<now, mainVars, controllerVars, topicVars>>
          /\ UNCHANGED <<part, partStop, partForced>>
          /\ UNCHANGED <<RunThread, writer, written>>
      BY <2>1, Zenon DEF ForwardMessage
    <2>3. messages \in [Part -> 0 .. MaxMessages]
      BY TypeGroups, Zenon DEF PartTypeOK
    <2>4. messages[p] + 1 \in 0 .. MaxMessages
      BY <2>2, <2>3, ConstantTypes, SMTT(30)
    <2>5. PartTypeOK'
      BY <2>2, <2>4, TypeGroups, Zenon DEF PartTypeOK
    <2>6. queue' \in Nat /\ forwarded' \in Nat
      BY <2>1, CountTypes, SMTT(30) DEF ForwardMessage
    <2>7. WriterTypeOK'
      BY <2>2, <2>6, TypeGroups, Zenon DEF WriterTypeOK
    <2> QED
      BY <2>2, <2>5, <2>7, TypeGroups, Zenon DEF TypeOK
  <1>3. CASE \E p \in Part : FinishPartition(p) \/ PartitionEnds(p)
    <2>1. PICK p \in Part : FinishPartition(p) \/ PartitionEnds(p)
      BY <1>3, SMTT(30)
    <2>2. /\ part' = [part EXCEPT ![p] = "finished"]
          /\ UNCHANGED <<now, mainVars, controllerVars, topicVars, writerVars>>
          /\ UNCHANGED <<partStop, partForced, buffered, messages>>
      BY <2>1, ZenonT(40) DEF FinishPartition, PartitionEnds
    <2>3. PartTypeOK'
      BY <2>2, TypeGroups, Zenon DEF PartTypeOK
    <2> QED
      BY <2>2, <2>3, TypeGroups, Zenon DEF TypeOK
  <1>4. CASE WriterStep
    <2>1. queue' \in Nat /\ written' \in Nat
      BY <1>4, CountTypes, SMTT(30) DEF WriterStep, WriteOne, LeaveLoop, WriterEnds
    <2>2. /\ UNCHANGED <<now, mainVars, controllerVars, topicVars, partVars>>
          /\ UNCHANGED <<RunThread, forwarded>>
          /\ writer' \in {writer, "final", "done"}
      BY <1>4, Zenon DEF WriterStep, WriteOne, LeaveLoop, WriterEnds
    <2>3. WriterTypeOK'
      BY <2>1, <2>2, TypeGroups DEF WriterTypeOK
    <2> QED
      BY <2>2, <2>3, TypeGroups, Zenon DEF TypeOK
  <1> QED
    BY <1>1, <1>2, <1>3, <1>4, Zenon

LEMMA TypeTasks ==
    ASSUME IInv, SetStopTimeTask \/ getTopicNames \/ TopicMissing
    PROVE  TypeOK'
  <1>1. CASE SetStopTimeTask
    <2>1. stopTasks \in Seq(StopTime) /\ stopTasks # <<>>
      BY <1>1, TypeGroups DEF ControllerTypeOK, SetStopTimeTask
    <2>2. Tail(stopTasks) \in Seq(StopTime) /\ Head(stopTasks) \in StopTime
      BY <2>1, NewestOf, Zenon
    <2>3. \A t \in Topic : Append(topicStopTasks[t], Head(stopTasks)) \in Seq(StopTime)
      BY <2>2, TypeGroups, SMTT(30) DEF TopicTypeOK
    <2>4. TopicTypeOK'
      BY <1>1, <2>3, TypeGroups, Zenon DEF SetStopTimeTask, TopicTypeOK
    <2>5. ControllerTypeOK'
      BY <1>1, <2>2, TypeGroups, Zenon DEF SetStopTimeTask, ControllerTypeOK
    <2>6. UNCHANGED <<now, mainVars, partVars, writerVars>>
      BY <1>1, Zenon DEF SetStopTimeTask
    <2> QED
      BY <2>4, <2>5, <2>6, TypeGroups, Zenon DEF TypeOK
  <1>2. CASE getTopicNames
    <2>1. retries' \in Nat
      BY <1>2, TypeGroups, SMTT(30) DEF getTopicNames, TopicTypeOK
    <2>2. TopicTypeOK'
      BY <1>2, <2>1, TypeGroups, Zenon DEF getTopicNames, TopicTypeOK
    <2>3. task' \in {"getTopicNames", "initStreams", "periodic"}
      BY <1>2, Zenon DEF getTopicNames
    <2>4. ControllerTypeOK'
      BY <1>2, <2>3, TypeGroups, Zenon DEF getTopicNames, ControllerTypeOK
    <2>5. UNCHANGED <<now, mainVars, partVars, writerVars>>
      BY <1>2 DEF getTopicNames
    <2> QED
      BY <2>2, <2>4, <2>5, TypeGroups DEF TypeOK
  <1>3. CASE TopicMissing
    <2>1. ControllerTypeOK'
      BY <1>3, TypeGroups DEF TopicMissing, ControllerTypeOK
    <2>2. UNCHANGED <<now, mainVars, topicVars, partVars, writerVars>>
      BY <1>3 DEF TopicMissing
    <2> QED
      BY <2>1, <2>2, TypeGroups, Zenon DEF TypeOK
  <1> QED
    BY <1>1, <1>2, <1>3, Zenon

LEMMA TypePeriodic ==
    ASSUME IInv, initStreams \/ NoneDone \/ StreamError
    PROVE  TypeOK'
  <1>1. ASSUME throttleIfWriteQueueIsFull PROVE StreamersPaused' \in BOOLEAN
    BY <1>1, Zenon DEF throttleIfWriteQueueIsFull
  <1>2. CASE initStreams
    <2>1. PICK t \in Topic :
             /\ Streamers' = Append(Streamers, t)
             /\ stage' = [stage EXCEPT ![t] = "partitions"]
             /\ StopConsumeTime' = [StopConsumeTime EXCEPT ![t] = StopTimestamp]
      BY <1>2, InitStreamsEffect, Zenon
    <2>2. /\ task' \in {task, "periodic"}
          /\ UNCHANGED <<now, mainVars, partVars, writerVars>>
          /\ UNCHANGED <<StopTimestamp, StopNow, HasError, StreamersRemaining,
                         StreamersPaused, newEnd, stopTasks>>
          /\ UNCHANGED <<topicStopTasks, IsDone, TopicHasError, retries>>
      BY <1>2, Zenon DEF initStreams
    <2>3. Streamers' \in Seq(Topic \cup {NullTopic}) /\ StopTimestamp \in StopTime
      BY <2>1, TypeGroups, SMTT(30) DEF ControllerTypeOK
    <2>4. ControllerTypeOK'
      BY <2>2, <2>3, TypeGroups, Zenon DEF ControllerTypeOK
    <2>5. TopicTypeOK'
      BY <2>1, <2>2, <2>3, TypeGroups, Zenon DEF TopicTypeOK
    <2> QED
      BY <2>2, <2>4, <2>5, TypeGroups, Zenon DEF TypeOK
  <1>3. CASE NoneDone
    <2>1. StreamersPaused' \in BOOLEAN /\ StreamersRemaining' \in BOOLEAN
      BY <1>1, <1>3, ZenonT(40) DEF NoneDone
    <2>2. ControllerTypeOK'
      BY <1>3, <2>1, TypeGroups, Zenon DEF NoneDone, ControllerTypeOK
    <2>3. UNCHANGED <<now, mainVars, topicVars, partVars, writerVars>>
      BY <1>3, ZenonT(40) DEF NoneDone
    <2> QED
      BY <2>2, <2>3, TypeGroups DEF TypeOK
  <1>4. CASE StreamError /\ ~Crash
    <2>1. /\ StopAll /\ throttleIfWriteQueueIsFull
          /\ StreamersRemaining' = FALSE /\ task' = "periodic"
          /\ UNCHANGED <<now, mainVars, topicVars>>
          /\ UNCHANGED <<StopTimestamp, HasError, Streamers, newEnd, stopTasks>>
          /\ UNCHANGED <<part, partStop, buffered, messages, writer, queue,
                         written, forwarded>>
      BY <1>4, Zenon DEF StreamError
    <2>2. PartTypeOK' /\ WriterTypeOK' /\ StopNow' \in BOOLEAN
      BY <2>1, TypeStopAll, Zenon
    <2>3. StreamersPaused' \in BOOLEAN
      BY <1>1, <2>1
    <2>4. ControllerTypeOK'
      BY <2>1, <2>2, <2>3, TypeGroups, ZenonT(40) DEF ControllerTypeOK
    <2> QED
      BY <2>1, <2>2, <2>4, TypeGroups, Zenon DEF TypeOK
  <1> QED
    BY <1>2, <1>3, <1>4, TypeCrash

LEMMA TypeFree ==
    ASSUME IInv, RemoveIf \/ Erase \/ StreamersFreed
    PROVE  TypeOK'
  <1>1. ASSUME NEW T, Free(T),
               UNCHANGED <<topicStopTasks, StopConsumeTime, IsDone,
                           TopicHasError, retries>>,
               UNCHANGED <<partStop, partForced, messages>>,
               UNCHANGED <<RunThread, writer, written>>
        PROVE  TopicTypeOK' /\ PartTypeOK' /\ WriterTypeOK'
    <2>1. /\ part' = [p \in Part |-> IF TopicOf[p] \in T /\ part[p] # "none"
                                        THEN "gone" ELSE part[p]]
          /\ buffered' \in [Part -> BOOLEAN]
          /\ stage' = [t \in Topic |-> IF t \in T THEN "gone" ELSE stage[t]]
      BY <1>1, FreeEffect, Zenon
    <2>2. forwarded' \in Nat /\ queue' \in Nat
      BY <1>1, FreeEffect, CountTypes, SMTT(30)
    <2>3. TopicTypeOK'
      BY <1>1, <2>1, TypeGroups, ZenonT(40) DEF TopicTypeOK
    <2>4. PartTypeOK'
      BY <1>1, <2>1, TypeGroups, ZenonT(40) DEF PartTypeOK
    <2>5. WriterTypeOK'
      BY <1>1, <2>2, TypeGroups, Zenon DEF WriterTypeOK
    <2> QED
      BY <2>3, <2>4, <2>5, Zenon
  <1>2. CASE RemoveIf
    <2>1. Streamers \in Seq(Topic) /\ Len(Streamers) <= Len(TopicSeq)
      BY <1>2, Zenon DEF RemoveIf, IInv, VectorInv
    <2>2. Checked \in 0 .. Len(Streamers)
      BY <2>1, CheckedType, SMTT(30)
    <2>3. /\ Compacted(Checked) \in Seq(Topic \cup {NullTopic})
          /\ Len(Kept(Checked)) \in 0 .. Checked
      BY <2>1, <2>2, CompactedEffect, Zenon
    <2>4. Len(Kept(Checked)) \in 0 .. Len(TopicSeq)
      <3>1. Len(Streamers) \in Nat /\ Len(TopicSeq) \in Nat
        BY <2>1, ConstantTypes, SMTT(30)
      <3> QED
        BY <2>1, <2>2, <2>3, <3>1
    <2>5. /\ task' \in {"erasing", "failing"}
          /\ HasError' \in {HasError, TRUE}
          /\ newEnd' \in {newEnd, Len(Kept(Checked))}
          /\ Streamers' = Compacted(Checked)
          /\ UNCHANGED <<now, mainVars>>
          /\ UNCHANGED <<StopTimestamp, StopNow, StreamersRemaining,
                         StreamersPaused, stopTasks>>
      BY <1>2, ZenonT(40) DEF RemoveIf
    <2>6. ControllerTypeOK'
      BY <2>3, <2>4, <2>5, TypeGroups, ZenonT(40) DEF ControllerTypeOK
    <2>7. TopicTypeOK' /\ PartTypeOK' /\ WriterTypeOK'
      BY <1>1, <1>2, Zenon DEF RemoveIf
    <2> QED
      BY <2>5, <2>6, <2>7, TypeGroups DEF TypeOK
  <1>3. CASE Erase
    <2>1. Streamers \in Seq(Topic \cup {NullTopic}) /\ newEnd \in 0 .. Len(Streamers)
      BY <1>3, Erasing, Zenon DEF Erase
    <2>2. SubSeq(Streamers, 1, newEnd) \in Seq(Topic \cup {NullTopic})
      BY <2>1, SubSeqRange, Zenon
    <2>3. /\ Streamers' = SubSeq(Streamers, 1, newEnd)
          /\ newEnd' = 0 /\ task' = "periodic"
          /\ throttleIfWriteQueueIsFull
          /\ StreamersRemaining' \in BOOLEAN
          /\ UNCHANGED <<now, mainVars>>
          /\ UNCHANGED <<StopTimestamp, StopNow, HasError, stopTasks>>
      BY <1>3 DEF Erase
    <2>4. newEnd' \in 0 .. Len(TopicSeq) /\ StreamersPaused' \in BOOLEAN
      BY <2>3, ConstantTypes, SMTT(30) DEF throttleIfWriteQueueIsFull
    <2>5. ControllerTypeOK'
      BY <2>2, <2>3, <2>4, TypeGroups, Zenon DEF ControllerTypeOK
    <2>6. TopicTypeOK' /\ PartTypeOK' /\ WriterTypeOK'
      BY <1>1, <1>3, Zenon DEF Erase
    <2> QED
      BY <2>3, <2>5, <2>6, TypeGroups, Zenon DEF TypeOK
  <1>4. CASE StreamersFreed
    <2>1. MainTypeOK'
      BY <1>4, TypeGroups, Zenon DEF StreamersFreed, MainTypeOK
    <2>2. TopicTypeOK' /\ PartTypeOK' /\ WriterTypeOK'
      BY <1>1, <1>4, Zenon DEF StreamersFreed
    <2>3. UNCHANGED <<now, controllerVars>>
      BY <1>4, Zenon DEF StreamersFreed
    <2> QED
      BY <2>1, <2>2, <2>3, TypeGroups, Zenon DEF TypeOK
  <1> QED
    BY <1>2, <1>3, <1>4

LEMMA TypeStep ==
    ASSUME IInv, Next
    PROVE  TypeOK'
  BY Actions, TypeCommand, TypeEnd, TypeTopic, TypePartition, TypeTasks,
     TypePeriodic, TypeFree, Zenon

-----------------------------------------------------------------------------
LEMMA InitInv == Init => IInv
  <1> SUFFICES ASSUME Init PROVE IInv
    OBVIOUS
  <1>1. TypeOK
    <2>1. NoTime \in StopTime /\ StopTimes \subseteq StopTime
      BY ConstantTypes, Zenon DEF StopTime
    <2>2. now \in 1 .. Horizon
      BY ConstantTypes DEF Init
    <2>3. 0 \in 0 .. MaxSetStops /\ 0 \in 0 .. Len(TopicSeq) /\ 0 \in 0 .. MaxMessages
      BY ConstantTypes
    <2>4. /\ stage \in [Topic -> {"none", "partitions", "offsets", "create",
                                  "check", "failed", "gone"}]
          /\ topicStopTasks \in [Topic -> Seq(StopTime)]
          /\ StopConsumeTime \in [Topic -> StopTime]
          /\ IsDone \in [Topic -> BOOLEAN] /\ TopicHasError \in [Topic -> BOOLEAN]
      BY <2>1 DEF Init
    <2>5. /\ part \in [Part -> {"none", "running", "finished", "gone"}]
          /\ partStop \in [Part -> StopTime]
          /\ partForced \in [Part -> BOOLEAN] /\ buffered \in [Part -> BOOLEAN]
          /\ messages \in [Part -> 0 .. MaxMessages]
      BY <2>1, <2>3, Zenon DEF Init
    <2>6. /\ setStops \in 0 .. MaxSetStops /\ newEnd \in 0 .. Len(TopicSeq)
          /\ Streamers \in Seq(Topic \cup {NullTopic})
          /\ stopTasks \in Seq(StopTime) /\ StopTimestamp \in StopTime
      BY <2>1, <2>3 DEF Init
    <2>7. /\ StopNow = FALSE /\ HasError = FALSE /\ StreamersRemaining = TRUE
          /\ StreamersPaused = FALSE /\ RunThread = TRUE
          /\ queue = 0 /\ written = 0 /\ forwarded = 0 /\ retries = 0
          /\ main = "writing" /\ how = "none" /\ reported = "none"
          /\ task = "getTopicNames" /\ writer = "loop"
      BY DEF Init
    <2>8. MainTypeOK /\ WriterTypeOK
      BY <2>6, <2>7 DEF MainTypeOK, WriterTypeOK
    <2>9. ControllerTypeOK
      BY <2>6, <2>7, ZenonT(40) DEF ControllerTypeOK
    <2>10. TopicTypeOK /\ PartTypeOK
      BY <2>4, <2>5, <2>7, Zenon DEF TopicTypeOK, PartTypeOK
    <2> QED
      BY <2>2, <2>8, <2>9, <2>10, Zenon DEF TypeOK
  <1>2. VectorInv
    <2>1. Range(<<>>) = {}
      BY DEF Range
    <2> QED
      BY <2>1, ConstantTypes DEF Init, VectorInv, Live
  <1>3. TopicInv /\ PartInv
    BY ConstantTypes, Zenon DEF Init, TopicInv, PartInv
  <1>4. StopInv
    BY Zenon DEF Init, StopInv, Live
  <1>5. JobInv
    BY DEF Init, JobInv
  <1> QED
    BY <1>1, <1>2, <1>3, <1>4, <1>5 DEF IInv

LEMMA StepInv == IInv /\ [Next]_vars => IInv'
  <1> SUFFICES ASSUME IInv, [Next]_vars PROVE IInv'
    OBVIOUS
  <1>1. CASE Next
    BY <1>1, TypeStep, VectorStep, TopicStepInv, PartStepInv, StopStep, JobStep, Zenon
       DEF IInv
  <1>2. CASE UNCHANGED vars
    <2>1. TypeOK'
      BY <1>2, TypeGroups, Zenon DEF TypeOK, vars
    <2>2. VectorInv'
      BY <1>2, VectorPart, SMTT(30) DEF vars, mainVars, controllerVars, topicVars
    <2>3. TopicInv' /\ PartInv'
      BY <1>2, ZenonT(40) DEF IInv, TopicInv, PartInv, vars, mainVars, topicVars, partVars
    <2>4. StopInv'
      BY <1>2, StopStill, Zenon DEF Live, vars, controllerVars, topicVars, partVars
    <2>5. JobInv'
      BY <1>2, JobStill DEF JobVars, vars, mainVars, controllerVars, topicVars,
                            writerVars
    <2> QED
      BY <2>1, <2>2, <2>3, <2>4, <2>5, Zenon DEF IInv
  <1> QED
    BY <1>1, <1>2

\* The invariant of the job holds in every state.
THEOREM JobInvariance == Spec => []IInv
  BY InitInv, StepInv, PTL DEF Spec

\* A job that ends by its stop time is complete: reported as a success, with
\* every topic consumed and freed, and with every message its partitions
\* forwarded written before the file is closed.
THEOREM JobsAreComplete == Spec => []CompleteJob
  <1>1. IInv => CompleteJob
    <2> SUFFICES ASSUME IInv, main = "idle", how = "stop_time" PROVE
                 /\ reported = "success"
                 /\ \A t \in Topic : ~TopicHasError[t]
                 /\ \A p \in Part : part[p] = "gone" /\ ~buffered[p]
                 /\ written = forwarded
      BY DEF CompleteJob
    <2>1. reported = "success" /\ queue = 0
      BY SMTT(30) DEF IInv, JobInv
    <2>2. \A t \in Topic : ~TopicHasError[t]
      <3>1. \A t \in Topic : IsDone[t]
        BY AllDoneMeans, Zenon
      <3> QED
        BY <3>1, Zenon DEF IInv, TopicInv
    <2>3. \A p \in Part : part[p] = "gone" /\ ~buffered[p]
      BY AllDoneMeans
    <2>4. written = forwarded
      BY <2>1, CountTypes, SMTT(30)
    <2> QED
      BY <2>1, <2>2, <2>3, <2>4, Zenon
  <1> QED
    BY <1>1, JobInvariance, PTL

\* The stop time reaches every partition: once no call of setStopTime is on its
\* way through the executors, a running partition stops at the stop time of the
\* job, whether it was created before or after the call.
THEOREM StopTimeArrives == Spec => []StopTimePropagated
  <1>1. IInv => StopTimePropagated
    <2> SUFFICES ASSUME IInv, NEW p \in Part, part[p] = "running",
                        stopTasks = <<>>, topicStopTasks[TopicOf[p]] = <<>>
                 PROVE  partStop[p] = StopTimestamp
      BY SMTT(30) DEF StopTimePropagated
    <2>1. TopicOf[p] \in Topic /\ partStop[p] = StopConsumeTime[TopicOf[p]]
      BY ConstantTypes, Zenon DEF IInv, StopInv
    <2>2. Live(TopicOf[p])
      BY Zenon DEF IInv, PartInv, Live
    <2> QED
      BY <2>1, <2>2, ZenonT(40) DEF IInv, StopInv
  <1> QED
    BY <1>1, JobInvariance, PTL

\* Neither std::remove_if, nor an exception in the middle of it, nor erase lets
\* go of a topic that is not done; only the end of the controller does.
THEOREM OnlyDoneIsFreed == Spec => FreedWhenDone
  <1> DEFINE Step == \A t \in Topic : stage'[t] = "gone" /\ stage[t] # "gone"
                        => IsDone[t] \/ main = "free"
  <1>1. IInv /\ [Next]_vars => [Step]_vars
    <2> SUFFICES ASSUME IInv, Next, NEW t \in Topic,
                        stage'[t] = "gone", stage[t] # "gone", main # "free"
                 PROVE  IsDone[t]
      BY SMTT(30)
    <2> USE DEF mainVars, controllerVars, topicVars
    <2>1. CASE RemoveIf \/ Erase
      <3> DEFINE T == Range(Streamers) \ Range(Streamers')
      <3>1. Free(T) /\ \A u \in Topic : u \in T => IsDone[u]
        BY <2>1, FreedAreDone, Zenon
      <3> HIDE DEF T
      <3>2. stage' = [u \in Topic |-> IF u \in T THEN "gone" ELSE stage[u]]
        BY <3>1, FreeEffect, Zenon
      <3> QED
        BY <3>1, <3>2, Zenon
    <2>2. CASE \E u \in Topic :
                  MetadataCall(u) \/ MetadataCallFails(u) \/ createStreams(u)
      BY <2>2, TopicMovesSteps, Zenon DEF TopicMoves
    <2>3. CASE \E u \in Topic : TopicSetStopTime(u) \/ checkIfDone(u)
      BY <2>3, SetStopFrame, Zenon DEF checkIfDone
    <2>4. CASE \E p \in Part : \/ Hold(p) \/ ForwardMessage(p)
                               \/ FinishPartition(p) \/ PartitionEnds(p)
      BY <2>4, PartitionFrame, ZenonT(40)
    <2>5. CASE StreamersFreed
      BY <2>5, ZenonT(40) DEF StreamersFreed
    <2>6. CASE initStreams
      <3>1. PICK u \in Topic : stage' = [stage EXCEPT ![u] = "partitions"]
        BY <2>6, InitStreamsEffect, Zenon
      <3> QED
        BY <3>1, TypeGroups, Zenon DEF TopicTypeOK
    <2>7. ASSUME Quiet PROVE FALSE
      BY <2>7, Zenon DEF Quiet
    <2>8. CASE \/ ExecutorExits \/ WriterJoined
               \/ getTopicNames \/ TopicMissing \/ StreamError
      BY <2>8, ControlFrame
    <2> QED
      BY <2>1, <2>2, <2>3, <2>4, <2>5, <2>6, <2>7, <2>8, Actions, QuietSteps, ZenonT(40)
  <1> QED
    BY <1>1, JobInvariance, PTL DEF Spec, FreedWhenDone
=============================================================================
