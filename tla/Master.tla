------------------------------- MODULE Master -------------------------------
(***************************************************************************)
(* The main thread of the file-writer: the run loop with its signals       *)
(* (RunState.h, kafka-to-nexus.cpp), Master, the command Handler with its  *)
(* two listeners, and the status topic of the StatusReporter.              *)
(*                                                                         *)
(* The stream controller is abstracted to what the main thread sees of it  *)
(* (module StreamController).  A start or stop command is a record of what *)
(* the handler distinguishes; "valid" is FALSE for every command that is   *)
(* answered with the status code 400 for its contents.                     *)
(***************************************************************************)
EXTENDS Naturals, Sequences, FiniteSets

CONSTANTS
    Default,      \* the command topic of the configuration
    Control,      \* other topics that a start command may name
    None,         \* no topic, no job
    Failing,      \* the steps that may fail, see Fault
    Signals,      \* the signals that may arrive
    \* Bounds.
    MaxStarts,    \* start commands put into the job pool
    MaxStops,     \* stop commands sent
    MaxSignals,   \* signals
    MaxFaults,    \* steps that fail
    MaxTroubles   \* signals and steps that fail, together

Topic == {Default} \cup Control

Fault ==
    {"metadata",  \* try_to_find_topics: the call fails
     "missing",   \* try_to_find_topics: a topic is missing
     "pool",      \* connecting to the job pool
     "connect",   \* connecting to the control topic of a job
     "producer",  \* creating the producer of its answers
     "create",    \* createFileWritingJob
     "status",    \* creating the producer of its status messages
     "revert"}    \* connecting to the default command topic again

ASSUME MasterAssumption ==
    /\ Default \notin Control /\ None \notin Topic \cup (1 .. MaxStarts)
    /\ Failing \subseteq Fault
    /\ Signals \subseteq {"SIGINT", "SIGTERM", "SIGHUP"}
    /\ {MaxStarts, MaxStops, MaxSignals, MaxFaults, MaxTroubles} \subseteq Nat

VARIABLES
    \* run loop
    pc, RunState,
    signals,      \* bound: signals received
    faults,       \* bound: steps that have failed
    \* broker
    pool,         \* the start commands in the job pool
    log,          \* the stop commands in each topic
    \* Handler
    poolPos,      \* start commands taken from the pool
    poolOpen,     \* JobPool has a consumer
    source,       \* CommandSource: its topic, consumer and position
    UsingAltTopic, CommandResponse, AltCommandResponse,
    \* Master
    status,       \* CurrentStatus
    controller,   \* CurrentStreamController
    \* StatusReporter
    statusTopic, AltStatusTopic, UsingAlternativeStatusTopic,
    \* history
    handled,      \* commands that the handler has taken up
    answers,      \* the command answers published
    finished,     \* the finished-writing messages published
    accepted,     \* jobs whose start command was answered with 201
    stranded,     \* the last change of the topic has failed half-way
    unreverted,   \* failed starts after which going back has failed too
    orphaned      \* a start has failed with its stream controller in place

loopVars == <<RunState, signals>>
brokerVars == <<pool, log>>
handlerVars == <<poolPos, poolOpen, source, UsingAltTopic, CommandResponse,
                 AltCommandResponse>>
masterVars == <<status, controller>>
reporterVars == <<statusTopic, AltStatusTopic, UsingAlternativeStatusTopic>>
failureVars == <<stranded, unreverted, orphaned>>
historyVars == <<handled, answers, finished, accepted, failureVars>>
vars == <<pc, loopVars, faults, brokerVars, handlerVars, masterVars,
          reporterVars, historyVars>>

Job == 1 .. MaxStarts

StartCommand == [control : Topic, valid : BOOLEAN, stop : {"none", "set"},
                 from : Nat]
StopCommand == [job : Job, valid : BOOLEAN, now : BOOLEAN]
StopTime == {"none", "set", "passed"}
Answer == [kind : {"start", "stop"}, success : BOOLEAN, job : Job,
           topic : Topic]

Idle == [state |-> "Idle", job |-> None, stop |-> "none"]
NoController == [state |-> "null", stop |-> "none"]

TypeOK ==
    /\ pc \in {"find", "check", "stopping", "loop", "finish", "exited",
               "terminated"}
    /\ RunState \in {"Running", "Stopping", "SIGINT_Received",
                     "SIGINT_Waiting", "SIGINT_KafkaWait", "SIGHUP_Received"}
    /\ signals \in 0 .. MaxSignals /\ faults \in 0 .. MaxFaults
    /\ pool \in Seq(StartCommand)
    /\ log \in [Topic -> Seq(StopCommand)]
    /\ poolPos \in 0 .. Len(pool) /\ poolOpen \in BOOLEAN
    /\ source \in [topic : Topic, open : {"no", "unassigned", "yes"}, pos : Nat]
    /\ UsingAltTopic \in BOOLEAN
    /\ CommandResponse \in Topic /\ AltCommandResponse \in Topic \cup {None}
    /\ status \in [state : {"Idle", "Writing"}, job : Job \cup {None},
                   stop : StopTime]
    /\ controller \in [state : {"null", "running", "stopped", "done", "failed"},
                       stop : StopTime]
    /\ statusTopic \in Topic /\ AltStatusTopic \in Topic \cup {None}
    /\ UsingAlternativeStatusTopic \in BOOLEAN
    /\ handled \in Nat
    /\ answers \in Seq(Answer)
    /\ finished \in Seq([job : Job \cup {None}, success : BOOLEAN,
                         topic : Topic])
    /\ accepted \subseteq Job
    /\ {stranded, orphaned} \subseteq BOOLEAN /\ unreverted \in Nat

Init ==
    /\ pc = "find" /\ RunState = "Running" /\ signals = 0 /\ faults = 0
    /\ pool = <<>> /\ log = [t \in Topic |-> <<>>]
    /\ poolPos = 0 /\ poolOpen = FALSE
    /\ source = [topic |-> Default, open |-> "no", pos |-> 0]
    /\ UsingAltTopic = FALSE
    /\ CommandResponse = Default /\ AltCommandResponse = None
    /\ status = Idle /\ controller = NoController
    /\ statusTopic = Default /\ AltStatusTopic = None
    /\ UsingAlternativeStatusTopic = FALSE
    /\ handled = 0 /\ answers = <<>> /\ finished = <<>> /\ accepted = {}
    /\ stranded = FALSE /\ unreverted = 0 /\ orphaned = FALSE

-----------------------------------------------------------------------------
\* The environment: clients, the streams of the job, signals.

MoreTrouble == signals + faults < MaxTroubles

Submit(c, valid, stop) ==
    /\ Len(pool) < MaxStarts
    /\ pool' = Append(pool, [control |-> c, valid |-> valid, stop |-> stop,
                             from |-> Len(log[c])])
    /\ UNCHANGED <<pc, loopVars, faults, log, handlerVars, masterVars,
                   reporterVars, historyVars>>

StopsSent == {s \in Topic \X (1 .. MaxStops) : s[2] <= Len(log[s[1]])}

\* A client stops a job by a command to the topic of the job.
SendStop(j, valid, now) ==
    LET t == pool[j].control
    IN  /\ Cardinality(StopsSent) < MaxStops
        /\ log' = [log EXCEPT ![t] = Append(@, [job |-> j, valid |-> valid,
                                                now |-> now])]
        /\ UNCHANGED <<pc, loopVars, faults, pool, handlerVars, masterVars,
                       reporterVars, historyVars>>

StopTimePasses ==
    /\ controller.stop = "set"
    /\ controller' = [controller EXCEPT !.stop = "passed"]
    /\ status' = [status EXCEPT !.stop = IF @ = "set" THEN "passed" ELSE @]
    /\ UNCHANGED <<pc, loopVars, faults, brokerVars, handlerVars, reporterVars,
                   historyVars>>

StreamsDone ==
    /\ controller.state = "running" /\ controller.stop = "passed"
    /\ controller' = [controller EXCEPT !.state = "done"]
    /\ UNCHANGED <<pc, loopVars, faults, brokerVars, handlerVars, status,
                   reporterVars, historyVars>>

StreamsFail ==
    /\ controller.state \in {"running", "stopped"}
    /\ controller' = [controller EXCEPT !.state = "failed"]
    /\ UNCHANGED <<pc, loopVars, faults, brokerVars, handlerVars, status,
                   reporterVars, historyVars>>

signal_handler(s) ==
    /\ signals < MaxSignals /\ MoreTrouble
    /\ pc \notin {"exited", "terminated"}
    /\ signals' = signals + 1
    /\ RunState' =
         CASE s = "SIGTERM" -> "Stopping"
           [] s = "SIGINT" ->
                IF RunState \in {"Running", "SIGHUP_Received"}
                  THEN "SIGINT_Received" ELSE "Stopping"
           [] s = "SIGHUP" ->
                IF RunState = "Running" THEN "SIGHUP_Received" ELSE RunState
    /\ UNCHANGED <<pc, faults, brokerVars, handlerVars, masterVars,
                   reporterVars, historyVars>>

-----------------------------------------------------------------------------
\* The run loop: shouldStop, then try_to_find_topics or Master::run.

\* Mutant: a job whose streams are done is not noticed.
hasWritingStopped_NotDone == controller.state \in {"stopped", "failed"}

\* A controller exists, and isDoneWriting.
hasWritingStopped == controller.state \in {"stopped", "done", "failed"}

writingIsFinished == controller.state = "null" \/ hasWritingStopped

Exit ==
    /\ pc' = "exited"
    /\ UNCHANGED <<brokerVars, handlerVars, masterVars, reporterVars,
                   historyVars>>

\* shouldStop returns true.
ShouldStop ==
    /\ pc \in {"find", "check"}
    /\ \/ RunState = "Stopping" /\ UNCHANGED RunState
       \/ /\ RunState = "SIGINT_Received"
          /\ pc = "find" \/ writingIsFinished
          /\ UNCHANGED RunState
       \/ /\ RunState = "SIGINT_Waiting"   \* the wait of 5 s may be over
          /\ RunState' \in {"SIGINT_Waiting"} \cup
               (IF writingIsFinished THEN {"SIGINT_KafkaWait"} ELSE {})
       \/ /\ RunState = "SIGHUP_Received" /\ pc = "find"
          /\ UNCHANGED RunState
       \/ /\ RunState = "SIGHUP_Received" /\ pc = "check" /\ writingIsFinished
          /\ RunState' = "SIGINT_KafkaWait"
    /\ Exit
    /\ UNCHANGED <<signals, faults>>

\* shouldStop calls Master::stopNow.  It is outside the try block of main.
StopOnSignal ==
    /\ pc = "check" /\ RunState = "SIGINT_Received" /\ ~writingIsFinished
    /\ IF status.state = "Writing"
         THEN /\ controller' = [state |-> "stopped", stop |-> "passed"]
              /\ status' = [status EXCEPT !.stop = "passed"]
              /\ pc' = "stopping"
         ELSE pc' = "terminated" /\ UNCHANGED masterVars
    /\ UNCHANGED <<loopVars, faults, brokerVars, handlerVars, reporterVars,
                   historyVars>>

\* It goes on to set the state, whatever signals have arrived since.
SigintWaiting ==
    /\ pc = "stopping"
    /\ RunState' = "SIGINT_Waiting"
    /\ pc' = "loop"
    /\ UNCHANGED <<signals, faults, brokerVars, handlerVars, masterVars,
                   reporterVars, historyVars>>

\* Mutant: shouldStop misses the order to stop.
Continue_MissesStopping ==
    /\ pc = "check" /\ RunState \in {"Running", "Stopping"}
    /\ pc' = "loop"
    /\ UNCHANGED <<loopVars, faults, brokerVars, handlerVars, masterVars,
                   reporterVars, historyVars>>

\* shouldStop returns false.
Continue ==
    /\ pc = "check"
    /\ \/ RunState = "Running"
       \/ RunState = "SIGINT_Waiting" /\ ~writingIsFinished
       \/ RunState = "SIGHUP_Received" /\ ~writingIsFinished
    /\ pc' = "loop"
    /\ UNCHANGED <<loopVars, faults, brokerVars, handlerVars, masterVars,
                   reporterVars, historyVars>>

Fail(f) ==
    /\ f \in Failing /\ faults < MaxFaults /\ MoreTrouble
    /\ faults' = faults + 1

try_to_find_topics ==
    /\ pc = "find" /\ RunState = "Running"
    /\ \/ pc' = "check" /\ UNCHANGED faults
       \/ Fail("metadata") /\ UNCHANGED pc
       \/ Fail("missing") /\ pc' = "exited"
    /\ UNCHANGED <<loopVars, brokerVars, handlerVars, masterVars, reporterVars,
                   historyVars>>

-----------------------------------------------------------------------------
\* Handler: the part of its state that a start command changes, whether an
\* exception is on its way and whether there was one.

Current == [source |-> source, alt |-> UsingAltTopic, resp |-> CommandResponse,
            altResp |-> AltCommandResponse, thrown |-> FALSE,
            failed |-> FALSE, stranded |-> stranded]

Listening(t, i) == [topic |-> t, open |-> "yes", pos |-> i]
Unconnected(t) == [topic |-> t, open |-> "unassigned", pos |-> 0]

If(f, S) == IF f \in Failing THEN S ELSE {}

\* Mutant: the answers stay on the default topic.
switchCommandTopic_OnlyListens(m) ==
    IF m.control = Default THEN {Current}
    ELSE {[Current EXCEPT !.source = Listening(m.control, m.from),
                          !.altResp = m.control, !.alt = TRUE,
                          !.stranded = FALSE]}

\* change_topic, then the new producer, then the swap.
switchCommandTopic(m) ==
    LET connected == [Current EXCEPT !.source = Listening(m.control, m.from),
                                     !.stranded = FALSE]
    IN  IF m.control = Default THEN {Current}
        ELSE {[connected EXCEPT !.resp = m.control,
                                !.altResp = CommandResponse, !.alt = TRUE]}
             \cup If("producer", {[connected EXCEPT !.thrown = TRUE,
                                                   !.failed = TRUE,
                                                   !.stranded = TRUE]})
             \cup If("connect", {[Current EXCEPT
                                    !.source = Unconnected(m.control),
                                    !.thrown = TRUE, !.failed = TRUE,
                                    !.stranded = TRUE]})

revertCommandTopic(h) ==
    IF ~h.alt THEN {[h EXCEPT !.thrown = FALSE]}
    ELSE {[h EXCEPT !.source = Listening(Default, Len(log[Default])),
                    !.resp = h.altResp, !.altResp = h.resp, !.alt = FALSE,
                    !.thrown = FALSE, !.stranded = FALSE]}
         \cup If("revert", {[h EXCEPT !.source = Unconnected(Default),
                                      !.thrown = TRUE, !.failed = TRUE,
                                      !.stranded = TRUE]})

Become(h) ==
    /\ h.failed => faults < MaxFaults /\ MoreTrouble
    /\ faults' = IF h.failed THEN faults + 1 ELSE faults
    /\ source' = h.source /\ UsingAltTopic' = h.alt
    /\ CommandResponse' = h.resp /\ AltCommandResponse' = h.altResp
    /\ stranded' = h.stranded

publishResponse(kind, success, j) ==
    answers' = Append(answers, [kind |-> kind, success |-> success, job |-> j,
                                topic |-> CommandResponse'])

\* useAlternativeStatusTopic.
SwitchStatusTopic(t) ==
    /\ UsingAlternativeStatusTopic' = TRUE
    /\ IF UsingAlternativeStatusTopic
         THEN UNCHANGED <<statusTopic, AltStatusTopic>>
         ELSE statusTopic' = t /\ AltStatusTopic' = statusTopic

NewController(m) == controller' = [state |-> "running", stop |-> m.stop]

\* startWritingProcess after its checks: switchCommandTopic and DoStart.
Started(m, j) ==
    \E h \in switchCommandTopic(m) :
        /\ ~h.thrown
        /\ Become(h)
        /\ NewController(m)
        /\ status' = [state |-> "Writing", job |-> j, stop |-> m.stop]
        /\ SwitchStatusTopic(m.control)
        /\ accepted' = accepted \cup {j}
        /\ publishResponse("start", TRUE, j)
        /\ UNCHANGED <<unreverted, orphaned>>

\* One of them throws.  A failure of the status topic comes when the stream
\* controller has been created and started.  When the topic cannot be reverted
\* no answer is sent.
NotStarted(m, j) ==
    \E h \in switchCommandTopic(m) :
    \E f \in IF h.thrown THEN {"none"} ELSE Failing \cap {"create", "status"} :
        /\ f = "status" => ~UsingAlternativeStatusTopic
        /\ IF f = "status" THEN NewController(m) ELSE UNCHANGED controller
        /\ orphaned' = (orphaned \/ f = "status")
        /\ \E r \in revertCommandTopic([h EXCEPT !.failed = TRUE]) :
             /\ Become(r)
             /\ IF r.thrown
                THEN UNCHANGED answers /\ unreverted' = unreverted + 1
                ELSE publishResponse("start", FALSE, j) /\ UNCHANGED unreverted
        /\ UNCHANGED <<status, reporterVars, accepted>>

\* Mutant: a rejected command is not answered.
Rejected_Silently(m, j) ==
    UNCHANGED <<faults, source, UsingAltTopic, CommandResponse,
                AltCommandResponse, masterVars, reporterVars, accepted, answers,
                failureVars>>

Rejected(m, j) ==
    /\ UNCHANGED <<faults, source, UsingAltTopic, CommandResponse,
                   AltCommandResponse, masterVars, reporterVars, accepted,
                   failureVars>>
    /\ publishResponse("start", FALSE, j)

handleStartCommand ==
    /\ pc = "loop" /\ status.state = "Idle" /\ poolOpen
    /\ poolPos < Len(pool)
    /\ LET m == pool[poolPos + 1]
           j == poolPos + 1
       IN  IF m.valid THEN Started(m, j) \/ NotStarted(m, j)
           ELSE Rejected(m, j)
    /\ handled' = handled + 1
    /\ poolPos' = poolPos + 1
    /\ poolOpen' = FALSE   \* disconnectFromPool
    /\ pc' = "finish"
    /\ UNCHANGED <<loopVars, brokerVars, finished>>

\* pollForJob without a consumer makes one.  An exception ends the run loop.
ConnectToPool ==
    /\ pc = "loop" /\ status.state = "Idle" /\ ~poolOpen
    /\ \/ poolOpen' = TRUE /\ pc' = "finish" /\ UNCHANGED faults
       \/ Fail("pool") /\ pc' = "exited" /\ UNCHANGED poolOpen
    /\ UNCHANGED <<loopVars, brokerVars, poolPos, source, UsingAltTopic,
                   CommandResponse, AltCommandResponse, masterVars,
                   reporterVars, historyVars>>

\* pollForCommand without a consumer subscribes to the topic, from now on.
ConnectToCommands ==
    /\ pc = "loop" /\ status.state = "Writing" /\ source.open = "no"
    /\ source' = Listening(source.topic, Len(log[source.topic]))
    /\ pc' = "finish"
    /\ UNCHANGED <<loopVars, faults, brokerVars, poolPos, poolOpen,
                   UsingAltTopic, CommandResponse, AltCommandResponse,
                   masterVars, reporterVars, historyVars>>

HasCommand == source.open = "yes" /\ source.pos < Len(log[source.topic])

CanSetStopTime == status.stop # "passed"

\* Master::setStopTime throws when the stop time has passed.
handleStopCommand ==
    /\ pc = "loop" /\ status.state = "Writing" /\ HasCommand
    /\ UNCHANGED CommandResponse
    /\ LET c == log[source.topic][source.pos + 1]
           mine == c.job = status.job /\ c.valid
       IN  \/ /\ mine /\ c.now
              /\ controller' = [state |-> IF writingIsFinished
                                            THEN controller.state ELSE "stopped",
                                stop |-> "passed"]
              /\ status' = [status EXCEPT !.stop = "passed"]
              /\ publishResponse("stop", TRUE, c.job)
           \/ /\ mine /\ ~c.now /\ CanSetStopTime
              /\ controller' = [controller EXCEPT !.stop = "set"]
              /\ status' = [status EXCEPT !.stop = "set"]
              /\ publishResponse("stop", TRUE, c.job)
           \/ /\ ~mine \/ (~c.now /\ ~CanSetStopTime)
              /\ UNCHANGED masterVars
              /\ publishResponse("stop", FALSE, c.job)
    /\ handled' = handled + 1
    /\ source' = [source EXCEPT !.pos = @ + 1]
    /\ pc' = "finish"
    /\ UNCHANGED <<loopVars, faults, brokerVars, poolPos, poolOpen,
                   UsingAltTopic, AltCommandResponse,
                   reporterVars, finished, accepted, failureVars>>

\* The poll returns nothing.
NoCommand ==
    /\ pc = "loop"
    /\ IF status.state = "Idle" THEN poolOpen /\ poolPos = Len(pool)
       ELSE source.open # "no" /\ ~HasCommand
    /\ pc' = "finish"
    /\ UNCHANGED <<loopVars, faults, brokerVars, handlerVars, masterVars,
                   reporterVars, historyVars>>

\* The end of Master::run when the job goes on, or there is none.
NotFinished ==
    /\ pc = "finish" /\ ~hasWritingStopped
    /\ pc' = "check"
    /\ UNCHANGED <<loopVars, faults, brokerVars, handlerVars, masterVars,
                   reporterVars, historyVars>>

\* Mutant: the stream controller is kept.
ResetController_Kept == status' = Idle /\ UNCHANGED controller

ResetController == status' = Idle /\ controller' = NoController

\* The finished-writing message tells how the job ended.
publishStoppedMsg(success) ==
    finished' = Append(finished, [job |-> status.job, success |-> success,
                                  topic |-> CommandResponse])

sendHasStoppedMessage == controller.state # "failed" /\ publishStoppedMsg(TRUE)

sendErrorEncounteredMessage ==
    controller.state = "failed" /\ publishStoppedMsg(FALSE)

\* The finished-writing message is sent first.  An exception of
\* revertCommandTopic ends the run loop.
setToIdle ==
    /\ pc = "finish" /\ hasWritingStopped
    /\ sendHasStoppedMessage \/ sendErrorEncounteredMessage
    /\ \E h \in revertCommandTopic(Current) :
         /\ Become(h)
         /\ IF h.thrown
              THEN pc' = "exited" /\ UNCHANGED <<masterVars, reporterVars>>
              ELSE /\ pc' = "check"
                   /\ ResetController
                   /\ UsingAlternativeStatusTopic' = FALSE
                   /\ IF UsingAlternativeStatusTopic
                        THEN /\ statusTopic' = AltStatusTopic
                             /\ AltStatusTopic' = statusTopic
                        ELSE UNCHANGED <<statusTopic, AltStatusTopic>>
    /\ UNCHANGED <<loopVars, brokerVars, poolPos, poolOpen, handled, answers,
                   accepted, unreverted, orphaned>>

-----------------------------------------------------------------------------
RunLoop ==
    \/ ShouldStop \/ StopOnSignal \/ SigintWaiting \/ Continue
    \/ try_to_find_topics
    \/ handleStartCommand \/ ConnectToPool \/ ConnectToCommands
    \/ handleStopCommand \/ NoCommand \/ NotFinished \/ setToIdle

Streams == StopTimePasses \/ StreamsDone \/ StreamsFail

\* The rest of an invalid command does not matter.
Clients ==
    \/ \E c \in Topic, s \in {"none", "set"} : Submit(c, TRUE, s)
    \/ Submit(Default, FALSE, "none")
    \/ \E j \in DOMAIN pool, n \in BOOLEAN : SendStop(j, TRUE, n)
    \/ \E j \in DOMAIN pool : SendStop(j, FALSE, FALSE)

Next ==
    /\ pc \notin {"exited", "terminated"}
    /\ RunLoop \/ Streams \/ Clients \/ \E s \in Signals : signal_handler(s)

Spec == Init /\ [][Next]_vars

\* The run loop goes on, time passes and streams end once their stop time has
\* passed (module StreamController).
FairSpec ==
    /\ Spec
    /\ WF_vars(RunLoop) /\ WF_vars(StopTimePasses) /\ WF_vars(StreamsDone)

-----------------------------------------------------------------------------
\* Between two rounds of the run loop.
Quiet == pc \in {"check", "loop"}

\* While a job is written the handler listens to the topic of the job and
\* answers there, and the status is sent there: "all subsequent communications
\* regarding the writing job".  "After completing the job, the file-writer will
\* switch back to its default command and pool topics", whether or not the job
\* was started.  A topic that cannot be changed leaves the listener behind, but
\* neither the answers nor the status, until the next change that succeeds
\* (change_topic); only a failed start that cannot be reverted misplaces the
\* answers (revertCommandTopic).
OnTopicOfJob ==
    Quiet =>
        LET c == IF status.state = "Writing"
                 THEN pool[status.job].control ELSE Default
        IN  /\ statusTopic = c
            /\ UsingAlternativeStatusTopic <=> status.state = "Writing"
            /\ unreverted = 0 => /\ CommandResponse = c
                                 /\ UsingAltTopic <=> c # Default
            /\ ~stranded => source.topic = c /\ source.open # "unassigned"

\* Every command that the handler has taken up is answered, once, but for a
\* start that has failed and could not be reverted (handleStartCommand).
EachAnswered == Len(answers) + unreverted = handled

\* A finished-writing message is sent for each accepted job, once, to the topic
\* of the job.  There is a stream controller for the job that is being written,
\* and none without a job; nor is a message sent for no job, unless a start has
\* failed when its controller was running (Master::startWriting).
OneFinishedPerJob ==
    /\ \A i \in DOMAIN finished :
         \/ finished[i].job = None /\ orphaned
         \/ /\ finished[i].job \in accepted
            /\ unreverted = 0 =>
                   finished[i].topic = pool[finished[i].job].control
            /\ \A k \in DOMAIN finished :
                   finished[i].job = finished[k].job => i = k
    /\ Quiet =>
         /\ controller.state = "null" => status.state = "Idle"
         /\ status.state = "Idle" => controller.state = "null" \/ orphaned
         /\ accepted \ {finished[i].job : i \in DOMAIN finished}
              = (IF status.state = "Writing" THEN {status.job} ELSE {})

\* A job with a stop time is finished in the end and the file-writer is ready
\* for the next one, unless the process exits (hasWritingStopped, setToIdle).
JobFinishes ==
    (status.state = "Writing" /\ status.stop # "none")
        ~> (status.state = "Idle" \/ pc = "exited")

\* SIGINT and SIGTERM end the process, whatever it does and whatever signals
\* follow, by leaving the run loop.  Only a controller without a job makes
\* stopNow throw, which terminates the process instead (shouldStop).
ShutsDown ==
    RunState \in {"SIGINT_Received", "SIGINT_Waiting", "Stopping"}
        ~> (pc = "exited" \/ (pc = "terminated" /\ orphaned))
=============================================================================
