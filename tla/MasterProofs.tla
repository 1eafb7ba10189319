---------------------------- MODULE MasterProofs ----------------------------
(***************************************************************************)
(* Proofs about the main thread (module Master), for any number of topics, *)
(* start and stop commands, signals and failures: its types, that every    *)
(* command is answered, that the handler and the status are on the topic   *)
(* of the job, and that each accepted job is reported as finished once.    *)
(* No failure is excluded: what is left behind by the ones that the code   *)
(* does not undo is part of what the theorems say.                         *)
(***************************************************************************)
EXTENDS Master, TLAPS

-----------------------------------------------------------------------------
\* The inductive invariants.

\* TypeOK, by the owner of the state.
LoopTypes ==
    /\ pc \in {"find", "check", "stopping", "loop", "finish", "exited",
               "terminated"}
    /\ RunState \in {"Running", "Stopping", "SIGINT_Received",
                     "SIGINT_Waiting", "SIGINT_KafkaWait", "SIGHUP_Received"}
    /\ signals \in 0 .. MaxSignals /\ faults \in 0 .. MaxFaults

BrokerTypes ==
    /\ pool \in Seq(StartCommand)
    /\ log \in [Topic -> Seq(StopCommand)]
    /\ poolPos \in 0 .. Len(pool) /\ Len(pool) <= MaxStarts

Source == [topic : Topic, open : {"no", "unassigned", "yes"}, pos : Nat]

\* A topic to go back to is known whenever the other one is in use.
HandlerTypes ==
    /\ poolOpen \in BOOLEAN
    /\ source \in Source
    /\ UsingAltTopic \in BOOLEAN
    /\ CommandResponse \in Topic /\ AltCommandResponse \in Topic \cup {None}
    /\ UsingAltTopic => AltCommandResponse \in Topic

MasterTypes ==
    /\ status \in [state : {"Idle", "Writing"}, job : Job \cup {None},
                   stop : StopTime]
    /\ controller \in [state : {"null", "running", "stopped", "done", "failed"},
                       stop : StopTime]
    /\ status.state = "Writing" => status.job \in 1 .. poolPos

ReporterTypes ==
    /\ statusTopic \in Topic /\ AltStatusTopic \in Topic \cup {None}
    /\ UsingAlternativeStatusTopic \in BOOLEAN
    /\ UsingAlternativeStatusTopic => AltStatusTopic \in Topic

HistoryTypes ==
    /\ handled \in Nat
    /\ answers \in Seq(Answer)
    /\ finished \in Seq([job : Job \cup {None}, success : BOOLEAN,
                         topic : Topic])
    /\ accepted \subseteq Job
    /\ stranded \in BOOLEAN /\ orphaned \in BOOLEAN /\ unreverted \in Nat

TypeInv ==
    /\ LoopTypes /\ BrokerTypes /\ HandlerTypes
    /\ MasterTypes /\ ReporterTypes /\ HistoryTypes

\* The topic of the job, and the default topic when there is none.
TopicOfJob == IF status.state = "Writing" THEN pool[status.job].control
              ELSE Default

\* The status messages go to the topic of the job, and what is kept beside is
\* the default topic.  A process that has exited may be anywhere between.
StatusInv ==
    pc # "exited" =>
        /\ statusTopic = TopicOfJob
        /\ UsingAlternativeStatusTopic <=> status.state = "Writing"
        /\ UsingAlternativeStatusTopic => AltStatusTopic = Default

\* So do the answers, until a failed start cannot be reverted.
ResponseInv ==
    pc # "exited" /\ unreverted = 0 =>
        /\ CommandResponse = TopicOfJob
        /\ UsingAltTopic <=> TopicOfJob # Default
        /\ UsingAltTopic => AltCommandResponse = Default

\* The handler listens there, unless it is stranded, and knows at the end of
\* the job when it has to go back.
ListensInv ==
    pc # "exited" =>
        /\ ~stranded => source.topic = TopicOfJob /\ source.open # "unassigned"
        /\ TopicOfJob # Default => UsingAltTopic

FinishedJobs == {finished[i].job : i \in DOMAIN finished}

\* Each message is the one of an accepted job, or that of a controller without
\* a job.
MessagesInv ==
    /\ accepted \subseteq 1 .. poolPos
    /\ \A i \in DOMAIN finished :
         \/ finished[i].job = None /\ orphaned
         \/ /\ finished[i].job \in accepted
            /\ unreverted = 0 =>
                   finished[i].topic = pool[finished[i].job].control
            /\ \A k \in DOMAIN finished :
                   finished[i].job = finished[k].job => i = k

\* The accepted jobs are the finished ones and the one that is being written.
JobsInv ==
    pc # "exited" =>
        /\ controller.state = "null" => status.state = "Idle"
        /\ status.state = "Idle" =>
               status.job = None /\ (controller.state = "null" \/ orphaned)
        /\ \A j \in accepted : j \notin FinishedJobs =>
                                    status.state = "Writing" /\ status.job = j
        /\ status.state = "Writing" => status.job \in accepted \ FinishedJobs

-----------------------------------------------------------------------------
\* Types.

LEMMA TypeInvTypeOK == TypeInv => TypeOK
  BY Zenon DEF TypeInv, TypeOK, LoopTypes, BrokerTypes, HandlerTypes, Source,
         MasterTypes, ReporterTypes, HistoryTypes

LEMMA TypeInit == Init => TypeInv
  <1> SUFFICES ASSUME Init PROVE TypeInv
    OBVIOUS
  <1>0. Default \in Topic /\ <<>> \in Seq(StartCommand) /\ <<>> \in Seq(StopCommand)
    BY DEF Topic
  <1>1. LoopTypes
    BY MasterAssumption DEF Init, LoopTypes
  <1>2. BrokerTypes
    BY <1>0, MasterAssumption DEF Init, BrokerTypes
  <1>3. HandlerTypes /\ ReporterTypes
    BY <1>0, Zenon DEF Init, HandlerTypes, Source, ReporterTypes
  <1>4. MasterTypes
    BY DEF Init, MasterTypes, Idle, NoController, StopTime
  <1>5. HistoryTypes
    <2>1. handled \in Nat /\ unreverted \in Nat
      BY DEF Init
    <2>2. stranded \in BOOLEAN /\ orphaned \in BOOLEAN
      BY Zenon DEF Init
    <2> QED
      BY <2>1, <2>2 DEF Init, HistoryTypes
  <1> QED
    BY <1>1, <1>2, <1>3, <1>4, <1>5 DEF TypeInv

\* The states of the handler that a start command or the end of a job may
\* leave behind.
HandlerState ==
    {h \in [source : Source, alt : BOOLEAN, resp : Topic,
            altResp : Topic \cup {None}, thrown : BOOLEAN, failed : BOOLEAN,
            stranded : BOOLEAN] :
        h.alt => h.altResp \in Topic}

LEMMA CurrentState ==
    ASSUME HandlerTypes, HistoryTypes
    PROVE  Current \in HandlerState
  BY DEF HandlerTypes, HistoryTypes, HandlerState, Current

LEMMA SwitchedState ==
    ASSUME HandlerTypes, HistoryTypes, NEW m \in StartCommand, NEW h \in switchCommandTopic(m)
    PROVE  h \in HandlerState
  <1>1. Listening(m.control, m.from) \in Source /\ Unconnected(m.control) \in Source
    BY DEF Listening, Unconnected, Source, StartCommand
  <1>2. Current \in HandlerState
    BY CurrentState
  <1>3. m.control \in Topic /\ CommandResponse \in Topic
    BY DEF StartCommand, HandlerTypes
  <1> DEFINE connected == [Current EXCEPT !.source = Listening(m.control, m.from),
                                          !.stranded = FALSE]
  <1>4. connected \in HandlerState /\ connected.alt = Current.alt
    BY <1>1, <1>2 DEF HandlerState
  <1>5. \/ h = Current
        \/ h = [connected EXCEPT !.resp = m.control, !.altResp = CommandResponse,
                                !.alt = TRUE]
        \/ h = [connected EXCEPT !.thrown = TRUE, !.failed = TRUE, !.stranded = TRUE]
        \/ h = [Current EXCEPT !.source = Unconnected(m.control), !.thrown = TRUE,
                              !.failed = TRUE, !.stranded = TRUE]
    BY Zenon DEF switchCommandTopic, If
  <1> HIDE DEF connected
  <1>6. CASE h = [connected EXCEPT !.resp = m.control,
                                   !.altResp = CommandResponse, !.alt = TRUE]
    BY <1>3, <1>4, <1>6, Zenon DEF HandlerState
  <1>7. CASE h = [connected EXCEPT !.thrown = TRUE, !.failed = TRUE,
                                   !.stranded = TRUE]
    BY <1>4, <1>7, Zenon DEF HandlerState
  <1>8. CASE h = [Current EXCEPT !.source = Unconnected(m.control),
                                 !.thrown = TRUE, !.failed = TRUE,
                                 !.stranded = TRUE]
    BY <1>1, <1>2, <1>8, Zenon DEF HandlerState
  <1> QED
    BY <1>2, <1>5, <1>6, <1>7, <1>8

LEMMA RevertedState ==
    ASSUME BrokerTypes, NEW h \in HandlerState, NEW r \in revertCommandTopic(h)
    PROVE  r \in HandlerState
  <1>1. Default \in Topic /\ Len(log[Default]) \in Nat
    BY DEF Topic, BrokerTypes
  <1>2. /\ Listening(Default, Len(log[Default])) \in Source
        /\ Unconnected(Default) \in Source
    BY <1>1 DEF Listening, Unconnected, Source
  <1> DEFINE back == [h EXCEPT !.source = Listening(Default, Len(log[Default])),
                               !.resp = h.altResp, !.altResp = h.resp,
                               !.alt = FALSE, !.thrown = FALSE,
                               !.stranded = FALSE]
             lost == [h EXCEPT !.source = Unconnected(Default), !.thrown = TRUE,
                               !.failed = TRUE, !.stranded = TRUE]
  <1>3. \/ r = [h EXCEPT !.thrown = FALSE]
        \/ h.alt /\ r = back
        \/ h.alt /\ r = lost
    BY Zenon DEF revertCommandTopic, If
  <1>4. h.alt => back \in HandlerState
    BY <1>2, Zenon DEF HandlerState
  <1>5. lost \in HandlerState
    BY <1>2, Zenon DEF HandlerState
  <1>6. [h EXCEPT !.thrown = FALSE] \in HandlerState
    BY Zenon DEF HandlerState
  <1> QED
    BY <1>3, <1>4, <1>5, <1>6, Zenon

LEMMA BecomeTypes ==
    ASSUME LoopTypes, NEW h \in HandlerState, Become(h), poolOpen' \in BOOLEAN
    PROVE  HandlerTypes' /\ faults' \in 0 .. MaxFaults /\ stranded' \in BOOLEAN
  <1>1. faults' \in 0 .. MaxFaults
    BY MasterAssumption DEF Become, LoopTypes
  <1>2. HandlerTypes' /\ stranded' \in BOOLEAN
    BY DEF Become, HandlerState, HandlerTypes
  <1> QED
    BY <1>1, <1>2

\* The steps that leave the topics, the commands and the job alone.
Still ==
    UNCHANGED <<brokerVars, poolPos, source, UsingAltTopic, CommandResponse,
                AltCommandResponse, masterVars, reporterVars, historyVars>>

LEMMA StillSteps ==
    ASSUME \/ ShouldStop \/ SigintWaiting \/ Continue \/ try_to_find_topics
           \/ ConnectToPool \/ NoCommand \/ NotFinished
           \/ \E s \in Signals : signal_handler(s)
    PROVE  Still
  BY DEF ShouldStop, Exit, SigintWaiting, Continue, try_to_find_topics,
         ConnectToPool, NoCommand, NotFinished, signal_handler, Still, brokerVars,
         handlerVars, masterVars, reporterVars, historyVars, failureVars

LEMMA TypeStill ==
    ASSUME TypeInv,
           \/ ShouldStop \/ SigintWaiting \/ Continue \/ try_to_find_topics
           \/ ConnectToPool \/ NoCommand \/ NotFinished
           \/ \E s \in Signals : signal_handler(s)
    PROVE  TypeInv'
  <1>1. Still
    BY StillSteps
  <1>2. LoopTypes'
    <2> USE DEF TypeInv, LoopTypes, loopVars
    <2>1. CASE ShouldStop \/ SigintWaiting \/ Continue
      BY <2>1 DEF ShouldStop, Exit, SigintWaiting, Continue
    <2>2. CASE try_to_find_topics \/ ConnectToPool
      BY <2>2, MasterAssumption DEF try_to_find_topics, ConnectToPool, Fail
    <2>3. CASE NoCommand \/ NotFinished
      BY <2>3 DEF NoCommand, NotFinished
    <2>4. CASE \E s \in Signals : signal_handler(s)
      BY <2>4, MasterAssumption DEF signal_handler
    <2> QED
      BY <2>1, <2>2, <2>3, <2>4
  <1>3. poolOpen' \in BOOLEAN
    BY Zenon DEF TypeInv, HandlerTypes, handlerVars, ShouldStop, Exit, SigintWaiting,
           Continue, try_to_find_topics, ConnectToPool, NoCommand, NotFinished,
           signal_handler
  <1>4. BrokerTypes' /\ HandlerTypes'
    BY <1>1, <1>3 DEF Still, TypeInv, BrokerTypes, HandlerTypes, brokerVars
  <1>5. MasterTypes' /\ ReporterTypes' /\ HistoryTypes'
    BY <1>1 DEF Still, TypeInv, MasterTypes, ReporterTypes, HistoryTypes,
                masterVars, reporterVars, historyVars, failureVars
  <1> QED
    BY <1>2, <1>4, <1>5 DEF TypeInv

LEMMA TypeClients ==
    ASSUME TypeInv, Clients
    PROVE  TypeInv'
  <1>0. /\ LoopTypes' /\ HandlerTypes' /\ ReporterTypes' /\ HistoryTypes'
        /\ UNCHANGED <<poolPos, status, controller>>
    <2>1. UNCHANGED <<pc, loopVars, faults, handlerVars, masterVars, reporterVars,
                      historyVars>>
      BY Zenon DEF Clients, Submit, SendStop
    <2> QED
      BY <2>1 DEF TypeInv, LoopTypes, HandlerTypes, ReporterTypes, HistoryTypes,
                  loopVars, handlerVars, masterVars, reporterVars, historyVars,
                  failureVars
  <1>1. MasterTypes'
    BY <1>0 DEF TypeInv, MasterTypes
  <1>2. BrokerTypes'
    <2>1. ASSUME NEW c \in Topic, NEW v \in BOOLEAN, NEW s \in {"none", "set"},
                 Submit(c, v, s)
          PROVE  BrokerTypes'
      <3> DEFINE m == [control |-> c, valid |-> v, stop |-> s, from |-> Len(log[c])]
      <3>1. m \in StartCommand
        BY DEF StartCommand, TypeInv, BrokerTypes
      <3>2. pool' = Append(pool, m) /\ Len(pool) < MaxStarts /\ log' = log
        BY <2>1 DEF Submit
      <3> HIDE DEF m
      <3>3. pool' \in Seq(StartCommand) /\ Len(pool') = Len(pool) + 1
        BY <3>1, <3>2 DEF TypeInv, BrokerTypes
      <3> QED
        BY <1>0, <3>2, <3>3, MasterAssumption DEF TypeInv, BrokerTypes
    <2>2. ASSUME NEW j \in DOMAIN pool, NEW v \in BOOLEAN, NEW n \in BOOLEAN,
                 SendStop(j, v, n)
          PROVE  BrokerTypes'
      <3> DEFINE t == pool[j].control
                 c == [job |-> j, valid |-> v, now |-> n]
      <3>1. t \in Topic
        <4>1. pool[j] \in StartCommand
          BY DEF TypeInv, BrokerTypes
        <4> QED
          BY <4>1 DEF StartCommand
      <3>2. c \in StopCommand
        BY MasterAssumption DEF StopCommand, Job, TypeInv, BrokerTypes
      <3>3. log' = [log EXCEPT ![t] = Append(log[t], c)] /\ pool' = pool
        BY <2>2 DEF SendStop
      <3> HIDE DEF t, c
      <3>4. log' \in [Topic -> Seq(StopCommand)]
        BY <3>1, <3>2, <3>3 DEF TypeInv, BrokerTypes
      <3> QED
        BY <1>0, <3>3, <3>4 DEF TypeInv, BrokerTypes
    <2>3. Default \in Topic
      BY DEF Topic
    <2> QED
      BY <2>1, <2>2, <2>3, Zenon DEF Clients
  <1> QED
    BY <1>0, <1>1, <1>2 DEF TypeInv

LEMMA TypeStreams ==
    ASSUME TypeInv, Streams \/ StopOnSignal
    PROVE  TypeInv'
  <1>0. /\ BrokerTypes' /\ HandlerTypes' /\ ReporterTypes' /\ HistoryTypes'
        /\ UNCHANGED poolPos
    <2>1. UNCHANGED <<brokerVars, handlerVars, reporterVars, historyVars>>
      BY DEF Streams, StopTimePasses, StreamsDone, StreamsFail, StopOnSignal
    <2> QED
      BY <2>1 DEF TypeInv, BrokerTypes, HandlerTypes, ReporterTypes, HistoryTypes,
                  brokerVars, handlerVars, reporterVars, historyVars, failureVars
  <1>1. LoopTypes'
    BY DEF TypeInv, LoopTypes, loopVars, Streams, StopTimePasses, StreamsDone,
           StreamsFail, StopOnSignal
  <1>2. MasterTypes'
    <2> USE <1>0 DEF TypeInv, MasterTypes, StopTime, masterVars
    <2>1. CASE StopTimePasses
      BY <2>1 DEF StopTimePasses
    <2>2. CASE StreamsDone \/ StreamsFail
      BY <2>2 DEF StreamsDone, StreamsFail
    <2>3. CASE StopOnSignal
      BY <2>3 DEF StopOnSignal
    <2> QED
      BY <2>1, <2>2, <2>3 DEF Streams
  <1> QED
    BY <1>0, <1>1, <1>2 DEF TypeInv

LEMMA TypeCommands ==
    ASSUME TypeInv, ConnectToCommands \/ handleStopCommand
    PROVE  TypeInv'
  <1>0. BrokerTypes' /\ ReporterTypes' /\ UNCHANGED <<poolPos, poolOpen>>
    <2>1. UNCHANGED <<brokerVars, poolPos, poolOpen, reporterVars>>
      BY Zenon DEF ConnectToCommands, handleStopCommand
    <2> QED
      BY <2>1, Zenon DEF TypeInv, BrokerTypes, ReporterTypes, brokerVars, reporterVars
  <1>1. LoopTypes'
    BY Zenon DEF TypeInv, LoopTypes, loopVars, ConnectToCommands, handleStopCommand
  <1>2. HandlerTypes'
    <2>1. source' \in Source
      <3>1. source.topic \in Topic /\ source.pos \in Nat /\ Len(log[source.topic]) \in Nat
        BY DEF TypeInv, HandlerTypes, Source, BrokerTypes
      <3>2. CASE ConnectToCommands
        BY <3>1, <3>2 DEF ConnectToCommands, Listening, Source
      <3>3. CASE handleStopCommand
        BY <3>1, <3>3 DEF handleStopCommand, TypeInv, HandlerTypes, Source
      <3> QED
        BY <3>2, <3>3
    <2>2. UNCHANGED <<UsingAltTopic, CommandResponse, AltCommandResponse>>
      BY ZenonT(40) DEF ConnectToCommands, handleStopCommand
    <2> QED
      BY <1>0, <2>1, <2>2 DEF TypeInv, HandlerTypes
  <1>3. MasterTypes' /\ HistoryTypes'
    <2>1. CASE ConnectToCommands
      BY <1>0, <2>1 DEF ConnectToCommands, TypeInv, MasterTypes, HistoryTypes,
                        masterVars, historyVars, failureVars
    <2>2. CASE handleStopCommand
      <3> DEFINE c == log[source.topic][source.pos + 1]
      <3>1. c \in StopCommand
        BY <2>2 DEF handleStopCommand, HasCommand, TypeInv, HandlerTypes, Source,
                    BrokerTypes
      <3>2. \E b \in BOOLEAN : answers' = Append(answers,
                [kind |-> "stop", success |-> b, job |-> c.job,
                 topic |-> CommandResponse'])
        BY <2>2, Zenon DEF handleStopCommand, publishResponse
      <3>3. /\ \/ UNCHANGED <<status, controller>>
               \/ /\ \E s \in StopTime : status' = [status EXCEPT !.stop = s]
                  /\ \E s \in StopTime : \/ controller' = [controller EXCEPT !.stop = s]
                                         \/ controller' = [state |-> "stopped", stop |-> s]
                                         \/ controller' = [state |-> controller.state, stop |-> s]
            /\ handled' = handled + 1
            /\ UNCHANGED <<finished, accepted, stranded, unreverted, orphaned>>
        BY <2>2, Zenon DEF handleStopCommand, masterVars, failureVars, StopTime
      <3>4. CommandResponse' \in Topic
        BY <1>2 DEF HandlerTypes
      <3> HIDE DEF c
      <3>5. answers' \in Seq(Answer)
        <4>1. PICK b \in BOOLEAN : answers' = Append(answers,
                [kind |-> "stop", success |-> b, job |-> c.job,
                 topic |-> CommandResponse'])
          BY <3>2
        <4>2. [kind |-> "stop", success |-> b, job |-> c.job,
                 topic |-> CommandResponse'] \in Answer
          BY <3>1, <3>4 DEF Answer, StopCommand
        <4> QED
          BY <4>1, <4>2 DEF TypeInv, HistoryTypes
      <3>6. HistoryTypes'
        BY <3>3, <3>5 DEF TypeInv, HistoryTypes
      <3>7. MasterTypes'
        BY <1>0, <3>3 DEF TypeInv, MasterTypes
      <3> QED
        BY <3>6, <3>7
    <2> QED
      BY <2>1, <2>2
  <1> QED
    BY <1>0, <1>1, <1>2, <1>3 DEF TypeInv

LEMMA TypeIdle ==
    ASSUME TypeInv, setToIdle
    PROVE  TypeInv'
  <1>1. PICK h \in revertCommandTopic(Current) :
           /\ Become(h)
           /\ IF h.thrown
              THEN pc' = "exited" /\ UNCHANGED <<masterVars, reporterVars>>
              ELSE /\ pc' = "check"
                   /\ ResetController
                   /\ UsingAlternativeStatusTopic' = FALSE
                   /\ IF UsingAlternativeStatusTopic
                        THEN /\ statusTopic' = AltStatusTopic
                             /\ AltStatusTopic' = statusTopic
                        ELSE UNCHANGED <<statusTopic, AltStatusTopic>>
    BY DEF setToIdle
  <1>2. /\ UNCHANGED <<RunState, signals, pool, log, poolPos, poolOpen, handled,
                       answers, accepted, unreverted, orphaned>>
        /\ \E b \in BOOLEAN :
             finished' = Append(finished, [job |-> status.job, success |-> b,
                                           topic |-> CommandResponse])
    BY Zenon DEF setToIdle, sendHasStoppedMessage, sendErrorEncounteredMessage,
           publishStoppedMsg, loopVars, brokerVars
  <1>3. HandlerTypes' /\ faults' \in 0 .. MaxFaults /\ stranded' \in BOOLEAN
    <2>1. poolOpen' \in BOOLEAN /\ Current \in HandlerState
      BY <1>2, CurrentState DEF TypeInv, HandlerTypes
    <2>2. h \in HandlerState
      BY <2>1, RevertedState DEF TypeInv
    <2> QED
      BY <1>1, <2>1, <2>2, BecomeTypes DEF TypeInv
  <1>4. LoopTypes' /\ BrokerTypes'
    BY <1>1, <1>2, <1>3 DEF TypeInv, LoopTypes, BrokerTypes
  <1>5. MasterTypes' /\ ReporterTypes'
    <2>1. CASE h.thrown
      BY <1>1, <1>2, <2>1 DEF TypeInv, MasterTypes, ReporterTypes, masterVars,
                              reporterVars
    <2>2. CASE ~h.thrown
      <3>1. MasterTypes'
        BY <1>1, <2>2 DEF MasterTypes, ResetController, Idle, NoController, StopTime
      <3>2. ReporterTypes'
        BY <1>1, <2>2, Zenon DEF TypeInv, ReporterTypes
      <3> QED
        BY <3>1, <3>2
    <2> QED
      BY <2>1, <2>2
  <1>6. HistoryTypes'
    <2> DEFINE Msg == [job : Job \cup {None}, success : BOOLEAN, topic : Topic]
    <2>1. PICK b \in BOOLEAN :
             finished' = Append(finished, [job |-> status.job, success |-> b,
                                           topic |-> CommandResponse])
      BY <1>2
    <2>2. [job |-> status.job, success |-> b, topic |-> CommandResponse] \in Msg
      BY DEF TypeInv, MasterTypes, HandlerTypes
    <2>3. finished \in Seq(Msg)
      BY DEF TypeInv, HistoryTypes
    <2> HIDE DEF Msg
    <2>4. finished' \in Seq(Msg)
      BY <2>1, <2>2, <2>3
    <2> QED
      BY <1>2, <1>3, <2>4 DEF Msg, TypeInv, HistoryTypes
  <1> QED
    BY <1>3, <1>4, <1>5, <1>6 DEF TypeInv

\* What a start command does, whatever becomes of it: the handler ends in a
\* state that its operations leave behind, and the job is taken from the pool.
LEMMA StartFrame ==
    ASSUME TypeInv, handleStartCommand
    PROVE  /\ poolPos + 1 \in 1 .. Len(pool) /\ poolPos + 1 \in Job
           /\ pool[poolPos + 1] \in StartCommand
           /\ status.state = "Idle"
           /\ \/ Started(pool[poolPos + 1], poolPos + 1)
              \/ NotStarted(pool[poolPos + 1], poolPos + 1)
              \/ Rejected(pool[poolPos + 1], poolPos + 1)
           /\ UNCHANGED <<RunState, signals, pool, log, finished>>
           /\ handled' = handled + 1 /\ poolPos' = poolPos + 1
           /\ poolOpen' = FALSE /\ pc' = "finish"
  <1>1. /\ status.state = "Idle" /\ poolPos < Len(pool)
        /\ UNCHANGED <<RunState, signals, pool, log, finished>>
        /\ handled' = handled + 1 /\ poolPos' = poolPos + 1
        /\ poolOpen' = FALSE /\ pc' = "finish"
    BY DEF handleStartCommand, loopVars, brokerVars
  <1>2. poolPos + 1 \in 1 .. Len(pool) /\ poolPos + 1 \in Job
    BY <1>1, MasterAssumption DEF TypeInv, BrokerTypes, Job
  <1>3. pool[poolPos + 1] \in StartCommand
    BY <1>2 DEF TypeInv, BrokerTypes
  <1> QED
    BY <1>1, <1>2, <1>3, Zenon DEF handleStartCommand

LEMMA AnswerTypes ==
    ASSUME TypeInv, NEW b \in BOOLEAN, NEW j \in Job, CommandResponse' \in Topic,
           publishResponse("start", b, j)
    PROVE  answers' \in Seq(Answer)
  <1>1. [kind |-> "start", success |-> b, job |-> j, topic |-> CommandResponse']
           \in Answer
    BY DEF Answer
  <1> QED
    BY <1>1 DEF publishResponse, TypeInv, HistoryTypes

LEMMA TypeStart ==
    ASSUME TypeInv, handleStartCommand
    PROVE  TypeInv'
  <1> DEFINE j == poolPos + 1
             m == pool[j]
  <1>1. /\ j \in 1 .. Len(pool) /\ j \in Job /\ m \in StartCommand
        /\ Started(m, j) \/ NotStarted(m, j) \/ Rejected(m, j)
        /\ status.state = "Idle"
        /\ UNCHANGED <<RunState, signals, pool, log, finished>>
        /\ handled' = handled + 1 /\ poolPos' = j
        /\ poolOpen' = FALSE /\ pc' = "finish"
    BY StartFrame
  <1> HIDE DEF j, m
  <1>2. BrokerTypes'
    BY <1>1 DEF TypeInv, BrokerTypes
  <1>3. m.control \in Topic /\ m.stop \in StopTime
    BY <1>1 DEF StartCommand, StopTime
  <1>4. SUFFICES /\ HandlerTypes' /\ faults' \in 0 .. MaxFaults
                 /\ MasterTypes' /\ ReporterTypes'
                 /\ answers' \in Seq(Answer) /\ accepted' \subseteq Job
                 /\ stranded' \in BOOLEAN /\ orphaned' \in BOOLEAN
                 /\ unreverted' \in Nat
    BY <1>1, <1>2, <1>4 DEF TypeInv, LoopTypes, HistoryTypes
  <1>5. CASE Started(m, j)
    <2>1. PICK h \in switchCommandTopic(m) :
             /\ Become(h)
             /\ NewController(m)
             /\ status' = [state |-> "Writing", job |-> j, stop |-> m.stop]
             /\ SwitchStatusTopic(m.control)
             /\ accepted' = accepted \cup {j}
             /\ publishResponse("start", TRUE, j)
             /\ UNCHANGED <<unreverted, orphaned>>
      BY <1>5, Zenon DEF Started
    <2>2. HandlerTypes' /\ faults' \in 0 .. MaxFaults /\ stranded' \in BOOLEAN
      BY <1>1, <2>1, SwitchedState, BecomeTypes, Zenon DEF TypeInv
    <2>3. MasterTypes'
      BY <1>1, <1>3, <2>1 DEF NewController, TypeInv, MasterTypes, BrokerTypes
    <2>4. ReporterTypes'
      BY <1>3, <2>1 DEF SwitchStatusTopic, TypeInv, ReporterTypes
    <2>5. answers' \in Seq(Answer)
      BY <1>1, <2>1, <2>2, AnswerTypes, Zenon DEF HandlerTypes
    <2> QED
      BY <1>1, <2>1, <2>2, <2>3, <2>4, <2>5 DEF TypeInv, HistoryTypes
  <1>6. CASE NotStarted(m, j)
    <2>1. PICK h \in switchCommandTopic(m) :
          \E f \in {"none", "create", "status"} :
             /\ controller' = controller \/ NewController(m)
             /\ orphaned' = (orphaned \/ f = "status")
             /\ \E r \in revertCommandTopic([h EXCEPT !.failed = TRUE]) :
                  /\ Become(r)
                  /\ \/ answers' = answers /\ unreverted' = unreverted + 1
                     \/ publishResponse("start", FALSE, j) /\ UNCHANGED unreverted
             /\ UNCHANGED <<status, statusTopic, AltStatusTopic,
                            UsingAlternativeStatusTopic, accepted>>
      BY <1>6, Zenon DEF NotStarted, reporterVars
    <2> DEFINE g == [h EXCEPT !.failed = TRUE]
    <2>2. g \in HandlerState
      <3>1. h \in HandlerState
        BY <1>1, SwitchedState DEF TypeInv
      <3> QED
        BY <3>1 DEF HandlerState
    <2>3. PICK r \in revertCommandTopic(g) :
             /\ Become(r)
             /\ \/ answers' = answers /\ unreverted' = unreverted + 1
                \/ publishResponse("start", FALSE, j) /\ UNCHANGED unreverted
      BY <2>1, Zenon
    <2> HIDE DEF g
    <2>4. HandlerTypes' /\ faults' \in 0 .. MaxFaults /\ stranded' \in BOOLEAN
      BY <1>1, <2>2, <2>3, RevertedState, BecomeTypes, Zenon DEF TypeInv
    <2>5. answers' \in Seq(Answer)
      BY <1>1, <2>3, <2>4, AnswerTypes, Zenon DEF HandlerTypes, TypeInv, HistoryTypes
    <2>6. MasterTypes'
      BY <1>1, <1>3, <2>1 DEF NewController, TypeInv, MasterTypes
    <2>7. ReporterTypes' /\ accepted' \subseteq Job
      BY <2>1 DEF TypeInv, ReporterTypes, HistoryTypes
    <2>8. orphaned' \in BOOLEAN
      BY <2>1, Zenon DEF TypeInv, HistoryTypes
    <2>9. unreverted' \in Nat
      <3>1. unreverted' = unreverted \/ unreverted' = unreverted + 1
        BY <2>3, Zenon
      <3> QED
        BY <3>1 DEF TypeInv, HistoryTypes
    <2> QED
      BY <2>4, <2>5, <2>6, <2>7, <2>8, <2>9
  <1>7. CASE Rejected(m, j)
    <2>1. /\ UNCHANGED <<faults, source, UsingAltTopic, CommandResponse,
                         AltCommandResponse, status, controller, statusTopic,
                         AltStatusTopic, UsingAlternativeStatusTopic, accepted,
                         stranded, unreverted, orphaned>>
          /\ publishResponse("start", FALSE, j)
      BY <1>7, Zenon DEF Rejected, masterVars, reporterVars, failureVars
    <2>2. HandlerTypes' /\ faults' \in 0 .. MaxFaults
      BY <1>1, <2>1, Zenon DEF TypeInv, HandlerTypes, LoopTypes
    <2>3. answers' \in Seq(Answer)
      BY <1>1, <2>1, <2>2, AnswerTypes, Zenon DEF HandlerTypes
    <2>4. MasterTypes' /\ ReporterTypes' /\ accepted' \subseteq Job
      BY <1>1, <2>1 DEF TypeInv, MasterTypes, ReporterTypes, HistoryTypes
    <2>5. stranded' \in BOOLEAN /\ orphaned' \in BOOLEAN /\ unreverted' \in Nat
      BY <2>1 DEF TypeInv, HistoryTypes
    <2> QED
      BY <2>2, <2>3, <2>4, <2>5
  <1> QED
    BY <1>1, <1>5, <1>6, <1>7

LEMMA TypeStep == TypeInv /\ [Next]_vars => TypeInv'
  <1>1. ASSUME TypeInv, Next PROVE TypeInv'
    BY <1>1, TypeStill, TypeClients, TypeStreams, TypeCommands, TypeIdle, TypeStart, Zenon
       DEF Next, RunLoop
  <1>2. ASSUME TypeInv, UNCHANGED vars PROVE TypeInv'
    BY <1>2 DEF vars, loopVars, brokerVars, handlerVars, masterVars, reporterVars,
                historyVars, failureVars, TypeInv, LoopTypes, BrokerTypes, HandlerTypes,
                MasterTypes, ReporterTypes, HistoryTypes
  <1> QED
    BY <1>1, <1>2

\* The state of the main thread has its types, whatever fails: the topics to go
\* back to are known when they are needed, and a job that is being written is
\* one that was taken from the pool.
THEOREM TypesOfMain == Spec => []TypeInv
  BY TypeInit, TypeStep, PTL DEF Spec


-----------------------------------------------------------------------------
\* What the steps do to the topics, the answers and the job.

\* Switching to the topic of a job, or failing to.
LEMMA SwitchOutcome ==
    ASSUME HandlerTypes, NEW m \in StartCommand, NEW h \in switchCommandTopic(m)
    PROVE  /\ h.thrown =>
                /\ h.alt = UsingAltTopic /\ h.resp = CommandResponse
                /\ h.stranded
           /\ ~h.thrown /\ m.control = Default =>
                /\ h.source = source /\ h.alt = UsingAltTopic
                /\ h.resp = CommandResponse /\ h.altResp = AltCommandResponse
                /\ h.stranded = stranded
           /\ ~h.thrown /\ m.control # Default =>
                /\ h.source.topic = m.control /\ h.source.open = "yes" /\ h.alt
                /\ h.resp = m.control /\ h.altResp = CommandResponse
  <1> DEFINE connected == [Current EXCEPT !.source = Listening(m.control, m.from),
                                          !.stranded = FALSE]
             switched == [connected EXCEPT !.resp = m.control,
                                           !.altResp = CommandResponse, !.alt = TRUE]
             noProducer == [connected EXCEPT !.thrown = TRUE, !.failed = TRUE,
                                             !.stranded = TRUE]
             noTopic == [Current EXCEPT !.source = Unconnected(m.control),
                                        !.thrown = TRUE, !.failed = TRUE,
                                        !.stranded = TRUE]
  <1>1. \/ m.control = Default /\ h = Current
        \/ m.control # Default /\ h = switched
        \/ h = noProducer
        \/ h = noTopic
    BY Zenon DEF switchCommandTopic, If
  <1>2. CASE m.control = Default /\ h = Current
    BY <1>2 DEF Current
  <1>3. CASE m.control # Default /\ h = switched
    BY <1>3, Zenon DEF Current, Listening
  <1>4. CASE h = noProducer
    BY <1>4, Zenon DEF Current
  <1>5. CASE h = noTopic
    BY <1>5, Zenon DEF Current
  <1> HIDE DEF switched, noProducer, noTopic
  <1> QED
    BY <1>1, <1>2, <1>3, <1>4, <1>5

\* Going back to the default topic, or failing to.
LEMMA RevertOutcome ==
    ASSUME NEW h \in HandlerState, NEW r \in revertCommandTopic(h)
    PROVE  /\ ~h.alt => /\ ~r.thrown /\ ~r.alt
                        /\ r.resp = h.resp /\ r.source = h.source
                        /\ r.stranded = h.stranded
           /\ h.alt /\ ~r.thrown =>
                /\ r.resp = h.altResp /\ ~r.alt
                /\ r.source.topic = Default /\ r.source.open = "yes"
           /\ r.thrown => r.stranded
  <1> DEFINE back == [h EXCEPT !.source = Listening(Default, Len(log[Default])),
                               !.resp = h.altResp, !.altResp = h.resp,
                               !.alt = FALSE, !.thrown = FALSE,
                               !.stranded = FALSE]
             lost == [h EXCEPT !.source = Unconnected(Default), !.thrown = TRUE,
                               !.failed = TRUE, !.stranded = TRUE]
  <1>1. \/ ~h.alt /\ r = [h EXCEPT !.thrown = FALSE]
        \/ h.alt /\ r = back
        \/ h.alt /\ r = lost
    BY Zenon DEF revertCommandTopic, If
  <1>2. CASE ~h.alt /\ r = [h EXCEPT !.thrown = FALSE]
    BY <1>2 DEF HandlerState
  <1>3. CASE h.alt /\ r = back
    BY <1>3, Zenon DEF HandlerState, Listening
  <1>4. CASE h.alt /\ r = lost
    BY <1>4, Zenon DEF HandlerState
  <1> HIDE DEF back, lost
  <1> QED
    BY <1>1, <1>2, <1>3, <1>4

LEMMA PublishOnce ==
    ASSUME TypeInv, NEW k, NEW b, NEW j, publishResponse(k, b, j)
    PROVE  Len(answers') = Len(answers) + 1
  BY DEF publishResponse, TypeInv, HistoryTypes

\* The three ends of a start command.
JobStarted(m, j) ==
    /\ status'.state = "Writing" /\ status'.job = j
    /\ controller'.state = "running"
    /\ accepted' = accepted \cup {j}
    /\ UNCHANGED <<unreverted, orphaned>>
    /\ Len(answers') = Len(answers) + 1
    /\ UsingAlternativeStatusTopic'
    /\ ~UsingAlternativeStatusTopic =>
           statusTopic' = m.control /\ AltStatusTopic' = statusTopic
    /\ m.control = Default =>
           UNCHANGED <<source, UsingAltTopic, CommandResponse, AltCommandResponse,
                       stranded>>
    /\ m.control # Default =>
           /\ source'.topic = m.control /\ source'.open = "yes" /\ UsingAltTopic'
           /\ CommandResponse' = m.control /\ AltCommandResponse' = CommandResponse

\* The topic was not changed, or reverted, or neither of it succeeded.
JobNotStarted ==
    /\ UNCHANGED <<status, accepted, statusTopic, AltStatusTopic,
                   UsingAlternativeStatusTopic>>
    /\ orphaned => orphaned'
    /\ controller' = controller \/ orphaned'
    /\ \/ /\ unreverted' = unreverted + 1 /\ stranded'
          /\ answers' = answers
       \/ /\ unreverted' = unreverted /\ ~UsingAltTopic'
          /\ Len(answers') = Len(answers) + 1
          /\ ~UsingAltTopic => CommandResponse' = CommandResponse
          /\ \/ stranded'
             \/ source'.topic = Default /\ source'.open = "yes"
             \/ UNCHANGED <<source, stranded>>

JobRejected ==
    /\ UNCHANGED <<status, controller, accepted, statusTopic, AltStatusTopic,
                   UsingAlternativeStatusTopic, source, UsingAltTopic,
                   CommandResponse, AltCommandResponse, stranded, unreverted,
                   orphaned>>
    /\ Len(answers') = Len(answers) + 1

LEMMA StartOutcome ==
    ASSUME TypeInv, handleStartCommand
    PROVE  \/ JobStarted(pool[poolPos + 1], poolPos + 1)
           \/ JobNotStarted
           \/ JobRejected
  <1> DEFINE j == poolPos + 1
             m == pool[j]
  <1>1. /\ m \in StartCommand
        /\ Started(m, j) \/ NotStarted(m, j) \/ Rejected(m, j)
    BY StartFrame
  <1> HIDE DEF m, j
  <1>3. CASE Started(m, j)
    <2>1. PICK h \in switchCommandTopic(m) :
             /\ ~h.thrown
             /\ Become(h)
             /\ NewController(m)
             /\ status' = [state |-> "Writing", job |-> j, stop |-> m.stop]
             /\ SwitchStatusTopic(m.control)
             /\ accepted' = accepted \cup {j}
             /\ publishResponse("start", TRUE, j)
             /\ UNCHANGED <<unreverted, orphaned>>
      BY <1>3, Zenon DEF Started
    <2>2. /\ m.control = Default =>
                /\ h.source = source /\ h.alt = UsingAltTopic
                /\ h.resp = CommandResponse /\ h.altResp = AltCommandResponse
                /\ h.stranded = stranded
          /\ m.control # Default =>
                /\ h.source.topic = m.control /\ h.source.open = "yes" /\ h.alt
                /\ h.resp = m.control /\ h.altResp = CommandResponse
      BY <1>1, <2>1, SwitchOutcome, Zenon DEF TypeInv
    <2>3. /\ source' = h.source /\ UsingAltTopic' = h.alt
          /\ CommandResponse' = h.resp /\ AltCommandResponse' = h.altResp
          /\ stranded' = h.stranded
      BY <2>1, Zenon DEF Become
    <2>4. /\ UsingAlternativeStatusTopic'
          /\ ~UsingAlternativeStatusTopic =>
                 statusTopic' = m.control /\ AltStatusTopic' = statusTopic
      BY <2>1, Zenon DEF SwitchStatusTopic
    <2>5. Len(answers') = Len(answers) + 1
      BY <2>1, PublishOnce, Zenon
    <2>6. status'.state = "Writing" /\ status'.job = j /\ controller'.state = "running"
      BY <2>1 DEF NewController
    <2> QED
      BY <2>1, <2>2, <2>3, <2>4, <2>5, <2>6, Zenon DEF m, j, JobStarted
  <1>4. CASE NotStarted(m, j)
    <2>1. PICK h \in switchCommandTopic(m) :
          \E f \in {"none", "create", "status"} :
             /\ f = "status" \/ controller' = controller
             /\ orphaned' = (orphaned \/ f = "status")
             /\ \E r \in revertCommandTopic([h EXCEPT !.failed = TRUE]) :
                  /\ Become(r)
                  /\ IF r.thrown
                     THEN UNCHANGED answers /\ unreverted' = unreverted + 1
                     ELSE publishResponse("start", FALSE, j) /\ UNCHANGED unreverted
             /\ UNCHANGED <<status, statusTopic, AltStatusTopic,
                            UsingAlternativeStatusTopic, accepted>>
      BY <1>4, Zenon DEF NotStarted, reporterVars
    <2> DEFINE g == [h EXCEPT !.failed = TRUE]
    <2>2. /\ g \in HandlerState /\ g.alt = h.alt /\ g.source = h.source
          /\ g.resp = h.resp /\ g.altResp = h.altResp /\ g.stranded = h.stranded
      <3>1. h \in HandlerState
        BY <1>1, SwitchedState DEF TypeInv
      <3> QED
        BY <3>1 DEF HandlerState
    <2>3. PICK r \in revertCommandTopic(g) :
             /\ Become(r)
             /\ IF r.thrown
                THEN UNCHANGED answers /\ unreverted' = unreverted + 1
                ELSE publishResponse("start", FALSE, j) /\ UNCHANGED unreverted
      BY <2>1, Zenon
    <2> HIDE DEF g
    <2>4. /\ ~g.alt => /\ ~r.thrown /\ ~r.alt
                       /\ r.resp = g.resp /\ r.source = g.source
                       /\ r.stranded = g.stranded
          /\ g.alt /\ ~r.thrown =>
                /\ r.resp = g.altResp /\ ~r.alt
                /\ r.source.topic = Default /\ r.source.open = "yes"
          /\ r.thrown => r.stranded
      BY <2>2, RevertOutcome, Zenon
    <2>5. /\ h.thrown => /\ h.alt = UsingAltTopic /\ h.resp = CommandResponse
                         /\ h.stranded
          /\ ~h.thrown /\ m.control = Default =>
                /\ h.source = source /\ h.alt = UsingAltTopic
                /\ h.resp = CommandResponse /\ h.stranded = stranded
          /\ ~h.thrown /\ m.control # Default => h.alt /\ h.altResp = CommandResponse
      BY <1>1, SwitchOutcome, Zenon DEF TypeInv
    <2>6. /\ source' = r.source /\ UsingAltTopic' = r.alt /\ CommandResponse' = r.resp
          /\ stranded' = r.stranded
      BY <2>3, Zenon DEF Become
    <2>7. ~r.thrown => /\ unreverted' = unreverted
                       /\ Len(answers') = Len(answers) + 1
      BY <2>3, PublishOnce, Zenon
    <2>8. r.thrown => unreverted' = unreverted + 1 /\ stranded' /\ answers' = answers
      BY <2>3, <2>4, <2>6, Zenon
    <2>9. ~r.thrown => /\ ~UsingAltTopic'
                       /\ ~UsingAltTopic => CommandResponse' = CommandResponse
                       /\ \/ stranded'
                          \/ source'.topic = Default /\ source'.open = "yes"
                          \/ UNCHANGED <<source, stranded>>
      BY <2>2, <2>4, <2>5, <2>6, Zenon
    <2>10. (orphaned => orphaned') /\ (controller' = controller \/ orphaned')
      BY <2>1, Zenon
    <2> QED
      BY <2>1, <2>7, <2>8, <2>9, <2>10, Zenon DEF JobNotStarted
  <1>5. CASE Rejected(m, j)
    <2>1. Len(answers') = Len(answers) + 1
      BY <1>5, PublishOnce, Zenon DEF Rejected
    <2> QED
      BY <1>5, <2>1, Zenon DEF Rejected, masterVars, reporterVars, failureVars,
                               JobRejected
  <1> QED
    BY <1>1, <1>3, <1>4, <1>5, Zenon DEF m, j

\* The end of a job: the finished-writing message is sent, and the handler and
\* the status go back to the default topic, or the process exits.
LEMMA IdleOutcome ==
    ASSUME TypeInv, setToIdle
    PROVE  /\ \E b \in BOOLEAN :
                finished' = Append(finished, [job |-> status.job, success |-> b,
                                              topic |-> CommandResponse])
           /\ pc # "exited" /\ controller.state # "null"
           /\ UNCHANGED <<pool, poolPos, handled, answers, accepted, unreverted,
                          orphaned>>
           /\ pc' # "exited" =>
                /\ status' = Idle /\ controller' = NoController
                /\ ~UsingAltTopic' /\ ~UsingAlternativeStatusTopic'
                /\ statusTopic' = IF UsingAlternativeStatusTopic
                                  THEN AltStatusTopic ELSE statusTopic
                /\ UsingAltTopic =>
                       /\ CommandResponse' = AltCommandResponse
                       /\ source'.topic = Default /\ source'.open = "yes"
                /\ ~UsingAltTopic => UNCHANGED <<CommandResponse, source, stranded>>
  <1>1. PICK h \in revertCommandTopic(Current) :
           /\ Become(h)
           /\ IF h.thrown THEN pc' = "exited"
              ELSE /\ ResetController
                   /\ UsingAlternativeStatusTopic' = FALSE
                   /\ IF UsingAlternativeStatusTopic
                        THEN statusTopic' = AltStatusTopic
                        ELSE statusTopic' = statusTopic
    BY Zenon DEF setToIdle
  <1>2. Current \in HandlerState
    BY CurrentState, Zenon DEF TypeInv
  <1>3. /\ ~Current.alt => /\ ~h.thrown /\ ~h.alt
                           /\ h.resp = Current.resp /\ h.source = Current.source
                           /\ h.stranded = Current.stranded
        /\ Current.alt /\ ~h.thrown =>
                /\ h.resp = Current.altResp /\ ~h.alt
                /\ h.source.topic = Default /\ h.source.open = "yes"
    BY <1>2, RevertOutcome, Zenon
  <1>4. /\ source' = h.source /\ UsingAltTopic' = h.alt /\ CommandResponse' = h.resp
        /\ stranded' = h.stranded
    BY <1>1, Zenon DEF Become
  <1>5. ~h.thrown =>
          /\ ~UsingAltTopic'
          /\ UsingAltTopic =>
                 /\ CommandResponse' = AltCommandResponse
                 /\ source'.topic = Default /\ source'.open = "yes"
          /\ ~UsingAltTopic => UNCHANGED <<CommandResponse, source, stranded>>
    BY <1>3, <1>4, Zenon DEF Current
  <1>6. /\ pc = "finish" /\ controller.state # "null"
        /\ \E b \in BOOLEAN :
             finished' = Append(finished, [job |-> status.job, success |-> b,
                                           topic |-> CommandResponse])
        /\ UNCHANGED <<pool, poolPos, handled, answers, accepted, unreverted,
                       orphaned>>
    BY Zenon DEF setToIdle, hasWritingStopped, sendHasStoppedMessage,
           sendErrorEncounteredMessage, publishStoppedMsg, brokerVars
  <1> QED
    BY <1>1, <1>5, <1>6, Zenon DEF ResetController

\* What every other step leaves alone.
Frame ==
    /\ pc' # "exited" => pc # "exited"
    /\ UNCHANGED <<CommandResponse, UsingAltTopic, AltCommandResponse, statusTopic,
                   AltStatusTopic, UsingAlternativeStatusTopic, poolPos, finished,
                   accepted, stranded, unreverted, orphaned>>
    /\ source'.topic = source.topic
    /\ source'.open = "unassigned" => source.open = "unassigned"
    /\ status'.state = status.state /\ status'.job = status.job
    /\ controller'.state = "null" <=> controller.state = "null"
    /\ Len(answers) + unreverted = handled => Len(answers') + unreverted' = handled'
    /\ \A i \in 1 .. Len(pool) : pool'[i] = pool[i]

LEMMA FrameSteps ==
    ASSUME TypeInv, [Next]_vars, ~handleStartCommand, ~setToIdle
    PROVE  Frame
  <1> USE DEF handlerVars, masterVars, reporterVars, historyVars, failureVars,
              brokerVars, loopVars
  <1>0. pc' # "exited" => pc # "exited"
    BY Zenon DEF Next, vars
  <1>1. CASE Still \/ UNCHANGED vars
    BY <1>0, <1>1 DEF Still, vars, Frame
  <1>2. CASE Clients
    <2>1. \A i \in 1 .. Len(pool) : pool'[i] = pool[i]
      <3>1. pool' = pool \/ \E e : pool' = Append(pool, e)
        BY <1>2, Zenon DEF Clients, Submit, SendStop
      <3> QED
        BY <3>1 DEF TypeInv, BrokerTypes
    <2>2. UNCHANGED <<handlerVars, masterVars, reporterVars, historyVars>>
      BY <1>2, Zenon DEF Clients, Submit, SendStop
    <2> QED
      BY <1>0, <2>1, <2>2, Zenon DEF Frame
  <1>3. CASE Streams
    <2>1. UNCHANGED <<handlerVars, reporterVars, historyVars, brokerVars>>
      BY <1>3 DEF Streams, StopTimePasses, StreamsDone, StreamsFail
    <2>2. status'.state = status.state /\ status'.job = status.job
      BY <1>3 DEF Streams, StopTimePasses, StreamsDone, StreamsFail, TypeInv,
                  MasterTypes
    <2>3. controller'.state = "null" <=> controller.state = "null"
      BY <1>3 DEF Streams, StopTimePasses, StreamsDone, StreamsFail, TypeInv,
                  MasterTypes
    <2> QED
      BY <1>0, <2>1, <2>2, <2>3 DEF Frame
  <1>4. CASE StopOnSignal
    <2>1. UNCHANGED <<handlerVars, reporterVars, historyVars, brokerVars>>
      BY <1>4 DEF StopOnSignal
    <2>2. status'.state = status.state /\ status'.job = status.job
      BY <1>4 DEF StopOnSignal, TypeInv, MasterTypes
    <2>3. controller'.state = "null" <=> controller.state = "null"
      BY <1>4 DEF StopOnSignal, writingIsFinished
    <2> QED
      BY <1>0, <2>1, <2>2, <2>3 DEF Frame
  <1>5. CASE ConnectToCommands
    <2>1. source'.topic = source.topic /\ source'.open = "yes"
      BY <1>5 DEF ConnectToCommands, Listening
    <2>2. UNCHANGED <<brokerVars, poolPos, UsingAltTopic, CommandResponse,
                      AltCommandResponse, masterVars, reporterVars, historyVars>>
      BY <1>5, Zenon DEF ConnectToCommands
    <2>3. source'.open = "unassigned" => source.open = "unassigned"
      BY <2>1
    <2> QED
      BY <1>0, <2>1, <2>2, <2>3, Zenon DEF Frame
  <1>6. CASE handleStopCommand
    <2>1. UNCHANGED <<brokerVars, poolPos, UsingAltTopic, CommandResponse,
                      AltCommandResponse, reporterVars, finished, accepted,
                      failureVars>>
      BY <1>6, Zenon DEF handleStopCommand
    <2>2. source'.topic = source.topic /\ source'.open = source.open
      BY <1>6, Zenon DEF handleStopCommand, TypeInv, HandlerTypes, Source
    <2>3. status'.state = status.state /\ status'.job = status.job
      BY <1>6, Zenon DEF handleStopCommand, TypeInv, MasterTypes
    <2>4. controller'.state = "null" <=> controller.state = "null"
      <3>1. \/ controller' = [state |-> IF writingIsFinished
                                          THEN controller.state ELSE "stopped",
                              stop |-> "passed"]
            \/ controller' = [controller EXCEPT !.stop = "set"]
            \/ controller' = controller
        BY <1>6, Zenon DEF handleStopCommand
      <3>2. controller.state = "null" => writingIsFinished
        BY DEF writingIsFinished
      <3> QED
        BY <3>1, <3>2 DEF TypeInv, MasterTypes
    <2>5. handled' = handled + 1 /\ Len(answers') = Len(answers) + 1
      BY <1>6, PublishOnce, Zenon DEF handleStopCommand
    <2>6. Len(answers) + unreverted = handled => Len(answers') + unreverted' = handled'
      BY <2>1, <2>5 DEF TypeInv, HistoryTypes
    <2> QED
      BY <1>0, <2>1, <2>2, <2>3, <2>4, <2>6, Zenon DEF Frame
  <1> QED
    BY <1>1, <1>2, <1>3, <1>4, <1>5, <1>6, StillSteps DEF Next, RunLoop

LEMMA SameTopic ==
    ASSUME TypeInv, Frame
    PROVE  TopicOfJob' = TopicOfJob
  <1>1. status.state = "Writing" => status.job \in 1 .. Len(pool)
    BY DEF TypeInv, MasterTypes, BrokerTypes
  <1> QED
    BY <1>1 DEF Frame, TopicOfJob

-----------------------------------------------------------------------------
\* The topics.

TopicsInv == StatusInv /\ ResponseInv /\ ListensInv

LEMMA TopicsStart ==
    ASSUME TypeInv, TopicsInv, handleStartCommand
    PROVE  TopicsInv'
  <1> DEFINE j == poolPos + 1
             m == pool[j]
  <1>1. /\ pool' = pool /\ status.state = "Idle" /\ pc # "exited"
        /\ unreverted \in Nat
    BY StartFrame, Zenon DEF handleStartCommand, TypeInv, HistoryTypes
  <1>2. TopicOfJob = Default
    BY <1>1 DEF TopicOfJob
  <1>3. CASE JobStarted(m, j)
    <2>1. TopicOfJob' = m.control /\ status'.state = "Writing"
      BY <1>1, <1>3, Zenon DEF JobStarted, TopicOfJob
    <2> HIDE DEF m, j
    <2>2. StatusInv'
      BY <1>1, <1>2, <1>3, <2>1, Zenon DEF JobStarted, TopicsInv, StatusInv
    <2>3. ResponseInv' /\ ListensInv'
      BY <1>1, <1>2, <1>3, <2>1 DEF JobStarted, TopicsInv, ResponseInv, ListensInv
    <2> QED
      BY <2>2, <2>3 DEF TopicsInv
  <1>4. CASE JobNotStarted
    <2>1. TopicOfJob' = Default /\ status'.state = "Idle"
      BY <1>1, <1>4, Zenon DEF JobNotStarted, TopicOfJob
    <2>2. StatusInv'
      BY <1>1, <1>2, <1>4, <2>1, Zenon DEF JobNotStarted, TopicsInv, StatusInv
    <2>3. unreverted' = unreverted \/ unreverted' # 0
      BY <1>1, <1>4 DEF JobNotStarted
    <2>4. ResponseInv'
      BY <1>1, <1>2, <1>4, <2>1, <2>3 DEF JobNotStarted, TopicsInv, ResponseInv
    <2>5. ListensInv'
      BY <1>1, <1>2, <1>4, <2>1 DEF JobNotStarted, TopicsInv, ListensInv
    <2> QED
      BY <2>2, <2>4, <2>5 DEF TopicsInv
  <1>5. CASE JobRejected
    BY <1>1, <1>5 DEF JobRejected, TopicsInv, StatusInv, ResponseInv, ListensInv,
                      TopicOfJob
  <1> QED
    BY <1>3, <1>4, <1>5, StartOutcome

LEMMA TopicsIdle ==
    ASSUME TypeInv, TopicsInv, setToIdle
    PROVE  TopicsInv'
  <1>1. CASE pc' = "exited"
    BY <1>1 DEF TopicsInv, StatusInv, ResponseInv, ListensInv
  <1>2. CASE pc' # "exited"
    <2>1. /\ pc # "exited" /\ unreverted' = unreverted
          /\ status' = Idle
          /\ ~UsingAltTopic' /\ ~UsingAlternativeStatusTopic'
          /\ statusTopic' = IF UsingAlternativeStatusTopic
                            THEN AltStatusTopic ELSE statusTopic
          /\ UsingAltTopic =>
                 /\ CommandResponse' = AltCommandResponse
                 /\ source'.topic = Default /\ source'.open = "yes"
          /\ ~UsingAltTopic => UNCHANGED <<CommandResponse, source, stranded>>
      BY <1>2, IdleOutcome, Zenon
    <2>2. TopicOfJob' = Default /\ status'.state = "Idle"
      BY <2>1 DEF TopicOfJob, Idle
    <2>3. StatusInv'
      <3>1. status.state = "Writing" \/ TopicOfJob = Default
        BY Zenon DEF TopicOfJob
      <3> QED
        BY <2>1, <2>2, <3>1, Zenon DEF TopicsInv, StatusInv
    <2>4. ResponseInv'
      BY <2>1, <2>2, Zenon DEF TopicsInv, ResponseInv
    <2>5. ListensInv'
      BY <2>1, <2>2 DEF TopicsInv, ListensInv
    <2> QED
      BY <2>3, <2>4, <2>5 DEF TopicsInv
  <1> QED
    BY <1>1, <1>2

LEMMA TopicsStep ==
    ASSUME TypeInv, TopicsInv, [Next]_vars
    PROVE  TopicsInv'
  <1>1. CASE ~handleStartCommand /\ ~setToIdle
    <2>1. Frame
      BY <1>1, FrameSteps
    <2> QED
      BY <2>1, SameTopic DEF TopicsInv, StatusInv, ResponseInv, ListensInv, Frame
  <1> QED
    BY <1>1, TopicsStart, TopicsIdle

\* While a job is written the handler listens, answers and reports on the topic
\* of the job, and in between on the default topic, whatever fails: a failed
\* change of the topic leaves at most the listener behind, and only the answers
\* are misplaced when a failed start cannot be reverted.
THEOREM TopicFollowsJob == Spec => []OnTopicOfJob
  <1>1. Init => TopicsInv
    BY DEF Init, TopicsInv, StatusInv, ResponseInv, ListensInv, TopicOfJob, Idle
  <1>2. TypeInv /\ TopicsInv => OnTopicOfJob
    BY DEF TopicsInv, StatusInv, ResponseInv, ListensInv, TopicOfJob, OnTopicOfJob,
           Quiet
  <1> QED
    BY <1>1, <1>2, TypesOfMain, TopicsStep, PTL DEF Spec

-----------------------------------------------------------------------------
\* The answers.

\* Every command that is taken up is answered, once: start commands that are
\* started, not started or rejected, and stop commands.  Only a failure to go
\* back to the default topic leaves a start command without an answer.
THEOREM CommandsAnswered == Spec => []EachAnswered
  <1>1. Init => EachAnswered
    BY DEF Init, EachAnswered
  <1>2. TypeInv /\ EachAnswered /\ [Next]_vars => EachAnswered'
    <2> SUFFICES ASSUME TypeInv, EachAnswered, [Next]_vars PROVE EachAnswered'
      OBVIOUS
    <2>1. Len(answers) \in Nat /\ unreverted \in Nat /\ handled \in Nat
      BY DEF TypeInv, HistoryTypes
    <2>2. CASE handleStartCommand
      <3>1. \/ Len(answers') = Len(answers) + 1 /\ unreverted' = unreverted
            \/ answers' = answers /\ unreverted' = unreverted + 1
        BY <2>2, StartOutcome, Zenon DEF JobStarted, JobNotStarted, JobRejected
      <3>2. handled' = handled + 1
        BY <2>2, StartFrame, Zenon
      <3> QED
        BY <2>1, <3>1, <3>2 DEF EachAnswered
    <2>3. CASE setToIdle
      <3>1. UNCHANGED <<handled, answers, unreverted>>
        BY <2>3, IdleOutcome, Zenon
      <3> QED
        BY <3>1 DEF EachAnswered
    <2>4. CASE ~handleStartCommand /\ ~setToIdle
      BY <2>4, FrameSteps, Zenon DEF Frame, EachAnswered
    <2> QED
      BY <2>2, <2>3, <2>4
  <1> QED
    BY <1>1, <1>2, TypesOfMain, PTL DEF Spec

-----------------------------------------------------------------------------
\* The jobs.

LEMMA JobsStart ==
    ASSUME TypeInv, MessagesInv, JobsInv, handleStartCommand
    PROVE  MessagesInv' /\ JobsInv'
  <1> DEFINE j == poolPos + 1
  <1>1. /\ status.state = "Idle" /\ UNCHANGED <<pool, finished>>
        /\ poolPos' = j /\ j \in Job /\ pc # "exited"
    BY StartFrame, Zenon DEF handleStartCommand
  <1>2. /\ poolPos \in Nat /\ accepted \subseteq 1 .. poolPos
        /\ unreverted \in Nat /\ None \notin Job
    BY MasterAssumption DEF TypeInv, BrokerTypes, HistoryTypes, MessagesInv, Job
  <1>3. \A i \in accepted : i \in 1 .. poolPos' /\ i # j
    BY <1>1, <1>2
  <1>4. \A i \in DOMAIN finished : finished[i].job # j
    BY <1>1, <1>2, <1>3, Zenon DEF MessagesInv
  <1>5. FinishedJobs' = FinishedJobs /\ j \notin FinishedJobs
    BY <1>1, <1>4, Zenon DEF FinishedJobs
  <1>6. j \in 1 .. poolPos'
    BY <1>1, <1>2
  <1> HIDE DEF j
  <1>7. CASE JobStarted(pool[j], j)
    <2>1. /\ status'.state = "Writing" /\ status'.job = j
          /\ controller'.state = "running" /\ accepted' = accepted \cup {j}
          /\ UNCHANGED <<unreverted, orphaned>>
      BY <1>7, Zenon DEF JobStarted
    <2>2. MessagesInv'
      BY <1>1, <1>3, <1>6, <2>1, Zenon DEF MessagesInv
    <2>3. \A i \in accepted' : i \notin FinishedJobs => i = j
      BY <1>1, <2>1, Zenon DEF JobsInv
    <2>4. JobsInv'
      BY <1>5, <2>1, <2>3 DEF JobsInv
    <2> QED
      BY <2>2, <2>4
  <1>8. CASE JobNotStarted \/ JobRejected
    <2>1. /\ UNCHANGED <<status, accepted>>
          /\ orphaned => orphaned'
          /\ controller' = controller \/ orphaned'
          /\ unreverted' = unreverted \/ unreverted' = unreverted + 1
      <3>1. CASE JobNotStarted
        BY <3>1, Zenon DEF JobNotStarted
      <3>2. CASE JobRejected
        BY <3>2, Zenon DEF JobRejected
      <3> QED
        BY <1>8, <3>1, <3>2, Zenon
    <2>2. unreverted' = 0 => unreverted = 0
      BY <1>2, <2>1
    <2>3. MessagesInv'
      BY <1>1, <1>3, <2>1, <2>2, Zenon DEF MessagesInv
    <2>4. JobsInv'
      BY <1>1, <1>5, <2>1 DEF JobsInv
    <2> QED
      BY <2>3, <2>4
  <1> QED
    BY <1>7, <1>8, StartOutcome DEF j

LEMMA JobsIdle ==
    ASSUME TypeInv, ResponseInv, MessagesInv, JobsInv, setToIdle
    PROVE  MessagesInv' /\ JobsInv'
  <1>1. /\ UNCHANGED <<pool, poolPos, accepted, unreverted, orphaned>>
        /\ pc # "exited" /\ controller.state # "null"
        /\ pc' # "exited" => status' = Idle /\ controller' = NoController
    BY IdleOutcome, Zenon
  <1>2. PICK b \in BOOLEAN :
          finished' = Append(finished, [job |-> status.job, success |-> b,
                                        topic |-> CommandResponse])
    BY IdleOutcome, ZenonT(40)
  <1> DEFINE e == [job |-> status.job, success |-> b, topic |-> CommandResponse]
             n == Len(finished)
  <1>3. /\ n \in Nat /\ DOMAIN finished = 1 .. n /\ DOMAIN finished' = 1 .. n + 1
        /\ \A i \in 1 .. n : finished'[i] = finished[i]
        /\ finished'[n + 1] = e
    <2>1. finished \in Seq([job : Job \cup {None}, success : BOOLEAN, topic : Topic])
      BY DEF TypeInv, HistoryTypes
    <2> HIDE DEF e
    <2> QED
      BY <1>2, <2>1, SMTT(20) DEF e
  <1>4. e.job = status.job /\ e.topic = CommandResponse
    OBVIOUS
  <1> HIDE DEF e, n
  <1>5. \/ /\ status.state = "Writing"
           /\ status.job \in accepted \ FinishedJobs
           /\ unreverted = 0 => e.topic = pool[status.job].control
        \/ status.state = "Idle" /\ status.job = None /\ orphaned
    BY <1>1, <1>4, Zenon DEF JobsInv, ResponseInv, TopicOfJob, TypeInv, MasterTypes
  <1>6. None \notin accepted
    BY MasterAssumption, Zenon DEF TypeInv, HistoryTypes, Job
  <1>7. \A j : j \in FinishedJobs' <=> j \in FinishedJobs \/ j = status.job
    BY <1>3, <1>4 DEF FinishedJobs
  <1>8. \A k \in 1 .. n + 1 : k \in 1 .. n \/ k = n + 1
    BY <1>3
  <1>9. \A k \in 1 .. n : finished[k].job \in FinishedJobs
    BY <1>3, Zenon DEF FinishedJobs
  <1>10. ASSUME NEW i \in DOMAIN finished'
         PROVE  \/ finished'[i].job = None /\ orphaned
                \/ /\ finished'[i].job \in accepted
                   /\ unreverted = 0 =>
                          finished'[i].topic = pool[finished'[i].job].control
                   /\ \A k \in DOMAIN finished' :
                          finished'[i].job = finished'[k].job => i = k
    <2>1. CASE i = n + 1
      BY <1>3, <1>4, <1>5, <1>8, <1>9, <2>1, Zenon
    <2>2. CASE i \in 1 .. n
      <3>1. finished[i].job \in accepted => finished[i].job # status.job
        BY <1>5, <1>6, <1>9, <2>2, Zenon
      <3> QED
        BY <1>3, <1>4, <1>8, <2>2, <3>1, Zenon DEF MessagesInv
    <2> QED
      BY <1>3, <1>8, <2>1, <2>2
  <1>11. MessagesInv'
    BY <1>1, <1>10, Zenon DEF MessagesInv
  <1>12. ASSUME pc' # "exited" PROVE JobsInv'
    <2>1. \A j \in accepted : j \in FinishedJobs'
      BY <1>1, <1>7, Zenon DEF JobsInv
    <2>2. controller'.state = "null" /\ status'.state = "Idle" /\ status'.job = None
      BY <1>1, <1>12 DEF Idle, NoController
    <2> QED
      BY <1>1, <2>1, <2>2 DEF JobsInv
  <1> QED
    BY <1>11, <1>12 DEF JobsInv

\* Each accepted job is followed by one finished-writing message on its topic,
\* and no other message of that kind is sent: at any time the accepted jobs are
\* the finished ones and the one being written, for which alone there is a
\* stream controller.  Only a start that has failed with its controller in place
\* leaves one without a job, which adds a message for no job.
THEOREM FinishedOnce == Spec => []OneFinishedPerJob
  <1> DEFINE Inv == TopicsInv /\ MessagesInv /\ JobsInv
  <1>1. Init => Inv
    <2>1. Init => TopicsInv
      BY DEF Init, TopicsInv, StatusInv, ResponseInv, ListensInv, TopicOfJob, Idle
    <2>2. Init => MessagesInv /\ JobsInv
      BY DEF Init, MessagesInv, JobsInv, FinishedJobs, Idle, NoController
    <2> QED
      BY <2>1, <2>2
  <1>2. TypeInv /\ Inv /\ [Next]_vars => Inv'
    <2> SUFFICES ASSUME TypeInv, TopicsInv, MessagesInv, JobsInv, [Next]_vars
                 PROVE  TopicsInv' /\ MessagesInv' /\ JobsInv'
      BY Zenon
    <2>1. CASE ~handleStartCommand /\ ~setToIdle
      <3>1. Frame
        BY <2>1, FrameSteps, Zenon
      <3>2. \A j \in 1 .. poolPos : pool'[j] = pool[j]
        BY <3>1 DEF Frame, TypeInv, BrokerTypes
      <3>3. FinishedJobs' = FinishedJobs
        BY <3>1 DEF Frame, FinishedJobs
      <3>4. \A j \in accepted : pool'[j] = pool[j]
        BY <3>2, Zenon DEF MessagesInv
      <3>5. MessagesInv'
        BY <3>1, <3>4, Zenon DEF MessagesInv, Frame
      <3>6. JobsInv'
        BY <3>1, <3>3 DEF JobsInv, Frame
      <3> QED
        BY <3>5, <3>6, TopicsStep, Zenon
    <2> QED
      BY <2>1, JobsStart, JobsIdle, TopicsStep, Zenon DEF TopicsInv
  <1>3. TypeInv /\ Inv => OneFinishedPerJob
    <2> SUFFICES ASSUME TypeInv, MessagesInv, JobsInv PROVE OneFinishedPerJob
      BY Zenon
    <2>1. status.state = "Idle" <=> status.state # "Writing"
      BY DEF TypeInv, MasterTypes
    <2>2. Quiet => pc # "exited"
      BY DEF Quiet
    <2>3. Quiet => accepted \ FinishedJobs
                     = (IF status.state = "Writing" THEN {status.job} ELSE {})
      BY <2>2, Zenon DEF JobsInv
    <2> QED
      BY <2>1, <2>2, <2>3, Zenon DEF JobsInv, MessagesInv, OneFinishedPerJob,
                                     FinishedJobs
  <1> HIDE DEF Inv
  <1> QED
    BY <1>1, <1>2, <1>3, TypesOfMain, PTL DEF Spec

=============================================================================
