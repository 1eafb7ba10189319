----------------------------- MODULE Partition -----------------------------
(***************************************************************************)
(* One partition of a topic: Stream::PartitionThreaded, the worker thread  *)
(* it runs, the Stream::Partition that thread polls, and the broker and    *)
(* the clock around them.                                                  *)
(*                                                                         *)
(* Owner (the executor thread of the Topic): stop, set_stop_time, destroy. *)
(* Worker (PartitionThreaded::process): Check, TakeStop, LoadStopTime,     *)
(* ApplyStopTime, ClearStopTime and one of the Poll actions per turn of    *)
(* its loop.  The loads and stores of the atomics the owner also writes    *)
(* are steps of their own.  Environment: the broker appends messages, the  *)
(* clock advances, the stream controller pauses and resumes the streamers. *)
(***************************************************************************)
EXTENDS SourceFilterOps, PartitionFilterOps

CONSTANTS
    Key,           \* the write hashes: one filter each
    SrcOf,         \* [Key -> Source], several filters may share a source
    Repeats,       \* the keys whose writer accepts repeated timestamps
    Start,         \* start time of the job
    InitialStop,   \* stop time the partition is created with
    StopTimes,     \* the stop times the owner may request
    CanStop,       \* the owner may call stop()
    CanDestroy,    \* the owner may destroy the partition at any time
    \* Bounds.
    Horizon,       \* the clock stops here
    MaxLog,        \* messages appended to the partition
    MaxErrors,     \* polls that fail
    MaxPauses,     \* times the streamers are paused
    MaxRequests    \* calls of set_stop_time

ASSUME PartitionAssumption ==
    /\ SrcOf \in [Key -> Source]
    /\ Repeats \subseteq Key
    /\ Start \in Instant
    /\ InitialStop \in Instant
    /\ StopTimes \subseteq Instant \ {MaxTime}
    /\ Horizon \in Nat /\ Horizon + Leeway + TimeLimit < MaxTime
    /\ CanStop \in BOOLEAN /\ CanDestroy \in BOOLEAN
    /\ {MaxLog, MaxErrors, MaxPauses, MaxRequests} \subseteq Nat

\* A Kafka message: the flatbuffer in it, whether that can be decoded, and
\* the broker's timestamp.
Record == [msg : Message, decodes : BOOLEAN, kafkaTime : Instant]

VARIABLES
    \* environment
    now,          \* the system clock
    log,          \* the partition in the broker
    paused,       \* _streamers_paused_function()
    pauses,       \* bound: times paused
    \* the consumer
    pos,          \* messages fetched
    eof,          \* the end of the partition has been reported at pos
    errors,       \* bound: polls that failed
    \* PartitionThreaded
    pc,           \* where the worker thread is in process()
    requested,    \* _requested_stop_time
    immediate,    \* _immediate_stop_requested
    exit,         \* _exit
    \* Partition
    stop_time, force_stop, has_finished,
    filters,      \* the filters, by key
    active,       \* the keys of the filters still in _source_filters
    pf,           \* _partition_filter
    logged,       \* _partition_time_out_logged
    sent,         \* by key: the messages forwarded to the writer
    \* history
    asked,        \* the sequence of stop times requested
    overwritten,  \* the last one came while the worker was to clear the request
    earliest,     \* the earliest stop time that was in force
    cause,        \* why the partition finished
    errorSince,   \* when the current run of errors began, MaxTime if there is none
    quietSince,   \* when the current run of time-outs began, likewise
    slow          \* a poll timed out although there was something to fetch

clock == <<now, log, paused, pauses>>
consumer == <<pos, eof, errors>>
shared == <<requested, immediate, exit>>
partition == <<stop_time, force_stop, has_finished, filters, active, pf, logged,
               sent>>
requests == <<asked, overwritten, earliest>>
history == <<requests, cause, errorSince, quietSince, slow>>
vars == <<clock, consumer, pc, shared, partition, history>>

TypeOK ==
    /\ now \in 0 .. Horizon
    /\ log \in Seq(Record)
    /\ {paused, eof, immediate, exit, force_stop, has_finished, logged, slow,
        overwritten} \subseteq BOOLEAN
    /\ {pauses, errors} \subseteq Nat
    /\ {errorSince, quietSince, earliest} \subseteq Instant
    /\ pos \in 0 .. Len(log)
    /\ pc \in {"check", "stop", "load", "apply", "clear", "poll", "exited",
               "joined"}
    /\ requested \in Instant
    /\ stop_time \in Instant
    /\ filters \in [Key -> Filter]
    /\ active \subseteq Key
    /\ pf \in PartitionFilterRecord
    /\ sent \in [Key -> Seq(Forwarded)]
    /\ asked \in Seq(Instant)
    /\ cause \in {"none", "stop", "poll_error", "end_of_partition",
                  "no_filters", "stop_time"}

Init ==
    /\ now = 0 /\ log = <<>> /\ paused = FALSE /\ pauses = 0
    /\ pos = 0 /\ eof = FALSE /\ errors = 0
    /\ pc = "check"
    /\ requested = MaxTime /\ immediate = FALSE /\ exit = FALSE
    /\ stop_time = SanitiseStopTime(InitialStop)
    /\ force_stop = FALSE /\ has_finished = FALSE
    /\ filters = [k \in Key |->
                    NewFilter(SrcOf[k], Start, InitialStop, k \in Repeats)]
    /\ active = Key
    /\ pf = [NewPartitionFilter(InitialStop)
               EXCEPT !.stop = SanitiseStopTime(InitialStop)]
    /\ logged = FALSE
    /\ sent = [k \in Key |-> <<>>]
    /\ asked = <<>> /\ overwritten = FALSE /\ earliest = stop_time
    /\ cause = "none" /\ errorSince = MaxTime /\ quietSince = MaxTime
    /\ slow = FALSE

-----------------------------------------------------------------------------
\* Environment.

Tick ==
    /\ now < Horizon
    /\ now' = now + 1
    /\ UNCHANGED <<log, paused, pauses, consumer, pc, shared, partition, history>>

\* A message reaches the broker at most Leeway after its own timestamp.  An
\* undecodable one, whose timestamp nobody sees, makes the constructor of
\* FlatbufferMessage throw, as does a timestamp of zero.
Append_to_log(src, delay, decodes) ==
    /\ Len(log) < MaxLog
    /\ delay \in 0 .. Leeway /\ delay < now
    /\ decodes \/ delay = 0
    /\ log' = Append(log,
                     [msg |-> [id |-> Len(log) + 1, src |-> src,
                               ts |-> (now - delay) * NsPerMicro, valid |-> TRUE],
                      decodes |-> decodes, kafkaTime |-> now])
    /\ UNCHANGED <<now, paused, pauses, consumer, pc, shared, partition, history>>

\* StreamController::pauseStreamers and resumeStreamers.
Pause ==
    /\ ~paused /\ pauses < MaxPauses
    /\ paused' = TRUE /\ pauses' = pauses + 1
    /\ UNCHANGED <<now, log, consumer, pc, shared, partition, history>>

Resume ==
    /\ paused
    /\ paused' = FALSE
    /\ UNCHANGED <<now, log, pauses, consumer, pc, shared, partition, history>>

-----------------------------------------------------------------------------
\* Owner.

stop ==
    /\ CanStop /\ ~exit /\ ~immediate
    /\ immediate' = TRUE
    /\ UNCHANGED <<clock, consumer, pc, requested, exit, partition, history>>

set_stop_time(t) ==
    /\ ~exit /\ Len(asked) < MaxRequests
    /\ requested' = t
    /\ asked' = Append(asked, t)
    /\ overwritten' = (pc = "clear")
    /\ UNCHANGED <<clock, consumer, pc, immediate, exit, partition, earliest,
                   cause, errorSince, quietSince, slow>>

\* The destructor: tell the thread to exit, wait for it (Join), then let go
\* of the partition and its filters.
destroy ==
    /\ CanDestroy \/ has_finished
    /\ ~exit
    /\ exit' = TRUE
    /\ UNCHANGED <<clock, consumer, pc, requested, immediate, partition, history>>

Join ==
    /\ exit /\ pc = "exited"
    /\ pc' = "joined"
    /\ sent' = [k \in Key |-> IF k \in active
                              THEN sent[k] \o ForwardBuffered(filters[k])
                              ELSE sent[k]]
    /\ active' = {}
    /\ UNCHANGED <<clock, consumer, shared, stop_time, force_stop, has_finished,
                   filters, pf, logged, history>>

-----------------------------------------------------------------------------
\* Worker: PartitionThreaded::process.

\* Mutant: the loop does not look at _exit.
Check_IgnoresExit ==
    /\ pc = "check"
    /\ pc' = IF has_finished THEN "exited" ELSE "stop"
    /\ UNCHANGED <<clock, consumer, shared, partition, history>>

\* Mutant: the loop goes on after the partition has finished.
Check_IgnoresFinished ==
    /\ pc = "check"
    /\ pc' = IF exit THEN "exited" ELSE "stop"
    /\ UNCHANGED <<clock, consumer, shared, partition, history>>

Check ==
    /\ pc = "check"
    /\ pc' = IF has_finished \/ exit THEN "exited" ELSE "stop"
    /\ UNCHANGED <<clock, consumer, shared, partition, history>>

TakeStop ==
    /\ pc = "stop"
    /\ pc' = "load"
    /\ force_stop' = (force_stop \/ immediate)
    /\ immediate' = FALSE
    /\ UNCHANGED <<clock, consumer, requested, exit, stop_time, has_finished,
                   filters, active, pf, logged, sent, history>>

\* Mutant: the requested stop time is cleared and not applied.
LoadStopTime_Clears ==
    /\ pc = "load"
    /\ pc' = IF requested # MaxTime THEN "clear" ELSE "poll"
    /\ UNCHANGED <<clock, consumer, shared, partition, history>>

LoadStopTime ==
    /\ pc = "load"
    /\ pc' = IF requested # MaxTime THEN "apply" ELSE "poll"
    /\ UNCHANGED <<clock, consumer, shared, partition, history>>

\* Partition::setStopTime, with the second load of the request.
ApplyStopTime ==
    LET t == SanitiseStopTime(requested)
    IN  /\ pc = "apply"
        /\ pc' = "clear"
        /\ stop_time' = t
        /\ pf' = [pf EXCEPT !.stop = t]
        /\ filters' = [k \in Key |-> IF k \in active
                                     THEN SetStopTime(filters[k], t)
                                     ELSE filters[k]]
        /\ earliest' = IF t < earliest THEN t ELSE earliest
        /\ UNCHANGED <<clock, consumer, shared, force_stop, has_finished, active,
                       logged, sent, asked, overwritten, cause, errorSince,
                       quietSince, slow>>

ClearStopTime ==
    /\ pc = "clear"
    /\ pc' = "poll"
    /\ requested' = MaxTime
    /\ UNCHANGED <<clock, consumer, immediate, exit, partition, history>>

-----------------------------------------------------------------------------
\* Worker: Partition::pollForMessage.

Finish(why) == has_finished' = TRUE /\ cause' = why

PollForced ==
    /\ pc = "poll" /\ force_stop
    /\ pc' = "check"
    /\ Finish("stop")
    /\ UNCHANGED <<clock, consumer, shared, stop_time, force_stop, filters,
                   active, pf, logged, sent, requests, errorSince, quietSince,
                   slow>>

PollPaused ==
    /\ pc = "poll" /\ ~force_stop /\ paused
    /\ pc' = "check"
    /\ UNCHANGED <<clock, consumer, shared, partition, history>>

\* History: when a run of polls with one status began.
Since(since) == IF since = MaxTime THEN now ELSE since

\* The consumer is polled; shouldStopBasedOnPollStatus looks whether the topic
\* has been timing out, of which it logs the first poll that finds it so, and
\* then lets the filter take the status in.
Polled(status) ==
    /\ pc = "poll" /\ ~force_stop /\ ~paused
    /\ pc' = "check"
    /\ logged' \in HasTopicTimedOut(pf, now)
    /\ pf' = AfterPoll(pf, status, now)
    /\ errorSince' = IF status = "Error" THEN Since(errorSince) ELSE MaxTime
    /\ quietSince' = IF status = "TimedOut" THEN Since(quietSince) ELSE MaxTime
    /\ UNCHANGED <<clock, shared, stop_time, force_stop, requests>>

\* ... and the partition finishes if the filter says so.
Decided(status, why) ==
    \/ TRUE \in ShouldStop(pf, status, now) /\ Finish(why)
    \/ /\ FALSE \in ShouldStop(pf, status, now)
       /\ UNCHANGED <<has_finished, cause>>

\* processMessage: every filter sees a message that can be decoded, those
\* that have finished are erased.
Filtered(r) ==
    [k \in Key |-> IF r.decodes /\ k \in active
                   THEN FilterMessage(filters[k], r.msg)
                   ELSE filters[k]]

ForwardedBy(r, k) ==
    IF r.decodes /\ k \in active THEN Forwarding(filters[k], r.msg) ELSE <<>>

PollMessage ==
    /\ pos < Len(log)
    /\ Polled("Message")
    /\ LET r == log[pos + 1]
       IN  /\ filters' = Filtered(r)
           /\ sent' = [k \in Key |-> sent[k] \o ForwardedBy(r, k)]
           /\ active' = {k \in active : ~filters'[k].finished}
           /\ \/ active' = {} /\ Finish("no_filters")
              \/ /\ active' # {} /\ TRUE \in IsAfter(r.kafkaTime, stop_time, Leeway)
                 /\ Finish("stop_time")
              \/ /\ active' # {} /\ FALSE \in IsAfter(r.kafkaTime, stop_time, Leeway)
                 /\ UNCHANGED <<has_finished, cause>>
    /\ pos' = pos + 1
    /\ eof' = FALSE
    /\ UNCHANGED <<errors, slow>>

PollEndOfPartition ==
    /\ pos = Len(log) /\ ~eof
    /\ Polled("EndOfPartition")
    /\ Decided("EndOfPartition", "end_of_partition")
    /\ eof' = TRUE
    /\ UNCHANGED <<pos, errors, filters, active, sent, slow>>

PollTimedOut ==
    /\ Polled("TimedOut")
    /\ Decided("TimedOut", "end_of_partition")
    /\ slow' = (slow \/ pos < Len(log) \/ ~eof)
    /\ UNCHANGED <<consumer, filters, active, sent>>

PollError ==
    /\ errors < MaxErrors
    /\ Polled("Error")
    /\ Decided("Error", "poll_error")
    /\ errors' = errors + 1
    /\ UNCHANGED <<pos, eof, filters, active, sent, slow>>

-----------------------------------------------------------------------------
Poll ==
    \/ PollForced \/ PollPaused \/ PollMessage
    \/ PollEndOfPartition \/ PollTimedOut \/ PollError

Worker ==
    \/ Check \/ TakeStop \/ LoadStopTime \/ ApplyStopTime \/ ClearStopTime
    \/ Poll

Owner ==
    \/ stop
    \/ \E t \in StopTimes : set_stop_time(t)
    \/ destroy
    \/ Join

Environment ==
    \/ Tick
    \/ \E src \in Source, delay \in 0 .. Leeway, decodes \in BOOLEAN :
           Append_to_log(src, delay, decodes)
    \/ Pause
    \/ Resume

Next == Worker \/ Owner \/ Environment

Spec == Init /\ [][Next]_vars

\* The thread is scheduled, the clock runs, pauses end, and the broker is
\* alive: polled again and again it delivers what there is to fetch, and once
\* there is nothing left polling times out.
Fairness ==
    /\ WF_vars(Worker)
    /\ WF_vars(Join)
    /\ WF_vars(Tick)
    /\ WF_vars(Resume)
    /\ SF_vars(PollMessage \/ PollEndOfPartition)
    /\ SF_vars(PollTimedOut)

FairSpec == Spec /\ Fairness

-----------------------------------------------------------------------------
\* The last stop time requested is pending or in force, wherever the worker is
\* in its loop, however often the owner asks and whatever for, with one
\* exception: a request stored after the worker has applied an earlier one and
\* before it clears that (set_stop_time against process(), which loads twice
\* and then stores).  The one in force is the same for the partition, its
\* filter and the remaining source filters (Partition::setStopTime).
StopTimeNotLost ==
    /\ \/ asked = <<>>
       \/ requested # MaxTime
       \/ overwritten
       \/ stop_time = SanitiseStopTime(asked[Len(asked)])
    /\ pf.stop = stop_time
    /\ \A k \in active : SanitiseStopTime(filters[k].stop) = stop_time

\* A topic counts as timed out, which is logged when it begins, exactly when
\* polls have timed out without any other answer for longer than the limit: the
\* sum with time_point::max() that hasTopicTimedOut forms until a poll first
\* fails or times out overflows and does not matter
\* (checkAndLogPartitionTimeOut, updateStatusOccurrenceTime).
TimeOutLogExact ==
    [][pc = "poll" /\ ~force_stop /\ ~paused /\ pc' = "check" =>
         (logged' <=> quietSince + TimeLimit < now)]_vars

\* A failed poll ends the partition exactly when polls have failed without
\* any other answer for longer than the limit (shouldStopPartition).
ErrorStopExact ==
    [][errors' > errors =>
         (has_finished' <=> errorSince + TimeLimit < now)]_vars

Owned(k) == {i \in DOMAIN log : log[i].decodes /\ log[i].msg.src = SrcOf[k]}

TimeOf(i) == ToTimepoint(log[i].msg.ts)

InOrderOf(k) ==
    \A i, j \in Owned(k) : i < j =>
        IF k \in Repeats THEN log[i].msg.ts <= log[j].msg.ts
                         ELSE log[i].msg.ts < log[j].msg.ts

SentOf(k) == {sent[k][i].msg.id : i \in DOMAIN sent[k]}

\* A partition that finishes by itself has forwarded every message of the
\* window from the start to the earliest stop time it had, those still to reach
\* the broker included, when the timestamps of a source ascend and the broker
\* hands out what it has: neither the end of the partition nor the broker's
\* timestamps nor a sum that overflows end it early (shouldStopPartition,
\* pollForMessage, sanitise_stop_time).
WindowComplete ==
    ~slow /\ cause \in {"end_of_partition", "no_filters", "stop_time"} =>
        \A k \in Key : InOrderOf(k) =>
            \A i \in Owned(k) :
                TimeOf(i) \in Start .. earliest => i \in SentOf(k)

\* stop() ends the partition even while the streamers are paused, and so does
\* a stop time, whatever the source does afterwards, if the broker is alive.
FinishesWhenTold ==
    (immediate \/ asked # <<>>) ~> (has_finished \/ exit)

\* The destructor of PartitionThreaded returns, wherever its worker is.
JoinReturns == exit ~> pc = "joined"

-----------------------------------------------------------------------------
\* The partition as MessageDelivery sees it.
Ids(q) == [i \in DOMAIN q |-> q[i].msg.id]

Delivery == INSTANCE MessageDelivery WITH
    fetched <- pos,
    held <- [k \in Key |-> IF k \in active /\ filters[k].buffered # NoMessage
                           THEN filters[k].buffered.id ELSE 0],
    delivered <- [k \in Key |-> Ids(sent[k])],
    status <- IF pc = "joined" THEN "closed"
              ELSE IF pc = "exited" \/ has_finished THEN "ended" ELSE "running"

\* Whatever the owner, the broker and the clock do, a partition is a
\* MessageDelivery: it reads each message once, passes it on at most once and
\* in order, keeps at most one back for each source and passes that one on
\* when it ends, and reads nothing once it has finished (process,
\* pollForMessage, processMessage, the destructors).
DeliversMessages == Delivery!Spec
=============================================================================
