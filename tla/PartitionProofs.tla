--------------------------- MODULE PartitionProofs ---------------------------
(***************************************************************************)
(* What a partition promises for any number of filters, messages, errors,  *)
(* pauses and calls of its owner, and for every clock, leeway and time     *)
(* limit.                                                                  *)
(***************************************************************************)
EXTENDS Partition, TLAPS

-----------------------------------------------------------------------------
\* What the member functions of SourceFilter do to one of the filters (the
\* first four lemmas are those of SourceFilterProofs, which is about another
\* state machine).

\* What forward_buffered_message hands to the writer.
LEMMA ForwardBufferedType ==
    ASSUME NEW f \in Filter
    PROVE  /\ HasBuffered(f) =>
                  /\ f.buffered \in Message
                  /\ ForwardBuffered(f) = <<Forward(f.buffered, TRUE)>>
           /\ ~HasBuffered(f) => ForwardBuffered(f) = <<>>
           /\ ForwardBuffered(f) \in Seq(Forwarded)
<1> USE DEF HasBuffered, Forward
<1>1. HasBuffered(f) => f.buffered \in Message
  BY DEF Filter
<1>2. HasBuffered(f) => ForwardBuffered(f) = <<Forward(f.buffered, TRUE)>>
  BY Zenon DEF ForwardBuffered
<1>3. ~HasBuffered(f) => ForwardBuffered(f) = <<>>
  BY DEF ForwardBuffered
<1>4. ForwardBuffered(f) \in Seq(Forwarded)
  <2>1. CASE HasBuffered(f)
    <3>1. Forward(f.buffered, TRUE) \in Forwarded
      BY <1>1, <2>1 DEF Forwarded
    <3>2. <<Forward(f.buffered, TRUE)>> \in Seq(Forwarded)
      BY <3>1
    <3>. QED  BY <1>2, <2>1, <3>2, Zenon
  <2>2. CASE ~HasBuffered(f)
    <3>1. ForwardBuffered(f) = <<>>
      BY <1>3, <2>2
    <3>2. <<>> \in Seq(Forwarded)
      OBVIOUS
    <3>. QED  BY <3>1, <3>2
  <2>. QED  BY <2>1, <2>2
<1>. QED  BY <1>1, <1>2, <1>3, <1>4

\* The conditions under which filter_message ends in each of its ways.
LEMMA OutcomeCases ==
    ASSUME NEW f \in Filter, NEW m \in Message
    PROVE  LET o == Outcome(f, m)
           IN  /\ o \in {"ignored", "dropped", "outdated", "buffered",
                         "finished", "passed"}
               /\ o = "ignored" => m.src # f.src
               /\ o = "dropped" => IsDropped(f, m)
               /\ o = "outdated" => /\ HasBuffered(f) /\ IsBeforeStart(f, m)
                                   /\ IsOlderThanBuffered(f, m)
               /\ o = "buffered" =>
                      /\ m.src = f.src /\ m.valid
                      /\ IsBeforeStart(f, m)
                      /\ ~IsOlderThanBuffered(f, m)
               /\ o = "passed" => ~IsBeforeStart(f, m) /\ ~IsAfterStop(f, m)
               /\ o = "finished" => ~IsBeforeStart(f, m) /\ IsAfterStop(f, m)
               /\ o \notin {"ignored", "dropped"} => ~f.finished
<1> DEFINE o == Outcome(f, m)
<1>1. CASE m.src # f.src
  BY <1>1 DEF Outcome
<1>2. CASE m.src = f.src /\ IsDropped(f, m)
  BY <1>2 DEF Outcome
<1>3. CASE m.src = f.src /\ ~IsDropped(f, m)
  <2>1. ~f.finished /\ m.valid
    BY <1>3 DEF IsDropped
  <2>2. CASE IsBeforeStart(f, m)
    BY <1>3, <2>1, <2>2 DEF Outcome, IsOlderThanBuffered
  <2>3. CASE ~IsBeforeStart(f, m)
    BY <1>3, <2>1, <2>3 DEF Outcome
  <2>. QED  BY <2>2, <2>3
<1>. QED  BY <1>1, <1>2, <1>3

\* The filter that filter_message leaves behind, and what it forwards.
LEMMA FilterMessageEffect ==
    ASSUME NEW f \in Filter, NEW m \in Message
    PROVE  LET o == Outcome(f, m)
               g == FilterMessage(f, m)
           IN  /\ g \in Filter
               /\ Forwarding(f, m) \in Seq(Forwarded)
               /\ o \in {"ignored", "dropped"} =>
                      /\ g.finished = f.finished
                      /\ g.lastSeen = f.lastSeen
                      /\ g.buffered = f.buffered
                      /\ Forwarding(f, m) = <<>>
               /\ o = "outdated" =>
                      /\ g.finished = f.finished
                      /\ g.buffered = f.buffered
                      /\ Forwarding(f, m) = <<>>
               /\ o = "buffered" =>
                      /\ g.finished = f.finished
                      /\ g.buffered = m
                      /\ Forwarding(f, m) = <<>>
               /\ o = "finished" =>
                      /\ g.finished = TRUE
                      /\ g.buffered = NoMessage
                      /\ Forwarding(f, m) = ForwardBuffered(f)
               /\ o = "passed" =>
                      /\ g.finished = f.finished
                      /\ g.buffered = NoMessage
                      /\ Forwarding(f, m) =
                             Append(ForwardBuffered(f), Forward(m, FALSE))
<1> DEFINE o == Outcome(f, m)
           g == FilterMessage(f, m)
<1>1. o \in {"ignored", "dropped", "outdated", "buffered", "finished", "passed"}
  BY OutcomeCases
<1>2. <<>> \in Seq(Forwarded)
  OBVIOUS
<1>3. ForwardBuffered(f) \in Seq(Forwarded)
  BY ForwardBufferedType, Zenon
<1>0. /\ f.received \in Nat /\ f.received + 1 \in Nat
      /\ f.discarded \in Nat /\ f.discarded + 1 \in Nat
      /\ f.lastSeen \in Nat /\ m.ts \in Nat
      /\ f.finished \in BOOLEAN
      /\ f.buffered \in Message \cup {NoMessage}
  BY DEF Filter, Message
<1>4. Append(ForwardBuffered(f), Forward(m, FALSE)) \in Seq(Forwarded)
  <2>1. Forward(m, FALSE) \in Forwarded
    BY DEF Forward, Forwarded
  <2>. QED  BY <1>3, <2>1 DEF Forward
<1>5. CASE o = "ignored"
  <2>1. g = f /\ Forwarding(f, m) = <<>>
    BY <1>5 DEF FilterMessage, Forwarding
  <2>. QED  BY <1>2, <1>5, <2>1
<1>6. CASE o = "dropped"
  <2>1. g = [f EXCEPT !.received = f.received + 1,
                      !.discarded = f.discarded + 1,
                      !.lastSeen = f.lastSeen,
                      !.finished = f.finished,
                      !.buffered = f.buffered]
    BY <1>6 DEF FilterMessage
  <2>2. Forwarding(f, m) = <<>>
    BY <1>6 DEF Forwarding
  <2>3. g \in Filter
    BY <1>0, <2>1, Zenon DEF Filter
  <2>4. /\ g.finished = f.finished
        /\ g.lastSeen = f.lastSeen
        /\ g.buffered = f.buffered
    BY <2>1 DEF Filter
  <2>. QED  BY <1>2, <1>6, <2>2, <2>3, <2>4
<1>7. CASE o = "outdated"
  <2>1. g = [f EXCEPT !.received = f.received + 1,
                      !.discarded = f.discarded + 1,
                      !.lastSeen = m.ts,
                      !.finished = f.finished,
                      !.buffered = f.buffered]
    BY <1>7 DEF FilterMessage
  <2>2. Forwarding(f, m) = <<>>
    BY <1>7 DEF Forwarding
  <2>3. g \in Filter
    BY <1>0, <2>1, Zenon DEF Filter
  <2>4. g.finished = f.finished /\ g.buffered = f.buffered
    BY <2>1 DEF Filter
  <2>. QED  BY <1>2, <1>7, <2>2, <2>3, <2>4
<1>8. CASE o = "buffered"
  <2>1. g = [f EXCEPT !.received = f.received + 1,
                      !.discarded = f.discarded,
                      !.lastSeen = m.ts,
                      !.finished = f.finished,
                      !.buffered = m]
    BY <1>8 DEF FilterMessage
  <2>2. Forwarding(f, m) = <<>>
    BY <1>8 DEF Forwarding
  <2>3. g \in Filter
    BY <1>0, <2>1, Zenon DEF Filter
  <2>4. g.finished = f.finished /\ g.buffered = m
    BY <2>1 DEF Filter
  <2>. QED  BY <1>2, <1>8, <2>2, <2>3, <2>4
<1>9. CASE o = "finished"
  <2>1. g = [f EXCEPT !.received = f.received + 1,
                      !.discarded = f.discarded,
                      !.lastSeen = m.ts,
                      !.finished = TRUE,
                      !.buffered = NoMessage]
    BY <1>9 DEF FilterMessage
  <2>2. Forwarding(f, m) = ForwardBuffered(f)
    BY <1>9 DEF Forwarding
  <2>3. g \in Filter
    BY <1>0, <2>1, Zenon DEF Filter
  <2>4. g.finished = TRUE /\ g.buffered = NoMessage
    BY <2>1 DEF Filter
  <2>. QED  BY <1>3, <1>9, <2>2, <2>3, <2>4
<1>10. CASE o = "passed"
  <2>1. g = [f EXCEPT !.received = f.received + 1,
                      !.discarded = f.discarded,
                      !.lastSeen = m.ts,
                      !.finished = f.finished,
                      !.buffered = NoMessage]
    BY <1>10 DEF FilterMessage
  <2>2. Forwarding(f, m) = Append(ForwardBuffered(f), Forward(m, FALSE))
    BY <1>10 DEF Forwarding, Forward
  <2>3. g \in Filter
    BY <1>0, <2>1, Zenon DEF Filter
  <2>4. g.finished = f.finished /\ g.buffered = NoMessage
    BY <2>1 DEF Filter
  <2>. QED  BY <1>4, <1>10, <2>2, <2>3, <2>4 DEF Forward
<1>. QED  BY <1>1, <1>5, <1>6, <1>7, <1>8, <1>9, <1>10, Zenon

\* What filter_message never changes, and the timestamp it remembers.
LEMMA FilterMessageKeeps ==
    ASSUME NEW f \in Filter, NEW m \in Message
    PROVE  LET o == Outcome(f, m)
               g == FilterMessage(f, m)
           IN  /\ g.src = f.src /\ g.start = f.start /\ g.stop = f.stop
               /\ g.allowRepeated = f.allowRepeated
               /\ g.lastSeen = IF o \in {"ignored", "dropped"} THEN f.lastSeen
                                                             ELSE m.ts
BY DEF FilterMessage, Filter

\* The same, kind of message by kind of message.
LEMMA SkippedEffect ==
    ASSUME NEW f \in Filter, NEW m \in Message,
           Outcome(f, m) \in {"ignored", "dropped", "outdated"}
    PROVE  /\ FilterMessage(f, m).finished = f.finished
           /\ FilterMessage(f, m).buffered = f.buffered
           /\ Forwarding(f, m) = <<>>
BY FilterMessageEffect, Zenon

LEMMA BufferedEffect ==
    ASSUME NEW f \in Filter, NEW m \in Message, Outcome(f, m) = "buffered"
    PROVE  /\ FilterMessage(f, m).finished = f.finished
           /\ FilterMessage(f, m).buffered = m
           /\ Forwarding(f, m) = <<>>
BY FilterMessageEffect, Zenon

LEMMA FinishedEffect ==
    ASSUME NEW f \in Filter, NEW m \in Message, Outcome(f, m) = "finished"
    PROVE  /\ FilterMessage(f, m).finished = TRUE
           /\ FilterMessage(f, m).buffered = NoMessage
           /\ Forwarding(f, m) = ForwardBuffered(f)
BY FilterMessageEffect, Zenon

LEMMA PassedEffect ==
    ASSUME NEW f \in Filter, NEW m \in Message, Outcome(f, m) = "passed"
    PROVE  /\ FilterMessage(f, m).finished = f.finished
           /\ FilterMessage(f, m).buffered = NoMessage
           /\ Forwarding(f, m) = Append(ForwardBuffered(f), Forward(m, FALSE))
BY FilterMessageEffect, Zenon

-----------------------------------------------------------------------------
\* The messages of the broker are numbered by their position.
Numbered == \A i \in DOMAIN log : log[i].msg.id = i

\* Where the worker can be: it goes round its loop only while the partition
\* has not finished, and applies a stop time only if there is one.
WorkerInv ==
    /\ has_finished => pc \in {"check", "exited", "joined"}
    /\ pc = "apply" => requested # MaxTime

\* The partition, its filter and the source filters agree on the stop time,
\* and it leaves room for the leeway.
OneStopTime ==
    /\ pf.stop = stop_time
    /\ stop_time + Leeway <= MaxTime
    /\ \A k \in active : SanitiseStopTime(filters[k].stop) = stop_time

\* The partition filter counts from the first of a run of errors or of
\* time-outs.
CountsErrors ==
    /\ pf.state \in {"ERROR", "TIMEOUT"} => pf.occurrence <= now
    /\ pf.state = "ERROR" <=> errorSince # MaxTime
    /\ pf.state = "ERROR" => pf.occurrence = errorSince
    /\ pf.state = "TIMEOUT" <=> quietSince # MaxTime
    /\ pf.state = "TIMEOUT" => pf.occurrence = quietSince

\* A filter that is still used has not finished, and what a filter keeps back
\* has been read.
HeldInv ==
    /\ \A k \in active : ~filters[k].finished
    /\ \A k \in Key : HasBuffered(filters[k]) => filters[k].buffered.id \in 1 .. pos

IInv ==
    /\ TypeOK /\ Numbered /\ WorkerInv /\ OneStopTime /\ CountsErrors
    /\ HeldInv

-----------------------------------------------------------------------------
\* sanitise_stop_time keeps a time a time, leaves room for the leeway, and
\* does nothing the second time unless it was given the largest time there is.
LEMMA Sanitised ==
    ASSUME NEW t \in Instant
    PROVE  /\ SanitiseStopTime(t) \in Instant
           /\ SanitiseStopTime(t) + Leeway <= MaxTime
           /\ t # MaxTime => SanitiseStopTime(SanitiseStopTime(t))
                                 = SanitiseStopTime(t)
BY PartitionFilterAssumption DEF SanitiseStopTime, Instant

\* A sum that fits is compared as the code has it.
LEMMA SumThatFits ==
    ASSUME NEW t \in Nat, NEW b \in Nat, NEW e \in Nat, b + e <= MaxTime
    PROVE  /\ \A x \in IsAfter(t, b, e) : x \in BOOLEAN /\ (x <=> t > b + e)
           /\ TRUE \in IsAfter(t, b, e) <=> t > b + e
           /\ FALSE \in IsAfter(t, b, e) <=> ~(t > b + e)
<1> DEFINE y == t > b + e
<1>1. IsAfter(t, b, e) = {y}
  BY PartitionFilterAssumption DEF IsAfter
<1>2. y \in BOOLEAN
  OBVIOUS
<1> HIDE DEF y
<1>3. y = TRUE \/ y = FALSE
  BY <1>2
<1>4. /\ \A x \in IsAfter(t, b, e) : x \in BOOLEAN /\ (x <=> y)
      /\ TRUE \in IsAfter(t, b, e) <=> y
      /\ FALSE \in IsAfter(t, b, e) <=> ~y
  BY <1>1, <1>3, Zenon
<1>. QED  BY <1>4, Zenon DEF y

\* What shouldStopPartition does to the partition filter, status by status.
LEMMA AfterPollEffect ==
    ASSUME NEW p \in PartitionFilterRecord, NEW t \in Instant
    PROVE  /\ \A s \in {"Message", "EndOfPartition", "TimedOut", "Error"} :
                  /\ AfterPoll(p, s, t) \in PartitionFilterRecord
                  /\ AfterPoll(p, s, t).stop = p.stop
           /\ AfterPoll(p, "Message", t).state = "DEFAULT"
           /\ AfterPoll(p, "EndOfPartition", t).state = "END_OF_PARTITION"
           /\ LET q == AfterPoll(p, "TimedOut", t)
              IN  /\ q.state = "TIMEOUT"
                  /\ q.occurrence = IF p.state = "TIMEOUT" THEN p.occurrence
                                                           ELSE t
           /\ LET q == AfterPoll(p, "Error", t)
              IN  /\ q.state = "ERROR"
                  /\ q.occurrence = IF p.state = "ERROR" THEN p.occurrence
                                                         ELSE t
<1> USE DEF PartitionFilterRecord, PartitionState
<1>1. /\ AfterPoll(p, "Message", t) = [p EXCEPT !.atEnd = FALSE,
                                                !.state = "DEFAULT"]
      /\ AfterPoll(p, "EndOfPartition", t) =
             [p EXCEPT !.atEnd = TRUE, !.state = "END_OF_PARTITION"]
      /\ AfterPoll(p, "TimedOut", t) =
             UpdateStatusOccurrenceTime(p, "TIMEOUT", t)
      /\ AfterPoll(p, "Error", t) = UpdateStatusOccurrenceTime(p, "ERROR", t)
  BY DEF AfterPoll
<1>2. ASSUME NEW state \in {"TIMEOUT", "ERROR"}
      PROVE  LET q == UpdateStatusOccurrenceTime(p, state, t)
             IN  /\ q \in PartitionFilterRecord
                 /\ q.stop = p.stop
                 /\ q.state = state
                 /\ q.occurrence = IF p.state = state THEN p.occurrence ELSE t
  BY Zenon DEF UpdateStatusOccurrenceTime
<1>3. LET q == AfterPoll(p, "Message", t)
      IN  q \in PartitionFilterRecord /\ q.stop = p.stop /\ q.state = "DEFAULT"
  BY <1>1, Zenon
<1>4. LET q == AfterPoll(p, "EndOfPartition", t)
      IN  /\ q \in PartitionFilterRecord /\ q.stop = p.stop
          /\ q.state = "END_OF_PARTITION"
  BY <1>1, Zenon
<1>. QED  BY <1>1, <1>2, <1>3, <1>4

-----------------------------------------------------------------------------
\* The message that a poll hands to the filters, and what they do with it.
LEMMA PollMessageEffect ==
    ASSUME TypeOK, Numbered, PollMessage
    PROVE  LET r == log[pos + 1]
           IN  /\ r \in Record /\ r.msg \in Message /\ r.msg.id = pos + 1
               /\ pos + 1 \in 1 .. Len(log)
               /\ filters' \in [Key -> Filter]
               /\ \A k \in Key :
                      /\ filters'[k] = IF r.decodes /\ k \in active
                                       THEN FilterMessage(filters[k], r.msg)
                                       ELSE filters[k]
                      /\ filters'[k].stop = filters[k].stop
               /\ sent' \in [Key -> Seq(Forwarded)]
               /\ \A k \in Key : sent'[k] = sent[k] \o ForwardedBy(r, k)
<1> DEFINE r == log[pos + 1]
<1>1. pos \in Nat /\ log \in Seq(Record) /\ pos + 1 \in 1 .. Len(log)
  BY DEF TypeOK, PollMessage
<1>2. r \in Record /\ r.msg.id = pos + 1
  BY <1>1 DEF Numbered
<1>3. r.msg \in Message
  BY <1>2 DEF Record
<1> HIDE DEF r
<1>4. filters \in [Key -> Filter] /\ sent \in [Key -> Seq(Forwarded)]
  BY Zenon DEF TypeOK
<1>5. filters' = Filtered(r) /\ sent' = [k \in Key |-> sent[k] \o ForwardedBy(r, k)]
  BY DEF PollMessage, r
<1>6. \A k \in Key : /\ FilterMessage(filters[k], r.msg) \in Filter
                     /\ FilterMessage(filters[k], r.msg).stop = filters[k].stop
                     /\ Forwarding(filters[k], r.msg) \in Seq(Forwarded)
  BY <1>3, <1>4, FilterMessageEffect, FilterMessageKeeps, Zenon
<1>7. /\ filters' \in [Key -> Filter]
      /\ \A k \in Key :
             /\ filters'[k] = IF r.decodes /\ k \in active
                              THEN FilterMessage(filters[k], r.msg)
                              ELSE filters[k]
             /\ filters'[k].stop = filters[k].stop
  BY <1>4, <1>5, <1>6 DEF Filtered
<1>8. \A k \in Key : ForwardedBy(r, k) \in Seq(Forwarded)
  BY <1>6 DEF ForwardedBy
<1>9. \A k \in Key : sent[k] \o ForwardedBy(r, k) \in Seq(Forwarded)
  BY <1>4, <1>8
<1>10. /\ sent' \in [Key -> Seq(Forwarded)]
       /\ \A k \in Key : sent'[k] = sent[k] \o ForwardedBy(r, k)
  BY <1>5, <1>9
<1>. QED  BY <1>1, <1>2, <1>3, <1>7, <1>10, Zenon DEF r

\* Every step of a partition is one of these.
LEMMA Actions ==
    ASSUME [Next]_vars
    PROVE  \/ Check \/ TakeStop \/ LoadStopTime \/ ApplyStopTime
           \/ ClearStopTime
           \/ PollForced \/ PollPaused \/ PollMessage \/ PollEndOfPartition
           \/ PollTimedOut \/ PollError
           \/ stop \/ (\E t \in StopTimes : set_stop_time(t)) \/ destroy
           \/ Join
           \/ Tick \/ Pause \/ Resume
           \/ (\E src \in Source, delay \in 0 .. Leeway, decodes \in BOOLEAN :
                   Append_to_log(src, delay, decodes))
           \/ UNCHANGED vars
BY DEF Next, Worker, Poll, Owner, Environment

\* The steps that concern the filters, and the others.
LEMMA FilterSteps ==
    ASSUME [Next]_vars
    PROVE  \/ PollMessage
           \/ ApplyStopTime
           \/ Join
           \/ /\ UNCHANGED <<filters, active, pos, sent, stop_time>>
              /\ pc = "joined" => pc' = "joined"
BY Actions, Zenon
   DEF Check, TakeStop, LoadStopTime, ClearStopTime, PollForced, PollPaused,
       PollEndOfPartition, PollTimedOut, PollError, Polled, stop,
       set_stop_time, destroy, Tick, Pause, Resume, Append_to_log, vars,
       partition, consumer

\* Only the broker adds to the log, only the system moves the clock, and only
\* a failed poll counts an error.
LEMMA LogSteps ==
    ASSUME [Next]_vars
    PROVE  \/ \E src \in Source, delay \in 0 .. Leeway, decodes \in BOOLEAN :
                  Append_to_log(src, delay, decodes)
           \/ log' = log
BY Actions, Zenon
   DEF Check, TakeStop, LoadStopTime, ApplyStopTime, ClearStopTime, PollForced,
       PollPaused, PollMessage, PollEndOfPartition, PollError, PollTimedOut,
       Polled, stop, set_stop_time, destroy, Join, Tick, Pause, Resume, vars,
       clock

LEMMA ClockSteps ==
    ASSUME [Next]_vars
    PROVE  Tick \/ now' = now
BY Actions, Zenon
   DEF Check, TakeStop, LoadStopTime, ApplyStopTime, ClearStopTime, PollForced,
       PollPaused, PollMessage, PollEndOfPartition, PollError, PollTimedOut,
       Polled, stop, set_stop_time, destroy, Join, Append_to_log, Pause, Resume,
       vars, clock

LEMMA ErrorSteps ==
    ASSUME [Next]_vars
    PROVE  PollError \/ errors' = errors
BY Actions, Zenon
   DEF Check, TakeStop, LoadStopTime, ApplyStopTime, ClearStopTime, PollForced,
       PollPaused, PollMessage, PollEndOfPartition, PollTimedOut, Polled, stop,
       set_stop_time, destroy, Join, Tick, Pause, Resume, Append_to_log, vars,
       consumer

\* A poll of the consumer, whatever its status, asks the partition filter.
LEMMA PolledEffect ==
    ASSUME TypeOK,
           NEW s \in {"Message", "EndOfPartition", "TimedOut", "Error"},
           Polled(s)
    PROVE  /\ pf \in PartitionFilterRecord /\ now \in Instant
           /\ now + TimeLimit < MaxTime
           /\ pf' = AfterPoll(pf, s, now)
           /\ pf' \in PartitionFilterRecord /\ pf'.stop = pf.stop
           /\ pc = "poll" /\ pc' = "check"
           /\ logged' \in HasTopicTimedOut(pf, now) /\ logged' \in BOOLEAN
           /\ errorSince' = IF s = "Error" THEN Since(errorSince) ELSE MaxTime
           /\ quietSince' = IF s = "TimedOut" THEN Since(quietSince) ELSE MaxTime
           /\ UNCHANGED <<now, log, paused, pauses, requested, immediate, exit,
                          stop_time, force_stop, asked, overwritten, earliest>>
<1>1. now \in Instant /\ now + TimeLimit < MaxTime
  <2>1. now \in 0 .. Horizon
    BY DEF TypeOK
  <2>2. Horizon \in Nat /\ Horizon + Leeway + TimeLimit < MaxTime
    BY PartitionAssumption
  <2>. QED  BY <2>1, <2>2, PartitionFilterAssumption DEF Instant
<1>2. pf \in PartitionFilterRecord
  BY DEF TypeOK
<1>3. /\ pf' = AfterPoll(pf, s, now) /\ pc = "poll" /\ pc' = "check"
      /\ logged' \in HasTopicTimedOut(pf, now)
      /\ errorSince' = IF s = "Error" THEN Since(errorSince) ELSE MaxTime
      /\ quietSince' = IF s = "TimedOut" THEN Since(quietSince) ELSE MaxTime
      /\ UNCHANGED <<now, log, paused, pauses, requested, immediate, exit,
                     stop_time, force_stop, asked, overwritten, earliest>>
  BY Zenon DEF Polled, clock, shared, requests
<1>5. logged' \in BOOLEAN
  BY <1>3, Zenon DEF HasTopicTimedOut
<1>4. /\ AfterPoll(pf, s, now) \in PartitionFilterRecord
      /\ AfterPoll(pf, s, now).stop = pf.stop
  BY <1>1, <1>2, AfterPollEffect, Zenon
<1>. QED  BY <1>1, <1>2, <1>3, <1>4, <1>5, Zenon

-----------------------------------------------------------------------------
\* Type correctness, kind of variable by kind of variable.
LEMMA TypeStep ==
    ASSUME TypeOK, Numbered, [Next]_vars
    PROVE  TypeOK'
<1>1. /\ {paused, eof, immediate, exit, force_stop, has_finished, logged, slow,
          overwritten} \subseteq BOOLEAN
      /\ pc \in {"check", "stop", "load", "apply", "clear", "poll", "exited",
                 "joined"}
      /\ cause \in {"none", "stop", "poll_error", "end_of_partition",
                    "no_filters", "stop_time"}
  BY DEF TypeOK
<1>2. /\ {paused, eof, immediate, exit, force_stop, has_finished, logged, slow,
          overwritten}' \subseteq BOOLEAN
      /\ pc' \in {"check", "stop", "load", "apply", "clear", "poll", "exited",
                  "joined"}
      /\ cause' \in {"none", "stop", "poll_error", "end_of_partition",
                     "no_filters", "stop_time"}
  <2> USE DEF clock, consumer, shared, partition, requests, history, Finish,
              Decided
  <2>1. CASE Check \/ LoadStopTime \/ ApplyStopTime \/ ClearStopTime
    BY <1>1, <2>1, Zenon DEF Check, LoadStopTime, ApplyStopTime, ClearStopTime
  <2>2. CASE TakeStop
    BY <1>1, <2>2, Zenon DEF TakeStop
  <2>3. CASE PollForced \/ PollPaused
    BY <1>1, <2>3, Zenon DEF PollForced, PollPaused
  <2>4. CASE PollMessage
    <3>1. logged' \in BOOLEAN
      BY <2>4, PolledEffect, Zenon DEF PollMessage
    <3>. QED  BY <1>1, <2>4, <3>1, Zenon DEF PollMessage, Polled
  <2>5. CASE PollEndOfPartition \/ PollError
    <3>1. logged' \in BOOLEAN
      BY <2>5, PolledEffect, Zenon DEF PollEndOfPartition, PollError
    <3>. QED  BY <1>1, <2>5, <3>1, Zenon DEF PollEndOfPartition, PollError, Polled
  <2>6. CASE PollTimedOut
    <3>1. logged' \in BOOLEAN
      BY <2>6, PolledEffect, Zenon DEF PollTimedOut
    <3>. QED  BY <1>1, <2>6, <3>1, Zenon DEF PollTimedOut, Polled
  <2>7. CASE stop \/ destroy \/ Join \/ \E t \in StopTimes : set_stop_time(t)
    BY <1>1, <2>7, Zenon DEF stop, destroy, Join, set_stop_time
  <2>8. CASE Tick \/ Pause \/ Resume
    BY <1>1, <2>8, Zenon DEF Tick, Pause, Resume
  <2>9. CASE \E src \in Source, delay \in 0 .. Leeway, decodes \in BOOLEAN :
                 Append_to_log(src, delay, decodes)
    BY <1>1, <2>9, Zenon DEF Append_to_log
  <2>10. CASE UNCHANGED vars
    BY <1>1, <2>10, Zenon DEF vars
  <2>. QED  BY <2>1, <2>2, <2>3, <2>4, <2>5, <2>6, <2>7, <2>8, <2>9, <2>10,
               Actions, Zenon
<1> USE DEF clock, consumer, shared, partition, requests, history
<1>3. now' \in 0 .. Horizon /\ {pauses, errors}' \subseteq Nat
  <2>1. now \in 0 .. Horizon /\ {pauses, errors} \subseteq Nat /\ Horizon \in Nat
    BY PartitionAssumption DEF TypeOK
  <2>2. now' \in 0 .. Horizon
    BY <2>1, ClockSteps DEF Tick
  <2>3. errors' \in Nat
    BY <2>1, ErrorSteps DEF PollError
  <2>4. pauses' \in {pauses, pauses + 1}
    BY Actions, Zenon
       DEF Check, TakeStop, LoadStopTime, ApplyStopTime, ClearStopTime,
           PollForced, PollPaused, PollMessage, PollEndOfPartition, PollError,
           PollTimedOut, Polled, stop, set_stop_time, destroy, Join, Tick,
           Pause, Resume, Append_to_log, vars
  <2>. QED  BY <2>1, <2>2, <2>3, <2>4
<1>4. log' \in Seq(Record) /\ pos' \in 0 .. Len(log')
  <2>1. log \in Seq(Record) /\ pos \in 0 .. Len(log) /\ Len(log) \in Nat
    BY DEF TypeOK
  <2>2. CASE \E src \in Source, delay \in 0 .. Leeway, decodes \in BOOLEAN :
                 Append_to_log(src, delay, decodes)
    <3>1. PICK src \in Source, delay \in 0 .. Leeway, decodes \in BOOLEAN :
                 Append_to_log(src, delay, decodes)
      BY <2>2, Zenon
    <3> DEFINE m == [id |-> Len(log) + 1, src |-> src,
                     ts |-> (now - delay) * NsPerMicro, valid |-> TRUE]
               r == [msg |-> m, decodes |-> decodes, kafkaTime |-> now]
    <3>2. now \in Nat /\ now <= Horizon /\ delay \in Nat /\ delay < now
      BY <3>1, PartitionAssumption DEF TypeOK, Append_to_log
    <3>3. (now - delay) * NsPerMicro \in Nat
      <4>1. now - delay \in Nat /\ NsPerMicro \in Nat
        BY <3>2, OpsAssumption
      <4>. QED  BY <4>1
    <3>4. m \in Message
      BY <2>1, <3>3 DEF Message
    <3>5. now \in Instant
      BY <3>2, PartitionAssumption, PartitionFilterAssumption DEF Instant
    <3> HIDE DEF m
    <3>6. r \in Record
      BY <3>4, <3>5 DEF Record
    <3>7. log' = Append(log, r) /\ pos' = pos
      BY <3>1, Zenon DEF Append_to_log, m
    <3> HIDE DEF r
    <3>. QED  BY <2>1, <3>6, <3>7
  <2>3. CASE PollMessage
    BY <2>1, <2>3 DEF PollMessage, Polled
  <2>4. CASE log' = log /\ ~PollMessage
    <3>1. pos' = pos
      BY <2>4, FilterSteps, Zenon DEF ApplyStopTime, Join
    <3>. QED  BY <2>1, <2>4, <3>1
  <2>. QED  BY <2>2, <2>3, <2>4, LogSteps
<1>5. /\ requested' \in Instant /\ asked' \in Seq(Instant)
      /\ {errorSince, quietSince, earliest}' \subseteq Instant
  <2>1. /\ requested \in Instant /\ asked \in Seq(Instant)
        /\ errorSince \in Instant /\ quietSince \in Instant
        /\ earliest \in Instant /\ MaxTime \in Instant
        /\ \A t \in StopTimes : t \in Instant
    BY PartitionAssumption, PartitionFilterAssumption DEF TypeOK, Instant
  <2>2. CASE \E t \in StopTimes : set_stop_time(t)
    <3>1. PICK t \in StopTimes : set_stop_time(t)
      BY <2>2
    <3>. QED  BY <2>1, <3>1 DEF set_stop_time
  <2>3. CASE ClearStopTime
    BY <2>1, <2>3 DEF ClearStopTime
  <2>4. CASE ApplyStopTime
    BY <2>1, <2>4, Sanitised, Zenon DEF ApplyStopTime
  <2>5. CASE PollMessage \/ PollEndOfPartition \/ PollTimedOut \/ PollError
    <3>1. PICK s \in {"Message", "EndOfPartition", "TimedOut", "Error"} : Polled(s)
      BY <2>5, Zenon DEF PollMessage, PollEndOfPartition, PollTimedOut, PollError
    <3>2. /\ now \in Instant /\ UNCHANGED <<requested, asked, earliest>>
          /\ errorSince' = IF s = "Error" THEN Since(errorSince) ELSE MaxTime
          /\ quietSince' = IF s = "TimedOut" THEN Since(quietSince) ELSE MaxTime
      BY <3>1, PolledEffect, Zenon
    <3>. QED  BY <2>1, <3>2, Zenon DEF Since
  <2>6. CASE UNCHANGED <<requested, asked, errorSince, quietSince, earliest>>
    BY <2>1, <2>6
  <2>. QED  BY <2>2, <2>3, <2>4, <2>5, <2>6, Actions, Zenon
            DEF Check, TakeStop, LoadStopTime, PollForced,
                PollPaused, stop, destroy, Join, Tick, Pause, Resume,
                Append_to_log, vars
<1>6. /\ stop_time' \in Instant
      /\ filters' \in [Key -> Filter]
      /\ active' \subseteq Key
      /\ pf' \in PartitionFilterRecord
      /\ sent' \in [Key -> Seq(Forwarded)]
  <2>1. /\ stop_time \in Instant
        /\ filters \in [Key -> Filter]
        /\ active \subseteq Key
        /\ pf \in PartitionFilterRecord
        /\ sent \in [Key -> Seq(Forwarded)]
    BY DEF TypeOK
  <2>2. CASE ApplyStopTime
    <3> DEFINE t == SanitiseStopTime(requested)
    <3>1. t \in Instant
      BY Sanitised DEF TypeOK
    <3>2. t \in Nat
      BY <3>1, PartitionFilterAssumption DEF Instant
    <3>3. /\ stop_time' = t /\ pf' = [pf EXCEPT !.stop = t]
          /\ filters' = [k \in Key |-> IF k \in active
                                       THEN SetStopTime(filters[k], t)
                                       ELSE filters[k]]
          /\ UNCHANGED <<active, sent>>
      BY <2>2 DEF ApplyStopTime
    <3> HIDE DEF t
    <3>4. \A k \in Key : SetStopTime(filters[k], t) \in Filter
      BY <2>1, <3>2, ZenonT(30) DEF SetStopTime, Filter
    <3>5. pf' \in PartitionFilterRecord
      BY <2>1, <3>1, <3>3 DEF PartitionFilterRecord
    <3>. QED  BY <2>1, <3>1, <3>3, <3>4, <3>5
  <2>3. CASE PollMessage
    <3>1. filters' \in [Key -> Filter] /\ sent' \in [Key -> Seq(Forwarded)]
      BY <2>3, PollMessageEffect
    <3>2. pf' \in PartitionFilterRecord /\ stop_time' = stop_time
      BY <2>3, PolledEffect, Zenon DEF PollMessage
    <3>3. active' \subseteq active
      BY <2>3 DEF PollMessage
    <3>. QED  BY <2>1, <3>1, <3>2, <3>3
  <2>4. CASE PollEndOfPartition \/ PollTimedOut \/ PollError
    <3>1. pf' \in PartitionFilterRecord /\ stop_time' = stop_time
      BY <2>4, PolledEffect DEF PollEndOfPartition, PollTimedOut, PollError
    <3>2. UNCHANGED <<filters, active, sent>>
      BY <2>4 DEF PollEndOfPartition, PollTimedOut, PollError
    <3>. QED  BY <2>1, <3>1, <3>2, Zenon
  <2>5. CASE Join
    <3>1. \A k \in Key : ForwardBuffered(filters[k]) \in Seq(Forwarded)
      BY <2>1, ForwardBufferedType, Zenon
    <3>2. \A k \in Key : sent[k] \o ForwardBuffered(filters[k]) \in Seq(Forwarded)
      BY <2>1, <3>1
    <3>3. UNCHANGED <<stop_time, filters, pf>> /\ active' = {}
      BY <2>5 DEF Join
    <3>4. sent' \in [Key -> Seq(Forwarded)]
      BY <2>1, <2>5, <3>2 DEF Join
    <3>. QED  BY <2>1, <3>3, <3>4
  <2>6. CASE UNCHANGED <<stop_time, filters, active, pf, sent>>
    BY <2>1, <2>6
  <2>. QED  BY <2>2, <2>3, <2>4, <2>5, <2>6, Actions, ZenonT(30)
            DEF Check, TakeStop, LoadStopTime, ClearStopTime, PollForced,
                PollPaused, stop, set_stop_time, destroy, Tick, Pause, Resume,
                Append_to_log, vars
<1>. QED  BY <1>2, <1>3, <1>4, <1>5, <1>6, Zenon DEF TypeOK

-----------------------------------------------------------------------------
LEMMA NumberedStep ==
    ASSUME TypeOK, Numbered, [Next]_vars
    PROVE  Numbered'
<1>1. log \in Seq(Record) /\ Len(log) \in Nat
  BY DEF TypeOK
<1>2. CASE \E src \in Source, delay \in 0 .. Leeway, decodes \in BOOLEAN :
               Append_to_log(src, delay, decodes)
  <2>1. PICK src \in Source, delay \in 0 .. Leeway, decodes \in BOOLEAN :
               Append_to_log(src, delay, decodes)
    BY <1>2
  <2> DEFINE m == [id |-> Len(log) + 1, src |-> src,
                   ts |-> (now - delay) * NsPerMicro, valid |-> TRUE]
             r == [msg |-> m, decodes |-> decodes, kafkaTime |-> now]
  <2>2. log' = Append(log, r)
    BY <2>1 DEF Append_to_log
  <2>3. r.msg.id = Len(log) + 1
    OBVIOUS
  <2> HIDE DEF m, r
  <2>4. /\ DOMAIN log' = 1 .. Len(log) + 1
        /\ DOMAIN log = 1 .. Len(log)
        /\ \A i \in 1 .. Len(log) : log'[i] = log[i]
        /\ log'[Len(log) + 1] = r
    BY <1>1, <2>2
  <2>. QED  BY <1>1, <2>3, <2>4 DEF Numbered
<1>3. CASE UNCHANGED log
  BY <1>3 DEF Numbered
<1>. QED  BY <1>2, <1>3, LogSteps, Zenon

LEMMA WorkerStep ==
    ASSUME TypeOK, WorkerInv, [Next]_vars
    PROVE  WorkerInv'
<1> USE DEF WorkerInv, clock, consumer, shared, partition, requests, history
<1>1. CASE Check
  BY <1>1 DEF Check
<1>2. CASE TakeStop \/ LoadStopTime \/ ApplyStopTime \/ ClearStopTime
  BY <1>2 DEF TakeStop, LoadStopTime, ApplyStopTime, ClearStopTime
<1>3. CASE PollForced \/ PollPaused \/ PollMessage \/ PollEndOfPartition
           \/ PollTimedOut \/ PollError
  <2>1. pc' = "check"
    BY <1>3, Zenon DEF PollForced, PollPaused, PollMessage, PollEndOfPartition,
                       PollTimedOut, PollError, Polled
  <2>. QED  BY <2>1
<1>4. CASE \E t \in StopTimes : set_stop_time(t)
  BY <1>4, PartitionAssumption DEF set_stop_time
<1>5. CASE stop \/ destroy
  BY <1>5 DEF stop, destroy
<1>8. CASE Join
  BY <1>8, Zenon DEF Join
<1>6. CASE Tick \/ Pause \/ Resume \/ UNCHANGED vars
  BY <1>6 DEF Tick, Pause, Resume, vars
<1>7. CASE \E src \in Source, delay \in 0 .. Leeway, decodes \in BOOLEAN :
               Append_to_log(src, delay, decodes)
  BY <1>7 DEF Append_to_log
<1>. QED  BY <1>1, <1>2, <1>3, <1>4, <1>5, <1>6, <1>7, <1>8, Actions, Zenon

\* Only setStopTime moves the stop time, and it moves all of them.
LEMMA StopTimeStep ==
    ASSUME TypeOK, Numbered, WorkerInv, OneStopTime, [Next]_vars
    PROVE  OneStopTime'
<1>1. /\ pf \in PartitionFilterRecord
      /\ filters \in [Key -> Filter]
      /\ active \subseteq Key
  BY DEF TypeOK
<1>2. CASE ApplyStopTime
  <2> DEFINE t == SanitiseStopTime(requested)
  <2>1. /\ stop_time' = t /\ pf' = [pf EXCEPT !.stop = t]
        /\ filters' = [k \in Key |-> IF k \in active
                                     THEN SetStopTime(filters[k], t)
                                     ELSE filters[k]]
        /\ active' = active
    BY <1>2 DEF ApplyStopTime
  <2>2. requested \in Instant /\ requested # MaxTime
    BY <1>2 DEF TypeOK, WorkerInv, ApplyStopTime
  <2>3. t + Leeway <= MaxTime /\ SanitiseStopTime(t) = t
    BY <2>2, Sanitised
  <2> HIDE DEF t
  <2>4. pf'.stop = t
    BY <1>1, <2>1 DEF PartitionFilterRecord
  <2>5. \A k \in active : filters'[k].stop = t
    BY <1>1, <2>1 DEF SetStopTime, Filter
  <2>. QED  BY <2>1, <2>3, <2>4, <2>5 DEF OneStopTime
<1>3. CASE PollMessage
  <2>1. pf'.stop = pf.stop /\ stop_time' = stop_time
    BY <1>3, PolledEffect, Zenon DEF PollMessage
  <2>2. \A k \in Key : filters'[k].stop = filters[k].stop
    BY <1>3, PollMessageEffect, Zenon
  <2>3. active' \subseteq active
    BY <1>3 DEF PollMessage
  <2>. QED  BY <1>1, <2>1, <2>2, <2>3, Zenon DEF OneStopTime
<1>4. CASE PollEndOfPartition \/ PollTimedOut \/ PollError
  <2>1. pf'.stop = pf.stop /\ stop_time' = stop_time
    BY <1>4, PolledEffect, Zenon DEF PollEndOfPartition, PollTimedOut, PollError
  <2>2. UNCHANGED <<filters, active>>
    BY <1>4, Zenon DEF PollEndOfPartition, PollTimedOut, PollError
  <2>. QED  BY <2>1, <2>2, Zenon DEF OneStopTime
<1>5. CASE Join
  BY <1>5 DEF Join, OneStopTime
<1>6. CASE UNCHANGED <<stop_time, filters, active, pf>>
  BY <1>6 DEF OneStopTime
<1>. QED  BY <1>2, <1>3, <1>4, <1>5, <1>6, Actions, Zenon
          DEF Check, TakeStop, LoadStopTime, ClearStopTime, PollForced,
              PollPaused, stop, set_stop_time, destroy, Tick, Pause, Resume,
              Append_to_log, vars, partition

\* Any answer but an error ends a run of errors, and any but a time-out a run
\* of time-outs.
LEMMA ErrorsStep ==
    ASSUME TypeOK, CountsErrors, [Next]_vars
    PROVE  CountsErrors'
<1>1. /\ now \in Nat /\ MaxTime \in Nat /\ errorSince \in Instant
      /\ quietSince \in Instant /\ pf.occurrence \in Nat
  <2>1. now \in 0 .. Horizon /\ pf \in PartitionFilterRecord
    BY DEF TypeOK
  <2>. QED  BY <2>1, PartitionAssumption, PartitionFilterAssumption
            DEF TypeOK, PartitionFilterRecord, Instant
<1>2. CASE PollMessage \/ PollEndOfPartition
  <2>1. PICK s \in {"Message", "EndOfPartition"} : Polled(s)
    BY <1>2, Zenon DEF PollMessage, PollEndOfPartition
  <2>2. /\ pf \in PartitionFilterRecord /\ now \in Instant
        /\ pf' = AfterPoll(pf, s, now)
        /\ errorSince' = MaxTime /\ quietSince' = MaxTime
    BY <2>1, PolledEffect
  <2>3. pf'.state \in {"DEFAULT", "END_OF_PARTITION"}
    <3>1. AfterPoll(pf, "Message", now).state = "DEFAULT"
      BY <2>2, AfterPollEffect, Zenon
    <3>2. AfterPoll(pf, "EndOfPartition", now).state = "END_OF_PARTITION"
      BY <2>2, AfterPollEffect
    <3>. QED  BY <2>2, <3>1, <3>2, Zenon
  <2>. QED  BY <2>2, <2>3 DEF CountsErrors
<1>3. CASE PollTimedOut
  <2>0. /\ pf \in PartitionFilterRecord /\ now \in Instant
        /\ pf' = AfterPoll(pf, "TimedOut", now) /\ now' = now
        /\ now + TimeLimit < MaxTime /\ TimeLimit \in Nat
        /\ errorSince' = MaxTime /\ quietSince' = Since(quietSince)
    BY <1>3, PolledEffect, PartitionFilterAssumption DEF PollTimedOut
  <2>1. /\ pf'.state = "TIMEOUT"
        /\ pf'.occurrence = IF pf.state = "TIMEOUT" THEN pf.occurrence ELSE now
    BY <2>0, AfterPollEffect, Zenon
  <2>. QED  BY <1>1, <2>0, <2>1 DEF CountsErrors, Since
<1>4. CASE PollError
  <2>0. /\ pf \in PartitionFilterRecord /\ now \in Instant
        /\ pf' = AfterPoll(pf, "Error", now) /\ now' = now
        /\ now + TimeLimit < MaxTime /\ TimeLimit \in Nat
        /\ errorSince' = Since(errorSince) /\ quietSince' = MaxTime
    BY <1>4, PolledEffect, PartitionFilterAssumption DEF PollError
  <2>1. /\ pf'.state = "ERROR"
        /\ pf'.occurrence = IF pf.state = "ERROR" THEN pf.occurrence ELSE now
    BY <2>0, AfterPollEffect, Zenon
  <2>. QED  BY <1>1, <2>0, <2>1 DEF CountsErrors, Since
<1>5. CASE Tick
  BY <1>1, <1>5 DEF Tick, CountsErrors, partition, history
<1>6. CASE ApplyStopTime
  <2>1. /\ pf'.state = pf.state /\ pf'.occurrence = pf.occurrence
        /\ UNCHANGED <<now, errorSince, quietSince>>
    BY <1>6 DEF ApplyStopTime, TypeOK, PartitionFilterRecord, clock
  <2>. QED  BY <2>1 DEF CountsErrors
<1>7. CASE UNCHANGED <<now, pf, errorSince, quietSince>>
  BY <1>7 DEF CountsErrors
<1>. QED  BY <1>2, <1>3, <1>4, <1>5, <1>6, <1>7, Actions, Zenon
          DEF Check, TakeStop, LoadStopTime, ClearStopTime, PollForced,
              PollPaused, stop, set_stop_time, destroy, Join, Pause, Resume,
              Append_to_log, vars, clock, partition, history

\* The filter that keeps a message back keeps one it has been given.
LEMMA HeldStep ==
    ASSUME TypeOK, Numbered, HeldInv, [Next]_vars
    PROVE  HeldInv'
<1>1. /\ filters \in [Key -> Filter] /\ active \subseteq Key
      /\ pos \in Nat
  BY DEF TypeOK
<1>2. CASE PollMessage
  <2> DEFINE r == log[pos + 1]
  <2>1. /\ r.msg \in Message /\ r.msg.id = pos + 1
        /\ \A k \in Key : filters'[k] = IF r.decodes /\ k \in active
                                        THEN FilterMessage(filters[k], r.msg)
                                        ELSE filters[k]
    BY <1>2, PollMessageEffect
  <2>2. pos' = pos + 1 /\ active' = {k \in active : ~filters'[k].finished}
    BY <1>2, Zenon DEF PollMessage
  <2> HIDE DEF r
  <2>3. ASSUME NEW k \in Key
        PROVE  \/ filters'[k].buffered = filters[k].buffered
               \/ filters'[k].buffered = NoMessage
               \/ filters'[k].buffered = r.msg
    <3> DEFINE f == filters[k]
    <3>1. f \in Filter
      BY <1>1
    <3>2. \/ FilterMessage(f, r.msg).buffered = f.buffered
          \/ FilterMessage(f, r.msg).buffered = NoMessage
          \/ FilterMessage(f, r.msg).buffered = r.msg
      <4> HIDE DEF f
      <4> DEFINE o == Outcome(f, r.msg)
      <4>1. o \in {"ignored", "dropped", "outdated", "buffered", "finished",
                   "passed"}
        BY <2>1, <3>1, OutcomeCases, Zenon
      <4>. QED  BY <2>1, <3>1, <4>1, FilterMessageEffect, Zenon
    <3>. QED  BY <2>1, <3>2
  <2>. QED  BY <1>1, <2>1, <2>2, <2>3 DEF HeldInv, HasBuffered
<1>3. CASE ApplyStopTime
  <2>1. \A k \in Key : /\ filters'[k].buffered = filters[k].buffered
                       /\ filters'[k].finished = filters[k].finished
    BY <1>1, <1>3 DEF ApplyStopTime, SetStopTime, Filter
  <2>2. active' = active /\ pos' = pos
    BY <1>3, Zenon DEF ApplyStopTime, consumer
  <2>. QED  BY <1>1, <2>1, <2>2 DEF HeldInv, HasBuffered
<1>4. CASE Join
  BY <1>4, Zenon DEF Join, HeldInv, HasBuffered, consumer
<1>5. CASE UNCHANGED <<filters, active, pos>>
  BY <1>5 DEF HeldInv, HasBuffered
<1>. QED  BY <1>2, <1>3, <1>4, <1>5, FilterSteps, Zenon

-----------------------------------------------------------------------------
LEMMA InitIInv == Init => IInv
<1> SUFFICES ASSUME Init  PROVE  IInv
  OBVIOUS
<1> DEFINE t == SanitiseStopTime(InitialStop)
<1>1. /\ InitialStop \in Instant /\ Start \in Instant
      /\ t \in Instant /\ t + Leeway <= MaxTime
      /\ MaxTime \in Instant /\ Horizon \in Nat /\ 0 \in Instant
      /\ \A k \in Key : SrcOf[k] \in Source
  <2>1. InitialStop \in Instant /\ Start \in Instant /\ Horizon \in Nat
    BY PartitionAssumption
  <2>2. \A k \in Key : SrcOf[k] \in Source
    BY PartitionAssumption
  <2>3. MaxTime \in Instant /\ 0 \in Instant
    BY PartitionFilterAssumption DEF Instant
  <2>. QED  BY <2>1, <2>2, <2>3, Sanitised
<1>2. /\ filters = [k \in Key |->
                      NewFilter(SrcOf[k], Start, InitialStop, k \in Repeats)]
      /\ stop_time = t
      /\ pf = [NewPartitionFilter(InitialStop) EXCEPT !.stop = t]
      /\ active = Key
  BY DEF Init
<1> HIDE DEF t
<1>3. /\ pf \in PartitionFilterRecord /\ pf.stop = t /\ pf.state = "DEFAULT"
  <2>1. SanitiseStopTime(InitialStop) \in Instant
    BY <1>1, Zenon DEF t
  <2>. QED  BY <1>1, <1>2, <2>1, Zenon
            DEF NewPartitionFilter, PartitionFilterRecord, PartitionState
<1>4. ASSUME NEW k \in Key
      PROVE  /\ filters[k] \in Filter
             /\ filters[k].stop = InitialStop
             /\ ~filters[k].finished
             /\ ~HasBuffered(filters[k])
  <2>1. filters[k] = NewFilter(SrcOf[k], Start, InitialStop, k \in Repeats)
    BY <1>2
  <2>2. /\ Start \in Nat /\ InitialStop \in Nat /\ (k \in Repeats) \in BOOLEAN
        /\ SrcOf[k] \in Source
    BY <1>1, PartitionFilterAssumption DEF Instant
  <2>. QED  BY <2>1, <2>2 DEF NewFilter, Filter, HasBuffered
<1>5. TypeOK
  <2>1. {paused, eof, immediate, exit, force_stop, has_finished, logged, slow,
         overwritten} \subseteq BOOLEAN
    BY Zenon DEF Init
  <2>2. filters \in [Key -> Filter]
    BY <1>2, <1>4
  <2>3. sent \in [Key -> Seq(Forwarded)]
    BY DEF Init
  <2>4. log \in Seq(Record) /\ asked \in Seq(Instant) /\ pos \in 0 .. Len(log)
    BY DEF Init
  <2>5. now \in 0 .. Horizon /\ {pauses, errors} \subseteq Nat
    BY <1>1 DEF Init
  <2>6. /\ requested \in Instant /\ stop_time \in Instant
        /\ {errorSince, quietSince, earliest} \subseteq Instant
    BY <1>1, <1>2 DEF Init
  <2>. QED  BY <1>2, <1>3, <2>1, <2>2, <2>3, <2>4, <2>5, <2>6 DEF TypeOK, Init
<1>6. Numbered
  BY DEF Init, Numbered
<1>7. WorkerInv
  BY DEF Init, WorkerInv
<1>8. OneStopTime
  BY <1>1, <1>2, <1>3, <1>4 DEF OneStopTime, t
<1>9. CountsErrors
  BY <1>3 DEF CountsErrors, Init
<1>10. HeldInv
  BY <1>2, <1>4 DEF HeldInv
<1>. QED  BY <1>5, <1>6, <1>7, <1>8, <1>9, <1>10 DEF IInv

\* IInv holds in every state of every partition.
THEOREM Invariance == Spec => []IInv
<1>1. IInv /\ [Next]_vars => IInv'
  BY TypeStep, NumberedStep, WorkerStep, StopTimeStep, ErrorsStep, HeldStep
     DEF IInv
<1>. QED  BY <1>1, InitIInv, PTL DEF Spec

\* The state of a partition keeps its types (the members of Partition.h and
\* PartitionThreaded.h).
THEOREM TypeCorrect == Spec => []TypeOK
<1>1. IInv => TypeOK
  BY DEF IInv
<1>. QED  BY <1>1, Invariance, PTL

\* The sums that decide whether a partition goes on fit.
LEMMA SumsFit ==
    ASSUME IInv
    PROVE  /\ pf.stop = stop_time /\ stop_time \in Nat
           /\ stop_time + Leeway <= MaxTime
           /\ pf.state \in {"ERROR", "TIMEOUT"} =>
                  pf.occurrence \in Nat /\ pf.occurrence + TimeLimit <= MaxTime
           /\ now \in Nat /\ now + TimeLimit <= MaxTime
           /\ Leeway \in Nat /\ TimeLimit \in Nat
<1>1. pf.stop = stop_time /\ stop_time + Leeway <= MaxTime
  BY DEF IInv, OneStopTime
<1>2. pf.state \in {"ERROR", "TIMEOUT"} => pf.occurrence <= now
  BY Zenon DEF IInv, CountsErrors
<1>3. now \in 0 .. Horizon /\ pf.occurrence \in Instant /\ stop_time \in Instant
  BY Zenon DEF IInv, TypeOK, PartitionFilterRecord
<1>4. Horizon \in Nat /\ Horizon + Leeway + TimeLimit < MaxTime
  BY PartitionAssumption
<1>. QED  BY <1>1, <1>2, <1>3, <1>4, PartitionFilterAssumption DEF Instant

\* A poll finds the topic timed out exactly when the run of time-outs before it
\* is too old: in any other state the comparison does not count.
LEMMA TimeOutStep ==
    ASSUME IInv, [Next]_vars, pc = "poll", ~force_stop, ~paused, pc' = "check"
    PROVE  logged' <=> quietSince + TimeLimit < now
<1>1. PICK s \in {"Message", "EndOfPartition", "TimedOut", "Error"} : Polled(s)
  BY Actions, Zenon
     DEF Check, TakeStop, LoadStopTime, ApplyStopTime, ClearStopTime, PollForced,
         PollPaused, PollMessage, PollEndOfPartition, PollTimedOut, PollError,
         stop, set_stop_time, destroy, Join, Tick, Pause, Resume,
         Append_to_log, vars
<1>2. logged' \in HasTopicTimedOut(pf, now)
  BY <1>1, Zenon DEF Polled
<1>3. /\ pf.state = "TIMEOUT" <=> quietSince # MaxTime
      /\ pf.state = "TIMEOUT" => pf.occurrence = quietSince
      /\ quietSince \in Instant
  BY Zenon DEF IInv, CountsErrors, TypeOK
<1>4. CASE pf.state = "TIMEOUT"
  <2>1. PICK exceeded \in HasExceededTimeLimit(pf, now) :
            logged' = (exceeded /\ pf.state = "TIMEOUT")
    BY <1>2, Zenon DEF HasTopicTimedOut
  <2>2. /\ now \in Nat /\ quietSince \in Nat /\ TimeLimit \in Nat
        /\ quietSince + TimeLimit <= MaxTime
    BY <1>3, <1>4, SumsFit, Zenon
  <2>3. exceeded \in BOOLEAN /\ (exceeded <=> now > quietSince + TimeLimit)
    <3>1. exceeded \in IsAfter(now, quietSince, TimeLimit)
      BY <1>3, <1>4, <2>1 DEF HasExceededTimeLimit
    <3>2. \A x \in IsAfter(now, quietSince, TimeLimit) :
              x \in BOOLEAN /\ (x <=> now > quietSince + TimeLimit)
      BY <2>2, SumThatFits, Zenon
    <3>. QED  BY <3>1, <3>2
  <2>4. logged' <=> now > quietSince + TimeLimit
    BY <1>4, <2>1, <2>3, Zenon
  <2>. QED  BY <2>2, <2>4
<1>5. CASE pf.state # "TIMEOUT"
  <2>1. ~logged'
    BY <1>2, <1>5, Zenon DEF HasTopicTimedOut
  <2>2. quietSince = MaxTime /\ ~(quietSince + TimeLimit < now)
    BY <1>3, <1>5, SumsFit, PartitionFilterAssumption
  <2>. QED  BY <2>1, <2>2, Zenon
<1>. QED  BY <1>4, <1>5, Zenon

\* For every clock and time limit, a topic counts as timed out exactly when
\* polls have timed out without any other answer for longer than the limit,
\* whatever the comparison with a sum that overflows yields
\* (checkAndLogPartitionTimeOut, hasTopicTimedOut).
THEOREM TimeOutsAreLogged == Spec => TimeOutLogExact
<1>1. IInv /\ [Next]_vars
          => [pc = "poll" /\ ~force_stop /\ ~paused /\ pc' = "check" =>
                (logged' <=> quietSince + TimeLimit < now)]_vars
  BY TimeOutStep
<1>. QED  BY <1>1, Invariance, PTL DEF Spec, TimeOutLogExact

\* A failed poll is the only step that counts an error, and it ends the
\* partition exactly when the run of errors it belongs to is too old.
LEMMA ErrorStep ==
    ASSUME IInv, [Next]_vars, errors' > errors
    PROVE  has_finished' <=> errorSince + TimeLimit < now
<1>1. errors \in Nat
  BY DEF IInv, TypeOK
<1>2. PollError
  BY <1>1, ErrorSteps
<1>3. /\ pf \in PartitionFilterRecord /\ now \in Instant
      /\ now + TimeLimit < MaxTime /\ pc = "poll" /\ TimeLimit \in Nat
  <2>1. TypeOK
    BY DEF IInv
  <2>. QED  BY <1>2, <2>1, PolledEffect, PartitionFilterAssumption DEF PollError
<1>4. ~has_finished
  BY <1>3, Zenon DEF IInv, WorkerInv
<1> DEFINE q == AfterPoll(pf, "Error", now)
<1>5. q.occurrence = IF pf.state = "ERROR" THEN pf.occurrence ELSE now
  BY <1>3, AfterPollEffect, Zenon
<1>6. has_finished' <=> now > q.occurrence + TimeLimit
  <2>1. ShouldStop(pf, "Error", now) = IsAfter(now, q.occurrence, TimeLimit)
    BY DEF ShouldStop, HasExceededTimeLimit
  <2>2. /\ now \in Nat /\ q.occurrence \in Nat /\ TimeLimit \in Nat
        /\ q.occurrence + TimeLimit <= MaxTime
    BY <1>5, SumsFit, Zenon
  <2>3. \/ TRUE \in IsAfter(now, q.occurrence, TimeLimit) /\ has_finished' = TRUE
        \/ /\ FALSE \in IsAfter(now, q.occurrence, TimeLimit)
           /\ has_finished' = has_finished
    BY <1>2, <2>1, Zenon DEF PollError, Decided, Finish
  <2> HIDE DEF q
  <2> DEFINE ends == TRUE \in IsAfter(now, q.occurrence, TimeLimit)
             stays == FALSE \in IsAfter(now, q.occurrence, TimeLimit)
  <2>4. /\ ends <=> now > q.occurrence + TimeLimit
        /\ stays <=> ~(now > q.occurrence + TimeLimit)
    BY <2>2, SumThatFits, Zenon
  <2>5. \/ ends /\ has_finished' = TRUE
        \/ stays /\ has_finished' = has_finished
    BY <2>3, Zenon
  <2> HIDE DEF ends, stays
  <2>. QED  BY <1>4, <2>4, <2>5
<1>7. /\ pf.state = "ERROR" <=> errorSince # MaxTime
      /\ pf.state = "ERROR" => pf.occurrence = errorSince
      /\ errorSince \in Instant /\ pf.occurrence \in Instant
  BY DEF IInv, CountsErrors, TypeOK, PartitionFilterRecord
<1> HIDE DEF q
<1>. QED  BY <1>3, <1>5, <1>6, <1>7, PartitionFilterAssumption DEF Instant

\* Whatever comes between the polls, a failed one ends the partition exactly
\* when polls have failed without any other answer for longer than the limit
\* (shouldStopPartition).
THEOREM ErrorsEndItInTime == Spec => ErrorStopExact
<1>1. IInv /\ [Next]_vars
          => [errors' > errors =>
                (has_finished' <=> errorSince + TimeLimit < now)]_vars
  BY ErrorStep
<1>. QED  BY <1>1, Invariance, PTL DEF Spec, ErrorStopExact

-----------------------------------------------------------------------------
\* What StopTimeNotLost rests on: the request that the worker clears is the one
\* it has applied, unless another one has taken its place meanwhile.
Requests ==
    /\ requested # MaxTime =>
           asked # <<>> /\ requested = asked[Len(asked)]
    /\ pc \in {"apply", "clear"} => asked # <<>>
    /\ pc = "clear" => \/ overwritten
                       \/ stop_time = SanitiseStopTime(asked[Len(asked)])
    /\ asked # <<>> => \/ requested # MaxTime
                       \/ overwritten
                       \/ stop_time = SanitiseStopTime(asked[Len(asked)])

LEMMA RequestStep ==
    ASSUME IInv, Requests, [Next]_vars
    PROVE  Requests'
<1>1. asked \in Seq(Instant) /\ Len(asked) \in Nat
  BY DEF IInv, TypeOK
<1>2. CASE \E t \in StopTimes : set_stop_time(t)
  <2>1. PICK t \in StopTimes : set_stop_time(t)
    BY <1>2, Zenon
  <2>2. /\ requested' = t /\ asked' = Append(asked, t)
        /\ overwritten' = (pc = "clear") /\ UNCHANGED <<pc, stop_time>>
    BY <2>1, Zenon DEF set_stop_time, partition
  <2>3. t \in Instant /\ t # MaxTime
    BY PartitionAssumption
  <2>4. asked' # <<>> /\ asked'[Len(asked')] = t
    BY <1>1, <2>2, <2>3
  <2>. QED  BY <2>2, <2>3, <2>4, Zenon DEF Requests
<1>3. CASE ApplyStopTime
  BY <1>3, Zenon DEF ApplyStopTime, Requests, IInv, WorkerInv, shared
<1>4. CASE ClearStopTime
  BY <1>4, Zenon DEF ClearStopTime, Requests, partition, requests, history
<1>5. CASE LoadStopTime
  BY <1>5, Zenon DEF LoadStopTime, Requests, shared, partition, requests, history
<1>6. CASE /\ UNCHANGED <<requested, asked, overwritten, stop_time>>
           /\ pc' = pc \/ pc' \notin {"apply", "clear"}
  BY <1>6 DEF Requests
<1>. QED  BY <1>2, <1>3, <1>4, <1>5, <1>6, Actions, ZenonT(30)
          DEF Check, TakeStop, PollForced, PollPaused, PollMessage,
              PollEndOfPartition, PollTimedOut, PollError, Polled, stop,
              destroy, Join, Tick, Pause, Resume, Append_to_log, vars, clock,
              consumer, shared, partition, requests, history

\* However often the owner requests a stop time, and for whatever times, the
\* last one is pending or in force wherever the worker is in its loop, unless
\* it came after the worker had applied an earlier one and before it cleared
\* that (set_stop_time against process()).
THEOREM RequestKept == Spec => []StopTimeNotLost
<1>1. Init => Requests
  BY DEF Init, Requests
<1>2. IInv /\ Requests /\ [Next]_vars => Requests'
  BY RequestStep, Zenon
<1>3. IInv /\ Requests => StopTimeNotLost
  BY DEF IInv, Requests, OneStopTime, StopTimeNotLost
<1>. QED  BY <1>1, <1>2, <1>3, Invariance, PTL DEF Spec

-----------------------------------------------------------------------------
\* Appending after concatenating.
LEMMA ConcatAppend ==
    ASSUME NEW s \in Seq(Forwarded), NEW u \in Seq(Forwarded), NEW x \in Forwarded
    PROVE  s \o Append(u, x) = (s \o u) \o <<x>>
OBVIOUS

-----------------------------------------------------------------------------
\* The broker's timestamps ascend, and none is later than the message's own by
\* more than the leeway.
LogInv ==
    /\ \A i \in DOMAIN log :
           /\ log[i].msg.valid /\ log[i].msg.ts # 0
           /\ log[i].kafkaTime <= now
           /\ log[i].kafkaTime <= TimeOf(i) + Leeway
    /\ \A i, j \in DOMAIN log : i < j => log[i].kafkaTime <= log[j].kafkaTime

\* duration_cast keeps the order of timestamps, and microseconds survive the
\* way to nanoseconds and back.
LEMMA TimepointOrder ==
    ASSUME NEW a \in Nat, NEW b \in Nat
    PROVE  /\ ToTimepoint(a) \in Nat
           /\ a <= b => ToTimepoint(a) <= ToTimepoint(b)
           /\ ToTimepoint(a * NsPerMicro) = a
<1> DEFINE n == NsPerMicro
<1>1. n \in Nat \ {0}
  BY OpsAssumption
<1> HIDE DEF n
<1>2. a \div n \in Nat
  BY <1>1
<1>3. a <= b => a \div n <= b \div n
  BY <1>1
<1>4. (a * n) \div n = a
  BY <1>1
<1>. QED  BY <1>2, <1>3, <1>4 DEF ToTimepoint, n

\* The types of what is in the log.
LEMMA LogTypes ==
    ASSUME TypeOK
    PROVE  /\ DOMAIN log = 1 .. Len(log) /\ Len(log) \in Nat /\ pos \in 0 .. Len(log)
           /\ \A i \in DOMAIN log :
                  /\ i \in Nat /\ log[i] \in Record /\ log[i].msg \in Message
                  /\ log[i].msg.ts \in Nat /\ log[i].kafkaTime \in Nat
                  /\ TimeOf(i) \in Nat
<1>1. log \in Seq(Record) /\ pos \in 0 .. Len(log)
  BY DEF TypeOK
<1>2. \A i \in DOMAIN log : log[i] \in Record
  BY <1>1
<1>3. \A i \in DOMAIN log : log[i].msg \in Message /\ log[i].kafkaTime \in Nat
  BY <1>2, PartitionFilterAssumption DEF Record, Instant
<1>4. \A i \in DOMAIN log : log[i].msg.ts \in Nat
  BY <1>3, Zenon DEF Message
<1>5. \A i \in DOMAIN log : TimeOf(i) \in Nat
  BY <1>4, TimepointOrder, Zenon DEF TimeOf
<1>. QED  BY <1>1, <1>2, <1>3, <1>4, <1>5

\* The types of the times and positions that are compared.
LEMMA TimeTypes ==
    ASSUME TypeOK
    PROVE  /\ stop_time \in Nat /\ Start \in Nat /\ Leeway \in Nat /\ pos \in Nat
           /\ \A k \in Key : filters[k].stop \in Nat
<1>1. stop_time \in Instant /\ filters \in [Key -> Filter] /\ pos \in Nat
  BY DEF TypeOK
<1>2. \A k \in Key : filters[k].stop \in Nat
  BY <1>1, Zenon DEF Filter
<1>. QED  BY <1>1, <1>2, PartitionAssumption, PartitionFilterAssumption
          DEF Instant

\* The broker only appends, and what it appends is new and not too late.
LEMMA LogGrows ==
    ASSUME TypeOK, [Next]_vars
    PROVE  /\ DOMAIN log \subseteq DOMAIN log'
           /\ \A i \in DOMAIN log : log'[i] = log[i] /\ TimeOf(i)' = TimeOf(i)
           /\ \A i \in DOMAIN log' : i \notin DOMAIN log =>
                  /\ i = Len(log) + 1 /\ pos' = pos /\ now' = now
                  /\ log'[i].msg.valid /\ log'[i].msg.ts # 0
                  /\ log'[i].kafkaTime = now
                  /\ now <= TimeOf(i)' + Leeway
<1>1. /\ DOMAIN log = 1 .. Len(log) /\ Len(log) \in Nat
      /\ log \in Seq(Record)
  BY LogTypes, Zenon DEF TypeOK
<1>2. CASE \E src \in Source, delay \in 0 .. Leeway, decodes \in BOOLEAN :
               Append_to_log(src, delay, decodes)
  <2>1. PICK src \in Source, delay \in 0 .. Leeway, decodes \in BOOLEAN :
               Append_to_log(src, delay, decodes)
    BY <1>2, Zenon
  <2> DEFINE ts == (now - delay) * NsPerMicro
             m == [id |-> Len(log) + 1, src |-> src, ts |-> ts, valid |-> TRUE]
             r == [msg |-> m, decodes |-> decodes, kafkaTime |-> now]
  <2>2. log' = Append(log, r) /\ pos' = pos /\ now' = now
    BY <2>1 DEF Append_to_log, consumer
  <2>3. now - delay \in Nat \ {0} /\ now \in Nat /\ now <= now - delay + Leeway
    <3>1. now \in Nat /\ delay \in Nat /\ delay <= Leeway /\ delay < now
      BY <2>1, PartitionAssumption, PartitionFilterAssumption
         DEF TypeOK, Append_to_log
    <3>. QED  BY <3>1, PartitionFilterAssumption, SMTT(20)
  <2>4. ts \in Nat \ {0}
    <3>1. NsPerMicro \in Nat \ {0}
      BY OpsAssumption
    <3>. QED  BY <2>3, <3>1
  <2>5. ToTimepoint(ts) = now - delay
    BY <2>3, TimepointOrder, Zenon
  <2>6. r.msg.ts = ts /\ r.msg.valid /\ r.kafkaTime = now
    OBVIOUS
  <2> HIDE DEF ts, m, r
  <2>7. /\ DOMAIN log' = 1 .. Len(log) + 1
        /\ \A i \in DOMAIN log : log'[i] = log[i]
        /\ log'[Len(log) + 1] = r
    BY <1>1, <2>2
  <2>8. \A i \in DOMAIN log : TimeOf(i)' = TimeOf(i)
    BY <2>7, Zenon DEF TimeOf
  <2>9. ToTimepoint(log'[Len(log) + 1].msg.ts) = now - delay
    BY <2>5, <2>6, <2>7, Zenon
  <2>10. \A i \in DOMAIN log' : i \notin DOMAIN log => i = Len(log) + 1
    BY <1>1, <2>7
  <2>11. ASSUME NEW i \in DOMAIN log', i \notin DOMAIN log
         PROVE  /\ i = Len(log) + 1 /\ log'[i] = r
                /\ TimeOf(i)' = now - delay
    <3>1. i = Len(log) + 1
      BY <2>10, <2>11, Zenon
    <3>. QED  BY <2>7, <2>9, <3>1 DEF TimeOf
  <2>12. DOMAIN log \subseteq DOMAIN log'
    BY <1>1, <2>7
  <2>. QED  BY <2>2, <2>3, <2>4, <2>6, <2>7, <2>8, <2>11, <2>12, Zenon
<1>3. CASE UNCHANGED log
  BY <1>3 DEF TimeOf
<1>. QED  BY <1>2, <1>3, LogSteps, Zenon

LEMMA ClockStep ==
    ASSUME TypeOK, [Next]_vars
    PROVE  now \in Nat /\ now' \in Nat /\ now <= now'
<1>1. now \in Nat
  BY PartitionAssumption DEF TypeOK
<1>2. CASE Tick
  BY <1>1, <1>2 DEF Tick
<1>3. CASE UNCHANGED now
  BY <1>1, <1>3, SMTT(20)
<1>. QED  BY <1>2, <1>3, ClockSteps, Zenon

LEMMA LogStep ==
    ASSUME TypeOK, TypeOK', LogInv, [Next]_vars
    PROVE  LogInv'
<1>1. now \in Nat /\ now' \in Nat /\ now <= now' /\ Leeway \in Nat
  BY ClockStep, PartitionFilterAssumption, Zenon
<1>2. /\ \A i \in DOMAIN log : log[i].kafkaTime \in Nat /\ TimeOf(i) \in Nat
      /\ \A i \in DOMAIN log : i \in 1 .. Len(log)
      /\ Len(log) \in Nat
      /\ \A i \in DOMAIN log' : i \in Nat
  <2>1. /\ \A i \in DOMAIN log : log[i].kafkaTime \in Nat /\ TimeOf(i) \in Nat
        /\ \A i \in DOMAIN log : i \in 1 .. Len(log)
        /\ Len(log) \in Nat
    BY LogTypes, Zenon
  <2>2. log' \in Seq(Record)
    BY Zenon DEF TypeOK
  <2>3. \A i \in DOMAIN log' : i \in Nat
    BY <2>2
  <2>. QED  BY <2>1, <2>3, Zenon
<1>3. ASSUME NEW i \in DOMAIN log'
      PROVE  /\ log'[i].msg.valid /\ log'[i].msg.ts # 0
             /\ log'[i].kafkaTime <= now'
             /\ log'[i].kafkaTime <= TimeOf(i)' + Leeway
  <2>1. CASE i \in DOMAIN log
    <3>1. log'[i] = log[i] /\ TimeOf(i)' = TimeOf(i)
      BY <2>1, LogGrows, Zenon
    <3>2. /\ log[i].msg.valid /\ log[i].msg.ts # 0 /\ log[i].kafkaTime <= now
          /\ log[i].kafkaTime <= TimeOf(i) + Leeway
      BY <2>1, Zenon DEF LogInv
    <3>. QED  BY <1>1, <1>2, <2>1, <3>1, <3>2
  <2>2. CASE i \notin DOMAIN log
    BY <1>1, <2>2, LogGrows, Zenon
  <2>. QED  BY <2>1, <2>2, Zenon
<1>4. ASSUME NEW i \in DOMAIN log', NEW j \in DOMAIN log', i < j
      PROVE  log'[i].kafkaTime <= log'[j].kafkaTime
  <2>1. CASE j \in DOMAIN log
    <3>1. i \in DOMAIN log
      <4>1. i \in DOMAIN log \/ i = Len(log) + 1
        BY LogGrows, Zenon
      <4>. QED  BY <1>2, <1>4, <2>1, <4>1, SMTT(20)
    <3>. QED  BY <1>4, <2>1, <3>1, LogGrows, Zenon DEF LogInv
  <2>2. CASE j \notin DOMAIN log
    <3>1. j = Len(log) + 1 /\ log'[j].kafkaTime = now
      BY <2>2, LogGrows, Zenon
    <3>2. i \in DOMAIN log
      <4>1. i \in DOMAIN log \/ i = Len(log) + 1
        BY LogGrows
      <4>. QED  BY <1>2, <1>4, <3>1, <4>1
    <3>. QED  BY <3>1, <3>2, LogGrows, Zenon DEF LogInv
  <2>. QED  BY <2>1, <2>2, Zenon
<1>. QED  BY <1>3, <1>4 DEF LogInv

-----------------------------------------------------------------------------
\* What a partition hands to the writer implements MessageDelivery.

\* The refinement mapping: what MessageDelivery calls held and status.
HeldBy(k) ==
    IF k \in active /\ filters[k].buffered # NoMessage
    THEN filters[k].buffered.id ELSE 0

ReleasedBy(k) == IF HeldBy(k) = 0 THEN <<>> ELSE <<HeldBy(k)>>

Status == IF pc = "joined" THEN "closed"
          ELSE IF pc = "exited" \/ has_finished THEN "ended" ELSE "running"

LEMMA ConcatAt ==
    ASSUME NEW S, NEW s \in Seq(S), NEW u \in Seq(S)
    PROVE  /\ s \o u \in Seq(S) /\ Len(s \o u) = Len(s) + Len(u)
           /\ Len(s) \in Nat /\ Len(u) \in Nat
           /\ \A i \in 1 .. Len(s) + Len(u) :
                 (s \o u)[i] = IF i <= Len(s) THEN s[i] ELSE u[i - Len(s)]
OBVIOUS

LEMMA SameElements ==
    ASSUME NEW S, NEW s \in Seq(S), NEW u \in Seq(S), Len(s) = Len(u),
           \A i \in 1 .. Len(s) : s[i] = u[i]
    PROVE  s = u
<1>1. /\ s = [i \in 1 .. Len(s) |-> s[i]]
      /\ u = [i \in 1 .. Len(u) |-> u[i]]
  OBVIOUS
<1>. QED  BY <1>1, Zenon

\* Numbering messages goes through appending and concatenating.
LEMMA IdsType ==
    ASSUME NEW s \in Seq(Forwarded)
    PROVE  /\ Ids(s) \in Seq(Nat) /\ Len(Ids(s)) = Len(s)
           /\ \A i \in 1 .. Len(s) : Ids(s)[i] = s[i].msg.id
<1>1. \A i \in 1 .. Len(s) : s[i] \in Forwarded
  OBVIOUS
<1>2. \A i \in 1 .. Len(s) : s[i].msg \in Message
  BY <1>1 DEF Forwarded
<1>3. \A i \in 1 .. Len(s) : s[i].msg.id \in Nat
  BY <1>2 DEF Message
<1>4. DOMAIN s = 1 .. Len(s) /\ Len(s) \in Nat
  OBVIOUS
<1>5. Ids(s) = [i \in 1 .. Len(s) |-> s[i].msg.id]
  BY <1>4, Zenon DEF Ids
<1>6. Ids(s) \in [1 .. Len(s) -> Nat]
  BY <1>3, <1>5
<1>7. Ids(s) \in Seq(Nat) /\ Len(Ids(s)) = Len(s)
  BY <1>4, <1>6
<1>. QED  BY <1>5, <1>7

LEMMA IdsConcat ==
    ASSUME NEW s \in Seq(Forwarded), NEW u \in Seq(Forwarded)
    PROVE  Ids(s \o u) = Ids(s) \o Ids(u)
<1>1. /\ s \o u \in Seq(Forwarded) /\ Len(s \o u) = Len(s) + Len(u)
      /\ Len(s) \in Nat /\ Len(u) \in Nat
      /\ \A i \in 1 .. Len(s) + Len(u) :
             (s \o u)[i] = IF i <= Len(s) THEN s[i] ELSE u[i - Len(s)]
  BY ConcatAt
<1>2. /\ Ids(s \o u) \in Seq(Nat) /\ Len(Ids(s \o u)) = Len(s) + Len(u)
      /\ \A i \in 1 .. Len(s) + Len(u) : Ids(s \o u)[i] = (s \o u)[i].msg.id
  BY <1>1, IdsType, Zenon
<1>3. /\ Ids(s) \in Seq(Nat) /\ Len(Ids(s)) = Len(s)
      /\ \A i \in 1 .. Len(s) : Ids(s)[i] = s[i].msg.id
      /\ Ids(u) \in Seq(Nat) /\ Len(Ids(u)) = Len(u)
      /\ \A i \in 1 .. Len(u) : Ids(u)[i] = u[i].msg.id
  BY IdsType, Zenon
<1>4. /\ Ids(s) \o Ids(u) \in Seq(Nat)
      /\ Len(Ids(s) \o Ids(u)) = Len(s) + Len(u)
      /\ \A i \in 1 .. Len(s) + Len(u) :
             (Ids(s) \o Ids(u))[i] = IF i <= Len(s) THEN Ids(s)[i]
                                                    ELSE Ids(u)[i - Len(s)]
  <2>1. /\ Ids(s) \o Ids(u) \in Seq(Nat)
        /\ Len(Ids(s) \o Ids(u)) = Len(Ids(s)) + Len(Ids(u))
        /\ \A i \in 1 .. Len(Ids(s)) + Len(Ids(u)) :
               (Ids(s) \o Ids(u))[i] = IF i <= Len(Ids(s)) THEN Ids(s)[i]
                                       ELSE Ids(u)[i - Len(Ids(s))]
    BY <1>3, ConcatAt
  <2>. QED  BY <1>3, <2>1, Zenon
<1>5. \A i \in 1 .. Len(s) + Len(u) : Ids(s \o u)[i] = (Ids(s) \o Ids(u))[i]
  <2> TAKE i \in 1 .. Len(s) + Len(u)
  <2>1. CASE i <= Len(s)
    <3>1. i \in 1 .. Len(s)
      BY <1>1, <2>1
    <3>. QED  BY <1>1, <1>2, <1>3, <1>4, <2>1, <3>1, ZenonT(30)
  <2>2. CASE ~(i <= Len(s))
    <3>1. i - Len(s) \in 1 .. Len(u)
      BY <1>1, <2>2
    <3>. QED  BY <1>1, <1>2, <1>3, <1>4, <2>2, <3>1, Zenon
  <2>. QED  BY <2>1, <2>2, Zenon
<1>. QED  BY <1>2, <1>4, <1>5, SameElements, Zenon

LEMMA IdsOne ==
    ASSUME NEW x \in Forwarded
    PROVE  Ids(<<x>>) = <<x.msg.id>>
BY DEF Ids

\* forward_buffered_message releases what the filter holds.
LEMMA ReleasedIds ==
    ASSUME IInv, NEW k \in active
    PROVE  Ids(ForwardBuffered(filters[k])) = ReleasedBy(k)
<1>1. filters[k] \in Filter /\ k \in Key
  BY Zenon DEF IInv, TypeOK
<1>2. CASE HasBuffered(filters[k])
  <2> DEFINE x == Forward(filters[k].buffered, TRUE)
  <2>1. filters[k].buffered \in Message /\ ForwardBuffered(filters[k]) = <<x>>
    BY <1>1, <1>2, ForwardBufferedType, Zenon
  <2>2. x \in Forwarded /\ x.msg = filters[k].buffered
    BY <2>1, Zenon DEF Forward, Forwarded
  <2> HIDE DEF x
  <2>3. HeldBy(k) = filters[k].buffered.id
    BY <1>2, Zenon DEF HeldBy, HasBuffered
  <2>4. filters[k].buffered.id # 0
    BY <1>1, <1>2 DEF IInv, HeldInv
  <2>. QED  BY <2>1, <2>2, <2>3, <2>4, IdsOne DEF ReleasedBy
<1>3. CASE ~HasBuffered(filters[k])
  <2>1. ForwardBuffered(filters[k]) = <<>>
    BY <1>1, <1>3, ForwardBufferedType, Zenon
  <2>2. HeldBy(k) = 0
    BY <1>3 DEF HeldBy, HasBuffered
  <2>3. Ids(<<>>) = <<>>
    BY DEF Ids
  <2>. QED  BY <2>1, <2>2, <2>3 DEF ReleasedBy
<1>. QED  BY <1>2, <1>3, Zenon

\* What a message that was read does for one key: it is skipped, kept back,
\* passed on after the one kept back, or ends the filter.
LEMMA PollMessageKey ==
    ASSUME IInv, PollMessage, NEW k \in Key
    PROVE  \/ HeldBy(k)' = HeldBy(k) /\ Ids(sent[k])' = Ids(sent[k])
           \/ HeldBy(k)' = pos + 1 /\ Ids(sent[k])' = Ids(sent[k])
           \/ /\ HeldBy(k)' = 0
              /\ Ids(sent[k])' = Ids(sent[k]) \o ReleasedBy(k) \o <<pos + 1>>
           \/ /\ HeldBy(k)' = 0
              /\ Ids(sent[k])' = Ids(sent[k]) \o ReleasedBy(k)
<1> DEFINE r == log[pos + 1]
           f == filters[k]
           g == FilterMessage(f, r.msg)
           o == Outcome(f, r.msg)
<1>1. TypeOK /\ Numbered /\ HeldInv
  BY DEF IInv
<1>2. /\ r.msg \in Message /\ r.msg.id = pos + 1
      /\ filters'[k] = IF r.decodes /\ k \in active THEN g ELSE f
      /\ sent'[k] = sent[k] \o ForwardedBy(r, k)
  BY <1>1, PollMessageEffect, Zenon
<1>3. active' = {i \in active : ~filters'[i].finished}
  BY ZenonT(40) DEF PollMessage
<1>4. /\ f \in Filter /\ sent[k] \in Seq(Forwarded)
      /\ pos \in Nat
  <2>1. /\ filters \in [Key -> Filter] /\ sent \in [Key -> Seq(Forwarded)]
        /\ pos \in 0 .. Len(log)
    BY <1>1, Zenon DEF TypeOK
  <2>. QED  BY <2>1
<1> HIDE DEF r, f
<1>5. CASE ~(r.decodes /\ k \in active)
  <2>0. ForwardedBy(r, k) = <<>> /\ sent[k] \o <<>> = sent[k]
    BY <1>4, <1>5 DEF ForwardedBy
  <2>1. filters'[k] = filters[k] /\ sent'[k] = sent[k]
    BY <1>2, <1>5, <2>0 DEF f
  <2>2. k \in active' <=> k \in active
    BY <1>1, <1>3, <2>1, Zenon DEF HeldInv
  <2>. QED  BY <2>1, <2>2, Zenon DEF HeldBy
<1>6. CASE r.decodes /\ k \in active
  <2>1. filters'[k] = g /\ sent'[k] = sent[k] \o Forwarding(f, r.msg)
    BY <1>2, <1>6, Zenon DEF ForwardedBy, f
  <2>2. k \in active' <=> ~g.finished
    BY <1>3, <1>6, <2>1, Zenon
  <2>3. ~f.finished
    BY <1>1, <1>6, Zenon DEF HeldInv, f
  <2>4. o \in {"ignored", "dropped", "outdated", "buffered", "finished",
               "passed"}
    BY <1>2, <1>4, OutcomeCases, Zenon
  <2>5. /\ ForwardBuffered(f) \in Seq(Forwarded)
        /\ Ids(ForwardBuffered(f)) = ReleasedBy(k)
    BY <1>4, <1>6, ForwardBufferedType, ReleasedIds, Zenon DEF f
  <2>6. CASE o \in {"ignored", "dropped", "outdated"}
    <3>1. /\ g.finished = f.finished /\ g.buffered = f.buffered
          /\ Forwarding(f, r.msg) = <<>>
      BY <1>2, <1>4, <2>6, SkippedEffect, Zenon
    <3>2. sent'[k] = sent[k]
      BY <1>4, <2>1, <3>1
    <3>3. HeldBy(k)' = HeldBy(k)
      BY <1>6, <2>1, <2>2, <2>3, <3>1, Zenon DEF HeldBy, f
    <3>. QED  BY <3>2, <3>3, Zenon
  <2>7. CASE o = "buffered"
    <3>1. /\ g.finished = f.finished /\ g.buffered = r.msg
          /\ Forwarding(f, r.msg) = <<>>
      BY <1>2, <1>4, <2>7, BufferedEffect, Zenon
    <3>2. sent'[k] = sent[k]
      BY <1>4, <2>1, <3>1
    <3>3. HeldBy(k)' = pos + 1
      BY <1>2, <2>1, <2>2, <2>3, <3>1, OpsAssumption, Zenon DEF HeldBy
    <3>. QED  BY <3>2, <3>3
  <2>8. CASE o = "finished"
    <3>1. g.finished = TRUE /\ Forwarding(f, r.msg) = ForwardBuffered(f)
      BY <1>2, <1>4, <2>8, FinishedEffect, Zenon
    <3>2. Ids(sent'[k]) = Ids(sent[k]) \o ReleasedBy(k)
      <4>1. Ids(sent[k] \o ForwardBuffered(f))
                = Ids(sent[k]) \o Ids(ForwardBuffered(f))
        BY <1>4, <2>5, IdsConcat, Zenon
      <4>. QED  BY <2>1, <2>5, <3>1, <4>1, Zenon
    <3>3. HeldBy(k)' = 0
      BY <2>2, <3>1, Zenon DEF HeldBy
    <3>. QED  BY <3>2, <3>3
  <2>9. CASE o = "passed"
    <3> DEFINE x == Forward(r.msg, FALSE)
    <3>1. /\ g.buffered = NoMessage
          /\ Forwarding(f, r.msg) = Append(ForwardBuffered(f), x)
      BY <1>2, <1>4, <2>9, PassedEffect, Zenon
    <3>2. x \in Forwarded /\ x.msg = r.msg
      BY <1>2, Zenon DEF Forward, Forwarded
    <3> HIDE DEF x
    <3>3. /\ sent[k] \o ForwardBuffered(f) \in Seq(Forwarded)
          /\ <<x>> \in Seq(Forwarded)
          /\ sent'[k] = (sent[k] \o ForwardBuffered(f)) \o <<x>>
      <4>1. <<x>> \in Seq(Forwarded)
        BY <3>2
      <4>2. sent[k] \o Append(ForwardBuffered(f), x)
                = (sent[k] \o ForwardBuffered(f)) \o <<x>>
        BY <1>4, <2>5, <3>2, ConcatAppend, Zenon
      <4>4. sent[k] \o ForwardBuffered(f) \in Seq(Forwarded)
        BY <1>4, <2>5
      <4>. QED  BY <2>1, <3>1, <4>1, <4>2, <4>4, Zenon
    <3>4. Ids(sent'[k]) = Ids(sent[k] \o ForwardBuffered(f)) \o <<pos + 1>>
      BY <1>2, <3>2, <3>3, IdsConcat, IdsOne, Zenon
    <3>5. Ids(sent[k] \o ForwardBuffered(f)) = Ids(sent[k]) \o ReleasedBy(k)
      BY <1>4, <2>5, IdsConcat, Zenon
    <3>6. HeldBy(k)' = 0
      BY <2>1, <3>1, Zenon DEF HeldBy
    <3>. QED  BY <3>4, <3>5, <3>6
  <2>. QED  BY <2>4, <2>6, <2>7, <2>8, <2>9, Zenon
<1>. QED  BY <1>5, <1>6, Zenon

\* The destructors release what the remaining filters hold.
LEMMA JoinKey ==
    ASSUME IInv, Join, NEW k \in Key
    PROVE  HeldBy(k)' = 0 /\ Ids(sent[k])' = Ids(sent[k]) \o ReleasedBy(k)
<1>1. filters[k] \in Filter /\ sent[k] \in Seq(Forwarded)
  BY Zenon DEF IInv, TypeOK
<1>2. /\ active' = {}
      /\ sent'[k] = IF k \in active THEN sent[k] \o ForwardBuffered(filters[k])
                                    ELSE sent[k]
  BY Zenon DEF Join
<1>3. HeldBy(k)' = 0
  BY <1>2 DEF HeldBy
<1>4. CASE k \in active
  <2>1. /\ ForwardBuffered(filters[k]) \in Seq(Forwarded)
        /\ Ids(ForwardBuffered(filters[k])) = ReleasedBy(k)
    BY <1>1, <1>4, ForwardBufferedType, ReleasedIds, Zenon
  <2>. QED  BY <1>1, <1>2, <1>3, <1>4, <2>1, IdsConcat, Zenon
<1>5. CASE k \notin active
  <2>1. ReleasedBy(k) = <<>>
    BY <1>5, Zenon DEF ReleasedBy, HeldBy
  <2>2. Ids(sent[k]) \o <<>> = Ids(sent[k])
    BY <1>1, IdsType
  <2>. QED  BY <1>2, <1>3, <1>5, <2>1, <2>2, Zenon
<1>. QED  BY <1>4, <1>5, Zenon

\* How the status moves: a poll may end a running partition, and so does the
\* worker's exit; only joining the worker closes it.
LEMMA StatusStep ==
    ASSUME IInv, [Next]_vars
    PROVE  /\ PollMessage => Status = "running" /\ Status' \in {"running", "ended"}
           /\ Join => Status = "ended" /\ Status' = "closed"
           /\ ~PollMessage /\ ~Join => \/ Status' = Status
                                       \/ Status = "running" /\ Status' = "ended"
<1> USE DEF Status, clock, consumer, shared, partition, requests, history
<1>1. WorkerInv
  BY Zenon DEF IInv
<1>2. CASE PollMessage
  <2>1. pc = "poll" /\ pc' = "check"
    BY <1>2 DEF PollMessage, Polled
  <2>2. Status = "running"
    BY <1>1, <2>1 DEF WorkerInv
  <2>3. Status' \in {"running", "ended"}
    BY <2>1, Zenon
  <2>4. ~Join
    BY <2>1, Zenon DEF Join
  <2>. QED  BY <1>2, <2>2, <2>3, <2>4, Zenon
<1>3. CASE Join
  <2>1. pc = "exited" /\ pc' = "joined"
    BY <1>3 DEF Join
  <2>2. Status = "ended" /\ Status' = "closed"
    BY <2>1, Zenon
  <2>3. ~PollMessage
    BY <2>1 DEF PollMessage, Polled
  <2>. QED  BY <1>3, <2>2, <2>3, Zenon
<1>4. CASE PollForced \/ PollPaused \/ PollEndOfPartition \/ PollTimedOut
           \/ PollError
  BY <1>1, <1>2, <1>4, ZenonT(30)
     DEF PollForced, PollPaused, PollEndOfPartition, PollTimedOut, PollError,
         Polled, WorkerInv, Join
<1>5. CASE Check
  BY <1>2, <1>3, <1>5, Zenon DEF Check
<1>6. CASE UNCHANGED has_finished /\ pc \notin {"joined", "exited"}
             /\ pc' \notin {"joined", "exited"}
  BY <1>2, <1>3, <1>6, Zenon
<1>7. CASE UNCHANGED <<has_finished, pc>>
  BY <1>2, <1>3, <1>7, Zenon
<1>. QED  BY <1>2, <1>3, <1>4, <1>5, <1>6, <1>7, Actions, ZenonT(30)
          DEF TakeStop, LoadStopTime, ApplyStopTime, ClearStopTime, stop,
              set_stop_time, destroy, Tick, Pause, Resume, Append_to_log, vars

\* A step that is neither a read nor the end of the destructor changes nothing
\* that MessageDelivery sees but the status.
LEMMA OtherStep ==
    ASSUME IInv, [Next]_vars, ~PollMessage, ~Join
    PROVE  /\ \A k \in Key : HeldBy(k)' = HeldBy(k)
           /\ UNCHANGED <<pos, sent>>
<1>1. filters \in [Key -> Filter] /\ active \subseteq Key
  BY Zenon DEF IInv, TypeOK
<1>2. CASE ApplyStopTime
  <2>1. \A k \in Key : filters'[k].buffered = filters[k].buffered
    BY <1>1, <1>2 DEF ApplyStopTime, SetStopTime, Filter
  <2>2. UNCHANGED <<active, pos, sent>>
    BY <1>2, Zenon DEF ApplyStopTime, consumer
  <2>. QED  BY <2>1, <2>2 DEF HeldBy
<1>3. CASE UNCHANGED <<filters, active, pos, sent>>
  BY <1>3, Zenon DEF HeldBy
<1>. QED  BY <1>2, <1>3, FilterSteps, Zenon

LEMMA InitDelivery == Init => Delivery!Init
<1> SUFFICES ASSUME Init  PROVE  Delivery!Init
  OBVIOUS
<1>1. \A k \in Key : filters[k].buffered = NoMessage
  BY DEF Init, NewFilter
<1>2. \A k \in Key : Ids(sent[k]) = <<>>
  BY DEF Init, Ids
<1>3. pos = 0 /\ pc = "check" /\ has_finished = FALSE
  BY DEF Init
<1>. QED  BY <1>1, <1>2, <1>3 DEF Delivery!Init

LEMMA StepDelivery ==
    ASSUME IInv, [Next]_vars
    PROVE  [Delivery!Next]_(Delivery!vars)
<1> DEFINE H == [k \in Key |-> IF k \in active /\ filters[k].buffered # NoMessage
                               THEN filters[k].buffered.id ELSE 0]
           D == [k \in Key |-> Ids(sent[k])]
<1>1. \A k \in Key : /\ H[k] = HeldBy(k) /\ H'[k] = HeldBy(k)'
                     /\ D[k] = Ids(sent[k]) /\ D'[k] = Ids(sent[k])'
  BY DEF HeldBy
<1>2. CASE PollMessage
  <2>1. Status = "running" /\ Status' \in {"running", "ended"}
    BY <1>2, StatusStep, Zenon
  <2>2. pos' = pos + 1
    BY <1>2, Zenon DEF PollMessage
  <2>3. ASSUME NEW k \in Key
        PROVE  \/ H'[k] = H[k] /\ D'[k] = D[k]
               \/ H'[k] = pos' /\ D'[k] = D[k]
               \/ /\ H'[k] = 0
                  /\ D'[k] = D[k] \o (IF H[k] = 0 THEN <<>> ELSE <<H[k]>>)
                                  \o <<pos'>>
               \/ /\ H'[k] = 0
                  /\ D'[k] = D[k] \o (IF H[k] = 0 THEN <<>> ELSE <<H[k]>>)
    <3>1. /\ H[k] = HeldBy(k) /\ H'[k] = HeldBy(k)'
          /\ D[k] = Ids(sent[k]) /\ D'[k] = Ids(sent[k])'
      BY <1>1, Zenon
    <3>2. ReleasedBy(k) = IF H[k] = 0 THEN <<>> ELSE <<H[k]>>
      BY <3>1, Zenon DEF ReleasedBy
    <3> HIDE DEF H, D
    <3>. QED  BY <1>2, <2>2, <3>1, <3>2, PollMessageKey, ZenonT(30)
  <2>4. Delivery!Fetch
    BY <2>1, <2>2, <2>3, Zenon
       DEF Delivery!Fetch, Delivery!Skipped, Delivery!KeptBack,
           Delivery!PassedOn, Delivery!OnlyReleased, Delivery!Released, Status
  <2>. QED  BY <2>4 DEF Delivery!Next
<1>3. CASE Join
  <2>1. Status = "ended" /\ Status' = "closed"
    BY <1>3, StatusStep, Zenon
  <2>2. pos' = pos
    BY <1>3, Zenon DEF Join, consumer
  <2>3. ASSUME NEW k \in Key
        PROVE  /\ H'[k] = 0
               /\ D'[k] = D[k] \o (IF H[k] = 0 THEN <<>> ELSE <<H[k]>>)
    BY <1>1, <1>3, JoinKey, ZenonT(40) DEF ReleasedBy
  <2>4. Delivery!Close
    BY <2>1, <2>2, <2>3, ZenonT(30)
       DEF Delivery!Close, Delivery!OnlyReleased, Delivery!Released, Status
  <2>. QED  BY <2>4 DEF Delivery!Next
<1>4. CASE ~PollMessage /\ ~Join
  <2>1. UNCHANGED <<H, D>>
    <3>1. /\ \A k \in Key : HeldBy(k)' = HeldBy(k)
          /\ sent' = sent
      BY <1>4, OtherStep
    <3>. QED  BY <3>1, Zenon DEF HeldBy
  <2>2. UNCHANGED pos
    BY <1>4, OtherStep
  <2>3. \/ Status' = Status
        \/ Status = "running" /\ Status' = "ended"
    BY <1>4, StatusStep
  <2>4. CASE Status' = Status
    BY <2>1, <2>2, <2>4, Zenon DEF Delivery!vars, Status
  <2>5. CASE Status = "running" /\ Status' = "ended"
    <3>1. Delivery!End
      BY <2>1, <2>2, <2>5, Zenon DEF Delivery!End, Status
    <3>. QED  BY <3>1 DEF Delivery!Next
  <2>. QED  BY <2>3, <2>4, <2>5, Zenon
<1>. QED  BY <1>2, <1>3, <1>4, Zenon

\* Whatever the owner, the broker, the clock and the filters do, and however
\* many there are, a partition reads each message once, passes it on at most
\* once and in order, keeps at most one back for each source and passes that
\* one on when it ends, and reads nothing once it has finished: it implements
\* MessageDelivery (process, pollForMessage, processMessage, the destructors).
THEOREM ImplementsDelivery == Spec => DeliversMessages
<1>1. IInv /\ [Next]_vars => [Delivery!Next]_(Delivery!vars)
  BY StepDelivery
<1>. QED  BY <1>1, InitDelivery, Invariance, PTL
          DEF Spec, DeliversMessages, Delivery!Spec
=============================================================================
