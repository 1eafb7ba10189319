------------------------- MODULE PartitionFilterOps -------------------------
(***************************************************************************)
(* Stream::PartitionFilter as operators: its state and the decision it     *)
(* takes for the status of every poll of the Kafka consumer.  Times are    *)
(* natural numbers up to MaxTime, which stands for time_point::max().      *)
(***************************************************************************)
EXTENDS Naturals

CONSTANTS
    MaxTime,    \* time_point::max()
    Leeway,     \* _stop_leeway: how late a message may reach the broker
    TimeLimit   \* _time_limit: how long errors are tolerated

ASSUME PartitionFilterAssumption ==
    /\ MaxTime \in Nat
    /\ Leeway \in Nat
    /\ TimeLimit \in Nat
    /\ 2 * Leeway <= MaxTime

Instant == 0 .. MaxTime

PartitionState == {"DEFAULT", "END_OF_PARTITION", "ERROR", "TIMEOUT"}

PartitionFilterRecord ==
    [state : PartitionState, occurrence : Instant, stop : Instant,
     atEnd : BOOLEAN]

\* Mutant: the stop time is used as it is.
SanitiseStopTime_Identity(stop) == stop

\* Keeps stop + Leeway representable (the constructor of PartitionFilter and
\* Partition::sanitise_stop_time).
SanitiseStopTime(stop) ==
    IF MaxTime - stop <= Leeway THEN stop - Leeway ELSE stop

NewPartitionFilter(stop) ==
    [state |-> "DEFAULT", occurrence |-> MaxTime,
     stop |-> SanitiseStopTime(stop), atEnd |-> FALSE]

\* Mutant: every failure counts as the first.
UpdateStatusOccurrenceTime_Always(p, state, now) ==
    [p EXCEPT !.state = state, !.occurrence = now]

UpdateStatusOccurrenceTime(p, state, now) ==
    IF p.state = state THEN p
    ELSE [p EXCEPT !.state = state, !.occurrence = now]

\* What the comparison of a time with the sum of two others may yield: the sum
\* of time_points is signed, and where it overflows nothing is defined.
IsAfter(time, base, extra) ==
    IF base + extra > MaxTime THEN BOOLEAN ELSE {time > base + extra}

HasExceededTimeLimit(p, now) == IsAfter(now, p.occurrence, TimeLimit)

\* Mutant: any state counts.
HasTopicTimedOut_AnyState(p, now) == HasExceededTimeLimit(p, now)

\* The sum is formed in every state, the first time with time_point::max().
HasTopicTimedOut(p, now) ==
    {exceeded /\ p.state = "TIMEOUT" : exceeded \in HasExceededTimeLimit(p, now)}

\* Mutant: the end of the partition is not remembered.
AfterPoll_EndForgotten(p, status, now) ==
    CASE status = "Message" ->
           [p EXCEPT !.atEnd = FALSE, !.state = "DEFAULT"]
      [] status = "EndOfPartition" ->
           [p EXCEPT !.state = "END_OF_PARTITION"]
      [] status = "TimedOut" ->
           UpdateStatusOccurrenceTime(p, "TIMEOUT", now)
      [] status = "Error" ->
           UpdateStatusOccurrenceTime(p, "ERROR", now)

\* The state that shouldStopPartition(status) leaves behind.
AfterPoll(p, status, now) ==
    CASE status = "Message" ->
           [p EXCEPT !.atEnd = FALSE, !.state = "DEFAULT"]
      [] status = "EndOfPartition" ->
           [p EXCEPT !.atEnd = TRUE, !.state = "END_OF_PARTITION"]
      [] status = "TimedOut" ->
           UpdateStatusOccurrenceTime(p, "TIMEOUT", now)
      [] status = "Error" ->
           UpdateStatusOccurrenceTime(p, "ERROR", now)

\* What shouldStopPartition(status) may return.
ShouldStop(p, status, now) ==
    CASE status = "TimedOut" ->
           IF p.atEnd THEN IsAfter(now, p.stop, Leeway) ELSE {FALSE}
      [] status = "Error" -> HasExceededTimeLimit(AfterPoll(p, status, now), now)
      [] OTHER -> {FALSE}
=============================================================================
