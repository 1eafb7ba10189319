--------------------------- MODULE SourceFilterOps ---------------------------
(***************************************************************************)
(* Stream::SourceFilter as operators on a filter record: the state of one  *)
(* filter and what each member function does to it.  The state machine of  *)
(* a single filter (SourceFilter) and the partition that owns several of   *)
(* them (Partition) are both built from these operators.                   *)
(*                                                                         *)
(* A message is abstracted to the fields the filter looks at: id says      *)
(* which message it is (its offset), src stands for the source hash, ts is *)
(* the flatbuffer timestamp in nanoseconds, valid is isValid().  The       *)
(* counters of the metrics are left out, apart from those of the received  *)
(* and the discarded messages.                                             *)
(***************************************************************************)
EXTENDS Naturals, Sequences

CONSTANTS
    Source,       \* the source hashes
    NoMessage,    \* a default-constructed FlatbufferMessage, which is not valid
    NsPerMicro    \* nanoseconds per microsecond (1000 in the code)

Message == [id : Nat, src : Source, ts : Nat, valid : BOOLEAN]

ASSUME OpsAssumption ==
    /\ NsPerMicro \in Nat \ {0}
    /\ NoMessage \notin Message

Filter ==
    [src : Source, start : Nat, stop : Nat, allowRepeated : BOOLEAN,
     lastSeen : Nat, finished : BOOLEAN,
     buffered : Message \cup {NoMessage},
     received : Nat, discarded : Nat]

NewFilter(src, start, stop, allowRepeated) ==
    [src |-> src, start |-> start, stop |-> stop,
     allowRepeated |-> allowRepeated, lastSeen |-> 0, finished |-> FALSE,
     buffered |-> NoMessage, received |-> 0, discarded |-> 0]

\* duration_cast from nanoseconds to microseconds truncates.
ToTimepoint(ts) == ts \div NsPerMicro

-----------------------------------------------------------------------------
\* What forward_message hands to the writer.
Forward(m, isBuffered) == [msg |-> m, isBuffered |-> isBuffered]

Forwarded == [msg : Message, isBuffered : BOOLEAN]

\* Only valid messages are ever buffered: _buffered_message.isValid().
HasBuffered(f) == f.buffered # NoMessage

ForwardBuffered(f) ==
    IF HasBuffered(f) THEN <<Forward(f.buffered, TRUE)>> ELSE <<>>

ClearBuffered(f) == [f EXCEPT !.buffered = NoMessage]

SetStopTime(f, stop) == [f EXCEPT !.stop = stop]

-----------------------------------------------------------------------------
\* The conditions of filter_message.
IsRepeated(f, m) == m.ts = f.lastSeen

\* Mutant: a finished filter takes messages.
IsDropped_NotWhenFinished(f, m) ==
    ~m.valid \/ (IsRepeated(f, m) /\ ~f.allowRepeated)

IsDropped(f, m) ==
    \/ f.finished
    \/ ~m.valid
    \/ IsRepeated(f, m) /\ ~f.allowRepeated

IsBeforeStart(f, m) == ToTimepoint(m.ts) < f.start

\* Mutant: the stop time itself is beyond the window.
IsAfterStop_Inclusive(f, m) == ToTimepoint(m.ts) >= f.stop

IsAfterStop(f, m) == ToTimepoint(m.ts) > f.stop

\* Mutant: an older message replaces the buffered one.
IsOlderThanBuffered_Never(f, m) == FALSE

IsOlderThanBuffered(f, m) ==
    HasBuffered(f) /\ ToTimepoint(m.ts) < ToTimepoint(f.buffered.ts)

\* Which of its ways filter_message takes.
Outcome(f, m) ==
    IF m.src # f.src THEN "ignored"
    ELSE IF IsDropped(f, m) THEN "dropped"
    ELSE IF IsBeforeStart(f, m)
         THEN IF IsOlderThanBuffered(f, m) THEN "outdated" ELSE "buffered"
    ELSE IF IsAfterStop(f, m) THEN "finished" ELSE "passed"

\* The filter that filter_message(m) leaves behind.  A message that replaces
\* the buffered one, or is beyond the stop time, discards without counting.
FilterMessage(f, m) ==
    LET o == Outcome(f, m)
    IN  IF o = "ignored" THEN f
        ELSE [f EXCEPT
                !.received = @ + 1,
                !.discarded = IF o \in {"dropped", "outdated"} THEN @ + 1 ELSE @,
                !.lastSeen = IF o = "dropped" THEN @ ELSE m.ts,
                !.finished = IF o = "finished" THEN TRUE ELSE @,
                !.buffered = CASE o = "buffered" -> m
                               [] o \in {"finished", "passed"} -> NoMessage
                               [] OTHER -> @]

\* Mutant: the message overtakes the buffered one.
Forwarding_NewestFirst(f, m) ==
    IF Outcome(f, m) = "passed"
      THEN <<Forward(m, FALSE)>> \o ForwardBuffered(f) ELSE <<>>

\* Mutant: a message beyond the stop time drops the buffered one.
Forwarding_FinishedDropsBuffered(f, m) ==
    IF Outcome(f, m) = "passed"
      THEN Append(ForwardBuffered(f), Forward(m, FALSE)) ELSE <<>>

\* The messages that filter_message(m) passes to the writer, in order.
Forwarding(f, m) ==
    CASE Outcome(f, m) = "finished" -> ForwardBuffered(f)
      [] Outcome(f, m) = "passed" ->
           Append(ForwardBuffered(f), Forward(m, FALSE))
      [] OTHER -> <<>>
=============================================================================
