---------------------------- MODULE SourceFilter ----------------------------
(***************************************************************************)
(* One Stream::SourceFilter from construction to destruction.  The owner   *)
(* (a Partition, on its worker thread) calls filter_message for every      *)
(* message of the partition, set_stop_time whenever the stop time moves,   *)
(* and finally destroys it.                                                *)
(***************************************************************************)
EXTENDS SourceFilterOps

CONSTANTS
    FilterSource,  \* the source this filter was created for
    Time,          \* the start and stop times that are tried
    Timestamp,     \* the flatbuffer timestamps that are tried
    MaxMessages    \* bound: messages offered to the filter

ASSUME FilterAssumption ==
    /\ FilterSource \in Source
    /\ Time \subseteq Nat
    /\ Timestamp \subseteq Nat \ {0}  \* extractPacketInfo rejects zero
    /\ MaxMessages \in Nat

VARIABLES
    filter,   \* the filter
    sent,     \* the messages passed to the writer, in order
    alive,    \* the destructor has not run
    inbox,    \* history: the messages offered to the filter
    offered   \* history: one of them ought to leave a trace in the file

vars == <<filter, sent, alive, inbox, offered>>

TypeOK ==
    /\ filter \in Filter
    /\ sent \in Seq(Forwarded)
    /\ alive \in BOOLEAN
    /\ inbox \in Seq(Message)
    /\ offered \in BOOLEAN

Init ==
    /\ \E start, stop \in Time, repeated \in BOOLEAN :
           filter = NewFilter(FilterSource, start, stop, repeated)
    /\ sent = <<>>
    /\ alive = TRUE
    /\ inbox = <<>>
    /\ offered = FALSE

\* A valid message of this source that is not past the stop time, offered
\* before the filter has finished.
Recordable(m) ==
    /\ m.src = filter.src
    /\ m.valid
    /\ ~filter.finished
    /\ IsBeforeStart(filter, m) \/ ~IsAfterStop(filter, m)

filter_message(m) ==
    /\ alive
    /\ filter' = FilterMessage(filter, m)
    /\ sent' = sent \o Forwarding(filter, m)
    /\ inbox' = Append(inbox, m)
    /\ offered' = (offered \/ Recordable(m))
    /\ UNCHANGED alive

set_stop_time(stop) ==
    /\ alive
    /\ filter' = SetStopTime(filter, stop)
    /\ UNCHANGED <<sent, alive, inbox, offered>>

destroy ==
    /\ alive
    /\ filter' = ClearBuffered(filter)
    /\ sent' = sent \o ForwardBuffered(filter)
    /\ alive' = FALSE
    /\ UNCHANGED <<inbox, offered>>

Deliver ==
    /\ Len(inbox) < MaxMessages
    /\ \E src \in Source, ts \in Timestamp, valid \in BOOLEAN :
           filter_message([id |-> Len(inbox) + 1, src |-> src, ts |-> ts,
                           valid |-> valid])

Next ==
    \/ Deliver
    \/ \E stop \in Time : set_stop_time(stop)
    \/ destroy

Spec == Init /\ [][Next]_vars

-----------------------------------------------------------------------------
\* The writer receives the messages of a source in the order the partition
\* delivered them and each at most once, the buffered message included, for
\* any order of timestamps and however often the stop time moves
\* (forward_buffered_message, forward_message).
ForwardedInOrder ==
    \A i, j \in DOMAIN sent : i < j => sent[i].msg.id < sent[j].msg.id

\* "the _writer module should always be able to record at least the data
\* from a single message" (SourceFilter.h): once the filter is gone, a source
\* that delivered anything usable has passed a message to the writer.
AtLeastOneMessage == ~alive /\ offered => sent # <<>>

\* Once has_finished() is true nothing is forwarded any more, not even by a
\* later, larger stop time or by the destructor (_is_finished).
FinishedIsFinal == [][filter.finished => filter'.finished /\ sent' = sent]_vars

LastSentId == IF sent = <<>> THEN 0 ELSE sent[Len(sent)].msg.id

\* The buffered message is the newest one, by time, of all messages from
\* before the start time that came in after the last one forwarded: the value
\* the log of the source should start with (filter_message, the branch before
\* the start time).
BufferedIsNewest ==
    HasBuffered(filter) =>
        \A k \in LastSentId + 1 .. Len(inbox) :
            LET m == inbox[k]
            IN  m.src = filter.src /\ m.valid /\ IsBeforeStart(filter, m) =>
                    ToTimepoint(m.ts) <= ToTimepoint(filter.buffered.ts)
=============================================================================
