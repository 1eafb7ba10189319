------------------------- MODULE SourceFilterProofs -------------------------
(***************************************************************************)
(* What SourceFilter promises for every set of sources, every start and    *)
(* stop time and any number of messages in any order of timestamps.        *)
(***************************************************************************)
EXTENDS SourceFilter, TLAPS

-----------------------------------------------------------------------------
\* What the member functions of SourceFilter do to a filter and hand to the
\* writer, for every filter and every message.

\* What forward_buffered_message hands to the writer.
LEMMA ForwardBufferedType ==
    ASSUME NEW f \in Filter
    PROVE  /\ HasBuffered(f) =>
                  /\ f.buffered \in Message
                  /\ ForwardBuffered(f) = <<Forward(f.buffered, TRUE)>>
           /\ ~HasBuffered(f) => ForwardBuffered(f) = <<>>
           /\ ForwardBuffered(f) \in Seq(Forwarded)
<1> USE DEF HasBuffered, Forward
<1>1. HasBuffered(f) => f.buffered \in Message
  BY DEF Filter
<1>2. HasBuffered(f) => ForwardBuffered(f) = <<Forward(f.buffered, TRUE)>>
  BY Zenon DEF ForwardBuffered
<1>3. ~HasBuffered(f) => ForwardBuffered(f) = <<>>
  BY DEF ForwardBuffered
<1>4. ForwardBuffered(f) \in Seq(Forwarded)
  <2>1. CASE HasBuffered(f)
    <3>1. Forward(f.buffered, TRUE) \in Forwarded
      BY <1>1, <2>1 DEF Forwarded
    <3>2. <<Forward(f.buffered, TRUE)>> \in Seq(Forwarded)
      BY <3>1
    <3>. QED  BY <1>2, <2>1, <3>2, Zenon
  <2>2. CASE ~HasBuffered(f)
    <3>1. ForwardBuffered(f) = <<>>
      BY <1>3, <2>2
    <3>2. <<>> \in Seq(Forwarded)
      OBVIOUS
    <3>. QED  BY <3>1, <3>2
  <2>. QED  BY <2>1, <2>2
<1>. QED  BY <1>1, <1>2, <1>3, <1>4

\* The conditions under which filter_message ends in each of its ways.
LEMMA OutcomeCases ==
    ASSUME NEW f \in Filter, NEW m \in Message
    PROVE  LET o == Outcome(f, m)
           IN  /\ o \in {"ignored", "dropped", "outdated", "buffered",
                         "finished", "passed"}
               /\ o = "ignored" => m.src # f.src
               /\ o = "dropped" => IsDropped(f, m)
               /\ o = "outdated" => /\ HasBuffered(f) /\ IsBeforeStart(f, m)
                                   /\ IsOlderThanBuffered(f, m)
               /\ o = "buffered" =>
                      /\ m.src = f.src /\ m.valid
                      /\ IsBeforeStart(f, m)
                      /\ ~IsOlderThanBuffered(f, m)
               /\ o = "passed" => ~IsBeforeStart(f, m) /\ ~IsAfterStop(f, m)
               /\ o = "finished" => ~IsBeforeStart(f, m) /\ IsAfterStop(f, m)
               /\ o \notin {"ignored", "dropped"} => ~f.finished
<1> DEFINE o == Outcome(f, m)
<1>1. CASE m.src # f.src
  BY <1>1 DEF Outcome
<1>2. CASE m.src = f.src /\ IsDropped(f, m)
  BY <1>2 DEF Outcome
<1>3. CASE m.src = f.src /\ ~IsDropped(f, m)
  <2>1. ~f.finished /\ m.valid
    BY <1>3 DEF IsDropped
  <2>2. CASE IsBeforeStart(f, m)
    BY <1>3, <2>1, <2>2 DEF Outcome, IsOlderThanBuffered
  <2>3. CASE ~IsBeforeStart(f, m)
    BY <1>3, <2>1, <2>3 DEF Outcome
  <2>. QED  BY <2>2, <2>3
<1>. QED  BY <1>1, <1>2, <1>3

\* The filter that filter_message leaves behind, and what it forwards.
LEMMA FilterMessageEffect ==
    ASSUME NEW f \in Filter, NEW m \in Message
    PROVE  LET o == Outcome(f, m)
               g == FilterMessage(f, m)
           IN  /\ g \in Filter
               /\ Forwarding(f, m) \in Seq(Forwarded)
               /\ o \in {"ignored", "dropped"} =>
                      /\ g.finished = f.finished
                      /\ g.lastSeen = f.lastSeen
                      /\ g.buffered = f.buffered
                      /\ Forwarding(f, m) = <<>>
               /\ o = "outdated" =>
                      /\ g.finished = f.finished
                      /\ g.buffered = f.buffered
                      /\ Forwarding(f, m) = <<>>
               /\ o = "buffered" =>
                      /\ g.finished = f.finished
                      /\ g.buffered = m
                      /\ Forwarding(f, m) = <<>>
               /\ o = "finished" =>
                      /\ g.finished = TRUE
                      /\ g.buffered = NoMessage
                      /\ Forwarding(f, m) = ForwardBuffered(f)
               /\ o = "passed" =>
                      /\ g.finished = f.finished
                      /\ g.buffered = NoMessage
                      /\ Forwarding(f, m) =
                             Append(ForwardBuffered(f), Forward(m, FALSE))
<1> DEFINE o == Outcome(f, m)
           g == FilterMessage(f, m)
<1>1. o \in {"ignored", "dropped", "outdated", "buffered", "finished", "passed"}
  BY OutcomeCases
<1>2. <<>> \in Seq(Forwarded)
  OBVIOUS
<1>3. ForwardBuffered(f) \in Seq(Forwarded)
  BY ForwardBufferedType, Zenon
<1>0. /\ f.received \in Nat /\ f.received + 1 \in Nat
      /\ f.discarded \in Nat /\ f.discarded + 1 \in Nat
      /\ f.lastSeen \in Nat /\ m.ts \in Nat
      /\ f.finished \in BOOLEAN
      /\ f.buffered \in Message \cup {NoMessage}
  BY DEF Filter, Message
<1>4. Append(ForwardBuffered(f), Forward(m, FALSE)) \in Seq(Forwarded)
  <2>1. Forward(m, FALSE) \in Forwarded
    BY DEF Forward, Forwarded
  <2>. QED  BY <1>3, <2>1 DEF Forward
<1>5. CASE o = "ignored"
  <2>1. g = f /\ Forwarding(f, m) = <<>>
    BY <1>5 DEF FilterMessage, Forwarding
  <2>. QED  BY <1>2, <1>5, <2>1
<1>6. CASE o = "dropped"
  <2>1. g = [f EXCEPT !.received = f.received + 1,
                      !.discarded = f.discarded + 1,
                      !.lastSeen = f.lastSeen,
                      !.finished = f.finished,
                      !.buffered = f.buffered]
    BY <1>6 DEF FilterMessage
  <2>2. Forwarding(f, m) = <<>>
    BY <1>6 DEF Forwarding
  <2>3. g \in Filter
    BY <1>0, <2>1, Zenon DEF Filter
  <2>4. /\ g.finished = f.finished
        /\ g.lastSeen = f.lastSeen
        /\ g.buffered = f.buffered
    BY <2>1 DEF Filter
  <2>. QED  BY <1>2, <1>6, <2>2, <2>3, <2>4
<1>7. CASE o = "outdated"
  <2>1. g = [f EXCEPT !.received = f.received + 1,
                      !.discarded = f.discarded + 1,
                      !.lastSeen = m.ts,
                      !.finished = f.finished,
                      !.buffered = f.buffered]
    BY <1>7 DEF FilterMessage
  <2>2. Forwarding(f, m) = <<>>
    BY <1>7 DEF Forwarding
  <2>3. g \in Filter
    BY <1>0, <2>1, Zenon DEF Filter
  <2>4. g.finished = f.finished /\ g.buffered = f.buffered
    BY <2>1 DEF Filter
  <2>. QED  BY <1>2, <1>7, <2>2, <2>3, <2>4
<1>8. CASE o = "buffered"
  <2>1. g = [f EXCEPT !.received = f.received + 1,
                      !.discarded = f.discarded,
                      !.lastSeen = m.ts,
                      !.finished = f.finished,
                      !.buffered = m]
    BY <1>8 DEF FilterMessage
  <2>2. Forwarding(f, m) = <<>>
    BY <1>8 DEF Forwarding
  <2>3. g \in Filter
    BY <1>0, <2>1, Zenon DEF Filter
  <2>4. g.finished = f.finished /\ g.buffered = m
    BY <2>1 DEF Filter
  <2>. QED  BY <1>2, <1>8, <2>2, <2>3, <2>4
<1>9. CASE o = "finished"
  <2>1. g = [f EXCEPT !.received = f.received + 1,
                      !.discarded = f.discarded,
                      !.lastSeen = m.ts,
                      !.finished = TRUE,
                      !.buffered = NoMessage]
    BY <1>9 DEF FilterMessage
  <2>2. Forwarding(f, m) = ForwardBuffered(f)
    BY <1>9 DEF Forwarding
  <2>3. g \in Filter
    BY <1>0, <2>1, Zenon DEF Filter
  <2>4. g.finished = TRUE /\ g.buffered = NoMessage
    BY <2>1 DEF Filter
  <2>. QED  BY <1>3, <1>9, <2>2, <2>3, <2>4
<1>10. CASE o = "passed"
  <2>1. g = [f EXCEPT !.received = f.received + 1,
                      !.discarded = f.discarded,
                      !.lastSeen = m.ts,
                      !.finished = f.finished,
                      !.buffered = NoMessage]
    BY <1>10 DEF FilterMessage
  <2>2. Forwarding(f, m) = Append(ForwardBuffered(f), Forward(m, FALSE))
    BY <1>10 DEF Forwarding, Forward
  <2>3. g \in Filter
    BY <1>0, <2>1, Zenon DEF Filter
  <2>4. g.finished = f.finished /\ g.buffered = NoMessage
    BY <2>1 DEF Filter
  <2>. QED  BY <1>4, <1>10, <2>2, <2>3, <2>4 DEF Forward
<1>. QED  BY <1>1, <1>5, <1>6, <1>7, <1>8, <1>9, <1>10, Zenon

\* What filter_message never changes, and the timestamp it remembers.
LEMMA FilterMessageKeeps ==
    ASSUME NEW f \in Filter, NEW m \in Message
    PROVE  LET o == Outcome(f, m)
               g == FilterMessage(f, m)
           IN  /\ g.src = f.src /\ g.start = f.start /\ g.stop = f.stop
               /\ g.allowRepeated = f.allowRepeated
               /\ g.lastSeen = IF o \in {"ignored", "dropped"} THEN f.lastSeen
                                                             ELSE m.ts
BY DEF FilterMessage, Filter

-----------------------------------------------------------------------------
\* Ordering: what was sent is in order of receipt, and the buffered message
\* was received after all of it.
InOrder(s) == \A i, j \in DOMAIN s : i < j => s[i].msg.id < s[j].msg.id

AllBelow(s, n) == \A i \in DOMAIN s : s[i].msg.id < n

SentInOrder ==
    /\ InOrder(sent)
    /\ AllBelow(sent, Len(inbox) + 1)
    /\ HasBuffered(filter) =>
           /\ filter.buffered.id < Len(inbox) + 1
           /\ AllBelow(sent, filter.buffered.id)

HasTrace == sent # <<>> \/ HasBuffered(filter)

\* A filter that accepted a message and has not finished holds a trace of it.
TraceKept ==
    /\ filter.finished \/ ~alive => ~HasBuffered(filter)
    /\ offered => HasTrace
    /\ ~filter.finished /\ filter.lastSeen # 0 => HasTrace

IInv == TypeOK /\ SentInOrder /\ TraceKept

-----------------------------------------------------------------------------
\* A message received after all the others may be forwarded after them.
LEMMA AppendInOrder ==
    ASSUME NEW s \in Seq(Forwarded), NEW x \in Forwarded,
           InOrder(s), AllBelow(s, x.msg.id), NEW n \in Nat, x.msg.id < n
    PROVE  /\ Append(s, x) \in Seq(Forwarded)
           /\ Append(s, x) # <<>>
           /\ InOrder(Append(s, x))
           /\ AllBelow(Append(s, x), n)
<1>1. Append(s, x) \in Seq(Forwarded) /\ Append(s, x) # <<>>
  OBVIOUS
<1>2. /\ Len(Append(s, x)) = Len(s) + 1
      /\ DOMAIN Append(s, x) = 1 .. Len(s) + 1
      /\ DOMAIN s = 1 .. Len(s)
      /\ Len(s) \in Nat
      /\ \A i \in 1 .. Len(s) : Append(s, x)[i] = s[i]
      /\ Append(s, x)[Len(s) + 1] = x
  OBVIOUS
<1>3. /\ x.msg.id \in Nat
      /\ \A i \in 1 .. Len(s) : s[i].msg.id \in Nat
  <2>1. ASSUME NEW y \in Forwarded  PROVE  y.msg.id \in Nat
    <3>1. y.msg \in Message
      BY DEF Forwarded
    <3>. QED  BY <3>1 DEF Message
  <2>2. \A i \in 1 .. Len(s) : s[i] \in Forwarded
    OBVIOUS
  <2>. QED  BY <2>1, <2>2
<1>4. InOrder(Append(s, x))
  BY <1>2, <1>3 DEF InOrder, AllBelow
<1>5. AllBelow(Append(s, x), n)
  BY <1>2, <1>3 DEF AllBelow
<1>. QED  BY <1>1, <1>4, <1>5

\* forward_buffered_message keeps the order and loses no trace of the source.
LEMMA FlushInOrder ==
    ASSUME NEW f \in Filter, NEW s \in Seq(Forwarded), NEW n \in Nat,
           InOrder(s), AllBelow(s, n),
           HasBuffered(f) => f.buffered.id < n /\ AllBelow(s, f.buffered.id)
    PROVE  /\ s \o ForwardBuffered(f) \in Seq(Forwarded)
           /\ InOrder(s \o ForwardBuffered(f))
           /\ AllBelow(s \o ForwardBuffered(f), n)
           /\ s # <<>> \/ HasBuffered(f) => s \o ForwardBuffered(f) # <<>>
<1>1. CASE HasBuffered(f)
  <2> DEFINE x == Forward(f.buffered, TRUE)
  <2>1. f.buffered \in Message /\ ForwardBuffered(f) = <<x>>
    BY <1>1, ForwardBufferedType, Zenon
  <2>2. x \in Forwarded /\ x.msg = f.buffered
    BY <2>1 DEF Forward, Forwarded
  <2>3. AllBelow(s, x.msg.id) /\ x.msg.id < n
    BY <1>1, <2>2, Zenon
  <2> HIDE DEF x
  <2>4. /\ Append(s, x) \in Seq(Forwarded)
        /\ Append(s, x) # <<>>
        /\ InOrder(Append(s, x))
        /\ AllBelow(Append(s, x), n)
    BY <2>2, <2>3, AppendInOrder
  <2>5. s \o ForwardBuffered(f) = Append(s, x)
    BY <2>1, <2>2
  <2>. QED  BY <2>4, <2>5
<1>2. CASE ~HasBuffered(f)
  <2>1. ForwardBuffered(f) = <<>>
    BY <1>2, ForwardBufferedType, Zenon
  <2>2. s \o ForwardBuffered(f) = s
    BY <2>1
  <2>. QED  BY <1>2, <2>2
<1>. QED  BY <1>1, <1>2

-----------------------------------------------------------------------------
LEMMA InitIInv == Init => IInv
<1> SUFFICES ASSUME Init  PROVE  IInv
  OBVIOUS
<1>1. PICK start \in Time, stop \in Time, repeated \in BOOLEAN :
          filter = NewFilter(FilterSource, start, stop, repeated)
  BY DEF Init
<1>2. start \in Nat /\ stop \in Nat /\ FilterSource \in Source
  BY FilterAssumption
<1>3. /\ filter \in Filter
      /\ filter.lastSeen = 0
      /\ ~HasBuffered(filter)
  BY <1>1, <1>2 DEF NewFilter, Filter, HasBuffered
<1>4. TypeOK
  <2>1. sent \in Seq(Forwarded) /\ inbox \in Seq(Message)
    BY DEF Init
  <2>. QED  BY <1>3, <2>1, Zenon DEF Init, TypeOK
<1>5. SentInOrder
  BY <1>3 DEF Init, SentInOrder, InOrder, AllBelow
<1>6. TraceKept
  BY <1>3, Zenon DEF Init, TraceKept
<1>. QED  BY <1>4, <1>5, <1>6 DEF IInv

\* filter_message keeps the invariant: one case per way it can end.
LEMMA FilterMessageIInv ==
    ASSUME IInv, NEW m \in Message, m.id = Len(inbox) + 1, m.ts # 0,
           filter_message(m)
    PROVE  IInv'
<1> DEFINE o == Outcome(filter, m)
           n == Len(inbox) + 1
<1>1. /\ filter \in Filter
      /\ sent \in Seq(Forwarded)
      /\ inbox \in Seq(Message)
      /\ offered \in BOOLEAN
  BY DEF IInv, TypeOK
<1>2. /\ filter' = FilterMessage(filter, m)
      /\ sent' = sent \o Forwarding(filter, m)
      /\ inbox' = Append(inbox, m)
      /\ offered' = (offered \/ Recordable(m))
      /\ alive' = alive /\ alive = TRUE
  BY DEF filter_message, IInv, TypeOK
<1>3. filter' \in Filter /\ Forwarding(filter, m) \in Seq(Forwarded)
  BY <1>1, <1>2, FilterMessageEffect, Zenon
<1>4. TypeOK'
  <2>1. sent' \in Seq(Forwarded)
    BY <1>1, <1>2, <1>3
  <2>2. inbox' \in Seq(Message)
    BY <1>1, <1>2
  <2>3. offered' \in BOOLEAN /\ alive' \in BOOLEAN
    BY <1>1, <1>2 DEF Recordable
  <2>. QED  BY <1>3, <2>1, <2>2, <2>3 DEF TypeOK
<1>5. n \in Nat /\ Len(inbox') + 1 = n + 1 /\ m.id = n
  BY <1>1, <1>2
<1>6. AllBelow(sent, n) /\ AllBelow(sent, n + 1)
  <2>1. AllBelow(sent, n)
    BY DEF IInv, SentInOrder
  <2>2. \A i \in DOMAIN sent : sent[i].msg.id \in Nat
    <3>1. \A i \in DOMAIN sent : sent[i] \in Forwarded
      BY <1>1
    <3>2. \A i \in DOMAIN sent : sent[i].msg \in Message
      BY <3>1 DEF Forwarded
    <3>. QED  BY <3>2 DEF Message
  <2>. QED  BY <1>5, <2>1, <2>2 DEF AllBelow
<1>7. HasBuffered(filter) => /\ filter.buffered.id < n
                             /\ filter.buffered.id < n + 1
                             /\ AllBelow(sent, filter.buffered.id)
  <2>1. HasBuffered(filter) => filter.buffered.id \in Nat
    <3>1. HasBuffered(filter) => filter.buffered \in Message
      BY <1>1, ForwardBufferedType, Zenon
    <3>. QED  BY <3>1 DEF Message
  <2>. QED  BY <1>5, <2>1 DEF IInv, SentInOrder
<1>8. InOrder(sent)
  BY DEF IInv, SentInOrder
<1>9. CASE o \in {"ignored", "dropped", "outdated"}
  <2>1. /\ filter'.finished = filter.finished
        /\ filter'.buffered = filter.buffered
        /\ Forwarding(filter, m) = <<>>
    BY <1>1, <1>2, <1>9, FilterMessageEffect, ZenonT(30)
  <2>2. sent' = sent
    BY <1>1, <1>2, <2>1
  <2>3. HasBuffered(filter)' = HasBuffered(filter)
    BY <2>1 DEF HasBuffered
  <2>4. SentInOrder'
    BY <1>5, <1>6, <1>7, <1>8, <2>1, <2>2, <2>3 DEF SentInOrder
  <2>5. HasTrace' = HasTrace
    BY <2>2, <2>3 DEF HasTrace
  <2>6. ~filter.finished /\ filter'.lastSeen # 0 => HasTrace
    <3>1. CASE o = "outdated"
      BY <1>1, <3>1, OutcomeCases DEF HasTrace
    <3>2. CASE o \in {"ignored", "dropped"}
      <4>1. filter'.lastSeen = filter.lastSeen
        BY <1>1, <1>2, <3>2, FilterMessageEffect, Zenon
      <4>. QED  BY <4>1 DEF IInv, TraceKept
    <3>. QED  BY <1>9, <3>1, <3>2
  <2>7. Recordable(m) => HasTrace
    <3>1. CASE o = "ignored"
      BY <1>1, <3>1, OutcomeCases DEF Recordable
    <3>2. CASE o = "dropped"
      <4>1. IsDropped(filter, m)
        BY <1>1, <3>2, OutcomeCases
      <4>2. Recordable(m) => ~filter.finished /\ filter.lastSeen = m.ts
        BY <4>1 DEF IsDropped, IsRepeated, Recordable
      <4>. QED  BY <4>2 DEF IInv, TraceKept
    <3>3. CASE o = "outdated"
      BY <1>1, <3>3, OutcomeCases DEF HasTrace
    <3>. QED  BY <1>9, <3>1, <3>2, <3>3
  <2>8. TraceKept'
    <3>1. TraceKept
      BY DEF IInv
    <3>. QED  BY <1>2, <2>1, <2>3, <2>5, <2>6, <2>7, <3>1, Zenon DEF TraceKept
  <2>. QED  BY <1>4, <2>4, <2>8 DEF IInv
<1>10. CASE o = "buffered"
  <2>1. /\ filter'.finished = filter.finished
        /\ filter'.buffered = m
        /\ Forwarding(filter, m) = <<>>
    BY <1>1, <1>2, <1>10, FilterMessageEffect, ZenonT(30)
  <2>1a. ~filter.finished
    BY <1>1, <1>10, OutcomeCases
  <2>2. sent' = sent
    BY <1>1, <1>2, <2>1
  <2>3. HasBuffered(filter)'
    BY <2>1, OpsAssumption DEF HasBuffered
  <2>4. SentInOrder'
    BY <1>5, <1>6, <1>8, <2>1, <2>2, <2>3 DEF SentInOrder
  <2>5. TraceKept'
    BY <1>2, <2>1, <2>3, <2>1a, Zenon DEF TraceKept, HasTrace
  <2>. QED  BY <1>4, <2>4, <2>5 DEF IInv
<1> DEFINE flushed == sent \o ForwardBuffered(filter)
<1>11. /\ flushed \in Seq(Forwarded)
       /\ InOrder(flushed)
       /\ AllBelow(flushed, n)
       /\ HasTrace => flushed # <<>>
  BY <1>1, <1>5, <1>6, <1>7, <1>8, FlushInOrder DEF HasTrace
<1>12. /\ AllBelow(flushed, n + 1)
  BY <1>1, <1>5, <1>6, <1>7, <1>8, FlushInOrder
<1>13. CASE o = "finished"
  <2>1. /\ filter'.finished = TRUE
        /\ filter'.buffered = NoMessage
        /\ sent' = flushed
    BY <1>1, <1>2, <1>13, FilterMessageEffect, Zenon
  <2>2. ~HasBuffered(filter)'
    BY <2>1 DEF HasBuffered
  <2>3. ~Recordable(m)
    BY <1>1, <1>13, OutcomeCases DEF Recordable
  <2>4. SentInOrder'
    BY <1>5, <1>11, <1>12, <2>1, <2>2 DEF SentInOrder
  <2>5. offered' => sent' # <<>>
    BY <1>2, <1>11, <2>1, <2>3, Zenon DEF IInv, TraceKept
  <2>6. TraceKept'
    BY <2>1, <2>2, <2>5, Zenon DEF TraceKept, HasTrace
  <2>. QED  BY <1>4, <2>4, <2>6 DEF IInv
<1>14. CASE o = "passed"
  <2> DEFINE x == Forward(m, FALSE)
  <2>1. /\ filter'.finished = filter.finished
        /\ filter'.buffered = NoMessage
        /\ sent' = sent \o Append(ForwardBuffered(filter), x)
    BY <1>1, <1>2, <1>14, FilterMessageEffect, Zenon DEF Forward
  <2>2. x \in Forwarded /\ x.msg = m
    BY DEF Forward, Forwarded
  <2>3. ForwardBuffered(filter) \in Seq(Forwarded)
    BY <1>1, ForwardBufferedType, Zenon
  <2> HIDE DEF x
  <2>4. sent' = Append(flushed, x)
    BY <1>1, <2>1, <2>2, <2>3
  <2>5. /\ Append(flushed, x) # <<>>
        /\ InOrder(Append(flushed, x))
        /\ AllBelow(Append(flushed, x), n + 1)
    <3> HIDE DEF flushed
    <3>1. AllBelow(flushed, x.msg.id) /\ x.msg.id < n + 1 /\ n + 1 \in Nat
      BY <1>5, <1>11, <2>2
    <3>. QED  BY <1>11, <2>2, <3>1, AppendInOrder
  <2>6. ~HasBuffered(filter)'
    BY <2>1 DEF HasBuffered
  <2>7. SentInOrder'
    BY <1>5, <2>4, <2>5, <2>6 DEF SentInOrder
  <2>8. TraceKept'
    BY <2>4, <2>5, <2>6 DEF TraceKept, HasTrace
  <2>. QED  BY <1>4, <2>7, <2>8 DEF IInv
<1>. QED  BY <1>1, <1>9, <1>10, <1>13, <1>14, OutcomeCases

\* A moved stop time changes nothing that the invariant is about.
LEMMA SetStopTimeIInv ==
    ASSUME IInv, NEW stop \in Nat, set_stop_time(stop)
    PROVE  IInv'
<1>1. /\ filter' = [filter EXCEPT !.stop = stop]
      /\ UNCHANGED <<sent, alive, inbox, offered>>
      /\ filter \in Filter
  BY DEF set_stop_time, SetStopTime, IInv, TypeOK
<1>2. /\ filter' \in Filter
      /\ filter'.finished = filter.finished
      /\ filter'.buffered = filter.buffered
      /\ filter'.lastSeen = filter.lastSeen
  BY <1>1 DEF Filter
<1>3. HasBuffered(filter)' = HasBuffered(filter)
  BY <1>2 DEF HasBuffered
<1>4. TypeOK'
  BY <1>1, <1>2 DEF IInv, TypeOK
<1>5. SentInOrder'
  BY <1>1, <1>2, <1>3 DEF IInv, SentInOrder
<1>6. TraceKept'
  <2>1. TraceKept
    BY DEF IInv
  <2>2. HasTrace' = HasTrace
    BY <1>1, <1>3 DEF HasTrace
  <2>. QED  BY <1>1, <1>2, <1>3, <2>1, <2>2, Zenon DEF TraceKept
<1>. QED  BY <1>4, <1>5, <1>6 DEF IInv

\* The destructor forwards the buffered message.
LEMMA DestroyIInv ==
    ASSUME IInv, destroy
    PROVE  IInv'
<1> DEFINE n == Len(inbox) + 1
<1>1. /\ filter' = [filter EXCEPT !.buffered = NoMessage]
      /\ sent' = sent \o ForwardBuffered(filter)
      /\ alive' = FALSE
      /\ UNCHANGED <<inbox, offered>>
  BY DEF destroy, ClearBuffered
<1>2. filter \in Filter /\ sent \in Seq(Forwarded) /\ inbox \in Seq(Message)
  BY DEF IInv, TypeOK
<1>3. /\ filter' \in Filter
      /\ filter'.finished = filter.finished
      /\ filter'.buffered = NoMessage
      /\ filter'.lastSeen = filter.lastSeen
  BY <1>1, <1>2, Zenon DEF Filter
<1>4. ~HasBuffered(filter)'
  BY <1>3 DEF HasBuffered
<1>5. /\ sent' \in Seq(Forwarded)
      /\ InOrder(sent')
      /\ AllBelow(sent', n)
      /\ HasTrace => sent' # <<>>
  <2>1. n \in Nat
    BY <1>2
  <2>2. /\ InOrder(sent)
        /\ AllBelow(sent, n)
        /\ HasBuffered(filter) => /\ filter.buffered.id < n
                                  /\ AllBelow(sent, filter.buffered.id)
    BY DEF IInv, SentInOrder
  <2>. QED  BY <1>1, <1>2, <2>1, <2>2, FlushInOrder DEF HasTrace
<1>6. TypeOK'
  BY <1>1, <1>2, <1>3, <1>5, Zenon DEF IInv, TypeOK
<1>7. SentInOrder'
  BY <1>1, <1>4, <1>5 DEF SentInOrder
<1>8. TraceKept'
  <2>1. TraceKept
    BY DEF IInv
  <2>2. HasTrace => HasTrace'
    BY <1>5 DEF HasTrace
  <2>. QED  BY <1>1, <1>3, <1>4, <2>1, <2>2, Zenon DEF TraceKept
<1>. QED  BY <1>6, <1>7, <1>8 DEF IInv

\* A message that Deliver offers is a message of the program: it is the next
\* one of the partition and its timestamp is not zero.
LEMMA DeliverMessage ==
    ASSUME IInv, Deliver
    PROVE  \E m \in Message : /\ m.id = Len(inbox) + 1
                              /\ m.ts # 0
                              /\ filter_message(m)
<1>1. PICK src \in Source, ts \in Timestamp, valid \in BOOLEAN :
          filter_message([id |-> Len(inbox) + 1, src |-> src, ts |-> ts,
                          valid |-> valid])
  BY DEF Deliver
<1> DEFINE m == [id |-> Len(inbox) + 1, src |-> src, ts |-> ts,
                 valid |-> valid]
<1>2. Len(inbox) + 1 \in Nat /\ ts \in Nat /\ ts # 0
  <2>1. inbox \in Seq(Message)
    BY DEF IInv, TypeOK
  <2>. QED  BY <2>1, FilterAssumption
<1>3. m \in Message /\ m.id = Len(inbox) + 1 /\ m.ts # 0
  BY <1>2 DEF Message
<1>4. filter_message(m)
  BY <1>1
<1> HIDE DEF m
<1>. QED  BY <1>3, <1>4

LEMMA NextIInv == IInv /\ [Next]_vars => IInv'
<1> SUFFICES ASSUME IInv, [Next]_vars  PROVE  IInv'
  OBVIOUS
<1>1. CASE Deliver
  BY <1>1, DeliverMessage, FilterMessageIInv
<1>2. CASE \E stop \in Time : set_stop_time(stop)
  <2>1. PICK stop \in Time : set_stop_time(stop)
    BY <1>2
  <2>2. stop \in Nat
    BY FilterAssumption
  <2>. QED  BY <2>1, <2>2, SetStopTimeIInv
<1>3. CASE destroy
  BY <1>3, DestroyIInv
<1>4. CASE UNCHANGED vars
  BY <1>4 DEF vars, IInv, TypeOK, SentInOrder, TraceKept, HasTrace,
              InOrder, AllBelow, HasBuffered
<1>. QED  BY <1>1, <1>2, <1>3, <1>4 DEF Next

-----------------------------------------------------------------------------
\* IInv holds in every state of every filter.
THEOREM Invariance == Spec => []IInv
<1>1. Init => IInv
  BY InitIInv
<1>2. IInv /\ [Next]_vars => IInv'
  BY NextIInv
<1>. QED  BY <1>1, <1>2, PTL DEF Spec

\* The filter's fields keep their types (the fields of SourceFilter.h).
THEOREM TypeCorrect == Spec => []TypeOK
<1>1. IInv => TypeOK
  BY DEF IInv
<1>. QED  BY <1>1, Invariance, PTL

\* For any stream and any moves of the stop time, the writer receives the
\* messages of a source in the order of receipt and each at most once
\* (forward_buffered_message, forward_message).
THEOREM OrderKept == Spec => []ForwardedInOrder
<1>1. IInv => ForwardedInOrder
  BY DEF IInv, SentInOrder, InOrder, ForwardedInOrder
<1>. QED  BY <1>1, Invariance, PTL

\* However many messages come before the start time and whenever the filter
\* is destroyed, a source that delivered something usable has left a message
\* with the writer (the promise of SourceFilter.h).
THEOREM OneMessageRecorded == Spec => []AtLeastOneMessage
<1>1. IInv => AtLeastOneMessage
  BY DEF IInv, TraceKept, HasTrace, AtLeastOneMessage
<1>. QED  BY <1>1, Invariance, PTL

\* A step of a finished filter forwards nothing and leaves it finished.
LEMMA FinishedStep ==
    ASSUME IInv, [Next]_vars, filter.finished
    PROVE  filter'.finished /\ sent' = sent
<1>1. /\ filter \in Filter
      /\ sent \in Seq(Forwarded)
      /\ ~HasBuffered(filter)
  BY DEF IInv, TypeOK, TraceKept
<1>2. sent \o <<>> = sent
  BY <1>1
<1>3. CASE Deliver
  <2>1. PICK m \in Message : filter_message(m)
    BY <1>3, DeliverMessage
  <2>2. Outcome(filter, m) \in {"ignored", "dropped"}
    BY <1>1, OutcomeCases
  <2>3. /\ FilterMessage(filter, m).finished = filter.finished
        /\ Forwarding(filter, m) = <<>>
    BY <1>1, <2>2, FilterMessageEffect, Zenon
  <2>. QED  BY <1>2, <2>1, <2>3 DEF filter_message
<1>4. CASE \E stop \in Time : set_stop_time(stop)
  BY <1>1, <1>4 DEF set_stop_time, SetStopTime, Filter
<1>5. CASE destroy
  <2>1. ForwardBuffered(filter) = <<>>
    BY <1>1, ForwardBufferedType, Zenon
  <2>2. sent' = sent
    BY <1>2, <1>5, <2>1 DEF destroy
  <2>3. filter'.finished
    BY <1>1, <1>5 DEF destroy, ClearBuffered, Filter
  <2>. QED  BY <2>2, <2>3
<1>6. CASE UNCHANGED vars
  BY <1>6 DEF vars
<1>. QED  BY <1>3, <1>4, <1>5, <1>6 DEF Next

\* Once has_finished() is true it stays true and nothing more is forwarded,
\* whatever arrives, however the stop time moves, and in the destructor too.
THEOREM FinishedForever == Spec => FinishedIsFinal
<1>1. IInv /\ [Next]_vars
          => [filter.finished => filter'.finished /\ sent' = sent]_vars
  BY FinishedStep
<1>. QED  BY <1>1, Invariance, PTL DEF Spec, FinishedIsFinal

-----------------------------------------------------------------------------
\* The messages that filter_message buffers unless they are outdated.
IsEarly(f, m) == m.src = f.src /\ m.valid /\ IsBeforeStart(f, m)

Unsent == LastSentId + 1 .. Len(inbox)

\* BufferedIsNewest speaks of a filter that has a buffered message.  It holds
\* of the next one that is buffered because a filter without one has missed no
\* early message, and of a repeated message that is dropped because the last
\* timestamp seen is never newer than the buffered message.
NewestKept ==
    /\ HasBuffered(filter) =>
           /\ ToTimepoint(filter.lastSeen) <= ToTimepoint(filter.buffered.ts)
           /\ \A k \in Unsent : IsEarly(filter, inbox[k]) =>
                  ToTimepoint(inbox[k].ts) <= ToTimepoint(filter.buffered.ts)
    /\ alive /\ ~filter.finished /\ ~HasBuffered(filter) =>
           /\ filter.lastSeen = 0 \/ filter.start <= ToTimepoint(filter.lastSeen)
           /\ \A k \in Unsent : ~IsEarly(filter, inbox[k])

LEMMA ToTimepointType == \A t \in Nat : ToTimepoint(t) \in Nat
BY OpsAssumption DEF ToTimepoint

\* A filter hands the message it passes on to the writer last.
LEMMA LastSent ==
    ASSUME IInv
    PROVE  /\ LastSentId \in Nat
           /\ sent' = sent => LastSentId' = LastSentId
           /\ \A q \in Seq(Forwarded), x \in Forwarded :
                  sent' = Append(q, x) => LastSentId' = x.msg.id
<1>1. sent \in Seq(Forwarded)
  BY DEF IInv, TypeOK
<1>2. LastSentId \in Nat
  <2>1. sent # <<>> => sent[Len(sent)] \in Forwarded
    BY <1>1
  <2>2. sent # <<>> => sent[Len(sent)].msg \in Message
    BY <2>1 DEF Forwarded
  <2>. QED  BY <2>2 DEF LastSentId, Message
<1>3. ASSUME NEW q \in Seq(Forwarded), NEW x \in Forwarded,
             sent' = Append(q, x)
      PROVE  LastSentId' = x.msg.id
  <2>1. /\ Append(q, x) # <<>>
        /\ Len(Append(q, x)) = Len(q) + 1
        /\ Append(q, x)[Len(q) + 1] = x
    OBVIOUS
  <2>. QED  BY <1>3, <2>1 DEF LastSentId
<1>. QED  BY <1>2, <1>3 DEF LastSentId

\* One case per way filter_message can end.
LEMMA FilterMessageNewest ==
    ASSUME IInv, NewestKept, NEW m \in Message, m.id = Len(inbox) + 1,
           m.ts # 0, filter_message(m)
    PROVE  NewestKept'
<1> DEFINE o == Outcome(filter, m)
<1>1. /\ filter \in Filter
      /\ sent \in Seq(Forwarded)
      /\ inbox \in Seq(Message)
  BY DEF IInv, TypeOK
<1>2. /\ filter' = FilterMessage(filter, m)
      /\ sent' = sent \o Forwarding(filter, m)
      /\ inbox' = Append(inbox, m)
      /\ alive' = alive /\ alive
  BY DEF filter_message
<1>3. /\ Len(inbox) \in Nat /\ Len(inbox') = Len(inbox) + 1
      /\ \A k \in 1 .. Len(inbox) : inbox'[k] = inbox[k] /\ inbox[k] \in Message
      /\ inbox'[Len(inbox) + 1] = m
      /\ LastSentId \in Nat
  BY <1>1, <1>2, LastSent
<1>4. filter'.src = filter.src /\ filter'.start = filter.start
  BY <1>1, <1>2, FilterMessageKeeps
<1>5. \A x : IsEarly(filter', x) = IsEarly(filter, x)
  BY <1>4 DEF IsEarly, IsBeforeStart
<1>6. ASSUME sent' = sent
      PROVE  \A k \in Unsent' : \/ k \in Unsent /\ inbox'[k] = inbox[k]
                                              /\ inbox[k] \in Message
                                \/ k = Len(inbox) + 1 /\ inbox'[k] = m
  <2>1. LastSentId' = LastSentId
    BY <1>6, LastSent
  <2>. QED  BY <1>3, <2>1 DEF Unsent
<1>7. /\ filter.start \in Nat /\ ToTimepoint(m.ts) \in Nat
      /\ ToTimepoint(filter.lastSeen) \in Nat
      /\ HasBuffered(filter) => ToTimepoint(filter.buffered.ts) \in Nat
      /\ \A x \in Message : ToTimepoint(x.ts) \in Nat
  <2>1. filter.start \in Nat /\ filter.lastSeen \in Nat
    BY <1>1 DEF Filter
  <2>2. \A x \in Message : ToTimepoint(x.ts) \in Nat
    BY ToTimepointType DEF Message
  <2>3. HasBuffered(filter) => filter.buffered \in Message
    BY <1>1, ForwardBufferedType, Zenon
  <2>. QED  BY <2>1, <2>2, <2>3, ToTimepointType, Zenon
<1>8. CASE o \in {"ignored", "dropped", "outdated"}
  <2>1. /\ filter'.finished = filter.finished
        /\ filter'.buffered = filter.buffered
        /\ Forwarding(filter, m) = <<>>
    BY <1>1, <1>2, <1>8, FilterMessageEffect, ZenonT(30)
  <2>2. sent' = sent
    BY <1>1, <1>2, <2>1
  <2>3. HasBuffered(filter)' = HasBuffered(filter)
    BY <2>1 DEF HasBuffered
  <2>4. \/ filter'.lastSeen = filter.lastSeen
        \/ /\ HasBuffered(filter)
           /\ filter'.lastSeen = m.ts
           /\ ToTimepoint(m.ts) < ToTimepoint(filter.buffered.ts)
    <3>1. CASE o \in {"ignored", "dropped"}
      BY <1>1, <1>2, <3>1, FilterMessageKeeps
    <3>2. CASE o = "outdated"
      <4>1. filter'.lastSeen = m.ts
        BY <1>1, <1>2, <3>2, FilterMessageKeeps, SMTT(20)
      <4>2. IsOlderThanBuffered(filter, m)
        BY <1>1, <3>2, OutcomeCases
      <4>. QED  BY <4>1, <4>2 DEF IsOlderThanBuffered
    <3>. QED  BY <1>8, <3>1, <3>2
  <2>5. IsEarly(filter, m) /\ ~filter.finished =>
            \/ filter.lastSeen = m.ts
            \/ /\ HasBuffered(filter)
               /\ ToTimepoint(m.ts) < ToTimepoint(filter.buffered.ts)
    BY <1>1, <1>8, OutcomeCases
       DEF IsEarly, IsDropped, IsRepeated, IsOlderThanBuffered
  <2>6. HasBuffered(filter) => ~filter.finished
    BY DEF IInv, TraceKept
  <2>7. ASSUME HasBuffered(filter)
        PROVE  /\ ToTimepoint(filter'.lastSeen) <= ToTimepoint(filter'.buffered.ts)
               /\ \A k \in Unsent' : IsEarly(filter', inbox'[k]) =>
                      ToTimepoint(inbox'[k].ts) <= ToTimepoint(filter'.buffered.ts)
    <3>1. ToTimepoint(filter'.lastSeen) <= ToTimepoint(filter'.buffered.ts)
      BY <1>7, <2>1, <2>4, <2>7 DEF NewestKept
    <3>2. IsEarly(filter, m) =>
              ToTimepoint(m.ts) <= ToTimepoint(filter.buffered.ts)
      BY <1>7, <2>5, <2>6, <2>7 DEF NewestKept
    <3>. QED  BY <1>5, <1>6, <2>1, <2>2, <2>7, <3>1, <3>2 DEF NewestKept
  <2>8. ASSUME ~filter.finished, ~HasBuffered(filter)
        PROVE  /\ \/ filter'.lastSeen = 0
                  \/ filter'.start <= ToTimepoint(filter'.lastSeen)
               /\ \A k \in Unsent' : ~IsEarly(filter', inbox'[k])
    <3>1. filter'.lastSeen = filter.lastSeen
      BY <2>4, <2>8
    <3>2. filter.lastSeen = 0 \/ filter.start <= ToTimepoint(filter.lastSeen)
      BY <1>2, <2>8 DEF NewestKept
    <3>3. ~IsEarly(filter, m)
      BY <1>7, <2>5, <2>8, <3>2 DEF IsEarly, IsBeforeStart
    <3>4. \A k \in Unsent : ~IsEarly(filter, inbox[k])
      BY <1>2, <2>8 DEF NewestKept
    <3>. QED  BY <1>4, <1>5, <1>6, <2>2, <3>1, <3>2, <3>3, <3>4
  <2>. QED  BY <2>1, <2>3, <2>7, <2>8 DEF NewestKept
<1>9. CASE o = "buffered"
  <2>1. filter'.buffered = m /\ Forwarding(filter, m) = <<>>
    BY <1>1, <1>2, <1>9, FilterMessageEffect, ZenonT(30)
  <2>1a. filter'.lastSeen = m.ts
    BY <1>1, <1>2, <1>9, FilterMessageKeeps, SMTT(20)
  <2>2. sent' = sent
    BY <1>1, <1>2, <2>1
  <2>3. HasBuffered(filter)'
    BY <2>1, OpsAssumption DEF HasBuffered
  <2>4. ~filter.finished
    BY <1>1, <1>9, OutcomeCases
  <2>5. HasBuffered(filter) =>
            ToTimepoint(filter.buffered.ts) <= ToTimepoint(m.ts)
    BY <1>1, <1>7, <1>9, OutcomeCases DEF IsOlderThanBuffered
  <2>6. \A k \in Unsent : IsEarly(filter, inbox[k]) /\ inbox[k] \in Message =>
            ToTimepoint(inbox[k].ts) <= ToTimepoint(m.ts)
    BY <1>2, <1>7, <2>4, <2>5 DEF NewestKept
  <2>7. \A k \in Unsent' : IsEarly(filter', inbox'[k]) =>
            ToTimepoint(inbox'[k].ts) <= ToTimepoint(m.ts)
    BY <1>5, <1>6, <1>7, <2>2, <2>6
  <2>. QED  BY <1>7, <2>1, <2>1a, <2>3, <2>7 DEF NewestKept
<1>10. CASE o = "finished"
  <2>1. filter'.finished = TRUE /\ filter'.buffered = NoMessage
    BY <1>1, <1>2, <1>10, FilterMessageEffect, Zenon
  <2>. QED  BY <2>1 DEF NewestKept, HasBuffered
<1>11. CASE o = "passed"
  <2> DEFINE x == Forward(m, FALSE)
             q == sent \o ForwardBuffered(filter)
  <2>1. /\ filter'.buffered = NoMessage
        /\ sent' = sent \o Append(ForwardBuffered(filter), x)
    BY <1>1, <1>2, <1>11, FilterMessageEffect, Zenon DEF Forward
  <2>1a. filter'.lastSeen = m.ts
    BY <1>1, <1>2, <1>11, FilterMessageKeeps, SMTT(20)
  <2>2. x \in Forwarded /\ x.msg = m
    BY DEF Forward, Forwarded
  <2>3. ForwardBuffered(filter) \in Seq(Forwarded)
    BY <1>1, ForwardBufferedType, Zenon
  <2> HIDE DEF x
  <2>4. q \in Seq(Forwarded) /\ sent' = Append(q, x)
    BY <1>1, <2>1, <2>2, <2>3, SMTT(20)
  <2> HIDE DEF q
  <2>5. LastSentId' = Len(inbox')
    BY <1>3, <2>2, <2>4, LastSent
  <2>6. Unsent' = {}
    BY <1>3, <2>5 DEF Unsent
  <2>7. filter'.start <= ToTimepoint(filter'.lastSeen)
    BY <1>1, <1>4, <1>7, <1>11, <2>1a, OutcomeCases DEF IsBeforeStart
  <2>. QED  BY <2>1, <2>6, <2>7 DEF NewestKept, HasBuffered
<1>. QED  BY <1>1, <1>8, <1>9, <1>10, <1>11, OutcomeCases

LEMMA NewestStep == IInv /\ NewestKept /\ [Next]_vars => NewestKept'
<1> SUFFICES ASSUME IInv, NewestKept, [Next]_vars  PROVE  NewestKept'
  OBVIOUS
<1>1. filter \in Filter
  BY DEF IInv, TypeOK
<1>2. CASE Deliver
  BY <1>2, DeliverMessage, FilterMessageNewest
<1>3. CASE \E stop \in Time : set_stop_time(stop)
  <2>0. PICK stop \in Time : set_stop_time(stop)
    BY <1>3
  <2>1. /\ filter'.src = filter.src /\ filter'.start = filter.start
        /\ filter'.finished = filter.finished
        /\ filter'.lastSeen = filter.lastSeen
        /\ filter'.buffered = filter.buffered
        /\ sent' = sent /\ inbox' = inbox /\ alive' = alive
    BY <1>1, <2>0 DEF set_stop_time, SetStopTime, Filter
  <2>2. \A x : IsEarly(filter', x) = IsEarly(filter, x)
    BY <2>1 DEF IsEarly, IsBeforeStart
  <2>3. Unsent' = Unsent
    BY <2>1 DEF Unsent, LastSentId
  <2>4. HasBuffered(filter)' = HasBuffered(filter)
    BY <2>1 DEF HasBuffered
  <2>. QED  BY <2>1, <2>2, <2>3, <2>4 DEF NewestKept
<1>4. CASE destroy
  <2>1. ~alive' /\ ~HasBuffered(filter)'
    BY <1>1, <1>4 DEF destroy, ClearBuffered, HasBuffered, Filter
  <2>. QED  BY <2>1 DEF NewestKept
<1>5. CASE UNCHANGED vars
  BY <1>5 DEF vars, NewestKept, Unsent, LastSentId, IsEarly, IsBeforeStart,
              HasBuffered
<1>. QED  BY <1>2, <1>3, <1>4, <1>5 DEF Next

\* Whatever the order of the timestamps, repeated or invalid messages
\* included, the message that filter_message keeps back is the newest of all
\* those from before the start time since the last one it passed on.
THEOREM NewestIsBuffered == Spec => []BufferedIsNewest
<1>1. Init => NewestKept
  BY DEF Init, NewFilter, NewestKept, HasBuffered, Unsent, LastSentId
<1>2. IInv /\ NewestKept /\ [Next]_vars => NewestKept'
  BY NewestStep
<1>3. NewestKept => BufferedIsNewest
  BY DEF NewestKept, BufferedIsNewest, IsEarly, Unsent
<1>. QED  BY <1>1, <1>2, <1>3, Invariance, PTL DEF Spec
=============================================================================
