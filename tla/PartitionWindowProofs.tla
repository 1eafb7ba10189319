------------------------ MODULE PartitionWindowProofs ------------------------
(***************************************************************************)
(* A partition that finishes by itself has forwarded the whole window of   *)
(* the job.                                                                *)
(***************************************************************************)
EXTENDS PartitionProofs

\* What WindowComplete rests on, besides the broker's log (LogInv).  What a
\* filter knows comes from messages of its source, and a filter that is gone
\* has seen one beyond its stop time.
Seen(k) ==
    LET f == filters[k]
    IN  /\ f.src = SrcOf[k] /\ f.start = Start
        /\ f.allowRepeated = (k \in Repeats)
        /\ f.lastSeen # 0 =>
               \E j \in Owned(k) : j <= pos /\ log[j].msg.ts = f.lastSeen
        /\ f.finished => \E j \in Owned(k) : j <= pos /\ TimeOf(j) > f.stop
        /\ k \in active \/ pc = "joined" \/ f.finished

\* Neither the partition nor a filter, those that have finished included, stops
\* before the earliest stop time.
StopsInv ==
    /\ stop_time >= earliest
    /\ \A k \in Key : filters[k].stop >= earliest

\* What was read has been forwarded, or was beyond the stop time of a filter
\* that has finished.
ReadForwarded(k) ==
    \A i \in Owned(k) :
        i <= pos /\ TimeOf(i) >= Start =>
            \/ i \in SentOf(k)
            \/ filters[k].finished /\ TimeOf(i) > filters[k].stop

\* What has not been read when the partition finishes reached the broker too
\* late to be in the window.
RestIsLate ==
    /\ cause # "none" => has_finished
    /\ cause = "no_filters" => \A k \in Key : filters[k].finished
    /\ ~slow /\ cause \in {"end_of_partition", "stop_time"} =>
           /\ now > stop_time + Leeway
           /\ \A i \in DOMAIN log : i > pos => log[i].kafkaTime > stop_time + Leeway

WindowInv ==
    /\ LogInv /\ StopsInv /\ RestIsLate
    /\ \A k \in Key : Seen(k) /\ (InOrderOf(k) => ReadForwarded(k))

\* A message of the log stays with its filters, and a log that is in order so
\* far was in order before.
LEMMA OwnedGrows ==
    ASSUME TypeOK, [Next]_vars, NEW k \in Key
    PROVE  /\ Owned(k) \subseteq Owned(k)'
           /\ \A i \in Owned(k)' : i \in DOMAIN log => i \in Owned(k)
           /\ \A i \in Owned(k)' : i <= pos' => i \in Owned(k)
           /\ InOrderOf(k)' => InOrderOf(k)
<1>1. /\ DOMAIN log \subseteq DOMAIN log'
      /\ \A i \in DOMAIN log : log'[i] = log[i]
  BY LogGrows
<1>2. /\ Owned(k) \subseteq Owned(k)'
      /\ \A i \in Owned(k)' : i \in DOMAIN log => i \in Owned(k)
  BY <1>1 DEF Owned
<1>3. ASSUME NEW i \in Owned(k)', i <= pos'  PROVE  i \in Owned(k)
  <2>1. i \in DOMAIN log'
    BY DEF Owned
  <2>2. CASE i \notin DOMAIN log
    <3>1. i = Len(log) + 1 /\ pos' = pos
      BY <2>1, <2>2, LogGrows
    <3>2. Len(log) \in Nat /\ pos \in 0 .. Len(log)
      BY LogTypes
    <3>. QED  BY <1>3, <3>1, <3>2
  <2>. QED  BY <1>2, <2>2
<1>4. InOrderOf(k)' => InOrderOf(k)
  <2>1. \A i \in Owned(k) : i \in Owned(k)' /\ log'[i] = log[i]
    BY <1>1, <1>2 DEF Owned
  <2>. QED  BY <2>1 DEF InOrderOf
<1>. QED  BY <1>2, <1>3, <1>4

\* A step that leaves what a filter knows as it is.
LEMMA SeenKept ==
    ASSUME IInv, [Next]_vars, NEW k \in Key, Seen(k), pos' >= pos, pos' \in Nat,
           LET f == filters[k]
               g == filters'[k]
           IN  /\ g.src = f.src /\ g.start = f.start
               /\ g.allowRepeated = f.allowRepeated
               /\ g.lastSeen = f.lastSeen /\ g.finished = f.finished
               /\ f.finished => g.stop = f.stop,
           k \in active \/ pc = "joined" => k \in active' \/ pc' = "joined"
    PROVE  Seen(k)'
<1>1. TypeOK
  BY Zenon DEF IInv
<1>2. \A j \in Owned(k) : /\ j \in Owned(k)' /\ j \in Nat
                          /\ log'[j] = log[j] /\ TimeOf(j)' = TimeOf(j)
  BY <1>1, OwnedGrows, LogGrows, LogTypes, Zenon DEF Owned
<1>3. pos \in Nat
  BY <1>1 DEF TypeOK
<1>. QED  BY <1>2, <1>3 DEF Seen

\* The message a filter is given accounts for the timestamp it remembers and
\* for its end.
LEMMA SeenPoll ==
    ASSUME IInv, PollMessage, [Next]_vars, NEW k \in Key, Seen(k)
    PROVE  Seen(k)'
<1> DEFINE r == log[pos + 1]
           f == filters[k]
           g == FilterMessage(f, r.msg)
           o == Outcome(f, r.msg)
<1>1. TypeOK /\ Numbered /\ HeldInv
  BY DEF IInv
<1>2. /\ r.msg \in Message /\ pos + 1 \in 1 .. Len(log)
      /\ filters'[k] = IF r.decodes /\ k \in active THEN g ELSE f
  BY <1>1, PollMessageEffect, Zenon
<1>3. /\ active' = {i \in active : ~filters'[i].finished}
      /\ pos' = pos + 1 /\ pc = "poll"
  BY DEF PollMessage, Polled
<1>4. f \in Filter /\ pos \in Nat /\ pos' \in Nat /\ pos' >= pos
  BY <1>1, <1>3 DEF TypeOK
<1>5. CASE ~(r.decodes /\ k \in active)
  <2>1. filters'[k] = f
    BY <1>2, <1>5
  <2>2. k \in active => k \in active'
    BY <1>1, <1>3, <2>1, Zenon DEF HeldInv
  <2>. QED  BY <1>3, <1>4, <2>1, <2>2, SeenKept, Zenon
<1>6. CASE r.decodes /\ k \in active
  <2>1. filters'[k] = g
    BY <1>2, <1>6
  <2>2. k \in active' \/ g.finished
    BY <1>3, <1>6, <2>1, Zenon
  <2>3. /\ g.src = f.src /\ g.start = f.start /\ g.stop = f.stop
        /\ g.allowRepeated = f.allowRepeated
        /\ g.lastSeen = IF o \in {"ignored", "dropped"} THEN f.lastSeen
                                                        ELSE r.msg.ts
    BY <1>2, <1>4, FilterMessageKeeps, Zenon
  <2>4. o \in {"ignored", "dropped", "outdated", "buffered", "finished",
               "passed"}
    BY <1>2, <1>4, OutcomeCases, Zenon
  <2>5. CASE o \in {"ignored", "dropped"}
    <3>1. g.finished = f.finished
      BY <1>2, <1>4, <2>5, SkippedEffect, Zenon
    <3>2. k \in active' \/ pc' = "joined"
      BY <1>1, <1>6, <2>2, <3>1, Zenon DEF HeldInv
    <3>. QED  BY <1>4, <2>1, <2>3, <2>5, <3>1, <3>2, SeenKept, Zenon
  <2>6. CASE o \notin {"ignored", "dropped"}
    <3>1. r.msg.src = f.src /\ ~f.finished
      BY <1>2, <1>4, <2>6, OutcomeCases, ZenonT(30) DEF Outcome
    <3>2. pos + 1 \in Owned(k)
      <4>1. pos + 1 \in DOMAIN log
        BY <1>1, <1>2, LogTypes, Zenon
      <4>. QED  BY <1>6, <3>1, <4>1 DEF Owned, Seen
    <3>3. g.finished => ToTimepoint(r.msg.ts) > f.stop
      <4>1. o # "finished" => ~g.finished
        <5>1. CASE o \in {"outdated", "buffered", "passed"}
          <6>1. g.finished = f.finished
            BY <1>2, <1>4, <5>1, SkippedEffect, BufferedEffect, PassedEffect,
               Zenon
          <6>. QED  BY <3>1, <6>1
        <5>. QED  BY <2>4, <2>6, <5>1, Zenon
      <4>2. o = "finished" => IsAfterStop(f, r.msg)
        BY <1>2, <1>4, OutcomeCases
      <4>. QED  BY <4>1, <4>2, Zenon DEF IsAfterStop
    <3>4. pos + 1 \in Owned(k)' /\ log'[pos + 1] = r
      BY <1>1, <3>2, OwnedGrows, LogGrows DEF Owned
    <3>. QED  BY <1>3, <1>4, <2>1, <2>2, <2>3, <2>6, <3>3, <3>4
              DEF Seen, TimeOf
  <2>. QED  BY <2>4, <2>5, <2>6
<1>. QED  BY <1>5, <1>6

LEMMA SeenStep ==
    ASSUME IInv, [Next]_vars, NEW k \in Key, Seen(k)
    PROVE  Seen(k)'
<1>1. /\ filters \in [Key -> Filter] /\ active \subseteq Key /\ pos \in Nat
      /\ \A i \in active : ~filters[i].finished
  BY DEF IInv, TypeOK, HeldInv
<1>2. CASE PollMessage
  BY <1>2, SeenPoll, Zenon
<1>3. CASE ApplyStopTime
  <2>1. LET f == filters[k]
            g == filters'[k]
        IN  /\ g.src = f.src /\ g.start = f.start
            /\ g.allowRepeated = f.allowRepeated
            /\ g.lastSeen = f.lastSeen /\ g.finished = f.finished
            /\ f.finished => g.stop = f.stop
    BY <1>1, <1>3 DEF ApplyStopTime, SetStopTime, Filter
  <2>2. UNCHANGED <<active, pos>> /\ pc # "joined"
    BY <1>3 DEF ApplyStopTime, consumer
  <2>. QED  BY <1>1, <2>1, <2>2, SeenKept
<1>4. CASE Join
  <2>1. UNCHANGED <<filters, pos>> /\ pc' = "joined"
    BY <1>4 DEF Join, consumer
  <2>. QED  BY <1>1, <2>1, SeenKept
<1>5. CASE /\ UNCHANGED <<filters, active, pos, sent, stop_time>>
           /\ pc = "joined" => pc' = "joined"
  BY <1>1, <1>5, SeenKept
<1>. QED  BY <1>2, <1>3, <1>4, <1>5, FilterSteps, Zenon

\* What was forwarded stays forwarded.
LEMMA SentOfConcat ==
    ASSUME NEW s \in Seq(Forwarded), NEW u \in Seq(Forwarded)
    PROVE  \A i \in DOMAIN s : i \in DOMAIN (s \o u) /\ (s \o u)[i] = s[i]
OBVIOUS

LEMMA SentGrows ==
    ASSUME IInv, [Next]_vars, NEW k \in Key
    PROVE  SentOf(k) \subseteq SentOf(k)'
<1>1. /\ sent[k] \in Seq(Forwarded) /\ filters[k] \in Filter
      /\ TypeOK /\ Numbered
  BY Zenon DEF IInv, TypeOK
<1>2. ASSUME NEW u \in Seq(Forwarded), sent'[k] = sent[k] \o u
      PROVE  SentOf(k) \subseteq SentOf(k)'
  BY <1>1, <1>2, SentOfConcat DEF SentOf
<1>3. CASE PollMessage
  <2> DEFINE r == log[pos + 1]
  <2>1. r.msg \in Message /\ sent'[k] = sent[k] \o ForwardedBy(r, k)
    BY <1>1, <1>3, PollMessageEffect, Zenon
  <2> HIDE DEF r
  <2>2. Forwarding(filters[k], r.msg) \in Seq(Forwarded)
    BY <1>1, <2>1, FilterMessageEffect, Zenon
  <2>3. ForwardedBy(r, k) \in Seq(Forwarded)
    BY <2>2 DEF ForwardedBy
  <2>. QED  BY <1>2, <2>1, <2>3, Zenon
<1>4. CASE Join
  <2>1. ForwardBuffered(filters[k]) \in Seq(Forwarded)
    BY <1>1, ForwardBufferedType, Zenon
  <2>2. \/ sent'[k] = sent[k] \o ForwardBuffered(filters[k])
        \/ sent'[k] = sent[k]
    BY <1>4, Zenon DEF Join
  <2>. QED  BY <1>2, <2>1, <2>2, Zenon DEF SentOf
<1>5. CASE UNCHANGED sent
  BY <1>5 DEF SentOf
<1>. QED  BY <1>3, <1>4, <1>5, FilterSteps, Zenon DEF ApplyStopTime

\* A filter that has finished keeps the stop time it finished with.
LEMMA FinishedKept ==
    ASSUME IInv, [Next]_vars, NEW k \in Key, filters[k].finished
    PROVE  filters'[k].finished /\ filters'[k].stop = filters[k].stop
<1>1. /\ filters \in [Key -> Filter] /\ TypeOK /\ Numbered
      /\ k \notin active
  BY Zenon DEF IInv, TypeOK, HeldInv
<1>2. CASE PollMessage
  BY <1>1, <1>2, PollMessageEffect
<1>3. CASE ApplyStopTime
  BY <1>1, <1>3 DEF ApplyStopTime
<1>4. CASE UNCHANGED filters
  BY <1>4, Zenon
<1>. QED  BY <1>2, <1>3, <1>4, FilterSteps, Zenon DEF Join

\* The message that is read in an ordered stream is forwarded unless it is
\* from before the start or beyond the stop time of its filter.
LEMMA NextForwarded ==
    ASSUME IInv, LogInv, PollMessage, [Next]_vars, NEW k \in Key, Seen(k),
           InOrderOf(k), pos + 1 \in Owned(k), TimeOf(pos + 1) >= Start
    PROVE  \/ pos + 1 \in SentOf(k)'
           \/ filters'[k].finished /\ TimeOf(pos + 1) > filters'[k].stop
<1> DEFINE n == pos + 1
           m == log[n].msg
           f == filters[k]
           g == FilterMessage(f, m)
           o == Outcome(f, m)
<1>1. TypeOK /\ Numbered /\ HeldInv
  BY DEF IInv
<1>2. /\ f \in Filter /\ pos \in Nat /\ n \in Nat
      /\ sent[k] \in Seq(Forwarded)
      /\ n \in DOMAIN log /\ log[n].decodes /\ m.src = SrcOf[k]
  <2>1. /\ filters \in [Key -> Filter] /\ pos \in Nat
        /\ sent \in [Key -> Seq(Forwarded)]
    BY <1>1 DEF TypeOK
  <2>2. n \in DOMAIN log /\ log[n].decodes /\ m.src = SrcOf[k]
    BY Zenon DEF Owned
  <2>. QED  BY <2>1, <2>2
<1>3. m \in Message /\ m.id = n /\ m.ts \in Nat
  BY <1>1, <1>2, LogTypes DEF Numbered
<1>4. /\ filters'[k] = IF k \in active THEN g ELSE f
      /\ filters'[k].stop = f.stop
      /\ sent'[k] = sent[k] \o ForwardedBy(log[n], k)
  BY <1>1, <1>2, PollMessageEffect, Zenon
<1>5. \A j \in Owned(k) : j <= pos => /\ log[j].msg.ts <= m.ts
                                      /\ k \notin Repeats => log[j].msg.ts < m.ts
  <2> SUFFICES ASSUME NEW j \in Owned(k), j <= pos
               PROVE  /\ log[j].msg.ts <= m.ts
                      /\ k \notin Repeats => log[j].msg.ts < m.ts
    OBVIOUS
  <2>1. j \in Nat /\ log[j].msg.ts \in Nat
    BY <1>1, LogTypes, Zenon DEF Owned
  <2>2. j < n
    BY <1>2, <2>1
  <2>3. IF k \in Repeats THEN log[j].msg.ts <= m.ts ELSE log[j].msg.ts < m.ts
    BY <2>2, Zenon DEF InOrderOf
  <2>. QED  BY <1>3, <2>1, <2>3
<1>6. pc = "poll"
  BY Zenon DEF PollMessage, Polled
<1>7. CASE k \notin active
  <2>1. f.finished
    BY <1>6, <1>7, Zenon DEF Seen
  <2>2. PICK j \in Owned(k) : j <= pos /\ TimeOf(j) > f.stop
    BY <2>1, Zenon DEF Seen
  <2>3. TimeOf(j) <= TimeOf(n)
    <3>1. log[j].msg.ts \in Nat /\ log[j].msg.ts <= m.ts
      BY <1>1, <1>5, <2>2, LogTypes, Zenon DEF Owned
    <3>. QED  BY <1>3, <3>1, TimepointOrder, Zenon DEF TimeOf
  <2>4. TimeOf(j) \in Nat /\ TimeOf(n) \in Nat /\ f.stop \in Nat
    BY <1>1, <1>2, LogTypes, TimeTypes, Zenon DEF Owned
  <2>5. TimeOf(n) > f.stop
    BY <2>2, <2>3, <2>4
  <2>. QED  BY <1>4, <1>7, <2>1, <2>5, Zenon
<1>8. CASE k \in active
  <2>1. ~f.finished /\ m.valid /\ m.ts # 0
    BY <1>1, <1>2, <1>8 DEF HeldInv, LogInv
  <2>2. IsRepeated(f, m) => f.allowRepeated
    <3> SUFFICES ASSUME f.lastSeen = m.ts  PROVE  f.allowRepeated
      BY Zenon DEF IsRepeated
    <3>1. PICK j \in Owned(k) : j <= pos /\ log[j].msg.ts = m.ts
      BY <2>1, Zenon DEF Seen
    <3>2. k \in Repeats
      BY <1>3, <1>5, <3>1
    <3>. QED  BY <3>2, Zenon DEF Seen
  <2>3. ~IsDropped(f, m)
    BY <2>1, <2>2, Zenon DEF IsDropped
  <2>4. ~IsBeforeStart(f, m)
    <3>1. f.start = Start /\ ToTimepoint(m.ts) = TimeOf(n)
      BY DEF Seen, TimeOf
    <3>2. TimeOf(n) \in Nat /\ Start \in Nat
      BY <1>1, <1>2, LogTypes, TimeTypes, Zenon
    <3>. QED  BY <3>1, <3>2 DEF IsBeforeStart
  <2>5. m.src = f.src
    BY <1>2, Zenon DEF Seen
  <2> HIDE DEF n, m, f
  <2>6. CASE IsAfterStop(f, m)
    <3>1. o = "finished"
      BY <2>3, <2>4, <2>5, <2>6, Zenon DEF Outcome
    <3>2. g.finished = TRUE
      BY <1>2, <1>3, <3>1, FinishedEffect, Zenon
    <3>3. TimeOf(n) > f.stop
      BY <2>6, Zenon DEF IsAfterStop, TimeOf, m
    <3>. QED  BY <1>4, <1>8, <3>2, <3>3, Zenon DEF n
  <2>7. CASE ~IsAfterStop(f, m)
    <3> DEFINE x == Forward(m, FALSE)
               q == sent[k] \o ForwardBuffered(f)
    <3>1. o = "passed"
      BY <2>3, <2>4, <2>5, <2>7 DEF Outcome
    <3>2. Forwarding(f, m) = Append(ForwardBuffered(f), x)
      BY <1>2, <1>3, <3>1, PassedEffect, Zenon
    <3>3. x \in Forwarded /\ x.msg = m
      BY <1>3 DEF Forward, Forwarded
    <3> HIDE DEF x
    <3>4. ForwardBuffered(f) \in Seq(Forwarded)
      BY <1>2, ForwardBufferedType, Zenon
    <3>5. sent'[k] = sent[k] \o Append(ForwardBuffered(f), x)
      BY <1>2, <1>4, <1>8, <3>2, Zenon DEF ForwardedBy, f, m
    <3>6. q \in Seq(Forwarded) /\ sent'[k] = q \o <<x>>
      <4>1. sent[k] \o Append(ForwardBuffered(f), x) = q \o <<x>>
        BY <1>2, <3>3, <3>4, ConcatAppend, ZenonT(30)
      <4>2. q \in Seq(Forwarded)
        BY <1>2, <3>4
      <4>. QED  BY <3>5, <4>1, <4>2, Zenon
    <3> HIDE DEF q
    <3>7. Len(q) + 1 \in DOMAIN sent'[k] /\ sent'[k][Len(q) + 1] = x
      BY <3>3, <3>6
    <3>8. n \in SentOf(k)'
      BY <1>3, <3>3, <3>7, Zenon DEF SentOf
    <3>. QED  BY <3>8, Zenon DEF n
  <2>. QED  BY <2>6, <2>7, Zenon
<1>. QED  BY <1>7, <1>8

LEMMA ReadStep ==
    ASSUME IInv, LogInv, [Next]_vars, NEW k \in Key, Seen(k),
           InOrderOf(k) => ReadForwarded(k), InOrderOf(k)'
    PROVE  ReadForwarded(k)'
<1>1. TypeOK /\ InOrderOf(k) /\ ReadForwarded(k)
  BY OwnedGrows DEF IInv
<1>2. pos \in Nat /\ pos' \in {pos, pos + 1} /\ (pos' = pos \/ PollMessage)
  <2>1. pos \in Nat
    BY <1>1 DEF TypeOK
  <2>2. PollMessage => pos' = pos + 1
    BY Zenon DEF PollMessage
  <2>. QED  BY <2>1, <2>2, FilterSteps, Zenon DEF ApplyStopTime, Join, consumer
<1>3. ASSUME NEW i \in Owned(k)', i <= pos', TimeOf(i)' >= Start
      PROVE  \/ i \in SentOf(k)'
             \/ filters'[k].finished /\ TimeOf(i)' > filters'[k].stop
  <2>1. i \in Owned(k) /\ i \in Nat /\ TimeOf(i)' = TimeOf(i)
    BY <1>1, <1>3, OwnedGrows, LogGrows, LogTypes, Zenon DEF Owned
  <2>2. CASE i <= pos
    <3>1. \/ i \in SentOf(k)
          \/ filters[k].finished /\ TimeOf(i) > filters[k].stop
      BY <1>1, <1>3, <2>1, <2>2, Zenon DEF ReadForwarded
    <3>. QED  BY <2>1, <3>1, SentGrows, FinishedKept, Zenon
  <2>3. CASE ~(i <= pos)
    <3>1. i = pos + 1 /\ PollMessage
      BY <1>2, <1>3, <2>1, <2>3
    <3>2. \/ pos + 1 \in SentOf(k)'
          \/ filters'[k].finished /\ TimeOf(pos + 1) > filters'[k].stop
      BY <1>1, <1>3, <2>1, <3>1, NextForwarded
    <3>. QED  BY <2>1, <3>1, <3>2
  <2>. QED  BY <2>2, <2>3
<1>. QED  BY <1>3 DEF ReadForwarded

\* A filter keeps the stop time it has or takes the one of the partition.
LEMMA StopsStep ==
    ASSUME IInv, StopsInv, [Next]_vars
    PROVE  StopsInv'
<1>1. /\ filters \in [Key -> Filter] /\ active \subseteq Key
      /\ TypeOK /\ Numbered
  BY DEF IInv, TypeOK
<1>2. /\ earliest \in Nat /\ stop_time \in Nat
      /\ \A k \in Key : filters[k].stop \in Nat
  <2>1. earliest \in Instant /\ stop_time \in Instant
    BY <1>1, Zenon DEF TypeOK
  <2>2. earliest \in Nat /\ stop_time \in Nat
    BY <2>1, PartitionFilterAssumption DEF Instant
  <2>. QED  BY <1>1, <2>2, Zenon DEF Filter
<1>3. CASE PollMessage
  <2>1. \A k \in Key : filters'[k].stop = filters[k].stop
    BY <1>1, <1>3, PollMessageEffect, Zenon
  <2>2. stop_time' = stop_time /\ earliest' = earliest
    BY <1>1, <1>3, PolledEffect, Zenon DEF PollMessage
  <2>. QED  BY <2>1, <2>2, Zenon DEF StopsInv
<1>4. CASE ApplyStopTime
  <2> DEFINE t == SanitiseStopTime(requested)
  <2>1. t \in Nat
    <3>1. t \in Instant
      BY <1>1, Sanitised, Zenon DEF TypeOK
    <3>. QED  BY <3>1, PartitionFilterAssumption DEF Instant
  <2>2. /\ stop_time' = t
        /\ earliest' = IF t < earliest THEN t ELSE earliest
        /\ filters' = [k \in Key |-> IF k \in active
                                     THEN SetStopTime(filters[k], t)
                                     ELSE filters[k]]
    BY <1>4 DEF ApplyStopTime
  <2> HIDE DEF t
  <2>3. earliest' <= t /\ earliest' <= earliest /\ earliest' \in Nat
    BY <1>2, <2>1, <2>2
  <2>4. ASSUME NEW k \in Key
        PROVE  filters'[k].stop >= earliest'
    <3>1. k \in active => filters'[k].stop = t
      BY <1>1, <2>2 DEF SetStopTime, Filter
    <3>2. k \notin active => filters'[k].stop = filters[k].stop
      BY <2>2, Zenon
    <3>3. filters[k].stop >= earliest
      BY DEF StopsInv
    <3>. QED  BY <1>2, <2>1, <2>3, <3>1, <3>2, <3>3
  <2>5. stop_time' >= earliest'
    BY <2>1, <2>2, <2>3
  <2>. QED  BY <2>4, <2>5, Zenon DEF StopsInv
<1>5. CASE UNCHANGED <<filters, stop_time, earliest>>
  BY <1>5 DEF StopsInv
<1>. QED  BY <1>3, <1>4, <1>5, Actions, ZenonT(30)
          DEF Check, TakeStop, LoadStopTime, ClearStopTime, PollForced,
              PollPaused, PollEndOfPartition, PollTimedOut, PollError, Polled,
              stop, set_stop_time, destroy, Join, Tick, Pause, Resume,
              Append_to_log, vars, partition, requests, history

\* The partition finishes with nothing left to read, or on a message the
\* broker took in late, and the broker's timestamps ascend.
LEMMA RestStep ==
    ASSUME IInv, LogInv, RestIsLate, \A k \in Key : Seen(k), [Next]_vars
    PROVE  RestIsLate'
<1>1. TypeOK /\ Numbered /\ WorkerInv /\ OneStopTime
  BY DEF IInv
<1>2. /\ now \in Nat /\ now' \in Nat /\ now <= now' /\ Leeway \in Nat
      /\ stop_time \in Nat /\ stop_time + Leeway \in Nat
  <2>1. stop_time \in Nat
    BY <1>1, PartitionFilterAssumption DEF TypeOK, Instant
  <2>. QED  BY <1>1, <2>1, ClockStep, PartitionFilterAssumption
<1>3. /\ DOMAIN log = 1 .. Len(log) /\ Len(log) \in Nat /\ pos \in 0 .. Len(log)
      /\ \A i \in DOMAIN log : i \in Nat /\ log[i].kafkaTime \in Nat
  BY <1>1, LogTypes, Zenon
<1>4. CASE PollMessage
  <2> DEFINE r == log[pos + 1]
  <2>1. /\ pc = "poll" /\ UNCHANGED <<now, log, stop_time>>
        /\ pos' = pos + 1 /\ slow' = slow
        /\ active' = {k \in active : ~filters'[k].finished}
        /\ \/ active' = {} /\ Finish("no_filters")
           \/ /\ TRUE \in IsAfter(r.kafkaTime, stop_time, Leeway)
              /\ Finish("stop_time")
           \/ UNCHANGED <<has_finished, cause>>
    BY <1>4, Zenon DEF PollMessage, Polled, clock
  <2>2. pos + 1 \in DOMAIN log
    BY <1>1, <1>3, <1>4, PollMessageEffect, Zenon
  <2>3. cause = "none"
    BY <1>1, <2>1, ZenonT(30) DEF WorkerInv, RestIsLate
  <2>4. CASE active' = {} /\ Finish("no_filters")
    <3>1. ASSUME NEW k \in Key  PROVE  filters'[k].finished
      <4>1. k \in active => filters'[k].finished
        BY <2>1, <2>4, Zenon
      <4>2. k \notin active => filters[k].finished
        BY <2>1, Zenon DEF Seen
      <4>. QED  BY <4>1, <4>2, FinishedKept, Zenon
    <3>. QED  BY <2>4, <3>1, Zenon DEF RestIsLate, Finish
  <2>5. CASE /\ TRUE \in IsAfter(r.kafkaTime, stop_time, Leeway)
             /\ Finish("stop_time")
    <3>1. r.kafkaTime <= now /\ r.kafkaTime \in Nat
      BY <1>3, <2>2, Zenon DEF LogInv
    <3>4. r.kafkaTime > stop_time + Leeway
      BY <1>2, <2>5, <3>1, SumsFit, SumThatFits, Zenon
    <3>2. now > stop_time + Leeway
      BY <1>2, <3>1, <3>4
    <3>3. ASSUME NEW i \in DOMAIN log, i > pos + 1
          PROVE  log[i].kafkaTime > stop_time + Leeway
      <4>1. r.kafkaTime <= log[i].kafkaTime /\ log[i].kafkaTime \in Nat
        BY <1>3, <2>2, <3>3, Zenon DEF LogInv
      <4>. QED  BY <1>2, <3>1, <3>4, <4>1
    <3>. QED  BY <2>1, <2>5, <3>2, <3>3, Zenon DEF RestIsLate, Finish
  <2>6. CASE UNCHANGED <<has_finished, cause>>
    BY <2>3, <2>6 DEF RestIsLate
  <2>. QED  BY <2>1, <2>4, <2>5, <2>6, Zenon
<1>5. CASE PollTimedOut
  <2>1. /\ UNCHANGED <<now, log, stop_time, pos, filters>>
        /\ slow' = (slow \/ pos < Len(log) \/ ~eof)
        /\ \/ /\ TRUE \in ShouldStop(pf, "TimedOut", now)
              /\ Finish("end_of_partition")
           \/ UNCHANGED <<has_finished, cause>>
    BY <1>5, Zenon DEF PollTimedOut, Polled, Decided, clock, consumer
  <2>2. cause = "none"
    BY <1>1, <1>5, Zenon DEF WorkerInv, RestIsLate, PollTimedOut, Polled
  <2>3. CASE TRUE \in ShouldStop(pf, "TimedOut", now) /\ Finish("end_of_partition")
    <3>1. now > stop_time + Leeway
      <4>1. TRUE \in IsAfter(now, stop_time, Leeway)
        <5>1. ShouldStop(pf, "TimedOut", now) =
                  IF pf.atEnd THEN IsAfter(now, pf.stop, Leeway) ELSE {FALSE}
          BY DEF ShouldStop
        <5>. QED  BY <1>1, <2>3, <5>1, Zenon DEF OneStopTime
      <4>. QED  BY <1>2, <4>1, SumsFit, SumThatFits, Zenon
    <3>2. ~slow' => \A i \in DOMAIN log : ~(i > pos)
      <4>1. ~slow' => ~(pos < Len(log))
        BY <2>1, ZenonT(30)
      <4>. QED  BY <1>3, <4>1
    <3>. QED  BY <2>1, <2>3, <3>1, <3>2, Zenon DEF RestIsLate, Finish
  <2>4. CASE UNCHANGED <<has_finished, cause>>
    BY <2>2, <2>4, Zenon DEF RestIsLate
  <2>. QED  BY <2>1, <2>3, <2>4, Zenon
<1>6. CASE PollForced \/ PollEndOfPartition \/ PollError
  <2>1. cause = "none"
    BY <1>1, <1>6, Zenon DEF WorkerInv, RestIsLate, PollForced, PollEndOfPartition,
                      PollError, Polled
  <2>2. \/ UNCHANGED <<has_finished, cause>>
        \/ has_finished' = TRUE /\ cause' \in {"stop", "poll_error"}
    <3>1. ShouldStop(pf, "EndOfPartition", now) = {FALSE}
      BY DEF ShouldStop
    <3>. QED  BY <1>6, <3>1, Zenon
              DEF PollForced, PollEndOfPartition, PollError, Decided, Finish
  <2>. QED  BY <2>1, <2>2, Zenon DEF RestIsLate
<1>7. CASE ApplyStopTime
  <2>1. cause = "none" /\ cause' = cause
    BY <1>1, <1>7, Zenon DEF WorkerInv, RestIsLate, ApplyStopTime
  <2>. QED  BY <2>1 DEF RestIsLate
<1>8. CASE UNCHANGED <<has_finished, cause, slow, filters, stop_time, pos>>
  <2>1. ASSUME now > stop_time + Leeway,
               \A i \in DOMAIN log : i > pos =>
                   log[i].kafkaTime > stop_time + Leeway
        PROVE  /\ now' > stop_time + Leeway
               /\ \A i \in DOMAIN log' : i > pos =>
                      log'[i].kafkaTime > stop_time + Leeway
    <3>1. now' > stop_time + Leeway
      BY <1>2, <2>1
    <3>2. ASSUME NEW i \in DOMAIN log', i > pos
          PROVE  log'[i].kafkaTime > stop_time + Leeway
      BY <1>1, <2>1, <3>2, LogGrows, Zenon
    <3>. QED  BY <3>1, <3>2, Zenon
  <2>. QED  BY <1>8, <2>1, Zenon DEF RestIsLate
<1>. QED  BY <1>4, <1>5, <1>6, <1>7, <1>8, Actions, Zenon
          DEF Check, TakeStop, LoadStopTime, ClearStopTime, PollPaused, stop,
              set_stop_time, destroy, Join, Tick, Pause, Resume,
              Append_to_log, vars, partition, consumer, history

LEMMA WindowInit ==
    ASSUME Init
    PROVE  WindowInv
<1>1. IInv
  BY InitIInv
<1>2. log = <<>> /\ cause = "none" /\ active = Key
  BY Zenon DEF Init
<1>3. LogInv /\ RestIsLate
  BY <1>2 DEF LogInv, RestIsLate
<1>4. ASSUME NEW k \in Key
      PROVE  /\ filters[k].src = SrcOf[k] /\ filters[k].start = Start
             /\ filters[k].allowRepeated = (k \in Repeats)
             /\ filters[k].lastSeen = 0 /\ filters[k].finished = FALSE
             /\ filters[k].stop = InitialStop
  BY DEF Init, NewFilter
<1>5. \A k \in Key : Seen(k)
  BY <1>2, <1>4, Zenon DEF Seen
<1>6. \A k \in Key : ReadForwarded(k)
  BY <1>2 DEF ReadForwarded, Owned
<1>7. StopsInv
  <2>1. /\ InitialStop \in Instant
        /\ stop_time = SanitiseStopTime(InitialStop) /\ earliest = stop_time
    BY PartitionAssumption DEF Init
  <2>2. InitialStop >= stop_time /\ stop_time >= earliest
    BY <2>1, PartitionFilterAssumption DEF SanitiseStopTime, Instant
  <2>. QED  BY <1>4, <2>1, <2>2, Zenon DEF StopsInv
<1>. QED  BY <1>3, <1>5, <1>6, <1>7 DEF WindowInv

\* The window at the end: what was read was forwarded or is beyond the stop
\* time, and so is what was not read.
LEMMA WindowEnd ==
    ASSUME IInv, WindowInv
    PROVE  WindowComplete
<1> SUFFICES ASSUME ~slow, cause \in {"end_of_partition", "no_filters", "stop_time"},
                    NEW k \in Key, InOrderOf(k), NEW i \in Owned(k),
                    TimeOf(i) \in Start .. earliest, i \notin SentOf(k)
             PROVE  FALSE
  BY DEF WindowComplete
<1>1. TypeOK /\ LogInv /\ StopsInv /\ RestIsLate /\ Seen(k) /\ ReadForwarded(k)
  BY DEF IInv, WindowInv
<1>2. /\ stop_time \in Nat /\ Start \in Nat /\ Leeway \in Nat
      /\ earliest \in Nat /\ stop_time >= earliest
      /\ filters[k].stop \in Nat /\ filters[k].stop >= earliest
      /\ i \in DOMAIN log /\ i \in Nat /\ pos \in Nat
      /\ TimeOf(i) \in Nat /\ log[i].kafkaTime \in Nat
      /\ log[i].msg.ts \in Nat
  <2>1. filters[k].stop >= earliest /\ stop_time >= earliest
    BY <1>1, Zenon DEF StopsInv
  <2>2. i \in DOMAIN log
    BY Zenon DEF Owned
  <2>3. earliest \in Nat
    BY <1>1, PartitionFilterAssumption DEF TypeOK, Instant
  <2>. QED  BY <1>1, <2>1, <2>2, <2>3, LogTypes, TimeTypes, ZenonT(30)
<1>3. CASE i <= pos
  BY <1>1, <1>2, <1>3, SMTT(20) DEF ReadForwarded
<1>4. CASE i > pos /\ cause = "no_filters"
  <2>1. PICK j \in Owned(k) : j <= pos /\ TimeOf(j) > filters[k].stop
    BY <1>1, <1>4, Zenon DEF RestIsLate, Seen
  <2>2. j \in Nat /\ log[j].msg.ts \in Nat /\ TimeOf(j) \in Nat
    BY <1>1, LogTypes, Zenon DEF Owned
  <2>3. IF k \in Repeats THEN log[j].msg.ts <= log[i].msg.ts
                         ELSE log[j].msg.ts < log[i].msg.ts
    <3>1. j < i
      BY <1>2, <1>4, <2>1, <2>2, SMTT(20)
    <3>. QED  BY <3>1, Zenon DEF InOrderOf
  <2>4. log[j].msg.ts <= log[i].msg.ts
    BY <1>2, <2>2, <2>3, SMTT(20)
  <2>5. TimeOf(j) <= TimeOf(i)
    BY <1>2, <2>2, <2>4, TimepointOrder, Zenon DEF TimeOf
  <2>. QED  BY <1>2, <2>1, <2>2, <2>5, SMTT(20)
<1>5. CASE i > pos /\ cause # "no_filters"
  <2>1. log[i].kafkaTime > stop_time + Leeway
    BY <1>1, <1>2, <1>5, Zenon DEF RestIsLate
  <2>2. log[i].kafkaTime <= TimeOf(i) + Leeway
    BY <1>1, <1>2 DEF LogInv
  <2>. QED  BY <1>2, <2>1, <2>2, SMTT(20)
<1>. QED  BY <1>2, <1>3, <1>4, <1>5

\* A partition that finishes by itself has forwarded every message of the
\* window from the start to the earliest stop time it had, those still to reach
\* the broker included: for any leeway, any number of sources and filters, any
\* delays within the leeway and any requests of its owner, when the timestamps
\* of a source ascend and the broker hands out what it has
\* (shouldStopPartition, pollForMessage, filter_message).  A stop time that
\* moves back comes too late for filters that have finished.
THEOREM WindowForwarded == Spec => []WindowComplete
<1>1. Init => WindowInv
  BY WindowInit
<1>2. IInv /\ IInv' /\ WindowInv /\ [Next]_vars => WindowInv'
  <2> SUFFICES ASSUME IInv, IInv', WindowInv, [Next]_vars  PROVE  WindowInv'
    OBVIOUS
  <2>1. LogInv'
    BY LogStep DEF IInv, WindowInv
  <2>2. StopsInv'
    BY StopsStep DEF WindowInv
  <2>3. RestIsLate'
    BY RestStep DEF WindowInv
  <2>4. ASSUME NEW k \in Key
        PROVE  Seen(k)' /\ (InOrderOf(k)' => ReadForwarded(k)')
    BY SeenStep, ReadStep DEF WindowInv
  <2>. QED  BY <2>1, <2>2, <2>3, <2>4 DEF WindowInv
<1>3. IInv /\ WindowInv => WindowComplete
  BY WindowEnd
<1>. QED  BY <1>1, <1>2, <1>3, Invariance, PTL DEF Spec
=============================================================================
