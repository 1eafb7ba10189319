----------------------- MODULE StreamControllerProofs -----------------------
(***************************************************************************)
(* Proofs about StreamController, for every number of topics, partitions,  *)
(* messages, stop times and calls.  The inductive invariant has five       *)
(* parts: which topics are in the vector of streamers, what the stage of a *)
(* topic says about its partitions, where the stop time of the job has     *)
(* got to, how the job may end, and the types.  Here each step is shown to *)
(* preserve the first three; module StreamControllerJobProofs has the rest *)
(* and the theorems.                                                       *)
(***************************************************************************)
EXTENDS StreamController, FiniteSetTheorems, TLAPS

Live(t) == stage[t] \notin {"none", "gone"}

\* The vector holds exactly the topics that have been created and not freed.
\* Only between remove_if and erase, or after an exception of isDone, are there
\* null pointers in it; those after newEnd are null or done.
VectorInv ==
    /\ Len(Streamers) <= Len(TopicSeq)
    /\ \A t \in Topic : t \in Range(Streamers) /\ main # "idle" <=> Live(t)
    /\ task \notin {"erasing", "failing"} => Streamers \in Seq(Topic)
    /\ task = "getTopicNames" => Streamers = <<>>
    /\ task = "initStreams" => Len(Streamers) < Len(TopicSeq)
    /\ task \in {"getTopicNames", "initStreams"} =>
           /\ \A i \in 1 .. Len(Streamers) : Streamers[i] = TopicSeq[i]
           /\ \A i \in Len(Streamers) + 1 .. Len(TopicSeq) :
                 stage[TopicSeq[i]] = "none"
    /\ task \in {"periodic", "erasing", "failing"} =>
           \A t \in Topic : stage[t] # "none"
    /\ task = "erasing" =>
           /\ newEnd <= Len(Streamers)
           /\ \A i \in 1 .. newEnd : Streamers[i] \in Topic
           /\ \A i \in newEnd + 1 .. Len(Streamers) :
                 Streamers[i] \in Topic => IsDone[Streamers[i]]
    /\ main \in {"join", "free", "idle"} => task = "none"

\* A topic that is done has not failed; before the end of the controller only
\* topics that are done are freed.
TopicInv ==
    \A t \in Topic :
        /\ IsDone[t] => stage[t] \in {"check", "gone"} /\ ~TopicHasError[t]
        /\ TopicHasError[t] => stage[t] \in {"failed", "gone"}
        /\ stage[t] = "gone" /\ main # "idle" => IsDone[t]

\* The partitions of a topic follow its stage; what has been freed holds no
\* message back.
PartInv ==
    \A p \in Part :
        /\ stage[TopicOf[p]] = "check" => part[p] \in {"running", "finished"}
        /\ stage[TopicOf[p]] = "gone" => part[p] \in {"none", "gone"}
        /\ stage[TopicOf[p]] \notin {"check", "gone"} => part[p] = "none"
        /\ IsDone[TopicOf[p]] => part[p] \in {"finished", "gone"}
        /\ buffered[p] => part[p] \in {"running", "finished"}

Newest(s) == s[Len(s)]

\* The newest stop time is the last one on its way through the executor of the
\* controller; when none is, the last one on its way through that of a topic;
\* when none is there either, it is the stop time of the topic.  A partition
\* always has the stop time of its topic.
StopInv ==
    /\ stopTasks # <<>> => Newest(stopTasks) = StopTimestamp
    /\ \A t \in Topic : stage[t] = "none" => topicStopTasks[t] = <<>>
    /\ stopTasks = <<>> =>
           \A t \in Topic : Live(t) =>
              StopTimestamp = IF topicStopTasks[t] # <<>>
                                THEN Newest(topicStopTasks[t])
                                ELSE StopConsumeTime[t]
    /\ \A p \in Part : part[p] \in {"running", "finished"} =>
           partStop[p] = StopConsumeTime[TopicOf[p]]

\* No message is lost on its way to the writer, whose thread ends only after a
\* stop.  When no streams remain without an error, all topics have been freed;
\* a job that ends in that way has not failed since.
JobInv ==
    /\ written + queue = forwarded
    /\ ~StopNow => RunThread
    /\ RunThread => writer = "loop"
    /\ task = "failing" => HasError
    /\ ~HasError /\ ~StreamersRemaining =>
           /\ task \in {"periodic", "none"} /\ Streamers = <<>>
           /\ \A t \in Topic : stage[t] = "gone" /\ IsDone[t]
    /\ how = "stop_time" =>
           /\ ~HasError /\ ~StreamersRemaining
           /\ writer = "done" => queue = 0
           /\ main \in {"writing", "finish", "crashed"} \/ reported = "success"
    /\ main \in {"free", "idle"} => writer = "done"

IInv == TypeOK /\ VectorInv /\ TopicInv /\ PartInv /\ StopInv /\ JobInv

-----------------------------------------------------------------------------
\* Elements(S) has the elements at the positions of S, each of them, and as
\* many as S has positions: the rank of a position is a bijection.
LEMMA ElementsOf ==
    ASSUME NEW n \in Nat, NEW S \in SUBSET (1 .. n)
    PROVE  /\ Cardinality(S) \in 0 .. n
           /\ DOMAIN Elements(S) = 1 .. Cardinality(S)
           /\ Elements(S) \in Seq({Streamers[i] : i \in S})
           /\ Len(Elements(S)) = Cardinality(S)
           /\ \A j \in 1 .. Cardinality(S) :
                 \E i \in S : Elements(S)[j] = Streamers[i]
           /\ \A i \in S : \E j \in 1 .. Cardinality(S) :
                 Elements(S)[j] = Streamers[i]
  <1> DEFINE Below(i) == {k \in S : k <= i}
             rank == [i \in S |-> Cardinality(Below(i))]
             c == Cardinality(S)
             At(j) == CHOOSE i \in S : Cardinality(Below(i)) = j
  <1>1. IsFiniteSet(S) /\ c \in Nat /\ c <= n
    <2>1. IsFiniteSet(1 .. n) /\ Cardinality(1 .. n) = n
      BY FS_Interval
    <2> QED
      BY <2>1, FS_Subset, FS_CardinalityType, Zenon
  <1>2. ASSUME NEW i \in S
        PROVE  /\ IsFiniteSet(Below(i)) /\ Cardinality(Below(i)) \in Nat
               /\ Cardinality(Below(i)) <= c
               /\ Cardinality(Below(i)) >= 1
    <2>1. Below(i) \in SUBSET S
      OBVIOUS
    <2>2. IsFiniteSet(Below(i)) /\ Cardinality(Below(i)) <= c
      BY <1>1, <2>1, FS_Subset
    <2>3. Cardinality(Below(i)) \in Nat
      BY <2>2, FS_CardinalityType
    <2>4. i \in Below(i)
      OBVIOUS
    <2>5. Cardinality(Below(i)) # 0
      BY <2>2, <2>4, FS_EmptySet
    <2> QED
      BY <2>2, <2>3, <2>5
  <1>3. ASSUME NEW i \in S, NEW j \in S, Cardinality(Below(i)) = Cardinality(Below(j))
        PROVE  i = j
    <2>1. ASSUME NEW a \in S, NEW b \in S, a < b,
                 Cardinality(Below(a)) = Cardinality(Below(b))
          PROVE  FALSE
      <3>0. \A k \in S : k <= a => k <= b
        BY <2>1
      <3>1. Below(a) \in SUBSET Below(b)
        BY <3>0, Zenon
      <3>2. Below(a) = Below(b)
        BY <1>2, <2>1, <3>1, FS_Subset
      <3>3. b \in Below(b) /\ b \notin Below(a)
        BY <2>1
      <3> QED
        BY <3>2, <3>3
    <2>2. ~(i < j) /\ ~(j < i)
      BY <1>3, <2>1
    <2> QED
      BY <2>2
  <1>4. rank \in Injection(S, 1 .. c)
    <2>1. rank \in [S -> 1 .. c]
      BY <1>1, <1>2
    <2>2. \A a, b \in S : rank[a] = rank[b] => a = b
      BY <1>3
    <2> QED
      BY <2>1, <2>2, Zenon DEF Injection, IsInjective
  <1>5. rank \in Surjection(S, 1 .. c)
    <2>1. IsFiniteSet(1 .. c) /\ Cardinality(1 .. c) = c
      BY <1>1, FS_Interval
    <2> QED
      BY <1>4, <2>1, FS_Injection
  <1>6. ASSUME NEW j \in 1 .. c
        PROVE  At(j) \in S
    <2>1. \E i \in S : Cardinality(Below(i)) = j
      BY <1>5, Zenon DEF Surjection
    <2> QED
      BY <2>1, Zenon
  <1>7. ASSUME NEW i \in S
        PROVE  At(Cardinality(Below(i))) = i
    <2>1. At(Cardinality(Below(i))) \in S
             /\ Cardinality(Below(At(Cardinality(Below(i))))) = Cardinality(Below(i))
      BY Zenon
    <2> QED
      BY <2>1, <1>3
  <1>8. Elements(S) = [j \in 1 .. c |-> Streamers[At(j)]]
    BY DEF Elements
  <1> HIDE DEF At, Below, c
  <1>9. \A i \in S : Cardinality(Below(i)) \in 1 .. c
    BY <1>1, <1>2
  <1>10. Elements(S) \in [1 .. c -> {Streamers[i] : i \in S}]
    BY <1>6, <1>8, Zenon
  <1>11. Elements(S) \in Seq({Streamers[i] : i \in S}) /\ Len(Elements(S)) = c
    BY <1>1, <1>10
  <1>12. \A j \in 1 .. c : \E i \in S : Elements(S)[j] = Streamers[i]
    BY <1>6, <1>8, Zenon
  <1>13. \A i \in S : \E j \in 1 .. c : Elements(S)[j] = Streamers[i]
    BY <1>7, <1>8, <1>9
  <1>14. c \in 0 .. n /\ DOMAIN Elements(S) = 1 .. c
    BY <1>1, <1>8
  <1> QED
    BY <1>11, <1>12, <1>13, <1>14 DEF c

LEMMA CheckedType ==
    ASSUME Streamers \in Seq(Topic)
    PROVE  Checked \in 0 .. Len(Streamers)
  <1> DEFINE throwing == {i \in DOMAIN Streamers : TopicHasError[Streamers[i]]}
  <1>1. DOMAIN Streamers = 1 .. Len(Streamers) /\ Len(Streamers) \in Nat
    OBVIOUS
  <1>2. CASE throwing = {}
    BY <1>1, <1>2 DEF Checked
  <1>3. CASE throwing # {}
    <2>1. \E i \in throwing : \A j \in throwing : ~(<<j, i>> \in OpToRel(<, Nat))
      <3>1. throwing \subseteq Nat
        BY <1>1
      <3> QED
        BY <1>3, <3>1, WFMin, NatLessThanWellFounded, Zenon
    <2>2. \A x, y \in Nat : x < y => <<x, y>> \in OpToRel(<, Nat)
      BY DEF OpToRel
    <2>3. throwing \subseteq Nat
      BY <1>1
    <2> HIDE DEF throwing
    <2>4. \E i \in throwing : \A j \in throwing : ~(j < i)
      BY <2>1, <2>2, <2>3, Zenon
    <2>5. \E i \in throwing : \A j \in throwing : i <= j
      BY <2>3, <2>4
    <2> DEFINE m == CHOOSE k \in throwing : \A j \in throwing : k <= j
    <2>6. m \in throwing
      BY <2>5
    <2>7. Checked = m - 1
      BY <1>3 DEF Checked, throwing
    <2> HIDE DEF m
    <2> QED
      BY <1>1, <2>6, <2>7 DEF throwing
  <1> QED
    BY <1>2, <1>3

\* std::remove_if loses no topic that is not done, and brings the topics to
\* keep to the front.
LEMMA CompactedEffect ==
    ASSUME Streamers \in Seq(Topic), NEW n \in 0 .. Len(Streamers)
    PROVE  /\ Compacted(n) \in Seq(Topic \cup {NullTopic})
           /\ Len(Compacted(n)) = Len(Streamers)
           /\ Len(Kept(n)) \in 0 .. n
           /\ \A i \in 1 .. Len(Kept(n)) : Compacted(n)[i] \in Topic
           /\ \A t \in Range(Streamers) : ~IsDone[t] => t \in Range(Compacted(n))
           /\ \A t \in Topic : t \in Range(Compacted(n)) => t \in Range(Streamers)
           /\ n = Len(Streamers) =>
                 \A i \in Len(Kept(n)) + 1 .. Len(Streamers) :
                    Compacted(n)[i] \in Topic => IsDone[Compacted(n)[i]]
  <1> DEFINE S == {i \in 1 .. n : ~IsDone[Streamers[i]]}
             kept == Elements(S)
             l == Len(Streamers)
             s == Compacted(n)
  <1>1. /\ n \in Nat /\ l \in Nat /\ n <= l
        /\ DOMAIN Streamers = 1 .. l
        /\ \A i \in 1 .. l : Streamers[i] \in Topic
    OBVIOUS
  <1>2. /\ Len(kept) \in 0 .. n
        /\ \A j \in 1 .. Len(kept) : \E i \in S : kept[j] = Streamers[i]
        /\ \A i \in S : \E j \in 1 .. Len(kept) : kept[j] = Streamers[i]
    <2>1. S \in SUBSET (1 .. n)
      OBVIOUS
    <2>2. /\ Cardinality(S) \in 0 .. n /\ Len(kept) = Cardinality(S)
          /\ \A j \in 1 .. Cardinality(S) : \E i \in S : kept[j] = Streamers[i]
          /\ \A i \in S : \E j \in 1 .. Cardinality(S) : kept[j] = Streamers[i]
      BY <1>1, <2>1, ElementsOf, Zenon
    <2> QED
      BY <2>2, Zenon
  <1>3. Kept(n) = kept
    BY DEF Kept
  <1>4. s = [i \in 1 .. l |-> IF i <= Len(kept) THEN kept[i]
                              ELSE IF i <= n /\ ~IsDone[Streamers[i]] THEN NullTopic
                              ELSE Streamers[i]]
    BY <1>1, <1>3 DEF Compacted
  <1>5. \A i \in S : i \in 1 .. l
    BY <1>1
  <1>6. \A j \in 1 .. Len(kept) :
           kept[j] \in Topic /\ \E i \in 1 .. l : kept[j] = Streamers[i]
    BY <1>1, <1>2, <1>5
  <1>7. \A i \in 1 .. n : ~IsDone[Streamers[i]] => i \in S
    OBVIOUS
  <1> HIDE DEF S, kept, s
  <1>8. \A i \in 1 .. l : s[i] \in Topic \cup {NullTopic}
    BY <1>1, <1>2, <1>4, <1>6
  <1>9. s \in Seq(Topic \cup {NullTopic}) /\ Len(s) = l /\ DOMAIN s = 1 .. l
    BY <1>1, <1>4, <1>8
  <1>10. \A i \in 1 .. Len(kept) : i \in 1 .. l /\ s[i] = kept[i]
    BY <1>1, <1>2, <1>4
  <1>11. ASSUME NEW t \in Range(Streamers), ~IsDone[t]
         PROVE  t \in Range(s)
    <2>1. PICK i \in 1 .. l : Streamers[i] = t
      BY <1>1 DEF Range
    <2>2. CASE i <= n
      <3>0. i \in 1 .. n
        BY <1>1, <2>2
      <3>1. PICK j \in 1 .. Len(kept) : kept[j] = t
        BY <1>2, <1>7, <1>11, <2>1, <3>0, Zenon
      <3> QED
        BY <1>9, <1>10, <3>1, Zenon DEF Range
    <2>3. CASE ~(i <= n)
      <3>1. s[i] = t
        BY <1>1, <1>2, <1>4, <2>1, <2>3
      <3> QED
        BY <1>9, <3>1 DEF Range
    <2> QED
      BY <2>2, <2>3
  <1>12. ASSUME NEW t \in Topic, t \in Range(s)
         PROVE  t \in Range(Streamers)
    <2>1. PICK i \in 1 .. l : s[i] = t
      BY <1>9, <1>12 DEF Range
    <2>2. CASE i <= Len(kept)
      <3>1. \E k \in 1 .. l : t = Streamers[k]
        BY <1>2, <1>6, <1>10, <2>1, <2>2
      <3> QED
        BY <1>1, <3>1 DEF Range
    <2>3. CASE ~(i <= Len(kept))
      <3>1. t = Streamers[i]
        BY <1>4, <2>1, <2>3, ControllerAssumption, Zenon
      <3> QED
        BY <1>1, <3>1 DEF Range
    <2> QED
      BY <2>2, <2>3
  <1>13. ASSUME n = l, NEW i \in Len(kept) + 1 .. l, s[i] \in Topic
         PROVE  IsDone[s[i]]
    <2>1. i \in 1 .. l /\ ~(i <= Len(kept)) /\ i <= n
      BY <1>1, <1>2, <1>13
    <2> QED
      BY <1>4, <1>13, <2>1, ControllerAssumption
  <1> QED
    BY <1>2, <1>3, <1>6, <1>9, <1>10, <1>11, <1>12, <1>13, Zenon DEF s

-----------------------------------------------------------------------------
LEMMA ConstantTypes ==
    /\ Horizon \in Nat /\ Horizon # 0 /\ MaxMessages \in Nat
    /\ MaxRetries \in Nat /\ MaxSetStops \in Nat /\ NoTime \in Nat
    /\ TopicSeq \in Seq(Topic) /\ Len(TopicSeq) \in Nat
    /\ DOMAIN TopicSeq = 1 .. Len(TopicSeq)
    /\ \A t \in Topic : \E i \in 1 .. Len(TopicSeq) : TopicSeq[i] = t
    /\ \A i, j \in 1 .. Len(TopicSeq) : TopicSeq[i] = TopicSeq[j] => i = j
    /\ TopicOf \in [Part -> Topic] /\ NullTopic \notin Topic
    /\ StopTimes \subseteq StopTime
  <1>1. DOMAIN TopicSeq = 1 .. Len(TopicSeq) /\ Len(TopicSeq) \in Nat
    BY ControllerAssumption
  <1>2. \A t \in Topic : \E i \in 1 .. Len(TopicSeq) : TopicSeq[i] = t
    BY <1>1 DEF Topic
  <1> QED
    BY <1>1, <1>2, ControllerAssumption, Zenon DEF IsInjective, StopTime

LEMMA Actions ==
    ASSUME Next
    PROVE  \/ Tick \/ stopNow \/ \E t \in StopTimes : setStopTime(t)
           \/ hasWritingStopped \/ setToIdle \/ DestructorStop
           \/ ExecutorExits \/ WriterJoined \/ StreamersFreed
           \/ SetStopTimeTask \/ getTopicNames \/ TopicMissing \/ initStreams
           \/ NoneDone \/ RemoveIf \/ Erase \/ StreamError
           \/ \E t \in Topic :
                 \/ TopicSetStopTime(t) \/ MetadataCall(t)
                 \/ MetadataCallFails(t) \/ createStreams(t) \/ checkIfDone(t)
           \/ \E p \in Part :
                 \/ Hold(p) \/ ForwardMessage(p)
                 \/ FinishPartition(p) \/ PartitionEnds(p)
           \/ WriterStep
  BY DEF Next, Command, EndOfJob, ExecutorStep, TopicStep, PartitionStep

\* The steps that change neither the vector, nor the stage or the end of a
\* topic, nor a partition.
Quiet ==
    /\ UNCHANGED <<Streamers, task, newEnd, stage, IsDone, TopicHasError, part,
                   buffered>>
    /\ main' = main \/ {main, main'} \cap {"join", "free", "idle"} = {}

LEMMA QuietSteps ==
    ASSUME \/ Tick \/ stopNow \/ \E t \in StopTimes : setStopTime(t)
           \/ hasWritingStopped \/ setToIdle \/ DestructorStop
           \/ SetStopTimeTask \/ NoneDone \/ WriterStep
    PROVE  Quiet
  <1> USE DEF Quiet, mainVars, controllerVars, topicVars, partVars, writerVars
  <1>1. CASE Tick
    BY <1>1, Zenon DEF Tick
  <1>2. CASE stopNow
    BY <1>2 DEF stopNow, Crash, StopAll
  <1>3. CASE \E t \in StopTimes : setStopTime(t)
    BY <1>3, Zenon DEF setStopTime
  <1>4. CASE hasWritingStopped \/ setToIdle
    BY <1>4, Zenon DEF hasWritingStopped, setToIdle
  <1>5. CASE DestructorStop
    BY <1>5 DEF DestructorStop, Crash, StopAll
  <1>6. CASE SetStopTimeTask
    BY <1>6, Zenon DEF SetStopTimeTask
  <1>7. CASE NoneDone
    BY <1>7, Zenon DEF NoneDone
  <1>8. CASE WriterStep
    BY <1>8 DEF WriterStep, WriteOne, LeaveLoop, WriterEnds
  <1> QED
    BY <1>1, <1>2, <1>3, <1>4, <1>5, <1>6, <1>7, <1>8, Zenon

\* A group of variables that a step leaves alone keeps its types.
LEMMA TypeGroups ==
    ASSUME IInv
    PROVE  /\ now \in 1 .. Horizon
           /\ MainTypeOK /\ ControllerTypeOK /\ TopicTypeOK /\ PartTypeOK
           /\ WriterTypeOK
           /\ UNCHANGED mainVars => MainTypeOK'
           /\ UNCHANGED controllerVars => ControllerTypeOK'
           /\ UNCHANGED topicVars => TopicTypeOK'
           /\ UNCHANGED partVars => PartTypeOK'
           /\ UNCHANGED writerVars => WriterTypeOK'
  <1>1. /\ now \in 1 .. Horizon
        /\ MainTypeOK /\ ControllerTypeOK /\ TopicTypeOK /\ PartTypeOK
        /\ WriterTypeOK
    BY DEF IInv, TypeOK
  <1>2. UNCHANGED mainVars => MainTypeOK'
    BY <1>1 DEF MainTypeOK, mainVars
  <1>3. UNCHANGED controllerVars => ControllerTypeOK'
    BY <1>1 DEF ControllerTypeOK, controllerVars
  <1>4. UNCHANGED topicVars => TopicTypeOK'
    BY <1>1 DEF TopicTypeOK, topicVars
  <1>5. UNCHANGED partVars => PartTypeOK'
    BY <1>1 DEF PartTypeOK, partVars
  <1>6. UNCHANGED writerVars => WriterTypeOK'
    BY <1>1 DEF WriterTypeOK, writerVars
  <1> QED
    BY <1>1, <1>2, <1>3, <1>4, <1>5, <1>6, Zenon

\* The vector while initStreams runs, and between remove_if and erase.
LEMMA Initing ==
    ASSUME IInv, task = "initStreams"
    PROVE  /\ Streamers \in Seq(Topic)
           /\ Len(Streamers) \in Nat /\ Len(Streamers) < Len(TopicSeq)
           /\ main \notin {"join", "free", "idle"}
  <1>1. /\ Streamers \in Seq(Topic) /\ Len(Streamers) < Len(TopicSeq)
        /\ main \notin {"join", "free", "idle"}
    BY Zenon DEF IInv, VectorInv
  <1> QED
    BY <1>1

LEMMA Erasing ==
    ASSUME IInv, task = "erasing"
    PROVE  /\ Streamers \in Seq(Topic \cup {NullTopic})
           /\ newEnd \in 0 .. Len(Streamers)
           /\ \A i \in 1 .. newEnd : Streamers[i] \in Topic
           /\ \A i \in newEnd + 1 .. Len(Streamers) :
                 Streamers[i] \in Topic => IsDone[Streamers[i]]
           /\ Len(Streamers) <= Len(TopicSeq)
           /\ main \notin {"join", "free", "idle"}
           /\ \A t \in Topic : stage[t] # "none"
  <1>1. /\ newEnd <= Len(Streamers)
        /\ \A i \in 1 .. newEnd : Streamers[i] \in Topic
        /\ \A i \in newEnd + 1 .. Len(Streamers) :
              Streamers[i] \in Topic => IsDone[Streamers[i]]
        /\ Len(Streamers) <= Len(TopicSeq)
        /\ main \notin {"join", "free", "idle"}
        /\ \A t \in Topic : stage[t] # "none"
    BY Zenon DEF IInv, VectorInv
  <1>2. /\ Streamers \in Seq(Topic \cup {NullTopic})
        /\ newEnd \in 0 .. Len(TopicSeq)
    BY TypeGroups, Zenon DEF ControllerTypeOK
  <1>3. newEnd \in 0 .. Len(Streamers)
    <2>1. Len(TopicSeq) \in Nat /\ Len(Streamers) \in Nat
      BY <1>2, ConstantTypes
    <2> QED
      BY <1>1, <1>2, <2>1
  <1> QED
    BY <1>1, <1>2, <1>3

\* What the destructors of topics do.
LEMMA FreeEffect ==
    ASSUME IInv, NEW T, Free(T)
    PROVE  /\ part' = [p \in Part |-> IF TopicOf[p] \in T /\ part[p] # "none"
                                        THEN "gone" ELSE part[p]]
           /\ buffered' \in [Part -> BOOLEAN]
           /\ \A p \in Part : buffered'[p] =>
                 buffered[p] /\ ~(TopicOf[p] \in T /\ part[p] # "none")
           /\ stage' = [t \in Topic |-> IF t \in T THEN "gone" ELSE stage[t]]
           /\ \E k \in Nat : /\ forwarded' = forwarded + k
                             /\ queue' = queue + k
                             /\ T = {} => k = 0
  <1> DEFINE gone == {p \in Part : TopicOf[p] \in T /\ part[p] # "none"}
             held == {p \in gone : buffered[p]}
             k == Cardinality(held)
  <1>1. IsFiniteSet(held)
    BY FS_Subset, ControllerAssumption
  <1>2. k \in Nat
    BY <1>1, FS_CardinalityType, Zenon
  <1>3. T = {} => k = 0
    BY FS_EmptySet, Zenon
  <1>4. forwarded' = forwarded + k /\ queue' = queue + k
    BY DEF Free
  <1>5. part' = [p \in Part |-> IF TopicOf[p] \in T /\ part[p] # "none"
                                  THEN "gone" ELSE part[p]]
    BY DEF Free
  <1>6. buffered' = [p \in Part |-> buffered[p] /\ p \notin held]
    BY DEF Free
  <1>7. buffered \in [Part -> BOOLEAN]
    BY TypeGroups DEF PartTypeOK
  <1>8. \A p \in Part : buffered'[p] <=> buffered[p] /\ p \notin held
    BY <1>6, <1>7, Zenon
  <1>9. buffered' \in [Part -> BOOLEAN]
    BY <1>6, <1>7, Zenon
  <1>10. stage' = [t \in Topic |-> IF t \in T THEN "gone" ELSE stage[t]]
    BY DEF Free
  <1> QED
    BY <1>2, <1>3, <1>4, <1>5, <1>8, <1>9, <1>10, Zenon

-----------------------------------------------------------------------------
\* The vector of topics.

LEMMA AppendRange ==
    ASSUME NEW S, NEW s \in Seq(S), NEW e \in S
    PROVE  Range(Append(s, e)) = Range(s) \cup {e}
  <1> DEFINE a == Append(s, e)
  <1>1. /\ DOMAIN s = 1 .. Len(s) /\ DOMAIN a = 1 .. Len(s) + 1
        /\ Len(s) \in Nat
        /\ \A i \in 1 .. Len(s) : a[i] = s[i]
        /\ a[Len(s) + 1] = e
    OBVIOUS
  <1> HIDE DEF a
  <1>2. \A x \in Range(a) : x \in Range(s) \cup {e}
    BY <1>1 DEF Range
  <1>3. \A x \in Range(s) \cup {e} : x \in Range(a)
    BY <1>1 DEF Range
  <1> QED
    BY <1>2, <1>3 DEF a

LEMMA SubSeqRange ==
    ASSUME NEW S, NEW s \in Seq(S), NEW n \in 0 .. Len(s)
    PROVE  /\ SubSeq(s, 1, n) \in Seq(S)
           /\ Len(SubSeq(s, 1, n)) = n
           /\ \A i \in 1 .. n : SubSeq(s, 1, n)[i] = s[i]
           /\ \A x \in Range(SubSeq(s, 1, n)) :
                 \E i \in 1 .. n : x = s[i]
           /\ \A i \in 1 .. n : s[i] \in Range(SubSeq(s, 1, n))
  <1> DEFINE a == SubSeq(s, 1, n)
  <1>1. /\ a \in Seq(S) /\ Len(a) = n /\ DOMAIN a = 1 .. n
        /\ \A i \in 1 .. n : a[i] = s[i]
    OBVIOUS
  <1> HIDE DEF a
  <1> QED
    BY <1>1, Zenon DEF a, Range

\* The vector still holds the live topics when those it has lost are freed.
LEMMA VectorFreed ==
    ASSUME VectorInv, main # "idle", main' # "idle",
           \A t \in Topic : t \in Range(Streamers') => t \in Range(Streamers),
           stage' = [t \in Topic |->
                       IF t \in Range(Streamers) \ Range(Streamers') THEN "gone"
                       ELSE stage[t]]
    PROVE  /\ \A t \in Topic :
                 t \in Range(Streamers') /\ main' # "idle" <=> Live(t)'
           /\ \A t \in Topic : stage[t] # "none" => stage'[t] # "none"
  BY Zenon DEF VectorInv, Live

LEMMA VectorInitStreams ==
    ASSUME IInv, initStreams
    PROVE  VectorInv'
  <1> DEFINE n == Len(Streamers)
             t == TopicSeq[n + 1]
  <1>1. /\ task = "initStreams" /\ Streamers \in Seq(Topic)
        /\ n \in Nat /\ n < Len(TopicSeq)
        /\ main \notin {"join", "free", "idle"}
    BY Initing, Zenon DEF initStreams
  <1>2. /\ t \in Topic /\ n + 1 \in 1 .. Len(TopicSeq)
        /\ stage[t] = "none"
    <2>1. n + 1 \in 1 .. Len(TopicSeq) /\ n + 1 \in n + 1 .. Len(TopicSeq)
      BY <1>1, ConstantTypes
    <2>2. t \in Topic
      BY <2>1, ConstantTypes
    <2> QED
      BY <1>1, <2>1, <2>2, Zenon DEF IInv, VectorInv
  <1>3. /\ Streamers' = Append(Streamers, t)
        /\ stage' = [stage EXCEPT ![t] = "partitions"]
        /\ task' = IF Len(Streamers') = Len(TopicSeq) THEN "periodic" ELSE task
        /\ UNCHANGED <<main, newEnd, IsDone>>
    BY DEF initStreams, mainVars
  <1>4. /\ Streamers' \in Seq(Topic) /\ Len(Streamers') = n + 1
        /\ \A i \in 1 .. n : Streamers'[i] = Streamers[i]
        /\ Streamers'[n + 1] = t
    <2> HIDE DEF t
    <2> QED
      BY <1>1, <1>2, <1>3
  <1>5. stage \in [Topic -> {"none", "partitions", "offsets", "create", "check",
                             "failed", "gone"}]
    BY TypeGroups, Zenon DEF TopicTypeOK
  <1> HIDE DEF t, n
  <1>6. Len(Streamers') <= Len(TopicSeq)
    BY <1>1, <1>2, <1>4, ConstantTypes
  <1>7. Range(Streamers') = Range(Streamers) \cup {t}
    BY <1>1, <1>2, <1>3, AppendRange
  <1>8. \A u \in Topic : u \in Range(Streamers') /\ main' # "idle" <=> Live(u)'
    <2>1. \A u \in Topic : u \in Range(Streamers) <=> Live(u)
      BY <1>1 DEF IInv, VectorInv
    <2> QED
      BY <1>1, <1>2, <1>3, <1>5, <1>7, <2>1, Zenon DEF Live
  <1>9. \A i \in n + 2 .. Len(TopicSeq) : stage'[TopicSeq[i]] = "none"
    <2>1. ASSUME NEW i \in n + 2 .. Len(TopicSeq)
          PROVE  stage'[TopicSeq[i]] = "none"
      <3>1. i \in n + 1 .. Len(TopicSeq) /\ i \in 1 .. Len(TopicSeq) /\ i # n + 1
        BY <1>1, ConstantTypes
      <3>2. TopicSeq[i] # t /\ TopicSeq[i] \in Topic
        BY <1>2, <3>1, ConstantTypes DEF t
      <3>3. stage[TopicSeq[i]] = "none"
        BY <1>1, <3>1 DEF n, IInv, VectorInv
      <3> QED
        BY <1>3, <1>5, <3>2, <3>3, Zenon
    <2> QED
      BY <2>1, Zenon
  <1>10. n + 1 = Len(TopicSeq) => \A u \in Topic : stage'[u] # "none"
    <2>1. ASSUME n + 1 = Len(TopicSeq), NEW u \in Topic
          PROVE  stage'[u] # "none"
      <3>1. PICK i \in 1 .. Len(TopicSeq) : TopicSeq[i] = u
        BY ConstantTypes
      <3>2. CASE i = n + 1
        BY <1>2, <1>3, <1>5, <3>1, <3>2, Zenon DEF t
      <3>3. CASE i # n + 1
        <4>1. i \in 1 .. n
          BY <1>1, <2>1, <3>1, <3>3
        <4>2. Streamers[i] = u
          BY <1>1, <3>1, <4>1, Zenon DEF n, IInv, VectorInv
        <4>3. u \in Range(Streamers)
          BY <1>1, <4>1, <4>2 DEF Range, n
        <4>4. Live(u)'
          BY <1>1, <1>3, <1>7, <1>8, <4>3, Zenon
        <4> QED
          BY <4>4 DEF Live
      <3> QED
        BY <3>2, <3>3
    <2> QED
      BY <2>1
  <1>11. \A i \in 1 .. n + 1 : Streamers'[i] = TopicSeq[i]
    BY <1>1, <1>4 DEF n, t, IInv, VectorInv
  <1>12. /\ \A i \in 1 .. Len(Streamers') : Streamers'[i] = TopicSeq[i]
         /\ \A i \in Len(Streamers') + 1 .. Len(TopicSeq) :
               stage'[TopicSeq[i]] = "none"
    <2>1. Len(Streamers') + 1 = n + 2
      BY <1>1, <1>4
    <2> QED
      BY <1>4, <1>9, <1>11, <2>1, Zenon
  <1>13. Len(Streamers') # Len(TopicSeq) => Len(Streamers') < Len(TopicSeq)
    <2>1. Len(TopicSeq) \in Nat /\ Len(Streamers') \in Nat
      BY <1>1, <1>4, ConstantTypes
    <2> QED
      BY <1>6, <2>1
  <1>14. task' \in {"initStreams", "periodic"}
           /\ (task' = "periodic" <=> Len(Streamers') = Len(TopicSeq))
    BY <1>1, <1>3, Zenon
  <1>15. task' = "periodic" => \A u \in Topic : stage'[u] # "none"
    BY <1>4, <1>10, <1>14, Zenon
  <1> QED
    BY <1>1, <1>3, <1>4, <1>6, <1>8, <1>12, <1>13, <1>14, <1>15, Zenon
       DEF VectorInv

LEMMA VectorRemoveIf ==
    ASSUME IInv, RemoveIf
    PROVE  VectorInv'
  <1> DEFINE n == Checked
  <1>1. /\ task = "periodic" /\ Streamers \in Seq(Topic)
        /\ main \notin {"join", "free", "idle"}
        /\ \A t \in Topic : stage[t] # "none"
        /\ Len(Streamers) <= Len(TopicSeq)
    BY DEF RemoveIf, IInv, VectorInv
  <1>2. n \in 0 .. Len(Streamers)
    BY <1>1, CheckedType
  <1>3. /\ Streamers' = Compacted(n) /\ UNCHANGED <<main, IsDone>>
        /\ Free(Range(Streamers) \ Range(Streamers'))
        /\ \/ task' = "erasing" /\ newEnd' = Len(Kept(n)) /\ n = Len(Streamers)
           \/ task' = "failing"
    BY Zenon DEF RemoveIf, mainVars
  <1> HIDE DEF n
  <1>4. /\ Len(Streamers') = Len(Streamers)
        /\ \A t \in Topic : t \in Range(Streamers') => t \in Range(Streamers)
    BY <1>1, <1>2, <1>3, CompactedEffect, Zenon
  <1>5. task' = "erasing" =>
           /\ newEnd' <= Len(Streamers')
           /\ \A i \in 1 .. newEnd' : Streamers'[i] \in Topic
           /\ \A i \in newEnd' + 1 .. Len(Streamers') :
                 Streamers'[i] \in Topic => IsDone'[Streamers'[i]]
    BY <1>1, <1>2, <1>3, CompactedEffect
  <1>6. stage' = [t \in Topic |->
                    IF t \in Range(Streamers) \ Range(Streamers') THEN "gone"
                    ELSE stage[t]]
    BY <1>3, FreeEffect, Zenon
  <1>7. /\ \A t \in Topic : t \in Range(Streamers') /\ main' # "idle" <=> Live(t)'
        /\ \A t \in Topic : stage'[t] # "none"
    BY <1>1, <1>3, <1>4, <1>6, VectorFreed, Zenon DEF IInv
  <1> QED
    BY <1>1, <1>3, <1>4, <1>5, <1>7, Zenon DEF VectorInv

LEMMA VectorErase ==
    ASSUME IInv, Erase
    PROVE  VectorInv'
  <1>1. /\ task = "erasing" /\ Streamers \in Seq(Topic \cup {NullTopic})
        /\ main \notin {"join", "free", "idle"}
        /\ \A t \in Topic : stage[t] # "none"
        /\ newEnd \in 0 .. Len(Streamers)
        /\ \A i \in 1 .. newEnd : Streamers[i] \in Topic
        /\ Len(Streamers) <= Len(TopicSeq)
    BY Erasing DEF Erase
  <1>2. /\ Streamers' = SubSeq(Streamers, 1, newEnd) /\ UNCHANGED <<main, IsDone>>
        /\ Free(Range(Streamers) \ Range(Streamers'))
        /\ task' = "periodic"
    BY Zenon DEF Erase, mainVars
  <1>3. /\ Len(Streamers') = newEnd
        /\ Streamers' \in Seq(Topic \cup {NullTopic})
        /\ \A i \in 1 .. newEnd : Streamers'[i] = Streamers[i]
    BY <1>1, <1>2, SubSeqRange, ZenonT(40)
  <1>4. Streamers' \in Seq(Topic)
    BY <1>1, <1>3
  <1>5. \A t \in Topic : t \in Range(Streamers') => t \in Range(Streamers)
    <2>1. ASSUME NEW t \in Topic, t \in Range(Streamers')
          PROVE  t \in Range(Streamers)
      <3>1. PICK i \in 1 .. newEnd : t = Streamers[i]
        BY <1>1, <1>2, <2>1, SubSeqRange, Zenon
      <3>2. i \in DOMAIN Streamers
        BY <1>1
      <3> QED
        BY <3>1, <3>2 DEF Range
    <2> QED
      BY <2>1
  <1>6. stage' = [t \in Topic |->
                    IF t \in Range(Streamers) \ Range(Streamers') THEN "gone"
                    ELSE stage[t]]
    BY <1>2, FreeEffect, Zenon
  <1>7. /\ \A t \in Topic : t \in Range(Streamers') /\ main' # "idle" <=> Live(t)'
        /\ \A t \in Topic : stage'[t] # "none"
    BY <1>1, <1>2, <1>5, <1>6, VectorFreed, Zenon DEF IInv
  <1>8. Len(Streamers') <= Len(TopicSeq)
    <2>1. Len(TopicSeq) \in Nat /\ Len(Streamers) \in Nat
      BY <1>1, ConstantTypes
    <2> QED
      BY <1>1, <1>3, <2>1
  <1> QED
    BY <1>1, <1>2, <1>4, <1>7, <1>8, Zenon DEF VectorInv

\* The stages through which the tasks of a topic take it.
TopicMoves(t) ==
    /\ stage[t] \notin {"none", "gone", "check", "failed"}
    /\ stage' \in [Topic -> {"none", "partitions", "offsets", "create", "check",
                             "failed", "gone"}]
    /\ stage'[t] \in {"partitions", "offsets", "create", "check", "failed"}
    /\ \A u \in Topic \ {t} : stage'[u] = stage[u]
    /\ UNCHANGED <<Streamers, task, newEnd, IsDone, main>>

LEMMA TopicMovesSteps ==
    ASSUME IInv, NEW t \in Topic,
           MetadataCall(t) \/ MetadataCallFails(t) \/ createStreams(t)
    PROVE  TopicMoves(t)
  <1> USE DEF TopicMoves, mainVars, controllerVars, topicVars
  <1>0. stage \in [Topic -> {"none", "partitions", "offsets", "create", "check",
                             "failed", "gone"}]
    BY TypeGroups, Zenon DEF TopicTypeOK
  <1>1. CASE MetadataCall(t)
    BY <1>0, <1>1, Zenon DEF MetadataCall
  <1>2. CASE MetadataCallFails(t)
    BY <1>0, <1>2, Zenon DEF MetadataCallFails
  <1>3. CASE createStreams(t)
    BY <1>0, <1>3, Zenon DEF createStreams
  <1> QED
    BY <1>1, <1>2, <1>3, Zenon

LEMMA VectorTopic ==
    ASSUME IInv, NEW t \in Topic, TopicMoves(t)
    PROVE  VectorInv'
  <1>1. \A u \in Topic : /\ Live(u)' <=> Live(u)
                         /\ stage'[u] = "none" <=> stage[u] = "none"
    BY DEF TopicMoves, Live
  <1>2. \A i \in 1 .. Len(TopicSeq) : TopicSeq[i] \in Topic
    BY ConstantTypes
  <1>3. /\ Len(Streamers) \in Nat
        /\ \A i \in Len(Streamers) + 1 .. Len(TopicSeq) : i \in 1 .. Len(TopicSeq)
    BY TypeGroups, ConstantTypes DEF ControllerTypeOK
  <1> QED
    BY <1>1, <1>2, <1>3, Zenon DEF TopicMoves, IInv, VectorInv

LEMMA VectorPart ==
    ASSUME IInv, UNCHANGED <<Streamers, task, newEnd, stage, IsDone>>,
           main' = main \/ {main, main'} \cap {"join", "free", "idle"} = {}
    PROVE  VectorInv'
  <1>1. \A t \in Topic : Live(t)' <=> Live(t)
    BY DEF Live
  <1> QED
    BY <1>1, Zenon DEF IInv, VectorInv

LEMMA VectorEnd ==
    ASSUME IInv, ExecutorExits \/ WriterJoined \/ StreamersFreed
    PROVE  VectorInv'
  <1>1. CASE ExecutorExits
    <2>1. /\ main = "exit" /\ main' = "join" /\ task' = "none"
          /\ task \notin {"erasing", "failing"}
          /\ UNCHANGED <<Streamers, newEnd, stage, IsDone>>
      BY <1>1 DEF ExecutorExits, InTask, topicVars
    <2>2. \A t \in Topic : Live(t)' <=> Live(t)
      BY <2>1, Zenon DEF Live
    <2> QED
      BY <2>1, <2>2, Zenon DEF IInv, VectorInv
  <1>2. CASE WriterJoined
    <2>1. /\ main = "join" /\ main' = "free"
          /\ UNCHANGED <<task, Streamers, newEnd, stage, IsDone>>
      BY <1>2 DEF WriterJoined, topicVars, controllerVars
    <2>2. \A t \in Topic : Live(t)' <=> Live(t)
      BY <2>1, Zenon DEF Live
    <2> QED
      BY <2>1, <2>2, Zenon DEF IInv, VectorInv
  <1>3. CASE StreamersFreed
    <2>1. /\ main = "free" /\ main' = "idle" /\ task = "none"
          /\ UNCHANGED <<task, Streamers, newEnd, IsDone>>
          /\ Free(Range(Streamers))
      BY <1>3, Zenon DEF StreamersFreed, controllerVars, IInv, VectorInv
    <2>2. stage' = [t \in Topic |-> IF t \in Range(Streamers) THEN "gone"
                                    ELSE stage[t]]
      BY <2>1, FreeEffect, Zenon
    <2>3. \A t \in Topic : t \in Range(Streamers) <=> Live(t)
      BY <2>1 DEF IInv, VectorInv
    <2>4. \A t \in Topic : ~Live(t)'
      BY <2>2, <2>3 DEF Live
    <2> QED
      BY <2>1, <2>4, Zenon DEF IInv, VectorInv
  <1> QED
    BY <1>1, <1>2, <1>3, Zenon

LEMMA VectorOther ==
    ASSUME IInv, \/ getTopicNames \/ TopicMissing \/ StreamError
                 \/ \E t \in Topic : checkIfDone(t)
    PROVE  VectorInv'
  <1> USE DEF mainVars, controllerVars, topicVars
  <1>1. CASE getTopicNames
    <2>1. /\ task = "getTopicNames" /\ UNCHANGED <<main, Streamers, newEnd, stage, IsDone>>
          /\ main \notin {"join", "free", "idle"}
          /\ Streamers = <<>>
          /\ \/ task' = task
             \/ task' = "initStreams" /\ TopicSeq # <<>>
             \/ task' = "periodic" /\ TopicSeq = <<>>
      BY <1>1 DEF getTopicNames, IInv, VectorInv
    <2>2. \A t \in Topic : Live(t)' <=> Live(t)
      BY <2>1 DEF Live
    <2>3. TopicSeq = <<>> => Topic = {}
      BY DEF Topic
    <2>4. TopicSeq # <<>> => Len(<<>>) < Len(TopicSeq)
      BY ConstantTypes
    <2> QED
      BY <2>1, <2>2, <2>3, <2>4, Zenon DEF IInv, VectorInv
  <1>2. CASE TopicMissing
    <2>1. /\ task = "initStreams" /\ task' = "none"
          /\ UNCHANGED <<main, Streamers, newEnd, stage, IsDone>>
      BY <1>2 DEF TopicMissing
    <2>2. \A t \in Topic : Live(t)' <=> Live(t)
      BY <2>1, Zenon DEF Live
    <2> QED
      BY <2>1, <2>2, Zenon DEF IInv, VectorInv
  <1>3. CASE StreamError
    <2>1. task = "failing" /\ UNCHANGED <<Streamers, newEnd, stage, IsDone>>
      BY <1>3, Zenon DEF StreamError, Crash
    <2>2. \/ task' = task /\ main' = "crashed"
          \/ task' = "periodic" /\ main' = main /\ NullTopic \notin Range(Streamers)
      BY <1>3 DEF StreamError, Crash, MeetsNull
    <2>3. \A t \in Topic : Live(t)' <=> Live(t)
      BY <2>1 DEF Live
    <2>4. main \notin {"join", "free", "idle"}
      BY <2>1, Zenon DEF IInv, VectorInv
    <2>5. NullTopic \notin Range(Streamers) => Streamers \in Seq(Topic)
      <3>1. Streamers \in Seq(Topic \cup {NullTopic})
        BY TypeGroups, Zenon DEF ControllerTypeOK
      <3> QED
        BY <3>1 DEF Range
    <2> QED
      BY <2>1, <2>2, <2>3, <2>4, <2>5, Zenon DEF IInv, VectorInv
  <1>4. CASE \E t \in Topic : checkIfDone(t)
    <2>1. PICK t \in Topic : checkIfDone(t)
      BY <1>4, Zenon
    <2>2. /\ UNCHANGED <<Streamers, task, newEnd, stage, main>>
          /\ \A u \in Topic : IsDone[u] => IsDone'[u]
      BY <2>1, TypeGroups, ZenonT(40) DEF checkIfDone, TopicTypeOK
    <2>3. \A u \in Topic : Live(u)' <=> Live(u)
      BY <2>2, Zenon DEF Live
    <2> QED
      BY <2>2, <2>3 DEF IInv, VectorInv
  <1> QED
    BY <1>1, <1>2, <1>3, <1>4, Zenon

LEMMA PartitionFrame ==
    ASSUME IInv, NEW p \in Part,
           Hold(p) \/ ForwardMessage(p) \/ FinishPartition(p) \/ PartitionEnds(p)
    PROVE  /\ UNCHANGED <<mainVars, controllerVars, topicVars, partStop,
                          RunThread, writer, written>>
           /\ part[p] = "running"
           /\ part'[p] \in {"running", "finished"}
           /\ part' \in [Part -> {"none", "running", "finished", "gone"}]
           /\ \A q \in Part \ {p} : part'[q] = part[q] /\ buffered'[q] = buffered[q]
  <1>0. /\ part \in [Part -> {"none", "running", "finished", "gone"}]
        /\ buffered \in [Part -> BOOLEAN]
    BY TypeGroups, Zenon DEF PartTypeOK
  <1>1. CASE Hold(p) \/ ForwardMessage(p)
    <2>1. /\ UNCHANGED <<mainVars, controllerVars, topicVars, part, partStop,
                         RunThread, writer, written>>
          /\ part[p] = "running"
          /\ \E b \in BOOLEAN : buffered' = [buffered EXCEPT ![p] = b]
      BY <1>1, Zenon DEF Hold, ForwardMessage, writerVars
    <2> QED
      BY <1>0, <2>1
  <1>2. CASE FinishPartition(p) \/ PartitionEnds(p)
    <2>1. /\ UNCHANGED <<mainVars, controllerVars, topicVars, buffered, partStop,
                         RunThread, writer, written>>
          /\ part[p] = "running"
          /\ part' = [part EXCEPT ![p] = "finished"]
      BY <1>2, Zenon DEF FinishPartition, PartitionEnds, writerVars
    <2> QED
      BY <1>0, <2>1, Zenon
  <1> QED
    BY <1>1, <1>2, Zenon

LEMMA SetStopFrame ==
    ASSUME NEW t \in Topic, TopicSetStopTime(t)
    PROVE  UNCHANGED <<mainVars, controllerVars, stage, IsDone, TopicHasError,
                       retries, part, buffered, writerVars>>
  BY Zenon DEF TopicSetStopTime

LEMMA VectorStep ==
    ASSUME IInv, Next
    PROVE  VectorInv'
  <1>1. ASSUME Quiet PROVE VectorInv'
    BY <1>1, VectorPart, Zenon DEF Quiet
  <1>2. CASE \E t \in Topic : TopicSetStopTime(t)
    BY <1>2, SetStopFrame, VectorPart, Zenon DEF mainVars, controllerVars
  <1>3. CASE \E p \in Part : \/ Hold(p) \/ ForwardMessage(p)
                             \/ FinishPartition(p) \/ PartitionEnds(p)
    BY <1>3, PartitionFrame, VectorPart, Zenon
       DEF mainVars, controllerVars, topicVars
  <1>4. CASE \E t \in Topic :
                MetadataCall(t) \/ MetadataCallFails(t) \/ createStreams(t)
    BY <1>4, TopicMovesSteps, VectorTopic, Zenon
  <1> QED
    BY <1>1, <1>2, <1>3, <1>4, Actions, QuietSteps, VectorInitStreams,
       VectorRemoveIf, VectorErase, VectorEnd, VectorOther, Zenon

-----------------------------------------------------------------------------
\* The topics and their partitions.

\* What the compaction of the vector frees is done.
LEMMA FreedAreDone ==
    ASSUME IInv, RemoveIf \/ Erase
    PROVE  /\ Free(Range(Streamers) \ Range(Streamers'))
           /\ \A t \in Topic : t \in Range(Streamers) \ Range(Streamers')
                 => IsDone[t]
           /\ UNCHANGED <<main, IsDone, TopicHasError, partStop,
                          StopConsumeTime, topicStopTasks, stopTasks,
                          StopTimestamp>>
  <1> USE DEF mainVars
  <1>1. CASE RemoveIf
    <2>1. /\ Streamers \in Seq(Topic)
          /\ Streamers' = Compacted(Checked)
      BY <1>1, Zenon DEF RemoveIf, IInv, VectorInv
    <2>2. \A t \in Range(Streamers) : ~IsDone[t] => t \in Range(Streamers')
      BY <2>1, CheckedType, CompactedEffect, Zenon
    <2> QED
      BY <1>1, <2>2, Zenon DEF RemoveIf
  <1>2. CASE Erase
    <2>1. /\ newEnd \in 0 .. Len(Streamers)
          /\ Streamers \in Seq(Topic \cup {NullTopic})
          /\ \A i \in newEnd + 1 .. Len(Streamers) :
                Streamers[i] \in Topic => IsDone[Streamers[i]]
          /\ Streamers' = SubSeq(Streamers, 1, newEnd)
      BY <1>2, Erasing, Zenon DEF Erase
    <2>2. ASSUME NEW t \in Topic, t \in Range(Streamers) \ Range(Streamers')
          PROVE  IsDone[t]
      <3>1. PICK i \in 1 .. Len(Streamers) : Streamers[i] = t
        BY <2>1, <2>2 DEF Range
      <3>2. ~(i \in 1 .. newEnd)
        BY <2>1, <2>2, <3>1, SubSeqRange, Zenon
      <3>3. i \in newEnd + 1 .. Len(Streamers)
        BY <2>1, <3>2
      <3> QED
        BY <2>1, <3>1, <3>3, Zenon
    <2> QED
      BY <1>2, <2>2, Zenon DEF Erase
  <1> QED
    BY <1>1, <1>2

LEMMA TopicFree ==
    ASSUME IInv, NEW T, Free(T), UNCHANGED <<IsDone, TopicHasError>>,
           \/ main' = "idle"
           \/ main # "idle" /\ \A t \in Topic : t \in T => IsDone[t]
    PROVE  TopicInv'
  <1>1. stage' = [t \in Topic |-> IF t \in T THEN "gone" ELSE stage[t]]
    BY FreeEffect, ZenonT(40)
  <1> QED
    BY <1>1 DEF IInv, TopicInv

LEMMA PartFree ==
    ASSUME IInv, NEW T, Free(T), UNCHANGED IsDone
    PROVE  PartInv'
  <1>1. /\ stage' = [t \in Topic |-> IF t \in T THEN "gone" ELSE stage[t]]
        /\ part' = [p \in Part |-> IF TopicOf[p] \in T /\ part[p] # "none"
                                     THEN "gone" ELSE part[p]]
        /\ \A p \in Part : buffered'[p] =>
              buffered[p] /\ ~(TopicOf[p] \in T /\ part[p] # "none")
    BY FreeEffect
  <1>2. \A p \in Part : TopicOf[p] \in Topic
    BY ConstantTypes, Zenon
  <1>3. ASSUME NEW p \in Part
        PROVE  /\ stage'[TopicOf[p]] = "check" => part'[p] \in {"running", "finished"}
               /\ stage'[TopicOf[p]] = "gone" => part'[p] \in {"none", "gone"}
               /\ stage'[TopicOf[p]] \notin {"check", "gone"} => part'[p] = "none"
               /\ IsDone'[TopicOf[p]] => part'[p] \in {"finished", "gone"}
               /\ buffered'[p] => part'[p] \in {"running", "finished"}
    BY <1>1, <1>2, Zenon DEF IInv, PartInv
  <1> QED
    BY <1>3, ZenonT(40) DEF PartInv

\* The other steps of the controller's executor and of its end.
LEMMA ControlFrame ==
    ASSUME \/ ExecutorExits \/ WriterJoined
           \/ getTopicNames \/ TopicMissing \/ StreamError
    PROVE  /\ UNCHANGED <<stage, topicStopTasks, StopConsumeTime, IsDone,
                          TopicHasError, part, partStop, buffered, Streamers,
                          StopTimestamp, stopTasks, queue, written, forwarded,
                          writer>>
           /\ main' # "idle"  \/ main = "idle"
  <1> USE DEF mainVars, controllerVars, topicVars, partVars, writerVars
  <1>1. CASE ExecutorExits \/ WriterJoined
    BY <1>1, Zenon DEF ExecutorExits, WriterJoined
  <1>2. CASE getTopicNames \/ TopicMissing
    BY <1>2, Zenon DEF getTopicNames, TopicMissing
  <1>3. CASE StreamError
    BY <1>3 DEF StreamError, Crash
  <1> QED
    BY <1>1, <1>2, <1>3, Zenon

\* What initStreams does to a topic.
LEMMA InitStreamsEffect ==
    ASSUME IInv, initStreams
    PROVE  \E t \in Topic :
              /\ stage[t] = "none"
              /\ Streamers' = Append(Streamers, t)
              /\ stage' = [stage EXCEPT ![t] = "partitions"]
              /\ StopConsumeTime' = [StopConsumeTime EXCEPT ![t] = StopTimestamp]
              /\ UNCHANGED <<main, IsDone, TopicHasError, part, buffered, partStop,
                             stopTasks, topicStopTasks, StopTimestamp>>
  <1> DEFINE n == Len(Streamers)
             t == TopicSeq[n + 1]
  <1>1. n \in Nat /\ n < Len(TopicSeq) /\ task = "initStreams"
    BY Initing DEF initStreams
  <1>2. n + 1 \in 1 .. Len(TopicSeq) /\ n + 1 \in n + 1 .. Len(TopicSeq)
    <2>1. TopicSeq \in Seq(Topic)
      BY ConstantTypes, Zenon
    <2>2. Len(TopicSeq) \in Nat
      BY <2>1
    <2> HIDE DEF n
    <2> QED
      BY <1>1, <2>2
  <1>3. t \in Topic /\ stage[t] = "none"
    <2>1. \A i \in n + 1 .. Len(TopicSeq) : stage[TopicSeq[i]] = "none"
      BY <1>1, Zenon DEF IInv, VectorInv
    <2>2. TopicSeq \in Seq(Topic)
      BY ConstantTypes, Zenon
    <2> HIDE DEF n
    <2>3. t \in Topic
      BY <1>2, <2>2
    <2> QED
      BY <1>2, <2>1, <2>3, Zenon
  <1>4. /\ stage' = [stage EXCEPT ![t] = "partitions"]
        /\ StopConsumeTime' = [StopConsumeTime EXCEPT ![t] = StopTimestamp]
        /\ Streamers' = Append(Streamers, t)
        /\ UNCHANGED <<main, IsDone, TopicHasError, part, buffered, partStop,
                       stopTasks, topicStopTasks, StopTimestamp>>
    BY Zenon DEF initStreams, mainVars, partVars
  <1> QED
    BY <1>3, <1>4, Zenon

LEMMA TopicStepInv ==
    ASSUME IInv, Next
    PROVE  TopicInv'
  <1> USE DEF mainVars, controllerVars, topicVars
  <1>0. /\ TopicInv
        /\ stage \in [Topic -> {"none", "partitions", "offsets", "create", "check",
                                "failed", "gone"}]
        /\ IsDone \in [Topic -> BOOLEAN] /\ TopicHasError \in [Topic -> BOOLEAN]
    BY TypeGroups, Zenon DEF IInv, TopicTypeOK
  <1>1. ASSUME UNCHANGED <<stage, IsDone, TopicHasError>>,
               main' # "idle" => main # "idle"
        PROVE  TopicInv'
    BY <1>0, <1>1 DEF TopicInv
  <1>2. ASSUME Quiet PROVE TopicInv'
    BY <1>1, <1>2, Zenon DEF Quiet
  <1>3. CASE \E t \in Topic : TopicSetStopTime(t)
    BY <1>1, <1>3, SetStopFrame, Zenon
  <1>4. CASE \E p \in Part : \/ Hold(p) \/ ForwardMessage(p)
                             \/ FinishPartition(p) \/ PartitionEnds(p)
    BY <1>1, <1>4, PartitionFrame, Zenon
  <1>5. CASE \/ ExecutorExits \/ WriterJoined
             \/ getTopicNames \/ TopicMissing \/ StreamError
    <2>1. main # "idle"
      BY <1>5, Zenon DEF ExecutorExits, WriterJoined, getTopicNames, TopicMissing,
                  StreamError, LowPriority, Executing, IInv, VectorInv
    <2> QED
      BY <1>1, <1>5, <2>1, ControlFrame, Zenon
  <1>6. CASE RemoveIf \/ Erase
    <2>1. main # "idle"
      BY <1>6, Zenon DEF RemoveIf, Erase, IInv, VectorInv
    <2> QED
      BY <1>6, <2>1, FreedAreDone, TopicFree, Zenon
  <1>7. CASE StreamersFreed
    BY <1>7, TopicFree, Zenon DEF StreamersFreed
  <1>8. CASE initStreams
    BY <1>0, <1>8, InitStreamsEffect, Zenon DEF TopicInv
  <1>9. CASE \E t \in Topic :
                MetadataCall(t) \/ MetadataCallFails(t) \/ createStreams(t)
    <2>1. PICK t \in Topic :
                MetadataCall(t) \/ MetadataCallFails(t) \/ createStreams(t)
      BY <1>9
    <2>2. TopicMoves(t)
      BY <2>1, TopicMovesSteps
    <2>3. \/ UNCHANGED TopicHasError
          \/ /\ TopicHasError' = [TopicHasError EXCEPT ![t] = TRUE]
             /\ stage' = [stage EXCEPT ![t] = "failed"]
      BY <2>1, Zenon DEF MetadataCall, MetadataCallFails, createStreams
    <2>4. ~IsDone[t] /\ ~TopicHasError[t]
      BY <1>0, <2>2, Zenon DEF TopicMoves, TopicInv
    <2> QED
      BY <1>0, <2>2, <2>3, <2>4, Zenon DEF TopicMoves, TopicInv
  <1>10. CASE \E t \in Topic : checkIfDone(t)
    BY <1>0, <1>10, ZenonT(40) DEF checkIfDone, TopicInv
  <1> QED
    BY <1>2, <1>3, <1>4, <1>5, <1>6, <1>7, <1>8, <1>9, <1>10, Actions,
       QuietSteps, Zenon

LEMMA PartStepInv ==
    ASSUME IInv, Next
    PROVE  PartInv'
  <1> USE DEF mainVars, controllerVars, topicVars
  <1>0. /\ PartInv /\ TopicInv
        /\ stage \in [Topic -> {"none", "partitions", "offsets", "create", "check",
                                "failed", "gone"}]
        /\ IsDone \in [Topic -> BOOLEAN] /\ TopicHasError \in [Topic -> BOOLEAN]
        /\ part \in [Part -> {"none", "running", "finished", "gone"}]
        /\ buffered \in [Part -> BOOLEAN]
        /\ \A p \in Part : TopicOf[p] \in Topic
    BY TypeGroups, ConstantTypes, ZenonT(40) DEF IInv, TopicTypeOK, PartTypeOK
  <1>1. ASSUME UNCHANGED <<stage, IsDone, part, buffered>>
        PROVE  PartInv'
    BY <1>0, <1>1, Zenon DEF PartInv
  <1>2. ASSUME Quiet PROVE PartInv'
    BY <1>1, <1>2, Zenon DEF Quiet
  <1>3. CASE \E t \in Topic : TopicSetStopTime(t)
    BY <1>1, <1>3, SetStopFrame
  <1>4. CASE \E p \in Part : \/ Hold(p) \/ ForwardMessage(p)
                             \/ FinishPartition(p) \/ PartitionEnds(p)
    <2>1. PICK p \in Part : \/ Hold(p) \/ ForwardMessage(p)
                            \/ FinishPartition(p) \/ PartitionEnds(p)
      BY <1>4
    <2>2. /\ UNCHANGED <<stage, IsDone>>
          /\ part[p] = "running" /\ part'[p] \in {"running", "finished"}
          /\ \A q \in Part \ {p} : part'[q] = part[q] /\ buffered'[q] = buffered[q]
      BY <2>1, PartitionFrame, Zenon
    <2> QED
      BY <1>0, <2>2, Zenon DEF PartInv
  <1>5. CASE \/ ExecutorExits \/ WriterJoined
             \/ getTopicNames \/ TopicMissing \/ StreamError
    BY <1>1, <1>5, ControlFrame, Zenon
  <1>6. CASE RemoveIf \/ Erase
    BY <1>6, FreedAreDone, PartFree, Zenon
  <1>7. CASE StreamersFreed
    BY <1>7, PartFree, Zenon DEF StreamersFreed
  <1>8. CASE initStreams
    <2>1. PICK t \in Topic : /\ stage[t] = "none"
                             /\ stage' = [stage EXCEPT ![t] = "partitions"]
                             /\ UNCHANGED <<IsDone, part, buffered>>
      BY <1>8, InitStreamsEffect, Zenon
    <2> QED
      BY <1>0, <2>1, Zenon DEF PartInv
  <1>9. CASE \E t \in Topic : MetadataCall(t) \/ MetadataCallFails(t)
    <2>1. PICK t \in Topic : MetadataCall(t) \/ MetadataCallFails(t)
      BY <1>9
    <2>2. TopicMoves(t)
      BY <2>1, TopicMovesSteps, Zenon
    <2>3. stage'[t] # "check" /\ UNCHANGED <<part, buffered>>
      BY <1>0, <2>1, Zenon DEF MetadataCall, MetadataCallFails, partVars
    <2> QED
      BY <1>0, <2>2, <2>3, Zenon DEF TopicMoves, PartInv
  <1>10. CASE \E t \in Topic : createStreams(t)
    <2>1. PICK t \in Topic : createStreams(t)
      BY <1>10
    <2>2. /\ stage[t] = "create" /\ stage' = [stage EXCEPT ![t] = "check"]
          /\ part' = [p \in Part |-> IF TopicOf[p] = t THEN "running" ELSE part[p]]
          /\ UNCHANGED <<IsDone, buffered>>
      BY <2>1, Zenon DEF createStreams
    <2>3. ~IsDone[t]
      BY <1>0, <2>2, Zenon DEF TopicInv
    <2> QED
      BY <1>0, <2>2, <2>3 DEF PartInv
  <1>11. CASE \E t \in Topic : checkIfDone(t)
    <2>1. PICK t \in Topic : checkIfDone(t)
      BY <1>11
    <2>2. /\ \A p \in Part : TopicOf[p] = t => part[p] = "finished"
          /\ IsDone' = [IsDone EXCEPT ![t] = TRUE]
          /\ UNCHANGED <<stage, part, buffered>>
      BY <2>1, Zenon DEF checkIfDone, PartsOf, partVars
    <2> QED
      BY <1>0, <2>2 DEF PartInv
  <1> QED
    BY <1>2, <1>3, <1>4, <1>5, <1>6, <1>7, <1>8, <1>9, <1>10, <1>11, Actions,
       QuietSteps, ZenonT(40)

-----------------------------------------------------------------------------
\* The way of the stop time.

LEMMA NewestOf ==
    ASSUME NEW S, NEW s \in Seq(S)
    PROVE  /\ \A e \in S : Append(s, e) # <<>> /\ Newest(Append(s, e)) = e
           /\ s # <<>> =>
                 /\ Tail(s) \in Seq(S) /\ Head(s) \in S
                 /\ Tail(s) # <<>> => Newest(Tail(s)) = Newest(s)
                 /\ Tail(s) = <<>> => Head(s) = Newest(s)
  <1>1. \A e \in S : Append(s, e) # <<>> /\ Newest(Append(s, e)) = e
    BY DEF Newest
  <1>2. ASSUME s # <<>>
        PROVE  /\ Tail(s) \in Seq(S) /\ Head(s) \in S
               /\ Tail(s) # <<>> => Newest(Tail(s)) = Newest(s)
               /\ Tail(s) = <<>> => Head(s) = Newest(s)
    <2>1. /\ Tail(s) \in Seq(S) /\ Len(Tail(s)) = Len(s) - 1
          /\ \A i \in 1 .. Len(Tail(s)) : Tail(s)[i] = s[i + 1]
          /\ Len(s) \in Nat /\ Len(s) # 0 /\ Head(s) = s[1] /\ Head(s) \in S
      BY <1>2
    <2>2. Tail(s) # <<>> => Newest(Tail(s)) = Newest(s)
      BY <2>1 DEF Newest
    <2>3. Tail(s) = <<>> => Head(s) = Newest(s)
      <3>1. Tail(s) = <<>> => Len(s) = 1
        <4> DEFINE u == Tail(s)
        <4>1. Len(u) = Len(s) - 1 /\ Len(s) \in Nat
          BY <2>1
        <4> HIDE DEF u
        <4>2. u = <<>> => Len(u) = 0
          OBVIOUS
        <4>3. u = <<>> => Len(s) = 1
          BY <4>1, <4>2
        <4> QED
          BY <4>3 DEF u
      <3> QED
        BY <2>1, <3>1 DEF Newest
    <2> QED
      BY <2>1, <2>2, <2>3
  <1> QED
    BY <1>1, <1>2

LEMMA StopStill ==
    ASSUME IInv, UNCHANGED <<stopTasks, StopTimestamp, topicStopTasks,
                             StopConsumeTime, partStop>>,
           \A t \in Topic : /\ Live(t)' => Live(t)
                            /\ stage'[t] = "none" => stage[t] = "none",
           \A p \in Part : part'[p] \in {"running", "finished"} =>
                              part[p] \in {"running", "finished"}
    PROVE  StopInv'
  BY Zenon DEF IInv, StopInv

\* StopInv after a step, clause by clause.
LEMMA StopClauses ==
    ASSUME stopTasks' # <<>> => Newest(stopTasks') = StopTimestamp',
           \A t \in Topic : stage'[t] = "none" => topicStopTasks'[t] = <<>>,
           stopTasks' = <<>> =>
               \A t \in Topic : Live(t)' =>
                  StopTimestamp' = IF topicStopTasks'[t] # <<>>
                                     THEN Newest(topicStopTasks'[t])
                                     ELSE StopConsumeTime'[t],
           \A p \in Part : part'[p] \in {"running", "finished"} =>
               partStop'[p] = StopConsumeTime'[TopicOf[p]]
    PROVE  StopInv'
  BY Zenon DEF StopInv, Newest

LEMMA StopCommand ==
    ASSUME IInv, stopNow \/ \E t \in StopTimes : setStopTime(t)
    PROVE  StopInv'
  <1> USE DEF mainVars, controllerVars, topicVars, partVars
  <1>1. CASE UNCHANGED <<controllerVars, topicVars, partVars>>
    BY <1>1, StopStill DEF Live
  <1>2. CASE ~UNCHANGED <<controllerVars, topicVars, partVars>>
    <2>1. PICK x \in StopTime : /\ stopTasks' = Append(stopTasks, x)
                                /\ StopTimestamp' = x
                                /\ UNCHANGED <<stage, topicStopTasks, part, partStop,
                                               StopConsumeTime>>
      <3>1. CASE stopNow
        <4>1. now \in StopTime
          BY TypeGroups, Zenon DEF StopTime
        <4>2. ~Crash
          BY <1>2, Zenon DEF Crash
        <4>3. /\ stopTasks' = Append(stopTasks, now) /\ StopTimestamp' = now
              /\ UNCHANGED <<stage, topicStopTasks, part, partStop,
                             StopConsumeTime>>
          BY <3>1, <4>2, Zenon DEF stopNow
        <4> QED
          BY <4>1, <4>3, Zenon
      <3>2. CASE \E t \in StopTimes : setStopTime(t)
        BY <3>2, ConstantTypes, Zenon DEF setStopTime
      <3> QED
        BY <3>1, <3>2, Zenon
    <2>2. stopTasks \in Seq(StopTime)
      BY TypeGroups, Zenon DEF ControllerTypeOK
    <2>3. stopTasks' # <<>> /\ Newest(stopTasks') = StopTimestamp'
      BY <2>1, <2>2, NewestOf, ZenonT(40)
    <2>4. Newest(stopTasks)' = Newest(stopTasks')
      BY DEF Newest
    <2> QED
      BY <2>1, <2>3, <2>4, ZenonT(40) DEF IInv, StopInv
  <1> QED
    BY <1>1, <1>2, Zenon

LEMMA StopTask ==
    ASSUME IInv, SetStopTimeTask
    PROVE  StopInv'
  <1> DEFINE x == Head(stopTasks)
  <1>1. /\ stopTasks \in Seq(StopTime) /\ stopTasks # <<>>
        /\ topicStopTasks \in [Topic -> Seq(StopTime)]
        /\ Newest(stopTasks) = StopTimestamp
        /\ \A t \in Topic : t \in Range(Streamers) <=> Live(t)
        /\ StopInv
    <2>1. stopTasks # <<>> /\ main # "idle"
      BY Zenon DEF SetStopTimeTask, Executing
    <2>2. /\ stopTasks \in Seq(StopTime)
          /\ topicStopTasks \in [Topic -> Seq(StopTime)]
      BY TypeGroups, Zenon DEF ControllerTypeOK, TopicTypeOK
    <2> QED
      BY <2>1, <2>2, Zenon DEF IInv, StopInv, VectorInv
  <1>2. /\ stopTasks' = Tail(stopTasks)
        /\ topicStopTasks' = [t \in Topic |->
                                IF t \in Range(Streamers)
                                  THEN Append(topicStopTasks[t], x)
                                  ELSE topicStopTasks[t]]
        /\ UNCHANGED <<StopTimestamp, StopConsumeTime, stage, part, partStop>>
    BY Zenon DEF SetStopTimeTask, partVars
  <1>3. /\ x \in StopTime
        /\ stopTasks' # <<>> => Newest(stopTasks') = StopTimestamp
        /\ stopTasks' = <<>> => x = StopTimestamp
    BY <1>1, <1>2, NewestOf, Zenon
  <1> HIDE DEF x
  <1>4. ASSUME NEW t \in Topic, Live(t)
        PROVE  topicStopTasks'[t] # <<>> /\ Newest(topicStopTasks'[t]) = x
    BY <1>1, <1>2, <1>3, <1>4, NewestOf
  <1>5. \A t \in Topic : stage[t] = "none" => topicStopTasks'[t] = <<>>
    BY <1>1, <1>2, Zenon DEF StopInv, Live
  <1>6. \A t \in Topic : Live(t)' <=> Live(t)
    BY <1>2 DEF Live
  <1>7. /\ \A t \in Topic : Newest(topicStopTasks[t])' = Newest(topicStopTasks'[t])
        /\ Newest(stopTasks)' = Newest(stopTasks')
    BY DEF Newest
  <1> QED
    BY <1>1, <1>2, <1>3, <1>4, <1>5, <1>6, <1>7, ZenonT(40) DEF StopInv

LEMMA StopTopic ==
    ASSUME IInv, NEW t \in Topic, TopicSetStopTime(t)
    PROVE  StopInv'
  <1> DEFINE x == Head(topicStopTasks[t])
             s == topicStopTasks[t]
  <1>1. /\ s \in Seq(StopTime) /\ s # <<>>
        /\ topicStopTasks \in [Topic -> Seq(StopTime)]
        /\ StopConsumeTime \in [Topic -> StopTime]
        /\ Live(t) /\ StopInv
        /\ \A p \in Part : TopicOf[p] \in Topic
    BY ConstantTypes, TypeGroups, ZenonT(40)
    DEF IInv, TopicTypeOK, TopicSetStopTime, Alive, Live
  <1>2. /\ topicStopTasks' = [topicStopTasks EXCEPT ![t] = Tail(s)]
        /\ StopConsumeTime' = [StopConsumeTime EXCEPT ![t] = x]
        /\ partStop' = [p \in Part |-> IF TopicOf[p] = t /\ part[p] # "none"
                                         THEN x ELSE partStop[p]]
        /\ UNCHANGED <<stopTasks, StopTimestamp, stage, part>>
    BY Zenon DEF TopicSetStopTime, controllerVars, Created
  <1>3. /\ Tail(s) # <<>> => Newest(Tail(s)) = Newest(s)
        /\ Tail(s) = <<>> => x = Newest(s)
    BY <1>1, NewestOf
  <1>4. topicStopTasks'[t] = Tail(s) /\ StopConsumeTime'[t] = x
    BY <1>1, <1>2, ZenonT(40)
  <1> HIDE DEF x, s
  <1>5. stopTasks = <<>> => StopTimestamp = Newest(s)
    BY <1>1, Zenon DEF StopInv, s
  <1>6. \A u \in Topic : Live(u)' <=> Live(u)
    BY <1>2, Zenon DEF Live
  <1>7. ASSUME NEW u \in Topic, Live(u), stopTasks = <<>>
        PROVE  StopTimestamp = IF topicStopTasks'[u] # <<>>
                                 THEN Newest(topicStopTasks'[u])
                                 ELSE StopConsumeTime'[u]
    <2>1. CASE u = t
      BY <1>3, <1>4, <1>5, <1>7, <2>1, ZenonT(40)
    <2>2. CASE u # t
      BY <1>1, <1>2, <1>7, <2>2, ZenonT(40) DEF StopInv
    <2> QED
      BY <2>1, <2>2
  <1>8. \A u \in Topic : stage[u] = "none" => topicStopTasks'[u] = <<>>
    BY <1>1, <1>2, ZenonT(40) DEF StopInv, Live
  <1>9. \A p \in Part : part[p] \in {"running", "finished"} =>
           partStop'[p] = StopConsumeTime'[TopicOf[p]]
    BY <1>1, <1>2, Zenon DEF StopInv
  <1>10. stopTasks' # <<>> => Newest(stopTasks') = StopTimestamp'
    BY <1>1, <1>2 DEF StopInv
  <1>11. stopTasks' = <<>> =>
             \A u \in Topic : Live(u)' =>
                StopTimestamp' = IF topicStopTasks'[u] # <<>>
                                   THEN Newest(topicStopTasks'[u])
                                   ELSE StopConsumeTime'[u]
    BY <1>2, <1>6, <1>7, ZenonT(40)
  <1>12. stage' = stage /\ part' = part
    BY <1>2, Zenon
  <1> QED
    BY <1>8, <1>9, <1>10, <1>11, <1>12, StopClauses, ZenonT(40)

LEMMA StopInitStreams ==
    ASSUME IInv, initStreams
    PROVE  StopInv'
  <1>1. PICK t \in Topic :
              /\ stage[t] = "none"
              /\ stage' = [stage EXCEPT ![t] = "partitions"]
              /\ StopConsumeTime' = [StopConsumeTime EXCEPT ![t] = StopTimestamp]
              /\ UNCHANGED <<part, partStop, stopTasks, topicStopTasks,
                             StopTimestamp>>
    BY InitStreamsEffect, Zenon
  <1>2. /\ stage \in [Topic -> {"none", "partitions", "offsets", "create", "check",
                                "failed", "gone"}]
        /\ StopConsumeTime \in [Topic -> StopTime]
        /\ StopInv /\ PartInv
        /\ \A p \in Part : TopicOf[p] \in Topic
    BY ConstantTypes, TypeGroups, Zenon DEF IInv, TopicTypeOK
  <1>3. topicStopTasks[t] = <<>> /\ StopConsumeTime'[t] = StopTimestamp
    BY <1>1, <1>2, Zenon DEF StopInv
  <1>4. \A u \in Topic \ {t} : /\ Live(u)' => Live(u)
                               /\ stage'[u] = stage[u]
                               /\ StopConsumeTime'[u] = StopConsumeTime[u]
    BY <1>1, <1>2, Zenon DEF Live
  <1>5. \A p \in Part : part[p] \in {"running", "finished"} => TopicOf[p] # t
    BY <1>1, <1>2, Zenon DEF PartInv
  <1>6. stage'[t] = "partitions"
    BY <1>1, <1>2
  <1> QED
    BY <1>1, <1>2, <1>3, <1>4, <1>5, <1>6, ZenonT(40) DEF StopInv

LEMMA StopCreate ==
    ASSUME IInv, NEW t \in Topic, createStreams(t)
    PROVE  StopInv'
  <1>1. /\ stage[t] = "create" /\ stage' = [stage EXCEPT ![t] = "check"]
        /\ part' = [p \in Part |-> IF TopicOf[p] = t THEN "running" ELSE part[p]]
        /\ partStop' = [p \in Part |-> IF TopicOf[p] = t THEN StopConsumeTime[t]
                                       ELSE partStop[p]]
        /\ UNCHANGED <<stopTasks, topicStopTasks, StopTimestamp, StopConsumeTime>>
    BY ZenonT(40) DEF createStreams, controllerVars
  <1>2. \A u \in Topic : /\ Live(u)' => Live(u)
                         /\ stage'[u] = "none" => stage[u] = "none"
    BY <1>1, TypeGroups, ZenonT(40) DEF TopicTypeOK, Live
  <1>3. \A p \in Part : part'[p] \in {"running", "finished"} =>
           partStop'[p] = StopConsumeTime[TopicOf[p]]
    BY <1>1, ZenonT(40) DEF IInv, StopInv
  <1>4. \A u \in Topic : Live(u)' /\ stopTasks = <<>> =>
             StopTimestamp = IF topicStopTasks[u] # <<>>
                               THEN Newest(topicStopTasks[u])
                               ELSE StopConsumeTime[u]
    BY <1>2, ZenonT(40) DEF IInv, StopInv
  <1>5. /\ \A u \in Topic : stage'[u] = "none" => topicStopTasks[u] = <<>>
        /\ stopTasks # <<>> => Newest(stopTasks) = StopTimestamp
    BY <1>2, ZenonT(40) DEF IInv, StopInv
  <1>6. /\ stopTasks' = stopTasks /\ topicStopTasks' = topicStopTasks
        /\ StopTimestamp' = StopTimestamp /\ StopConsumeTime' = StopConsumeTime
    BY <1>1, Zenon
  <1> QED
    BY <1>3, <1>4, <1>5, <1>6, StopClauses, ZenonT(40)

LEMMA StopStep ==
    ASSUME IInv, Next
    PROVE  StopInv'
  <1> USE DEF mainVars, controllerVars, topicVars, partVars
  <1>1. ASSUME UNCHANGED <<stopTasks, StopTimestamp, topicStopTasks,
                           StopConsumeTime, partStop, stage, part>>
        PROVE  StopInv'
    BY <1>1, StopStill DEF Live
  <1>2. CASE Tick \/ WriterStep
    BY <1>1, <1>2, ZenonT(40) DEF Tick, WriterStep, WriteOne, LeaveLoop, WriterEnds
  <1>3. CASE hasWritingStopped \/ setToIdle
    BY <1>1, <1>3, Zenon DEF hasWritingStopped, setToIdle
  <1>4. CASE DestructorStop
    BY <1>1, <1>4, Zenon DEF DestructorStop, Crash
  <1>5. CASE NoneDone
    BY <1>1, <1>5, Zenon DEF NoneDone
  <1>6. CASE \/ ExecutorExits \/ WriterJoined
             \/ getTopicNames \/ TopicMissing \/ StreamError
    BY <1>1, <1>6, ControlFrame, Zenon
  <1>7. ASSUME NEW T, Free(T), UNCHANGED <<stopTasks, StopTimestamp, topicStopTasks,
                                           StopConsumeTime, partStop>>
        PROVE  StopInv'
    <2>1. /\ stage' = [t \in Topic |-> IF t \in T THEN "gone" ELSE stage[t]]
          /\ part' = [p \in Part |-> IF TopicOf[p] \in T /\ part[p] # "none"
                                       THEN "gone" ELSE part[p]]
      BY <1>7, FreeEffect, ZenonT(40)
    <2> QED
      BY <1>7, <2>1, StopStill, Zenon DEF Live
  <1>8. CASE RemoveIf \/ Erase
    BY <1>7, <1>8, FreedAreDone, Zenon
  <1>9. CASE StreamersFreed
    BY <1>7, <1>9, Zenon DEF StreamersFreed
  <1>10. CASE \E t \in Topic : MetadataCall(t) \/ MetadataCallFails(t)
    <2>1. PICK t \in Topic : MetadataCall(t) \/ MetadataCallFails(t)
      BY <1>10
    <2>2. TopicMoves(t)
      BY <2>1, TopicMovesSteps
    <2>3. UNCHANGED <<stopTasks, StopTimestamp, topicStopTasks, StopConsumeTime,
                      partStop, part>>
      BY <2>1 DEF MetadataCall, MetadataCallFails
    <2> QED
      BY <2>2, <2>3, StopStill, Zenon DEF TopicMoves, Live
  <1>11. CASE \E t \in Topic : checkIfDone(t)
    BY <1>1, <1>11, ZenonT(40) DEF checkIfDone
  <1>12. CASE \E p \in Part : \/ Hold(p) \/ ForwardMessage(p)
                              \/ FinishPartition(p) \/ PartitionEnds(p)
    <2>1. PICK p \in Part : \/ Hold(p) \/ ForwardMessage(p)
                            \/ FinishPartition(p) \/ PartitionEnds(p)
      BY <1>12, SMTT(30)
    <2>2. /\ UNCHANGED <<stopTasks, StopTimestamp, topicStopTasks,
                         StopConsumeTime, partStop, stage>>
          /\ part[p] = "running"
          /\ \A q \in Part \ {p} : part'[q] = part[q]
      BY <2>1, PartitionFrame, ZenonT(40)
    <2> QED
      BY <2>2, StopStill, Zenon DEF Live
  <1> QED
    BY <1>2, <1>3, <1>4, <1>5, <1>6, <1>8, <1>9, <1>10, <1>11, <1>12, Actions,
       StopCommand, StopTask, StopTopic, StopInitStreams, StopCreate, ZenonT(40)
=============================================================================
