---------------------------- MODULE MetricsProofs ----------------------------
(***************************************************************************)
(* Proofs about the metrics (modules Metrics and CarbonConnection), for    *)
(* any number of metrics, names and messages, and any failures of the      *)
(* network: what a reporter has is what is registered with it, and the     *)
(* connection to the server is one connection.                             *)
(***************************************************************************)
EXTENDS Metrics, FiniteSetTheorems, TLAPS

-----------------------------------------------------------------------------
\* The metrics.

\* A reporter has a metric under its name as long as the metric knows of the
\* reporter, and the metric is not gone by then.  The names of a round are
\* taken from the map, which is locked until the round is over.
MetricTypes ==
    /\ MetricsToReportOn \in [Sink -> [Name -> Metric \cup {NoMetric}]]
    /\ reporter \in [Sink -> {"waiting", "reporting", "joined"}]
    /\ todo \in [Sink -> SUBSET Name]
    /\ metric \in [Metric -> [phase : {"unborn", "registering", "registered",
                                       "destroying", "gone"},
                              name : Name \cup {NoName},
                              left : SUBSET Sink, on : SUBSET Sink]]

RegisteredInv ==
    /\ \A m \in Metric :
         /\ metric[m].phase \in {"unborn", "gone"} => metric[m].on = {}
         /\ metric[m].phase = "registering" =>
                metric[m].name # NoName /\ metric[m].left # {}
         /\ \A s \in metric[m].on :
                metric[m].name \in Name /\ MetricsToReportOn[s][metric[m].name] = m
    /\ \A s \in Sink : \A n \in Names(s) :
         LET m == MetricsToReportOn[s][n]
         IN  metric[m].name = n /\ s \in metric[m].on
    /\ \A s \in Sink : /\ todo[s] \subseteq Names(s)
                       /\ todo[s] # {} => Locked(s)

-----------------------------------------------------------------------------
\* The connection.

Handler == [op : Operation \cup {"wait"}, error : BOOLEAN, n : Nat]
Character == Nat \X {1, 2}

\* The connections that the calls of the handlers are functions of.
Conn == [state : {"ADDR_LOOKUP", "CONNECT", "SEND_LOOP", "ADDR_RETRY_WAIT"},
         open : BOOLEAN, left : Nat, pending : SUBSET Operation,
         ready : Seq(Handler), queue : Seq(Nat), buffer : Seq(Character),
         taken : Nat]

CarbonTypes ==
    /\ ConnectionState \in {"ADDR_LOOKUP", "CONNECT", "SEND_LOOP",
                            "ADDR_RETRY_WAIT"}
    /\ isOpen \in BOOLEAN /\ endpoints \in Nat
    /\ pending \in SUBSET Operation /\ ready \in Seq(Handler)
    /\ Messages \in Seq(Nat) /\ offered \in Nat
    /\ MessageBuffer \in Seq(Character) /\ taken \in Nat

\* What an attempt to connect or a connection consists of, and the sending loop.
Link == {"resolve", "connect", "timer", "receive"}
Loop == {"write", "wait"}

\* Some operation of G is among the pending ones P or the handlers R that are
\* waiting to run; not two of them.
Some(P, R, G) == P \cap G # {} \/ \E i \in DOMAIN R : R[i].op \in G
NoTwo(P, R, G) ==
    /\ \A a, b \in P \cap G : a = b
    /\ \A i, j \in DOMAIN R : R[i].op \in G /\ R[j].op \in G => i = j
    /\ P \cap G = {} \/ \A i \in DOMAIN R : R[i].op \notin G

\* The sending loop of a connection that was lost may still be waiting to run
\* when the connection is waited for again.  It runs before the timer that ends
\* the wait, because handlers run in the order of completion, and finds the
\* socket closed.
LinkInv(P, R, open) ==
    /\ Some(P, R, Link) /\ NoTwo(P, R, Link) /\ NoTwo(P, R, Loop)
    /\ open /\ Some(P, R, {"receive"}) => Some(P, R, Loop)
    /\ Some(P, R, {"connect"}) => open
    /\ Some(P, R, {"resolve", "connect"}) => ~Some(P, R, Loop)
    /\ Some(P, R, {"resolve", "timer"}) => ~open
    /\ ~open => P \cap SocketOps = {}
    /\ \A i, j \in DOMAIN R : R[i].op = "timer" /\ R[j].op \in Loop => j < i

ConnectionInv == LinkInv(pending, ready, isOpen)

-----------------------------------------------------------------------------
\* Registering, reporting and removing metrics.

RegInv == MetricTypes /\ RegisteredInv

LEMMA RegInit == Init => RegInv
  <1> SUFFICES ASSUME Init PROVE RegInv
    OBVIOUS
  <1>1. MetricTypes
    BY DEF Init, MetricTypes, Unborn
  <1>2. \A s \in Sink : Names(s) = {}
    BY DEF Init, Names
  <1>3. RegisteredInv
    BY <1>2, Zenon DEF Init, RegisteredInv, Unborn
  <1> QED
    BY <1>1, <1>3, Zenon DEF RegInv

\* The steps of other parties leave all of it alone.
LEMMA RegOthers ==
    ASSUME RegInv, UNCHANGED <<MetricsToReportOn, reporter, todo, metric>>
    PROVE  RegInv'
  <1>1. MetricTypes'
    BY DEF RegInv, MetricTypes
  <1>2. \A s \in Sink : Names(s)' = Names(s) /\ (Locked(s)' <=> Locked(s))
    BY Zenon DEF Names, Locked
  <1>3. RegisteredInv'
    BY <1>2 DEF RegInv, RegisteredInv
  <1> QED
    BY <1>1, <1>3, Zenon DEF RegInv

\* What the owner of a metric does to it and to nothing else.
LEMMA RegOwner ==
    ASSUME RegInv, NEW m \in Metric,
           \/ \E n \in Name \cup {NoName} : registerMetric(m, n)
           \/ Destroy(m)
    PROVE  RegInv'
  <1>1. UNCHANGED <<MetricsToReportOn, reporter, todo>>
    BY Zenon DEF registerMetric, Destroy
  <1>2. \A s \in Sink : Names(s)' = Names(s) /\ (Locked(s)' <=> Locked(s))
    BY <1>1, Zenon DEF Names, Locked
  <1>3. CASE \E n \in Name \cup {NoName} : registerMetric(m, n)
    <2>1. PICK n \in Name \cup {NoName} : registerMetric(m, n)
      BY <1>3, Zenon
    <2>a. SinksOf[m] \in SUBSET Sink /\ SinksOf[m] # {}
      BY MetricsAssumption, Zenon DEF Sink
    <2>2. /\ metric[m].phase = "unborn" /\ metric[m].on = {}
          /\ SinksOf[m] \in SUBSET Sink /\ SinksOf[m] # {}
      BY <2>1, <2>a, ZenonT(40) DEF registerMetric, RegInv, RegisteredInv
    <2>3. metric' = [metric EXCEPT ![m] =
             [metric[m] EXCEPT !.phase = IF n = NoName THEN "gone" ELSE "registering",
                               !.name = n, !.left = SinksOf[m]]]
      BY <2>1, Zenon DEF registerMetric
    <2>b. [metric[m] EXCEPT !.phase = IF n = NoName THEN "gone" ELSE "registering",
                            !.name = n, !.left = SinksOf[m]]
             \in [phase : {"unborn", "registering", "registered",
                           "destroying", "gone"},
                  name : Name \cup {NoName},
                  left : SUBSET Sink, on : SUBSET Sink]
      BY <2>2, ZenonT(40) DEF RegInv, MetricTypes
    <2>4. MetricTypes'
      BY <1>1, <2>b, <2>3 DEF RegInv, MetricTypes
    <2>5. /\ metric'[m].phase = IF n = NoName THEN "gone" ELSE "registering"
          /\ metric'[m].on = {} /\ metric'[m].name = n
          /\ metric'[m].left = SinksOf[m]
          /\ \A k \in Metric \ {m} : metric'[k] = metric[k]
      BY <2>2, <2>3 DEF RegInv, MetricTypes
    <2>6. \A s \in Sink : \A k \in Names(s) : /\ MetricsToReportOn[s][k] \in Metric
                                              /\ MetricsToReportOn[s][k] # m
      BY <2>2 DEF RegInv, RegisteredInv, MetricTypes, Names
    <2>7. RegisteredInv'
      BY <1>1, <1>2, <2>2, <2>5, <2>6 DEF RegInv, RegisteredInv
    <2> QED
      BY <2>4, <2>7, Zenon DEF RegInv
  <1>4. CASE Destroy(m)
    <2>1. /\ metric[m].phase = "registered"
          /\ metric' = [metric EXCEPT ![m].phase = "destroying"]
      BY <1>4, Zenon DEF Destroy
    <2>2. MetricTypes'
      BY <1>1, <2>1, Zenon DEF RegInv, MetricTypes
    <2>3. /\ metric'[m].phase = "destroying"
          /\ metric'[m].on = metric[m].on /\ metric'[m].name = metric[m].name
          /\ \A k \in Metric \ {m} : metric'[k] = metric[k]
      BY <2>1 DEF RegInv, MetricTypes
    <2>4. \A s \in Sink : \A k \in Names(s) : MetricsToReportOn[s][k] \in Metric
      BY DEF RegInv, MetricTypes, Names
    <2>5. RegisteredInv'
      BY <1>1, <1>2, <2>3, <2>4 DEF RegInv, RegisteredInv
    <2> QED
      BY <2>2, <2>5, Zenon DEF RegInv
  <1> QED
    BY <1>3, <1>4, Zenon

LEMMA RegAdd ==
    ASSUME RegInv, NEW m \in Metric, addMetric(m)
    PROVE  RegInv'
  <1>a. metric[m].phase = "registering"
    BY Zenon DEF addMetric
  <1>b. PICK s \in Sink, n \in Name : /\ s = FirstSink(metric[m].left)
                                      /\ s \in metric[m].left /\ n = metric[m].name
    BY <1>a DEF RegInv, RegisteredInv, MetricTypes, FirstSink, Sink
  <1>1. /\ metric[m].phase = "registering" /\ ~Locked(s)
        /\ UNCHANGED <<reporter, todo>>
    BY <1>b, Zenon DEF addMetric
  <1>2. s \in Sink /\ s \in metric[m].left /\ n \in Name /\ metric[m].name = n
    BY <1>b, Zenon
  <1>3. CASE n \in Names(s)
    <2>1. /\ metric' = [metric EXCEPT ![m].phase = "destroying"]
          /\ UNCHANGED MetricsToReportOn
      BY <1>b, <1>3, Zenon DEF addMetric
    <2>2. MetricTypes'
      BY <1>1, <2>1, ZenonT(40) DEF RegInv, MetricTypes
    <2>3. /\ metric'[m].phase = "destroying"
          /\ metric'[m].on = metric[m].on /\ metric'[m].name = metric[m].name
          /\ \A k \in Metric \ {m} : metric'[k] = metric[k]
      BY <2>1 DEF RegInv, MetricTypes
    <2>4. \A t \in Sink : \A k \in Names(t) : MetricsToReportOn[t][k] \in Metric
      BY DEF RegInv, MetricTypes, Names
    <2>5. \A t \in Sink : Names(t)' = Names(t) /\ (Locked(t)' <=> Locked(t))
      BY <1>1, <2>1 DEF Names, Locked
    <2>6. RegisteredInv'
      BY <2>1, <1>1, <2>3, <2>4, <2>5 DEF RegInv, RegisteredInv
    <2> QED
      BY <2>2, <2>6, Zenon DEF RegInv
  <1>4. CASE n \notin Names(s)
    <2>1. /\ MetricsToReportOn' = [MetricsToReportOn EXCEPT ![s][n] = m]
          /\ metric' = [metric EXCEPT ![m].left = metric[m].left \ {s},
                                      ![m].on = metric[m].on \cup {s},
                                      ![m].phase = IF metric[m].left = {s}
                                                   THEN "registered"
                                                   ELSE metric[m].phase]
      BY <1>b, <1>4, Zenon DEF addMetric
    <2>a. metric' = [metric EXCEPT ![m] =
             [metric[m] EXCEPT !.left = metric[m].left \ {s},
                               !.on = metric[m].on \cup {s},
                               !.phase = IF metric[m].left = {s}
                                         THEN "registered" ELSE "registering"]]
      BY <1>1, <2>1, Zenon DEF RegInv, MetricTypes
    <2>b. [metric[m] EXCEPT !.left = metric[m].left \ {s},
                            !.on = metric[m].on \cup {s},
                            !.phase = IF metric[m].left = {s}
                                      THEN "registered" ELSE "registering"]
             \in [phase : {"unborn", "registering", "registered",
                           "destroying", "gone"},
                  name : Name \cup {NoName},
                  left : SUBSET Sink, on : SUBSET Sink]
      BY <1>2, ZenonT(40) DEF RegInv, MetricTypes
    <2>c. MetricsToReportOn' \in [Sink -> [Name -> Metric \cup {NoMetric}]]
      BY <1>2, <2>1 DEF RegInv, MetricTypes
    <2>2. MetricTypes'
      BY <1>1, <2>a, <2>b, <2>c, ZenonT(40) DEF RegInv, MetricTypes
    <2>3. /\ metric'[m].phase = IF metric[m].left = {s} THEN "registered"
                                ELSE "registering"
          /\ metric'[m].on = metric[m].on \cup {s} /\ metric'[m].name = n
          /\ metric'[m].left = metric[m].left \ {s}
          /\ \A k \in Metric \ {m} : metric'[k] = metric[k]
      BY <1>1, <1>2, <2>1, Zenon DEF RegInv, MetricTypes
    <2>4. \A t \in Sink, k \in Name :
             MetricsToReportOn'[t][k] = IF t = s /\ k = n THEN m
                                        ELSE MetricsToReportOn[t][k]
      BY <1>2, <2>1, Zenon DEF RegInv, MetricTypes
    <2>5. /\ Names(s)' = Names(s) \cup {n}
          /\ \A t \in Sink \ {s} : Names(t)' = Names(t)
      <3>1. m # NoMetric
        BY MetricsAssumption, Zenon
      <3>2. \A k \in Name : k \in Names(s)' <=> k \in Names(s) \/ k = n
        BY <1>2, <2>4, <3>1, Zenon DEF Names
      <3>3. \A t \in Sink \ {s}, k \in Name : k \in Names(t)' <=> k \in Names(t)
        BY <2>4, Zenon DEF Names
      <3>4. \A t \in Sink : Names(t) \subseteq Name /\ Names(t)' \subseteq Name
        BY DEF Names
      <3> QED
        BY <1>2, <3>2, <3>3, <3>4, Zenon
    <2>6. \A t \in Sink : Locked(t)' <=> Locked(t)
      BY <1>1, Zenon DEF Locked
    <2>7. MetricsToReportOn[s][n] = NoMetric
      BY <1>2, <1>4, Zenon DEF Names
    <2>8. \A t \in Sink : \A k \in Names(t) : /\ MetricsToReportOn[t][k] \in Metric
                                              /\ k \in Name /\ ~(t = s /\ k = n)
      BY <1>4 DEF RegInv, MetricTypes, Names
    <2>9. ASSUME NEW k \in Metric
          PROVE  /\ metric'[k].phase \in {"unborn", "gone"} => metric'[k].on = {}
                 /\ metric'[k].phase = "registering" =>
                        metric'[k].name # NoName /\ metric'[k].left # {}
                 /\ \A t \in metric'[k].on :
                        /\ metric'[k].name \in Name
                        /\ MetricsToReportOn'[t][metric'[k].name] = k
      <3>1. metric[k].on \subseteq Sink
        BY Zenon DEF RegInv, MetricTypes
      <3>2. \A t \in metric[k].on : /\ metric[k].name \in Name
                                    /\ MetricsToReportOn[t][metric[k].name] = k
                                    /\ ~(t = s /\ metric[k].name = n)
        BY <2>7, MetricsAssumption DEF RegInv, RegisteredInv
      <3>3. CASE k = m
        <4>1. n # NoName
          BY <1>2, MetricsAssumption, Zenon
        <4>2. metric[m].name = n
          BY <1>2, Zenon
        <4>3. \A t \in metric'[m].on : MetricsToReportOn'[t][n] = m
          BY <1>2, <2>3, <2>4, <3>1, <3>2, <3>3, <4>2
        <4>4. metric'[m].phase = "registering" => metric'[m].left # {}
          BY <1>2, <2>3, Zenon
        <4> QED
          BY <1>2, <2>3, <3>3, <4>1, <4>3, <4>4, Zenon
      <3>4. CASE k # m
        BY <2>3, <2>4, <3>1, <3>2, <3>4 DEF RegInv, RegisteredInv
      <3> QED
        BY <3>3, <3>4, Zenon
    <2>10. ASSUME NEW t \in Sink, NEW k \in Names(t)'
           PROVE  /\ metric'[MetricsToReportOn'[t][k]].name = k
                  /\ t \in metric'[MetricsToReportOn'[t][k]].on
      <3>1. CASE t = s /\ k = n
        BY <1>2, <2>3, <2>4, <3>1, Zenon
      <3>2. CASE ~(t = s /\ k = n)
        <4>1. k \in Names(t) /\ k \in Name
          BY <1>2, <2>5, <3>2, Zenon DEF Names
        <4>2. MetricsToReportOn'[t][k] = MetricsToReportOn[t][k]
          BY <2>4, <3>2, <4>1, Zenon
        <4>3. /\ MetricsToReportOn[t][k] \in Metric
              /\ metric[MetricsToReportOn[t][k]].name = k
              /\ t \in metric[MetricsToReportOn[t][k]].on
          BY <2>8, <4>1, Zenon DEF RegInv, RegisteredInv
        <4> QED
          BY <1>2, <2>3, <4>2, <4>3, Zenon
      <3> QED
        BY <3>1, <3>2, Zenon
    <2>11. \A t \in Sink : todo'[t] \subseteq Names(t)' /\ (todo'[t] # {} => Locked(t)')
      BY <1>1, <2>5, <2>6 DEF RegInv, RegisteredInv
    <2>12. RegisteredInv'
      BY <2>9, <2>10, <2>11, Zenon DEF RegisteredInv
    <2> QED
      BY <2>2, <2>12 DEF RegInv
  <1> QED
    BY <1>3, <1>4, Zenon

LEMMA RegRemove ==
    ASSUME RegInv, NEW m \in Metric, tryRemoveMetric(m)
    PROVE  RegInv'
  <1>1. /\ metric[m].phase = "destroying"
        /\ UNCHANGED <<reporter, todo>>
    BY DEF tryRemoveMetric
  <1>2. CASE metric[m].on = {}
    <2>1. /\ metric' = [metric EXCEPT ![m].phase = "gone"]
          /\ UNCHANGED MetricsToReportOn
      BY <1>2 DEF tryRemoveMetric, RemoveFrom
    <2>2. MetricTypes'
      BY <1>1, <2>1, ZenonT(40) DEF RegInv, MetricTypes
    <2>3. /\ metric'[m].phase = "gone" /\ metric'[m].on = {}
          /\ \A k \in Metric \ {m} : metric'[k] = metric[k]
      BY <1>2, <2>1 DEF RegInv, MetricTypes
    <2>4. \A t \in Sink : \A k \in Names(t) : /\ MetricsToReportOn[t][k] \in Metric
                                              /\ MetricsToReportOn[t][k] # m
      BY <1>2 DEF RegInv, RegisteredInv, MetricTypes, Names
    <2>5. \A t \in Sink : Names(t)' = Names(t) /\ (Locked(t)' <=> Locked(t))
      BY <1>1, <2>1 DEF Names, Locked
    <2>6. RegisteredInv'
      BY <2>1, <1>1, <2>3, <2>4, <2>5 DEF RegInv, RegisteredInv
    <2> QED
      BY <2>2, <2>6, Zenon DEF RegInv
  <1>3. CASE metric[m].on # {}
    <2>1. PICK s \in metric[m].on :
             /\ ~Locked(s)
             /\ MetricsToReportOn' = IF metric[m].name \in Names(s)
                                     THEN [MetricsToReportOn EXCEPT
                                             ![s][metric[m].name] = NoMetric]
                                     ELSE MetricsToReportOn
             /\ metric' = [metric EXCEPT ![m].on = metric[m].on \ {s}]
      BY <1>3, Zenon DEF tryRemoveMetric, RemoveFrom
    <2>2. PICK n \in Name : metric[m].name = n /\ MetricsToReportOn[s][n] = m
      BY <2>1 DEF RegInv, RegisteredInv
    <2>3. s \in Sink /\ n \in Names(s)
      BY <2>1, <2>2, MetricsAssumption, Zenon DEF RegInv, MetricTypes, Names
    <2>4. MetricsToReportOn' = [MetricsToReportOn EXCEPT ![s][n] = NoMetric]
      BY <2>1, <2>2, <2>3, Zenon
    <2>5. \A t \in Sink, k \in Name :
             MetricsToReportOn'[t][k] = IF t = s /\ k = n THEN NoMetric
                                        ELSE MetricsToReportOn[t][k]
      BY <2>3, <2>4, Zenon DEF RegInv, MetricTypes
    <2>6. /\ metric'[m].phase = "destroying" /\ metric'[m].on = metric[m].on \ {s}
          /\ metric'[m].name = n
          /\ \A k \in Metric \ {m} : metric'[k] = metric[k]
      BY <1>1, <2>1, <2>2, Zenon DEF RegInv, MetricTypes
    <2>7. MetricTypes'
      <3>1. MetricsToReportOn' \in [Sink -> [Name -> Metric \cup {NoMetric}]]
        BY <2>3, <2>4 DEF RegInv, MetricTypes
      <3> QED
        BY <1>1, <2>1, <3>1, ZenonT(40) DEF RegInv, MetricTypes
    <2>8. \A t \in Sink, k \in Name : k \in Names(t)' <=> /\ k \in Names(t)
                                                          /\ ~(t = s /\ k = n)
      BY <2>5 DEF Names
    <2>9. \A t \in Sink : Names(t) \subseteq Name /\ Names(t)' \subseteq Name
      BY DEF Names
    <2>10. ASSUME NEW k \in Metric
           PROVE  /\ metric'[k].phase \in {"unborn", "gone"} => metric'[k].on = {}
                  /\ metric'[k].phase = "registering" =>
                         metric'[k].name # NoName /\ metric'[k].left # {}
                  /\ \A t \in metric'[k].on :
                         /\ metric'[k].name \in Name
                         /\ MetricsToReportOn'[t][metric'[k].name] = k
      <3>1. metric[k].on \subseteq Sink
        BY DEF RegInv, MetricTypes
      <3>2. \A t \in metric[k].on : /\ metric[k].name \in Name
                                    /\ MetricsToReportOn[t][metric[k].name] = k
        BY DEF RegInv, RegisteredInv
      <3>3. CASE k = m
        BY <2>2, <2>5, <2>6, <3>1, <3>2, <3>3
      <3>4. CASE k # m
        <4>1. \A t \in metric[k].on : ~(t = s /\ metric[k].name = n)
          BY <2>2, <3>2, <3>4, Zenon
        <4> QED
          BY <2>5, <2>6, <3>1, <3>2, <3>4, <4>1 DEF RegInv, RegisteredInv
      <3> QED
        BY <3>3, <3>4
    <2>11. ASSUME NEW t \in Sink, NEW k \in Names(t)'
           PROVE  /\ metric'[MetricsToReportOn'[t][k]].name = k
                  /\ t \in metric'[MetricsToReportOn'[t][k]].on
      <3>1. k \in Names(t) /\ k \in Name /\ ~(t = s /\ k = n)
        BY <2>8, <2>9, Zenon
      <3>2. MetricsToReportOn'[t][k] = MetricsToReportOn[t][k]
        BY <2>5, <3>1, Zenon
      <3>3. /\ MetricsToReportOn[t][k] \in Metric
            /\ metric[MetricsToReportOn[t][k]].name = k
            /\ t \in metric[MetricsToReportOn[t][k]].on
        BY <3>1 DEF RegInv, RegisteredInv, MetricTypes, Names
      <3> QED
        BY <2>2, <2>6, <3>1, <3>2, <3>3, Zenon
    <2>12. ASSUME NEW t \in Sink
           PROVE  todo'[t] \subseteq Names(t)' /\ (todo'[t] # {} => Locked(t)')
      <3>1. todo[t] \subseteq Names(t) /\ (todo[t] # {} => Locked(t))
        BY DEF RegInv, RegisteredInv
      <3>2. Locked(t)' <=> Locked(t)
        BY <1>1, Zenon DEF Locked
      <3>3. CASE t = s
        BY <1>1, <2>1, <3>1, <3>2, <3>3, Zenon
      <3>4. CASE t # s
        BY <1>1, <2>8, <2>9, <3>1, <3>2, <3>4, Zenon
      <3> QED
        BY <3>3, <3>4, Zenon
    <2>13. RegisteredInv'
      BY <2>10, <2>11, <2>12, Zenon DEF RegisteredInv
    <2> QED
      BY <2>7, <2>13 DEF RegInv
  <1> QED
    BY <1>2, <1>3, Zenon

\* The thread of a reporter, and the end of the reporters.
LEMMA RegReporter ==
    ASSUME RegInv, NEW s \in Sink, Fire(s) \/ ReportMetric(s) \/ DestroyReporter(s)
    PROVE  RegInv'
  <1>1. UNCHANGED <<MetricsToReportOn, metric>>
    BY DEF Fire, ReportMetric, DestroyReporter
  <1>2. \A t \in Sink : Names(t)' = Names(t)
    BY <1>1, Zenon DEF Names
  <1>3. /\ reporter' \in [Sink -> {"waiting", "reporting", "joined"}]
        /\ todo' \in [Sink -> SUBSET Name]
        /\ \A t \in Sink : /\ todo'[t] \subseteq Names(t)
                           /\ todo'[t] # {} => Locked(t)'
    <2> DEFINE Types == /\ reporter \in [Sink -> {"waiting", "reporting", "joined"}]
                        /\ todo \in [Sink -> SUBSET Name]
               Todo == \A t \in Sink : /\ todo[t] \subseteq Names(t)
                                       /\ todo[t] # {} => reporter[t] = "reporting"
    <2>1. Types /\ Todo /\ \A t \in Sink : Names(t) \subseteq Name
      BY DEF RegInv, MetricTypes, RegisteredInv, Locked, Names
    <2>2. CASE Fire(s)
      <3>1. /\ reporter' = [reporter EXCEPT ![s] = "reporting"]
            /\ todo' = [todo EXCEPT ![s] = Names(s)]
        BY <2>2, Zenon DEF Fire
      <3> QED
        BY <2>1, <3>1, Zenon DEF Locked
    <2>3. CASE ReportMetric(s)
      <3>1. PICK n \in todo[s] :
               /\ todo' = [todo EXCEPT ![s] = todo[s] \ {n}]
               /\ reporter' = [reporter EXCEPT ![s] = IF todo[s] = {n}
                                                      THEN "waiting" ELSE reporter[s]]
        BY <2>3, ZenonT(40) DEF ReportMetric
      <3> QED
        BY <2>1, <3>1, Zenon DEF Locked
    <2>4. CASE DestroyReporter(s)
      <3>1. /\ reporter[s] = "waiting" /\ todo' = todo
            /\ reporter' = [reporter EXCEPT ![s] = "joined"]
        BY <2>4 DEF DestroyReporter, CanJoin
      <3> QED
        BY <2>1, <3>1 DEF Locked
    <2> QED
      BY <2>2, <2>3, <2>4, Zenon
  <1>4. MetricTypes'
    BY <1>1, <1>3 DEF RegInv, MetricTypes
  <1>5. RegisteredInv'
    BY <1>1, <1>2, <1>3 DEF RegInv, RegisteredInv
  <1> QED
    BY <1>4, <1>5, Zenon DEF RegInv

LEMMA RegStep == RegInv /\ [Next]_vars => RegInv'
  <1> SUFFICES ASSUME RegInv, [Next]_vars PROVE RegInv'
    OBVIOUS
  <1>1. CASE UNCHANGED vars \/ (CarbonNext /\ UNCHANGED metricsVars) \/ Release
    BY <1>1, RegOthers, Zenon DEF vars, metricsVars, Release
  <1>2. ASSUME NEW m \in Metric, Owner(m) PROVE RegInv'
    BY <1>2, RegOwner, RegAdd, RegRemove, Zenon DEF Owner
  <1>3. ASSUME NEW s \in Sink, Report(s) \/ DestroyReporter(s) PROVE RegInv'
    BY <1>3, RegReporter, Zenon DEF Report
  <1> QED
    BY <1>1, <1>2, <1>3, Zenon DEF Next

\* However metrics with the same or with different names come and go while
\* reports are sent, a reporter has under a name the metric that registered it,
\* which is not gone, a metric is with the reporters it believes itself
\* registered with, and a round of reports meets no name that was removed
\* (addMetric, tryRemoveMetric and reportMetrics under MetricsMapMutex, ~Metric).
THEOREM ReportsWhatIsRegistered == Spec => []RegisteredIsReported
  <1>1. RegInv => RegisteredIsReported
    <2> SUFFICES ASSUME RegInv PROVE RegisteredIsReported
      OBVIOUS
    <2>1. \A s \in Sink : \A n \in Names(s) :
             metric[MetricsToReportOn[s][n]].phase # "gone"
      <3> SUFFICES ASSUME NEW s \in Sink, NEW n \in Names(s)
                   PROVE  metric[MetricsToReportOn[s][n]].phase # "gone"
        OBVIOUS
      <3>1. MetricsToReportOn[s][n] \in Metric
        BY DEF RegInv, MetricTypes, Names
      <3>2. s \in metric[MetricsToReportOn[s][n]].on
        BY Zenon DEF RegInv, RegisteredInv
      <3> QED
        BY <3>1, <3>2, Zenon DEF RegInv, RegisteredInv
    <2>2. \A m \in Metric : \A s \in metric[m].on :
             MetricsToReportOn[s][metric[m].name] = m
      BY Zenon DEF RegInv, RegisteredInv
    <2>3. \A s \in Sink : todo[s] \subseteq Names(s)
      BY DEF RegInv, RegisteredInv
    <2> QED
      BY <2>1, <2>2, <2>3, Zenon DEF RegisteredIsReported
  <1> QED
    BY <1>1, RegInit, RegStep, PTL DEF Spec

-----------------------------------------------------------------------------
\* What is under way: the effect of one operation more or less.

\* A handler that runs is no longer waiting.
LEMMA RunsHead ==
    ASSUME NEW P, NEW R \in Seq(Handler), R # <<>>, NEW G, NoTwo(P, R, G)
    PROVE  /\ R[1].op \in G => ~Some(P, Tail(R), G)
           /\ R[1].op \notin G => (Some(P, Tail(R), G) <=> Some(P, R, G))
           /\ NoTwo(P, Tail(R), G)
  <1> DEFINE T == Tail(R)
  <1>1. /\ T \in Seq(Handler) /\ Len(T) = Len(R) - 1
        /\ DOMAIN T = 1 .. Len(R) - 1 /\ DOMAIN R = 1 .. Len(R)
        /\ Len(R) \in Nat \ {0}
        /\ \A i \in DOMAIN T : i + 1 \in DOMAIN R /\ T[i] = R[i + 1]
    OBVIOUS
  <1> HIDE DEF T
  <1>2. R[1].op \in G => ~Some(P, T, G)
    BY <1>1 DEF Some, NoTwo
  <1>3. ASSUME R[1].op \notin G PROVE Some(P, T, G) <=> Some(P, R, G)
    <2>1. ASSUME NEW i \in DOMAIN R, R[i].op \in G
          PROVE  \E j \in DOMAIN T : T[j].op \in G
      <3>1. i - 1 \in DOMAIN T /\ T[i - 1] = R[i]
        BY <1>1, <1>3, <2>1
      <3> QED
        BY <2>1, <3>1, Zenon
    <2> QED
      BY <1>1, <2>1, Zenon DEF Some
  <1>4. NoTwo(P, T, G)
    BY <1>1 DEF NoTwo
  <1> QED
    BY <1>2, <1>3, <1>4, Zenon DEF T

\* A smaller set of operations.
LEMMA SomeSmaller ==
    ASSUME NEW P, NEW R, NEW G, NEW H \in SUBSET G
    PROVE  /\ Some(P, R, H) => Some(P, R, G)
           /\ NoTwo(P, R, G) => NoTwo(P, R, H)
  BY DEF Some, NoTwo

\* If neither a connection nor a sending loop is there, nothing is.
LEMMA NothingLeft ==
    ASSUME NEW P \in SUBSET Operation, NEW R \in Seq(Handler),
           ~Some(P, R, Link), ~Some(P, R, Loop)
    PROVE  P = {} /\ R = <<>>
  <1>1. Operation \cup {"wait"} = Link \cup Loop
    BY DEF Operation, SocketOps, Link, Loop
  <1>2. P = {}
    BY <1>1 DEF Some
  <1>3. \A i \in 1 .. Len(R) : R[i].op \in Link \cup Loop
    <2>1. \A i \in 1 .. Len(R) : R[i] \in Handler
      OBVIOUS
    <2>2. \A h \in Handler : h.op \in Operation \cup {"wait"}
      BY DEF Handler
    <2> QED
      BY <1>1, <2>1, <2>2, Zenon
  <1>4. Len(R) = 0
    <2> SUFFICES ASSUME Len(R) # 0 PROVE FALSE
      OBVIOUS
    <2>1. 1 \in 1 .. Len(R) /\ DOMAIN R = 1 .. Len(R)
      OBVIOUS
    <2> QED
      BY <1>3, <2>1, Zenon DEF Some
  <1> QED
    BY <1>2, <1>4

\* An operation is started.
LEMMA OneMorePending ==
    ASSUME NEW P, NEW R, NEW G, NEW op
    PROVE  /\ Some(P \cup {op}, R, G) <=> Some(P, R, G) \/ op \in G
           /\ ~Some(P, R, G) \/ (NoTwo(P, R, G) /\ op \notin G)
                 => NoTwo(P \cup {op}, R, G)
  BY Zenon DEF Some, NoTwo

LEMMA OneMoreReady ==
    ASSUME NEW P, NEW R \in Seq(Handler), NEW h \in Handler, NEW G
    PROVE  /\ Some(P, Append(R, h), G) <=> Some(P, R, G) \/ h.op \in G
           /\ ~Some(P, R, G) \/ (NoTwo(P, R, G) /\ h.op \notin G)
                 => NoTwo(P, Append(R, h), G)
  <1> DEFINE A == Append(R, h)
  <1>1. /\ DOMAIN R = 1 .. Len(R) /\ DOMAIN A = 1 .. Len(R) + 1 /\ Len(R) \in Nat
        /\ \A i \in DOMAIN R : A[i] = R[i]
        /\ A[Len(R) + 1] = h
    OBVIOUS
  <1> HIDE DEF A
  <1>2. \A i \in DOMAIN A : i \in DOMAIN R \/ i = Len(R) + 1
    BY <1>1
  <1>3. DOMAIN R \subseteq DOMAIN A /\ Len(R) + 1 \in DOMAIN A
    BY <1>1
  <1>4. Some(P, A, G) <=> Some(P, R, G) \/ h.op \in G
    BY <1>1, <1>2, <1>3, Zenon DEF Some
  <1>5. ASSUME ~Some(P, R, G) PROVE NoTwo(P, A, G)
    BY <1>1, <1>2, <1>5, Zenon DEF Some, NoTwo
  <1>6. ASSUME NoTwo(P, R, G), h.op \notin G PROVE NoTwo(P, A, G)
    BY <1>1, <1>2, <1>6, Zenon DEF NoTwo
  <1> QED
    BY <1>4, <1>5, <1>6, Zenon DEF A

\* An operation completes: its handler waits instead.
LEMMA PendingToReady ==
    ASSUME NEW P, NEW R \in Seq(Handler), NEW h \in Handler, h.op \in P,
           NEW G, NoTwo(P, R, G)
    PROVE  /\ Some(P \ {h.op}, Append(R, h), G) <=> Some(P, R, G)
           /\ NoTwo(P \ {h.op}, Append(R, h), G)
  <1>1. CASE h.op \in G
    <2>1. ~Some(P \ {h.op}, R, G)
      BY <1>1 DEF Some, NoTwo
    <2>2. Some(P, R, G)
      BY <1>1, Zenon DEF Some
    <2> QED
      BY <1>1, <2>1, <2>2, OneMoreReady, Zenon
  <1>2. CASE h.op \notin G
    <2>1. NoTwo(P \ {h.op}, R, G) /\ (Some(P \ {h.op}, R, G) <=> Some(P, R, G))
      BY <1>2, Zenon DEF Some, NoTwo
    <2> QED
      BY <1>2, <2>1, OneMoreReady, Zenon
  <1> QED
    BY <1>1, <1>2, Zenon

\* Closing the socket makes the handlers of the operations that are pending on
\* it wait, so that as much is under way as before.
LEMMA AbortKeeps ==
    ASSUME NEW c \in Conn, NEW op \in SocketOps
    PROVE  LET d == Abort(c, op)
           IN  /\ d \in Conn /\ d.open = c.open /\ d.left = c.left
               /\ d.pending = c.pending \ {op}
               /\ \A G : Some(d.pending, d.ready, G) <=>
                            Some(c.pending, c.ready, G)
               /\ \A G : NoTwo(c.pending, c.ready, G) =>
                            NoTwo(d.pending, d.ready, G)
  <1>1. CASE op \notin c.pending
    BY <1>1 DEF Abort
  <1>2. CASE op \in c.pending
    <2> DEFINE d == Abort(c, op)
               h == Completion(op, TRUE, IF op = "write" THEN c.taken ELSE 0)
    <2>1. h \in Handler /\ h.op = op
      BY DEF Conn, Handler, Completion, Operation
    <2>2. d = [c EXCEPT !.pending = c.pending \ {op}, !.ready = Append(c.ready, h)]
      BY <1>2, Zenon DEF Abort
    <2> HIDE DEF h
    <2>3. c.ready \in Seq(Handler) /\ c.pending \in SUBSET Operation
      BY DEF Conn
    <2>4. Append(c.ready, h) \in Seq(Handler)
      BY <2>1, <2>3
    <2>5. /\ d \in Conn /\ d.open = c.open /\ d.left = c.left
          /\ d.pending = c.pending \ {op} /\ d.ready = Append(c.ready, h)
      BY <2>2, <2>3, <2>4, ZenonT(40) DEF Conn
    <2>6. ASSUME NEW G
          PROVE  Some(d.pending, d.ready, G) <=> Some(c.pending, c.ready, G)
      <3>1. Some(c.pending \ {op}, Append(c.ready, h), G) <=>
               Some(c.pending \ {op}, c.ready, G) \/ h.op \in G
        BY <2>1, <2>3, OneMoreReady
      <3>2. Some(c.pending \ {op}, c.ready, G) \/ op \in G <=> Some(c.pending, c.ready, G)
        BY <1>2, Zenon DEF Some
      <3> QED
        BY <2>1, <2>5, <3>1, <3>2, Zenon
    <2>7. ASSUME NEW G, NoTwo(c.pending, c.ready, G)
          PROVE  NoTwo(d.pending, d.ready, G)
      <3>1. NoTwo(c.pending \ {h.op}, Append(c.ready, h), G)
        BY <1>2, <2>1, <2>3, <2>7, PendingToReady
      <3> QED
        BY <2>1, <2>5, <3>1, Zenon
    <2> QED
      BY <2>5, <2>6, <2>7, Zenon
  <1> QED
    BY <1>1, <1>2, Zenon

LEMMA CloseKeeps ==
    ASSUME NEW c \in Conn
    PROVE  LET d == close(c)
           IN  /\ d \in Conn /\ ~d.open /\ d.left = c.left
               /\ d.pending = c.pending \ SocketOps
               /\ \A G : Some(d.pending, d.ready, G) <=>
                            Some(c.pending, c.ready, G)
               /\ \A G : NoTwo(c.pending, c.ready, G) =>
                            NoTwo(d.pending, d.ready, G)
  <1> DEFINE a == [c EXCEPT !.open = FALSE]
             b == Abort(a, "receive")
             e == Abort(b, "connect")
             d == Abort(e, "write")
  <1>1. /\ a \in Conn /\ ~a.open /\ a.left = c.left
        /\ a.pending = c.pending /\ a.ready = c.ready
    BY Zenon DEF Conn
  <1>2. "receive" \in SocketOps /\ "connect" \in SocketOps /\ "write" \in SocketOps
    BY DEF SocketOps
  <1> HIDE DEF a
  <1>3. /\ b \in Conn /\ b.open = a.open /\ b.left = a.left
        /\ b.pending = a.pending \ {"receive"}
        /\ \A G : Some(b.pending, b.ready, G) <=> Some(a.pending, a.ready, G)
        /\ \A G : NoTwo(a.pending, a.ready, G) => NoTwo(b.pending, b.ready, G)
    BY <1>1, <1>2, AbortKeeps, Zenon
  <1> HIDE DEF b
  <1>4. /\ e \in Conn /\ e.open = b.open /\ e.left = b.left
        /\ e.pending = b.pending \ {"connect"}
        /\ \A G : Some(e.pending, e.ready, G) <=> Some(b.pending, b.ready, G)
        /\ \A G : NoTwo(b.pending, b.ready, G) => NoTwo(e.pending, e.ready, G)
    BY <1>2, <1>3, AbortKeeps, Zenon
  <1> HIDE DEF e
  <1>5. /\ d \in Conn /\ d.open = e.open /\ d.left = e.left
        /\ d.pending = e.pending \ {"write"}
        /\ \A G : Some(d.pending, d.ready, G) <=> Some(e.pending, e.ready, G)
        /\ \A G : NoTwo(e.pending, e.ready, G) => NoTwo(d.pending, d.ready, G)
    BY <1>2, <1>4, AbortKeeps, Zenon
  <1>6. d.pending = c.pending \ SocketOps
    BY <1>1, <1>3, <1>4, <1>5 DEF SocketOps
  <1>7. close(c) = d
    BY Zenon DEF close, a, b, e
  <1> HIDE DEF d
  <1>8. /\ ~d.open /\ d.left = c.left
        /\ \A G : Some(d.pending, d.ready, G) <=> Some(c.pending, c.ready, G)
        /\ \A G : NoTwo(c.pending, c.ready, G) => NoTwo(d.pending, d.ready, G)
    BY <1>1, <1>3, <1>4, <1>5, Zenon
  <1> QED
    BY <1>5, <1>6, <1>7, <1>8, Zenon

-----------------------------------------------------------------------------
\* The calls of the handlers.

\* d is c with one operation more under way.
Adds(c, d, op) ==
    /\ d \in Conn /\ d.open = c.open
    /\ \A G : Some(d.pending, d.ready, G) <=> Some(c.pending, c.ready, G) \/ op \in G
    /\ \A G : ~Some(c.pending, c.ready, G) => NoTwo(d.pending, d.ready, G)
    /\ \A G : NoTwo(c.pending, c.ready, G) /\ op \notin G =>
                 NoTwo(d.pending, d.ready, G)

LEMMA MorePending ==
    ASSUME NEW c \in Conn, NEW op \in Operation
    PROVE  LET d == [c EXCEPT !.pending = c.pending \cup {op}]
           IN  /\ Adds(c, d, op)
               /\ d.pending = c.pending \cup {op} /\ d.ready = c.ready
  <1> DEFINE d == [c EXCEPT !.pending = c.pending \cup {op}]
  <1>1. /\ d \in Conn /\ d.open = c.open
        /\ d.pending = c.pending \cup {op} /\ d.ready = c.ready
    BY Zenon DEF Conn
  <1> HIDE DEF d
  <1>2. Adds(c, d, op)
    <2>1. ASSUME NEW G
          PROVE  /\ Some(d.pending, d.ready, G) <=>
                       Some(c.pending, c.ready, G) \/ op \in G
                 /\ ~Some(c.pending, c.ready, G) => NoTwo(d.pending, d.ready, G)
                 /\ NoTwo(c.pending, c.ready, G) /\ op \notin G =>
                       NoTwo(d.pending, d.ready, G)
      BY <1>1, OneMorePending
    <2> QED
      BY <1>1, <2>1, Zenon DEF Adds
  <1> QED
    BY <1>1, <1>2, Zenon DEF d

LEMMA MoreReady ==
    ASSUME NEW c \in Conn, NEW h \in Handler
    PROVE  LET d == [c EXCEPT !.ready = Append(c.ready, h)]
           IN  /\ Adds(c, d, h.op)
               /\ d.pending = c.pending /\ d.ready = Append(c.ready, h)
  <1> DEFINE d == [c EXCEPT !.ready = Append(c.ready, h)]
  <1>0. c.ready \in Seq(Handler)
    BY DEF Conn
  <1>1. /\ d \in Conn /\ d.open = c.open
        /\ d.pending = c.pending /\ d.ready = Append(c.ready, h)
    <2>1. Append(c.ready, h) \in Seq(Handler)
      BY <1>0
    <2> QED
      BY <2>1, Zenon DEF Conn
  <1> HIDE DEF d
  <1>2. Adds(c, d, h.op)
    BY <1>0, <1>1, OneMoreReady, Zenon DEF Adds
  <1> QED
    BY <1>1, <1>2, Zenon DEF d

LEMMA StartAdds ==
    ASSUME NEW c \in Conn, NEW op \in Operation
    PROVE  /\ Adds(c, Start(c, op), op)
           /\ c.open \/ op \notin {"receive", "write"} =>
                 /\ Start(c, op).pending = c.pending \cup {op}
                 /\ Start(c, op).ready = c.ready
           /\ ~c.open /\ op \in {"receive", "write"} =>
                 Start(c, op).pending = c.pending
  <1>1. CASE op \in {"receive", "write"} /\ ~c.open
    <2>1. Completion(op, TRUE, 0) \in Handler /\ Completion(op, TRUE, 0).op = op
      BY DEF Completion, Handler
    <2>2. Start(c, op) = [c EXCEPT !.ready = Append(c.ready, Completion(op, TRUE, 0))]
      BY <1>1, Zenon DEF Start
    <2> QED
      BY <1>1, <2>1, <2>2, MoreReady, Zenon
  <1>2. CASE ~(op \in {"receive", "write"} /\ ~c.open)
    <2>1. Start(c, op) = [c EXCEPT !.pending = c.pending \cup {op}]
      BY <1>2, Zenon DEF Start
    <2> QED
      BY <1>2, <2>1, MorePending, Zenon
  <1> QED
    BY <1>1, <1>2

LEMMA PostAdds ==
    ASSUME NEW c \in Conn
    PROVE  /\ Adds(c, Post(c), "wait")
           /\ Post(c).pending = c.pending
           /\ Post(c).ready = Append(c.ready, Completion("wait", FALSE, 0))
  <1>1. /\ Completion("wait", FALSE, 0) \in Handler
        /\ Completion("wait", FALSE, 0).op = "wait"
    BY DEF Completion, Handler
  <1> QED
    BY <1>1, MoreReady, Zenon DEF Post

\* The sending loop of an open connection goes on, with a write or a wait.
Continues(c, d) ==
    \/ /\ Adds(c, d, "write")
       /\ d.pending = c.pending \cup {"write"} /\ d.ready = c.ready
    \/ /\ Adds(c, d, "wait")
       /\ d.pending = c.pending
       /\ d.ready = Append(c.ready, Completion("wait", FALSE, 0))

LEMMA SendContinues ==
    ASSUME NEW c \in Conn
    PROVE  /\ ~c.open => trySendMessage(c) = c
           /\ c.open => Continues(c, trySendMessage(c))
  <1>1. ~c.open => trySendMessage(c) = c
    BY DEF trySendMessage
  <1>2. ASSUME c.open PROVE Continues(c, trySendMessage(c))
    <2>0. /\ Len(c.buffer) \in Nat /\ MessageAdditionLimit \in Nat
          /\ "write" \in Operation
      BY CarbonAssumption DEF Conn, Operation, SocketOps
    <2>1. Continues(c, Start(c, "write"))
      BY <1>2, <2>0, StartAdds, Zenon DEF Continues
    <2>2. CASE Len(c.buffer) > MessageAdditionLimit
      <3>1. trySendMessage(c) = Start(c, "write")
        BY <1>2, <2>0, <2>2 DEF trySendMessage
      <3> QED
        BY <2>1, <3>1, Zenon
    <2>3. CASE Len(c.buffer) <= MessageAdditionLimit /\ c.queue # <<>>
      <3> DEFINE e == [c EXCEPT !.buffer = c.buffer \o Chars(Head(c.queue)),
                                !.queue = Tail(c.queue)]
      <3>1. trySendMessage(c) = Start(e, "write")
        BY <1>2, <2>0, <2>3 DEF trySendMessage
      <3>2. c.queue \in Seq(Nat) /\ Head(c.queue) \in Nat /\ Tail(c.queue) \in Seq(Nat)
        BY <2>3 DEF Conn
      <3>3. Chars(Head(c.queue)) \in Seq(Character)
        BY <3>2 DEF Chars, Character
      <3>4. c.buffer \o Chars(Head(c.queue)) \in Seq(Character)
        BY <3>3 DEF Conn
      <3>5. /\ e \in Conn /\ e.open = c.open /\ e.pending = c.pending
            /\ e.ready = c.ready
        BY <3>2, <3>4, ZenonT(40) DEF Conn
      <3> HIDE DEF e
      <3>6. /\ Adds(e, Start(e, "write"), "write")
            /\ Start(e, "write").pending = e.pending \cup {"write"}
            /\ Start(e, "write").ready = e.ready
        BY <1>2, <2>0, <3>5, StartAdds, Zenon
      <3>7. Adds(c, Start(e, "write"), "write")
        BY <3>5, <3>6, Zenon DEF Adds
      <3> QED
        BY <3>1, <3>5, <3>6, <3>7, Zenon DEF Continues
    <2>4. CASE Len(c.buffer) <= MessageAdditionLimit /\ c.queue = <<>>
      <3>1. trySendMessage(c) = IF c.buffer # <<>> THEN Start(c, "write") ELSE Post(c)
        BY <1>2, <2>0, <2>4 DEF trySendMessage
      <3>2. Continues(c, Post(c))
        BY PostAdds, Zenon DEF Continues
      <3> QED
        BY <2>1, <3>1, <3>2, Zenon
    <2> QED
      BY <2>0, <2>2, <2>3, <2>4
  <1> QED
    BY <1>1, <1>2, Zenon

-----------------------------------------------------------------------------
\* The handlers.

Kept(c) == LinkInv(c.pending, c.ready, c.open)

\* An attempt to connect that is alone.
LEMMA AloneKept ==
    ASSUME NEW d \in Conn, d.ready = <<>>,
           \/ d.pending = {"resolve"} /\ ~d.open
           \/ d.pending = {"timer"} /\ ~d.open
           \/ d.pending = {"connect"} /\ d.open
    PROVE  Kept(d)
  BY DEF Kept, LinkInv, Some, NoTwo, Link, Loop, SocketOps

LEMMA ReconnectAlone ==
    ASSUME NEW c \in Conn, c.pending = {}, c.ready = <<>>
    PROVE  /\ ~c.open => reconnect(c) \in Conn /\ Kept(reconnect(c))
           /\ tryConnect(c) \in Conn /\ Kept(tryConnect(c))
           /\ ~c.open => doAddressQuery(c) \in Conn /\ Kept(doAddressQuery(c))
  <1>0. {"resolve", "timer", "connect"} \subseteq Operation
    BY Zenon DEF Operation, SocketOps
  <1>1. ASSUME NEW e \in Conn, NEW op \in {"resolve", "timer", "connect"},
               e.pending = {}, e.ready = <<>>, op = "connect" <=> e.open
        PROVE  Start(e, op) \in Conn /\ Kept(Start(e, op))
    <2>1. /\ Start(e, op) \in Conn /\ Start(e, op).open = e.open
          /\ Start(e, op).pending = {op} /\ Start(e, op).ready = <<>>
      BY <1>0, <1>1, StartAdds, Zenon DEF Adds
    <2> QED
      BY <1>1, <2>1, AloneKept, Zenon
  <1>2. ASSUME ~c.open PROVE reconnect(c) \in Conn /\ Kept(reconnect(c))
    <2>1. /\ [c EXCEPT !.state = "ADDR_RETRY_WAIT"] \in Conn
          /\ [c EXCEPT !.state = "ADDR_RETRY_WAIT"].open = c.open
          /\ [c EXCEPT !.state = "ADDR_RETRY_WAIT"].pending = {}
          /\ [c EXCEPT !.state = "ADDR_RETRY_WAIT"].ready = <<>>
      BY Zenon DEF Conn
    <2> QED
      BY <1>1, <1>2, <2>1, Zenon DEF reconnect
  <1>3. tryConnect(c) \in Conn /\ Kept(tryConnect(c))
    <2> DEFINE e == [c EXCEPT !.state = "CONNECT", !.open = TRUE,
                              !.left = getNextEndpoint(c.left)]
    <2>0. getNextEndpoint(c.left) \in Nat
      BY DEF Conn, getNextEndpoint
    <2>1. e \in Conn /\ e.open /\ e.pending = {} /\ e.ready = <<>>
      BY <2>0, Zenon DEF Conn
    <2>2. tryConnect(c) = Start(e, "connect")
      BY DEF tryConnect
    <2> HIDE DEF e
    <2> QED
      BY <1>1, <2>1, <2>2, Zenon
  <1>4. ASSUME ~c.open PROVE doAddressQuery(c) \in Conn /\ Kept(doAddressQuery(c))
    <2>1. /\ [c EXCEPT !.state = "ADDR_LOOKUP"] \in Conn
          /\ [c EXCEPT !.state = "ADDR_LOOKUP"].open = c.open
          /\ [c EXCEPT !.state = "ADDR_LOOKUP"].pending = {}
          /\ [c EXCEPT !.state = "ADDR_LOOKUP"].ready = <<>>
      BY DEF Conn
    <2> QED
      BY <1>1, <1>4, <2>1, Zenon DEF doAddressQuery
  <1> QED
    BY <1>2, <1>3, <1>4, Zenon

LEMMA ResolverKeeps ==
    ASSUME NEW c \in Conn, c.pending = {}, c.ready = <<>>, ~c.open, NEW h \in Handler
    PROVE  resolverHandler(c, h) \in Conn /\ Kept(resolverHandler(c, h))
  <1>1. /\ [c EXCEPT !.left = h.n] \in Conn
        /\ [c EXCEPT !.left = h.n].pending = {} /\ [c EXCEPT !.left = h.n].ready = <<>>
    BY ZenonT(40) DEF Conn, Handler
  <1> QED
    BY <1>1, ReconnectAlone, Zenon DEF resolverHandler

LEMMA ConnectKeeps ==
    ASSUME NEW c \in Conn, c.pending = {}, c.ready = <<>>, c.open, NEW h \in Handler
    PROVE  connectHandler(c, h) \in Conn /\ Kept(connectHandler(c, h))
  <1>1. CASE h.error
    <2> DEFINE e == close(c)
    <2>1. /\ e \in Conn /\ ~e.open
          /\ \A G : Some(e.pending, e.ready, G) <=> Some(c.pending, c.ready, G)
      BY CloseKeeps, Zenon
    <2>2. \A G : ~Some(c.pending, c.ready, G)
      BY DEF Some
    <2> HIDE DEF e
    <2>3. e.pending \in SUBSET Operation /\ e.ready \in Seq(Handler)
      BY <2>1 DEF Conn
    <2>4. e.pending = {} /\ e.ready = <<>>
      BY <2>1, <2>2, <2>3, NothingLeft, ZenonT(40)
    <2>5. /\ reconnect(e) \in Conn /\ Kept(reconnect(e))
          /\ tryConnect(e) \in Conn /\ Kept(tryConnect(e))
      BY <2>1, <2>4, ReconnectAlone
    <2>6. connectHandler(c, h) = IF c.left = 0 THEN reconnect(e) ELSE tryConnect(e)
      BY <1>1, Zenon DEF connectHandler, e
    <2> QED
      BY <2>5, <2>6, Zenon
  <1>2. CASE ~h.error
    <2> DEFINE e == [c EXCEPT !.state = "SEND_LOOP"]
               f == Start(e, "receive")
               d == trySendMessage(f)
    <2>1. e \in Conn /\ e.open /\ e.pending = {} /\ e.ready = <<>>
      BY Zenon DEF Conn
    <2>2. connectHandler(c, h) = d
      BY <1>2, Zenon DEF connectHandler
    <2> HIDE DEF e
    <2>3. f \in Conn /\ f.open /\ f.pending = {"receive"} /\ f.ready = <<>>
      <3>1. "receive" \in Operation
        BY Zenon DEF Operation, SocketOps
      <3> QED
        BY <2>1, <3>1, StartAdds DEF Adds
    <2> HIDE DEF f
    <2>4. Continues(f, d)
      BY <2>3, SendContinues, Zenon
    <2> HIDE DEF d
    <2>5. /\ d \in Conn /\ d.open
          /\ \/ d.pending = {"receive", "write"} /\ d.ready = <<>>
             \/ d.pending = {"receive"} /\ d.ready = <<Completion("wait", FALSE, 0)>>
      <3>1. d \in Conn /\ d.open
        BY <2>3, <2>4, Zenon DEF Continues, Adds
      <3>2. CASE d.pending = f.pending \cup {"write"} /\ d.ready = f.ready
        BY <2>3, <3>1, <3>2
      <3>3. CASE d.pending = f.pending
                 /\ d.ready = Append(f.ready, Completion("wait", FALSE, 0))
        BY <2>3, <3>1, <3>3
      <3> QED
        BY <2>4, <3>2, <3>3, Zenon DEF Continues
    <2>6. ASSUME d.pending = {"receive", "write"}, d.ready = <<>>
          PROVE  Kept(d)
      <3>1. /\ d.pending \cap Link = {"receive"} /\ d.pending \cap Loop = {"write"}
            /\ d.pending \cap {"connect"} = {}
            /\ d.pending \cap {"resolve", "connect"} = {}
            /\ d.pending \cap {"resolve", "timer"} = {}
            /\ DOMAIN d.ready = {}
        BY <2>6 DEF Link, Loop
      <3>a. Some(d.pending, d.ready, Link) /\ Some(d.pending, d.ready, Loop)
        BY <3>1, Zenon DEF Some
      <3>b. /\ ~Some(d.pending, d.ready, {"connect"})
            /\ ~Some(d.pending, d.ready, {"resolve", "connect"})
            /\ ~Some(d.pending, d.ready, {"resolve", "timer"})
        BY <3>1, Zenon DEF Some
      <3>c. NoTwo(d.pending, d.ready, Link) /\ NoTwo(d.pending, d.ready, Loop)
        BY <3>1, Zenon DEF NoTwo
      <3>d. \A i \in DOMAIN d.ready : d.ready[i].op # "timer"
        BY <3>1, Zenon
      <3>e. d.open
        BY <2>5, Zenon
      <3> QED
        BY <3>a, <3>b, <3>c, <3>d, <3>e, Zenon DEF Kept, LinkInv
    <2>7. ASSUME d.pending = {"receive"},
                 d.ready = <<Completion("wait", FALSE, 0)>>
          PROVE  Kept(d)
      <3>1. DOMAIN d.ready = {1} /\ d.ready[1].op = "wait"
        BY <2>7 DEF Completion
      <3>2. /\ d.pending \cap Link = {"receive"} /\ d.pending \cap Loop = {}
            /\ d.pending \cap {"connect"} = {}
            /\ d.pending \cap {"resolve", "connect"} = {}
            /\ d.pending \cap {"resolve", "timer"} = {}
            /\ "wait" \notin Link /\ "wait" \in Loop
        BY <2>7, Zenon DEF Link, Loop
      <3>a. Some(d.pending, d.ready, Link) /\ Some(d.pending, d.ready, Loop)
        BY <3>1, <3>2, Zenon DEF Some
      <3>b. /\ ~Some(d.pending, d.ready, {"connect"})
            /\ ~Some(d.pending, d.ready, {"resolve", "connect"})
            /\ ~Some(d.pending, d.ready, {"resolve", "timer"})
        BY <3>1, <3>2, Zenon DEF Some
      <3>c. NoTwo(d.pending, d.ready, Link) /\ NoTwo(d.pending, d.ready, Loop)
        BY <3>1, <3>2, Zenon DEF NoTwo
      <3>d. \A i \in DOMAIN d.ready : d.ready[i].op # "timer"
        BY <3>1, <3>2, Zenon
      <3>e. d.open
        BY <2>5
      <3> QED
        BY <3>a, <3>b, <3>c, <3>d, <3>e DEF Kept, LinkInv
    <2> QED
      BY <2>2, <2>5, <2>6, <2>7, Zenon
  <1> QED
    BY <1>1, <1>2

\* A connection that is closed or idle: what a handler of the receiving side
\* and one of the sending loop find.
LEMMA ReceiveKeeps ==
    ASSUME NEW c \in Conn, NEW h \in Handler,
           ~Some(c.pending, c.ready, Link), NoTwo(c.pending, c.ready, Loop),
           c.open => Some(c.pending, c.ready, Loop),
           ~c.open => c.pending \cap SocketOps = {}
    PROVE  receiveHandler(c, h) \in Conn /\ Kept(receiveHandler(c, h))
  <1>0. {"timer", "receive"} \subseteq Operation
    BY Zenon DEF Operation, SocketOps
  <1>1. ASSUME NEW e \in Conn, NEW d \in Conn, NEW op \in {"timer", "receive"},
               Adds(e, d, op), NoTwo(e.pending, e.ready, Loop),
               ~Some(e.pending, e.ready, Link),
               op = "timer" => ~e.open,
               op = "receive" /\ e.open => Some(e.pending, e.ready, Loop),
               ~e.open => d.pending \cap SocketOps = {},
               \A i \in DOMAIN d.ready : d.ready[i].op # "timer"
        PROVE  Kept(d)
    <2>1. op \in Link /\ op \notin Loop
      BY Zenon DEF Link, Loop
    <2>2. ~Some(e.pending, e.ready, {"connect"})
          /\ ~Some(e.pending, e.ready, {"resolve", "connect"})
          /\ ~Some(e.pending, e.ready, {"resolve", "timer"})
      BY <1>1, SomeSmaller, Zenon DEF Link
    <2>3. /\ Some(d.pending, d.ready, Link)
          /\ NoTwo(d.pending, d.ready, Link) /\ NoTwo(d.pending, d.ready, Loop)
          /\ d.open = e.open
      BY <1>1, <2>1, Zenon DEF Adds
    <2>4. /\ Some(d.pending, d.ready, Loop) <=> Some(e.pending, e.ready, Loop)
          /\ ~Some(d.pending, d.ready, {"connect"})
          /\ ~Some(d.pending, d.ready, {"resolve", "connect"})
          /\ Some(d.pending, d.ready, {"resolve", "timer"}) => op = "timer"
          /\ Some(d.pending, d.ready, {"receive"}) => op = "receive"
      <3>1. ~Some(e.pending, e.ready, {"receive"})
        BY <1>1, SomeSmaller, Zenon DEF Link
      <3> QED
        BY <1>1, <2>1, <2>2, <3>1, Zenon DEF Adds
    <2> QED
      BY <1>1, <2>3, <2>4, Zenon DEF Kept, LinkInv
  <1>2. CASE h.error
    <2> DEFINE e == close(c)
               f == [e EXCEPT !.state = "ADDR_RETRY_WAIT"]
               d == Start(f, "timer")
    <2>1. /\ e \in Conn /\ ~e.open /\ e.pending = c.pending \ SocketOps
          /\ ~Some(e.pending, e.ready, Link) /\ NoTwo(e.pending, e.ready, Loop)
      BY CloseKeeps, Zenon
    <2>2. receiveHandler(c, h) = d
      BY <1>2, Zenon DEF receiveHandler, reconnect
    <2> HIDE DEF e
    <2>3. f \in Conn /\ f.open = e.open /\ f.pending = e.pending /\ f.ready = e.ready
      BY <2>1, ZenonT(40) DEF Conn
    <2> HIDE DEF f
    <2>4. /\ Adds(f, d, "timer") /\ d \in Conn
          /\ d.pending = f.pending \cup {"timer"} /\ d.ready = f.ready
      <3>1. "timer" \in Operation /\ "timer" \notin {"receive", "write"}
        BY <1>0, Zenon
      <3>2. /\ Adds(f, d, "timer")
            /\ d.pending = f.pending \cup {"timer"} /\ d.ready = f.ready
        BY <2>3, <3>1, StartAdds, Zenon
      <3> QED
        BY <3>2 DEF Adds
    <2> HIDE DEF d
    <2>5. d.pending \cap SocketOps = {}
      BY <2>1, <2>3, <2>4, Zenon DEF SocketOps
    <2>6. \A i \in DOMAIN d.ready : d.ready[i].op # "timer"
      BY <2>1, <2>3, <2>4, Zenon DEF Some, Link
    <2>7. Kept(d)
      BY <1>1, <2>1, <2>3, <2>4, <2>5, <2>6, ZenonT(40)
    <2> QED
      BY <2>2, <2>4, <2>7, Zenon
  <1>3. CASE ~h.error
    <2> DEFINE d == Start(c, "receive")
    <2>1. receiveHandler(c, h) = d
      BY <1>3, Zenon DEF receiveHandler
    <2>2. /\ Adds(c, d, "receive") /\ d \in Conn
          /\ ~c.open => d.pending = c.pending
      BY <1>0, StartAdds, ZenonT(40) DEF Adds
    <2> HIDE DEF d
    <2>3. ~Some(d.pending, d.ready, {"timer"})
      <3>1. ~Some(c.pending, c.ready, {"timer"})
        BY SomeSmaller, Zenon DEF Link
      <3> QED
        BY <2>2, <3>1 DEF Adds
    <2>4. \A i \in DOMAIN d.ready : d.ready[i].op # "timer"
      BY <2>3, Zenon DEF Some
    <2>5. Kept(d)
      BY <1>1, <2>2, <2>4, Zenon
    <2> QED
      BY <2>1, <2>2, <2>5
  <1> QED
    BY <1>2, <1>3, Zenon

\* Between two steps of the sending loop.
BetweenSends(c) ==
    /\ c \in Conn
    /\ Some(c.pending, c.ready, Link) /\ NoTwo(c.pending, c.ready, Link)
    /\ ~Some(c.pending, c.ready, Loop)
    /\ ~Some(c.pending, c.ready, {"resolve", "connect"})
    /\ c.open => ~Some(c.pending, c.ready, {"resolve", "timer"})
    /\ ~c.open => c.pending \cap SocketOps = {}

LEMMA BetweenKept ==
    ASSUME NEW c, BetweenSends(c), ~c.open
    PROVE  Kept(c)
  <1>1. ~Some(c.pending, c.ready, {"connect"})
    BY SomeSmaller, Zenon DEF BetweenSends
  <1>2. NoTwo(c.pending, c.ready, Loop)
    BY Zenon DEF BetweenSends, Some, NoTwo
  <1>3. \A i \in DOMAIN c.ready : c.ready[i].op \notin Loop
    BY Zenon DEF BetweenSends, Some
  <1> QED
    BY <1>1, <1>2, <1>3, Zenon DEF BetweenSends, Kept, LinkInv

LEMMA ContinuesKept ==
    ASSUME NEW c, BetweenSends(c), c.open, NEW d, Continues(c, d)
    PROVE  d \in Conn /\ Kept(d)
  <1>1. PICK op \in Loop : Adds(c, d, op)
    BY ZenonT(40) DEF Continues, Loop
  <1>2. op \notin Link /\ op \notin {"connect"} /\ op \notin {"resolve", "connect"}
           /\ op \notin {"resolve", "timer"}
    BY DEF Link, Loop
  <1>3. ~Some(c.pending, c.ready, {"connect"})
    BY SomeSmaller DEF BetweenSends
  <1>4. /\ d \in Conn /\ d.open
        /\ Some(d.pending, d.ready, Link) /\ NoTwo(d.pending, d.ready, Link)
        /\ Some(d.pending, d.ready, Loop) /\ NoTwo(d.pending, d.ready, Loop)
    BY <1>1, <1>2 DEF Adds, BetweenSends
  <1>5. /\ ~Some(d.pending, d.ready, {"connect"})
        /\ ~Some(d.pending, d.ready, {"resolve", "connect"})
        /\ ~Some(d.pending, d.ready, {"resolve", "timer"})
    BY <1>1, <1>2, <1>3, Zenon DEF Adds, BetweenSends
  <1>6. \A i \in DOMAIN d.ready : d.ready[i].op # "timer"
    BY <1>5, Zenon DEF Some
  <1> QED
    BY <1>4, <1>5, <1>6, Zenon DEF Kept, LinkInv

LEMMA SendKeeps ==
    ASSUME NEW c, BetweenSends(c)
    PROVE  trySendMessage(c) \in Conn /\ Kept(trySendMessage(c))
  <1>1. c \in Conn
    BY Zenon DEF BetweenSends
  <1> QED
    BY <1>1, SendContinues, BetweenKept, ContinuesKept, Zenon

LEMMA WaitKeeps ==
    ASSUME NEW c, BetweenSends(c)
    PROVE  waitForMessage(c) \in Conn /\ Kept(waitForMessage(c))
  <1>1. c \in Conn
    BY DEF BetweenSends
  <1>2. Continues(c, Post(c))
    BY <1>1, PostAdds, ZenonT(40) DEF Continues
  <1>3. waitForMessage(c) \in {c, trySendMessage(c), Post(c)}
        /\ (waitForMessage(c) = c \/ c.open)
    BY DEF waitForMessage
  <1> QED
    BY <1>1, <1>2, <1>3, SendKeeps, BetweenKept, ContinuesKept, Zenon DEF waitForMessage

LEMMA SentKeeps ==
    ASSUME NEW c, BetweenSends(c), NEW h \in Handler
    PROVE  sentMessageHandler(c, h) \in Conn /\ Kept(sentMessageHandler(c, h))
  <1> DEFINE e == [c EXCEPT !.buffer = Remaining(c.buffer, h.n), !.taken = 0]
  <1>1. c \in Conn /\ c.buffer \in Seq(Character) /\ h.n \in Nat
    BY DEF BetweenSends, Conn, Handler
  <1>2. Remaining(c.buffer, h.n) \in Seq(Character)
    BY <1>1 DEF Remaining
  <1>3. /\ e \in Conn /\ e.open = c.open /\ e.pending = c.pending /\ e.ready = c.ready
    BY <1>1, <1>2, ZenonT(40) DEF Conn
  <1>4. sentMessageHandler(c, h) = IF h.error THEN close(e) ELSE trySendMessage(e)
    BY DEF sentMessageHandler
  <1> HIDE DEF e
  <1>5. BetweenSends(e)
    BY <1>3 DEF BetweenSends
  <1>6. close(e) \in Conn /\ Kept(close(e))
    <2> DEFINE d == close(e)
    <2>1. /\ d \in Conn /\ ~d.open /\ d.pending = e.pending \ SocketOps
          /\ \A G : Some(d.pending, d.ready, G) <=> Some(e.pending, e.ready, G)
          /\ \A G : NoTwo(e.pending, e.ready, G) => NoTwo(d.pending, d.ready, G)
      BY <1>3, CloseKeeps, Zenon
    <2> HIDE DEF d
    <2>2. BetweenSends(d)
      BY <1>5, <2>1, Zenon DEF BetweenSends
    <2>3. Kept(d)
      BY <2>1, <2>2, BetweenKept, Zenon
    <2> QED
      BY <2>1, <2>3, Zenon DEF d
  <1> QED
    BY <1>4, <1>5, <1>6, SendKeeps

-----------------------------------------------------------------------------
\* The steps of the connection.

CarbonInv == CarbonTypes /\ ConnectionInv

\* What each handler finds, once it is no longer waiting.
LEMMA HandledKept ==
    ASSUME CarbonInv, ready # <<>>
    PROVE  LET d == Handled(Connection, Head(ready)) IN d \in Conn /\ Kept(d)
  <1> DEFINE c == Connection
             h == Head(ready)
             P == pending
             T == Tail(ready)
             R == ready
  <1>0. R \in Seq(Handler) /\ P \in SUBSET Operation /\ LinkInv(P, R, isOpen)
    BY DEF CarbonInv, CarbonTypes, ConnectionInv
  <1>1. h \in Handler /\ T \in Seq(Handler) /\ h = R[1] /\ 1 \in DOMAIN R
    BY <1>0
  <1>2. /\ c \in Conn /\ c.open = isOpen /\ c.pending = P /\ c.ready = T
    BY <1>1, Zenon DEF CarbonInv, CarbonTypes, Connection, Conn
  <1>3. NoTwo(P, R, Link) /\ NoTwo(P, R, Loop)
    BY <1>0, Zenon DEF LinkInv
  <1> HIDE DEF c, h, P, T, R
  <1>4. /\ h.op \in Link => ~Some(P, T, Link)
        /\ h.op \notin Link => Some(P, T, Link) /\ NoTwo(P, T, Link)
        /\ h.op \in Loop => ~Some(P, T, Loop)
        /\ h.op \notin Loop => (Some(P, T, Loop) <=> Some(P, R, Loop))
        /\ NoTwo(P, T, Loop)
    <2>1. R # <<>> /\ T = Tail(R) /\ Some(P, R, Link)
      BY <1>0, Zenon DEF R, T, LinkInv
    <2> QED
      BY <1>0, <1>1, <1>3, <2>1, RunsHead, Zenon
  <1>5. h.op \in Operation \cup {"wait"}
    BY <1>1, Zenon DEF Handler
  <1>6. \A G : h.op \in G => Some(P, R, G)
    BY <1>1, Zenon DEF Some
  <1>7. CASE h.op \in {"resolve", "connect", "timer"}
    <2>1. h.op \in Link /\ h.op \notin Loop
      BY <1>7, Zenon DEF Link, Loop
    <2>2. ~Some(P, T, Loop)
      <3>1. CASE h.op \in {"resolve", "connect"}
        BY <1>0, <1>4, <1>6, <2>1, <3>1, Zenon DEF LinkInv
      <3>2. CASE h.op = "timer"
        <4>1. ~isOpen /\ P \cap SocketOps = {}
          BY <1>0, <1>6, <3>2, Zenon DEF LinkInv
        <4>2. P \cap Loop = {}
          BY <1>0, <4>1, Zenon DEF Loop, SocketOps, Operation
        <4>3. \A j \in DOMAIN R : R[j].op \in Loop => j < 1
          BY <1>0, <1>1, <3>2, Zenon DEF LinkInv
        <4>4. DOMAIN R = 1 .. Len(R)
          BY <1>0
        <4>5. ~Some(P, R, Loop)
          BY <4>2, <4>3, <4>4 DEF Some
        <4> QED
          BY <1>4, <2>1, <4>5, Zenon
      <3> QED
        BY <1>7, <3>1, <3>2, Zenon
    <2>3. P = {} /\ T = <<>>
      BY <1>0, <1>1, <1>4, <2>1, <2>2, NothingLeft, Zenon
    <2>4. CASE h.op = "resolve"
      <3>1. ~isOpen
        BY <1>0, <1>6, <2>4, Zenon DEF LinkInv
      <3>2. Handled(c, h) = resolverHandler(c, h)
        BY <2>4, Zenon DEF Handled
      <3> QED
        BY <1>1, <1>2, <2>3, <3>1, <3>2, ResolverKeeps, Zenon DEF c, h
    <2>5. CASE h.op = "connect"
      <3>1. isOpen
        BY <1>0, <1>6, <2>5 DEF LinkInv
      <3>2. Handled(c, h) = connectHandler(c, h)
        BY <2>5, Zenon DEF Handled
      <3> QED
        BY <1>1, <1>2, <2>3, <3>1, <3>2, ConnectKeeps, ZenonT(40) DEF c, h
    <2>6. CASE h.op = "timer"
      <3>1. ~isOpen
        BY <1>0, <1>6, <2>6, Zenon DEF LinkInv
      <3>2. Handled(c, h) = doAddressQuery(c)
        BY <2>6, Zenon DEF Handled
      <3> QED
        BY <1>2, <2>3, <3>1, <3>2, ReconnectAlone, Zenon DEF c, h
    <2> QED
      BY <1>7, <2>4, <2>5, <2>6, Zenon
  <1>8. CASE h.op = "receive"
    <2>1. h.op \in Link /\ h.op \notin Loop
      BY <1>8, Zenon DEF Link, Loop
    <2>2. isOpen => Some(P, T, Loop)
      BY <1>0, <1>4, <1>6, <1>8, <2>1, Zenon DEF LinkInv
    <2>3. ~isOpen => P \cap SocketOps = {}
      BY <1>0, Zenon DEF LinkInv
    <2>4. Handled(c, h) = receiveHandler(c, h)
      BY <1>8, Zenon DEF Handled
    <2> QED
      BY <1>1, <1>2, <1>4, <2>1, <2>2, <2>3, <2>4, ReceiveKeeps, Zenon DEF c, h
  <1>9. CASE h.op \in Loop
    <2>1. h.op \notin Link
      BY <1>9, Zenon DEF Link, Loop
    <2>2. ~Some(P, R, {"resolve", "connect"})
      BY <1>0, <1>6, <1>9, Zenon DEF LinkInv
    <2>3. isOpen => ~Some(P, R, {"resolve", "timer"})
      BY <1>0, Zenon DEF LinkInv
    <2>4. \A G : Some(P, T, G) => Some(P, R, G)
      <3>1. /\ DOMAIN T = 1 .. Len(R) - 1 /\ DOMAIN R = 1 .. Len(R)
            /\ \A i \in DOMAIN T : T[i] = R[i + 1] /\ i + 1 \in DOMAIN R
        BY <1>0, <1>1 DEF T, R
      <3> QED
        BY <3>1, Zenon DEF Some
    <2>5. BetweenSends(c)
      BY <1>0, <1>2, <1>4, <1>9, <2>1, <2>2, <2>3, <2>4, Zenon DEF BetweenSends, LinkInv
    <2>6. Handled(c, h) = IF h.op = "write" THEN sentMessageHandler(c, h)
                          ELSE waitForMessage(c)
      BY <1>9, Zenon DEF Handled, Loop
    <2> QED
      BY <1>1, <2>5, <2>6, SentKeeps, WaitKeeps, Zenon DEF c, h
  <1> QED
    BY <1>5, <1>7, <1>8, <1>9, Zenon DEF Operation, SocketOps, Loop

LEMMA CarbonHandle ==
    ASSUME CarbonInv, Handle
    PROVE  CarbonInv'
  <1> DEFINE d == Handled(Connection, Head(ready))
  <1>1. d \in Conn /\ LinkInv(d.pending, d.ready, d.open)
    BY HandledKept, Zenon DEF Handle, Kept
  <1>2. Becomes(d) /\ offered' = offered
    BY Zenon DEF Handle
  <1> HIDE DEF d
  <1>3. CarbonTypes'
    BY <1>1, <1>2, Zenon DEF Becomes, Conn, CarbonTypes, CarbonInv
  <1>4. ConnectionInv'
    BY <1>1, <1>2, Zenon DEF Becomes, ConnectionInv
  <1> QED
    BY <1>3, <1>4, Zenon DEF CarbonInv

\* An operation completes.  A timer that has completed waits on a connection that
\* is closed, where no write is pending that could complete after it.
LEMMA CarbonComplete ==
    ASSUME CarbonInv, NEW op \in Operation, NEW error \in BOOLEAN,
           NEW n \in 0 .. Len(MessageBuffer) \cup Endpoints, Complete(op, error, n)
    PROVE  CarbonInv'
  <1> DEFINE h == Completion(op, error, n)
             P == pending
             R == ready
             D == Append(ready, h)
             Q == pending \ {op}
  <1>1. /\ op \in P /\ pending' = Q /\ ready' = D
        /\ UNCHANGED <<ConnectionState, isOpen, endpoints, Messages, MessageBuffer,
                       taken, offered>>
    BY Zenon DEF Complete
  <1>2. /\ CarbonTypes /\ LinkInv(P, R, isOpen)
        /\ R \in Seq(Handler) /\ P \in SUBSET Operation
    BY Zenon DEF CarbonInv, CarbonTypes, ConnectionInv
  <1>3. h \in Handler /\ h.op = op
    <2>1. n \in Nat
      BY <1>2, CarbonAssumption DEF CarbonTypes
    <2> QED
      BY <2>1, Zenon DEF Handler, Completion
  <1> HIDE DEF h
  <1>4. D \in Seq(Handler) /\ Q \in SUBSET Operation
    BY <1>2, <1>3
  <1>5. CarbonTypes'
    BY <1>1, <1>2, <1>4, Zenon DEF CarbonTypes
  <1>6. \A G : NoTwo(P, R, G) => /\ NoTwo(Q, D, G)
                                 /\ Some(Q, D, G) <=> Some(P, R, G)
    BY <1>1, <1>2, <1>3, PendingToReady, Zenon
  <1>7. /\ NoTwo(P, R, Link) /\ NoTwo(P, R, Loop)
        /\ NoTwo(P, R, {"receive"}) /\ NoTwo(P, R, {"connect"})
        /\ NoTwo(P, R, {"resolve", "connect"}) /\ NoTwo(P, R, {"resolve", "timer"})
    <2>1. NoTwo(P, R, Link) /\ NoTwo(P, R, Loop)
      BY <1>2 DEF LinkInv
    <2>2. /\ {"receive"} \in SUBSET Link /\ {"connect"} \in SUBSET Link
          /\ {"resolve", "connect"} \in SUBSET Link
          /\ {"resolve", "timer"} \in SUBSET Link
      BY Zenon DEF Link
    <2> QED
      BY <2>1, <2>2, SomeSmaller, Zenon
  <1> HIDE DEF P, R, D, Q
  <1>8. \A i, j \in DOMAIN D : D[i].op = "timer" /\ D[j].op \in Loop => j < i
    <2> SUFFICES ASSUME NEW i \in DOMAIN D, NEW j \in DOMAIN D,
                        D[i].op = "timer", D[j].op \in Loop
                 PROVE  j < i
      OBVIOUS
    <2>1. /\ Len(R) \in Nat /\ DOMAIN R = 1 .. Len(R) /\ DOMAIN D = 1 .. Len(R) + 1
          /\ \A k \in DOMAIN R : D[k] = R[k]
          /\ D[Len(R) + 1] = h
      BY <1>2, <1>3 DEF D, R
    <2>2. CASE i \in DOMAIN R /\ j \in DOMAIN R
      BY <1>2, <2>1, <2>2, Zenon DEF LinkInv
    <2>3. CASE i \in DOMAIN R /\ j = Len(R) + 1
      <3>1. Some(P, R, {"resolve", "timer"})
        BY <2>1, <2>3, Zenon DEF Some
      <3>2. P \cap SocketOps = {}
        BY <1>2, <3>1, Zenon DEF LinkInv
      <3>3. op \in Loop
        BY <1>3, <2>1, <2>3, Zenon
      <3> QED
        BY <1>1, <1>2, <3>2, <3>3, Zenon DEF Loop, SocketOps, Operation
    <2>4. CASE i = Len(R) + 1
      <3>1. op = "timer" /\ op \notin Loop
        BY <1>3, <2>1, <2>4, Zenon DEF Loop
      <3>2. j # Len(R) + 1
        BY <1>3, <2>1, <3>1, Zenon
      <3> QED
        BY <2>1, <2>4, <3>2
    <2> QED
      BY <2>1, <2>2, <2>3, <2>4
  <1>9. Q \subseteq P
    BY Zenon DEF Q, P
  <1>10. LinkInv(Q, D, isOpen)
    BY <1>2, <1>6, <1>7, <1>8, <1>9, Zenon DEF LinkInv
  <1>11. ConnectionInv'
    BY <1>1, <1>10, Zenon DEF ConnectionInv
  <1> QED
    BY <1>5, <1>11, Zenon DEF CarbonInv

\* Every other step leaves the operations alone.
LEMMA CarbonOthers ==
    ASSUME CarbonInv, [Next]_vars, ~(CarbonNext /\ UNCHANGED metricsVars)
    PROVE  CarbonInv'
  <1> DEFINE Quiet == UNCHANGED <<ConnectionState, isOpen, endpoints, pending, ready,
                                  MessageBuffer, taken>>
             Offer == Messages' = Append(Messages, offered + 1) /\ offered' = offered + 1
  <1>1. Quiet /\ (UNCHANGED <<Messages, offered>> \/ Offer)
    <2>1. ASSUME UNCHANGED carbonVars PROVE <1>1
      BY <2>1, Zenon DEF carbonVars, connection
    <2>2. ASSUME NEW m \in Metric, Owner(m) PROVE <1>1
      BY <2>1, <2>2, ZenonT(40) DEF Owner, registerMetric, addMetric, Destroy, tryRemoveMetric
    <2>3. ASSUME NEW s \in Sink, Fire(s) PROVE <1>1
      BY <2>1, <2>3, Zenon DEF Fire
    <2>4. CASE Release
      BY <2>1, <2>4, Zenon DEF Release
    <2>5. CASE UNCHANGED vars
      BY <2>1, <2>5, Zenon DEF vars
    <2>6. ASSUME NEW s \in Sink, ReportMetric(s) PROVE <1>1
      BY <2>6, Zenon DEF ReportMetric, sendMessage, carbonVars, connection
    <2>7. ASSUME NEW s \in Sink, DestroyReporter(s) PROVE <1>1
      BY <2>7, Zenon DEF DestroyReporter, DestroyConnection, carbonVars, connection
    <2> HIDE DEF Quiet, Offer
    <2> QED
      BY <2>2, <2>3, <2>4, <2>5, <2>6, <2>7, Zenon DEF Next, Report
  <1>2. CarbonTypes'
    <2>1. Messages \in Seq(Nat) /\ offered \in Nat
      BY DEF CarbonInv, CarbonTypes
    <2>2. Offer => Messages' \in Seq(Nat) /\ offered' \in Nat
      BY <2>1
    <2>3. Messages' \in Seq(Nat) /\ offered' \in Nat
      BY <1>1, <2>1, <2>2, Zenon
    <2> QED
      BY <1>1, <2>3, Zenon DEF CarbonInv, CarbonTypes
  <1>3. ConnectionInv'
    BY <1>1, Zenon DEF CarbonInv, ConnectionInv
  <1> QED
    BY <1>2, <1>3, Zenon DEF CarbonInv

LEMMA CarbonStep == CarbonInv /\ [Next]_vars => CarbonInv'
  <1> SUFFICES ASSUME CarbonInv, [Next]_vars PROVE CarbonInv'
    OBVIOUS
  <1>1. CASE WriteSome
    <2>1. /\ UNCHANGED <<ConnectionState, isOpen, endpoints, pending, ready,
                         Messages, MessageBuffer, offered>>
          /\ taken' \in Nat
      BY <1>1 DEF WriteSome, CarbonInv, CarbonTypes
    <2>2. CarbonTypes'
      BY <2>1, Zenon DEF CarbonInv, CarbonTypes
    <2>3. ConnectionInv'
      BY <2>1, Zenon DEF CarbonInv, ConnectionInv
    <2> QED
      BY <2>2, <2>3, Zenon DEF CarbonInv
  <1> QED
    BY <1>1, CarbonHandle, CarbonComplete, CarbonOthers, Zenon DEF CarbonNext, Network

LEMMA CarbonStarts == Init => CarbonInv
  <1> SUFFICES ASSUME Init PROVE CarbonInv
    OBVIOUS
  <1>1. /\ ConnectionState = "ADDR_LOOKUP" /\ isOpen = FALSE /\ endpoints = 0
        /\ pending = {"resolve"} /\ ready = <<>>
        /\ Messages = <<>> /\ MessageBuffer = <<>> /\ taken = 0 /\ offered = 0
    BY Zenon DEF Init, CarbonInit
  <1>2. CarbonTypes
    <2>1. \A X : <<>> \in Seq(X)
      OBVIOUS
    <2>2. /\ ready \in Seq(Handler) /\ Messages \in Seq(Nat)
          /\ MessageBuffer \in Seq(Character)
      BY <1>1, <2>1, Zenon
    <2>3. pending \in SUBSET Operation
      BY <1>1 DEF Operation
    <2> QED
      BY <1>1, <2>2, <2>3, Zenon DEF CarbonTypes
  <1>3. DOMAIN ready = {}
    BY <1>1
  <1>4. ConnectionInv
    BY <1>1, <1>3, Zenon DEF ConnectionInv, LinkInv, Some, NoTwo, Link, Loop, SocketOps
  <1> QED
    BY <1>2, <1>4 DEF CarbonInv

-----------------------------------------------------------------------------
\* Counting.  Of the operations G none occurs twice, so each counts one or
\* nothing, and one at most counts.

LEMMA CountOne ==
    ASSUME CarbonTypes, NEW G, NoTwo(pending, ready, G), NEW op \in G
    PROVE  /\ Count(op) \in {0, 1}
           /\ Count(op) = 1 <=> Some(pending, ready, {op})
  <1> DEFINE I == {i \in DOMAIN ready : ready[i].op = op}
  <1>1. Count(op) = (IF op \in pending THEN 1 ELSE 0) + Cardinality(I)
    BY Zenon DEF Count
  <1>2. CASE I = {}
    <2>1. Cardinality(I) = 0
      BY <1>2, FS_EmptySet, Zenon
    <2> QED
      BY <1>1, <1>2, <2>1 DEF Some
  <1>3. ASSUME NEW i \in I PROVE Count(op) = 1 /\ Some(pending, ready, {op})
    <2>1. op \notin pending /\ I = {i}
      BY <1>3, Zenon DEF NoTwo
    <2>2. Cardinality(I) = 1
      BY <2>1, FS_Singleton, ZenonT(40)
    <2>3. Some(pending, ready, {op})
      BY <1>3 DEF Some
    <2> HIDE DEF I
    <2> QED
      BY <1>1, <2>1, <2>2, <2>3
  <1> QED
    BY <1>2, <1>3, Zenon

LEMMA CountAtMostOne ==
    ASSUME NEW G, NoTwo(pending, ready, G), NEW op \in G, NEW o \in G, op # o,
           Some(pending, ready, {op})
    PROVE  ~Some(pending, ready, {o})
  BY DEF NoTwo, Some

LEMMA CarbonCounts == CarbonInv => OneConnection
  <1> SUFFICES ASSUME CarbonInv PROVE OneConnection
    OBVIOUS
  <1> DEFINE S(op) == Some(pending, ready, {op})
  <1>1. /\ CarbonTypes
        /\ NoTwo(pending, ready, Link) /\ NoTwo(pending, ready, Loop)
        /\ Some(pending, ready, Link)
        /\ isOpen /\ S("receive") => Some(pending, ready, Loop)
    BY Zenon DEF CarbonInv, ConnectionInv, LinkInv
  <1>2. S("resolve") \/ S("connect") \/ S("timer") \/ S("receive")
    BY <1>1, Zenon DEF Some, Link
  <1>3. Some(pending, ready, Loop) => S("write") \/ S("wait")
    BY Zenon DEF Some, Loop
  <1>4. \A op \in Link : Count(op) \in {0, 1} /\ (Count(op) = 1 <=> S(op))
    BY <1>1, CountOne, ZenonT(40)
  <1>5. \A op \in Loop : Count(op) \in {0, 1} /\ (Count(op) = 1 <=> S(op))
    BY <1>1, CountOne, ZenonT(40)
  <1>6. \A op, o \in Link : op # o /\ S(op) => ~S(o)
    BY <1>1, CountAtMostOne, Zenon
  <1>7. \A op, o \in Loop : op # o /\ S(op) => ~S(o)
    BY <1>1, CountAtMostOne, Zenon
  <1> HIDE DEF S
  <1>8. Count("resolve") + Count("connect") + Count("timer") + Count("receive") = 1
    BY <1>2, <1>4, <1>6 DEF Link
  <1>9. Count("write") + Count("wait") \in {0, 1}
    BY <1>5, <1>7 DEF Loop
  <1>10. isOpen /\ Count("receive") = 1 => Count("write") + Count("wait") = 1
    BY <1>1, <1>3, <1>4, <1>5, <1>9 DEF Loop, Link
  <1> QED
    BY <1>8, <1>9, <1>10 DEF OneConnection

\* Whatever fails and in whichever order operations and handlers complete, there
\* is exactly one attempt to connect or connection that is listened to, at most
\* one write, and on an open connection one sending loop (the handlers of
\* CarbonConnection::Impl); for every number of endpoints, errors and messages.
THEOREM OneLink == Spec => []OneConnection
  <1>1. Spec => []CarbonInv
    BY CarbonStarts, CarbonStep, PTL DEF Spec
  <1> QED
    BY <1>1, CarbonCounts, PTL

=============================================================================
