------------------------------- MODULE Metrics -------------------------------
(***************************************************************************)
(* The metrics of the program: threads that create, register and destroy   *)
(* metrics, and for each sink a Reporter, whose thread passes the metrics  *)
(* on whenever its timer fires: to the log, or to the connection of        *)
(* CarbonConnection.                                                       *)
(***************************************************************************)
EXTENDS CarbonConnection

CONSTANTS
    Metric,       \* the metrics, each with a thread that owns it
    SinksOf,      \* the sinks that each metric is meant for
    Name,         \* full names (Registrar::prependPrefix)
    NoName,       \* the empty name
    NoMetric,     \* no entry under a name
    \* Bounds.
    MaxOffered    \* messages for the server

ASSUME MetricsAssumption ==
    /\ NoMetric \notin Metric /\ NoName \notin Name
    /\ SinksOf \in [Metric -> SUBSET {"LOG_MSG", "CARBON"}]
    /\ {} \notin {SinksOf[m] : m \in Metric}
    /\ MaxOffered \in Nat

Sink == {"LOG_MSG", "CARBON"}

\* The order of ReporterList in main().
FirstSink(S) == IF "LOG_MSG" \in S THEN "LOG_MSG" ELSE "CARBON"

VARIABLES
    MetricsToReportOn,  \* by sink and name: the metric whose counter is read
    reporter,           \* by sink: "waiting", "reporting" or "joined"
    todo,               \* by sink: names still to report in this round
    metric,             \* by metric: what its owner is doing with it
    released            \* main has let go of the reporters

metricsVars == <<MetricsToReportOn, reporter, todo, metric, released>>
vars == <<carbonVars, metricsVars>>

\* A metric: the sinks still to be visited, and Reporters, the ones that it is
\* registered with.
Unborn == [phase |-> "unborn", name |-> NoName, left |-> {}, on |-> {}]

Init ==
    /\ CarbonInit
    /\ MetricsToReportOn = [s \in Sink |-> [n \in Name |-> NoMetric]]
    /\ reporter = [s \in Sink |-> "waiting"]
    /\ todo = [s \in Sink |-> {}]
    /\ metric = [m \in Metric |-> Unborn]
    /\ released = FALSE

Names(s) == {n \in Name : MetricsToReportOn[s][n] # NoMetric}

-----------------------------------------------------------------------------
\* The owner of a metric.

\* MetricsMapMutex is held by the thread of the reporter.
Locked(s) == reporter[s] = "reporting"

\* Registrar::registerMetric throws if the name is empty, and destroys the
\* metric while the exception leaves the constructor of its owner.
registerMetric(m, n) ==
    /\ metric[m].phase = "unborn" /\ ~released
    /\ metric' = [metric EXCEPT ![m] =
           [@ EXCEPT !.phase = IF n = NoName THEN "gone" ELSE "registering",
                     !.name = n,
                     !.left = SinksOf[m]]]
    /\ UNCHANGED <<carbonVars, MetricsToReportOn, reporter, todo, released>>

\* Reporter::addMetric for the next sink; false if the name is there already.
addMetric(m) ==
    LET s == FirstSink(metric[m].left)
        n == metric[m].name
    IN  /\ metric[m].phase = "registering"
        /\ ~Locked(s)
        /\ IF n \in Names(s)
           THEN /\ metric' = [metric EXCEPT ![m].phase = "destroying"]
                /\ UNCHANGED MetricsToReportOn
           ELSE /\ MetricsToReportOn' = [MetricsToReportOn EXCEPT
                                            ![s][n] = m]
                /\ metric' = [metric EXCEPT
                       ![m].left = @ \ {s},
                       ![m].on = @ \cup {s},
                       ![m].phase = IF metric[m].left = {s}
                                    THEN "registered" ELSE @]
        /\ UNCHANGED <<carbonVars, reporter, todo, released>>

Destroy(m) ==
    /\ metric[m].phase = "registered"
    /\ metric' = [metric EXCEPT ![m].phase = "destroying"]
    /\ UNCHANGED <<carbonVars, MetricsToReportOn, reporter, todo, released>>

\* Mutant: a metric removes itself from every reporter, by its name.
RemoveFrom_All(m) == Sink

\* ~Metric asks the reporters it is registered with.
RemoveFrom(m) == metric[m].on

\* ~Metric: tryRemoveMetric of one reporter after the other, then its members
\* go, with them the counter and the references to the reporters.
tryRemoveMetric(m) ==
    /\ metric[m].phase = "destroying"
    /\ IF RemoveFrom(m) = {}
       THEN /\ metric' = [metric EXCEPT ![m].phase = "gone"]
            /\ UNCHANGED MetricsToReportOn
       ELSE \E s \in RemoveFrom(m) :
                /\ ~Locked(s)
                /\ MetricsToReportOn' =
                       IF metric[m].name \in Names(s)
                       THEN [MetricsToReportOn EXCEPT
                                ![s][metric[m].name] = NoMetric]
                       ELSE MetricsToReportOn
                /\ metric' = [metric EXCEPT ![m].on = @ \ {s}]
    /\ UNCHANGED <<carbonVars, reporter, todo, released>>

-----------------------------------------------------------------------------
\* The thread of a reporter.

isHealthy(s) == s = "CARBON" => messageQueueSize = 0

\* reportMetrics: an unhealthy sink is left alone until the timer fires again.
\* Nobody else sends, so a sink that is healthy still is once the mutex is held.
Fire(s) ==
    /\ reporter[s] = "waiting" /\ isHealthy(s) /\ Names(s) # {}
    /\ s = "CARBON" => offered + Cardinality(Names(s)) <= MaxOffered
    /\ reporter' = [reporter EXCEPT ![s] = "reporting"]
    /\ todo' = [todo EXCEPT ![s] = Names(s)]
    /\ UNCHANGED <<carbonVars, MetricsToReportOn, metric, released>>

\* LogSink::reportMetric logs the events since the last report,
\* CarbonSink::reportMetric sends the value.
\* After the last metric the mutex is free and the timer is set again.
ReportMetric(s) ==
    /\ reporter[s] = "reporting"
    /\ \E n \in todo[s] :
           /\ todo' = [todo EXCEPT ![s] = @ \ {n}]
           /\ reporter' = [reporter EXCEPT ![s] = IF todo[s] = {n}
                                                 THEN "waiting" ELSE @]
           /\ IF s = "CARBON"
              THEN sendMessage /\ UNCHANGED <<connection, service, surprises>>
              ELSE UNCHANGED carbonVars
    /\ UNCHANGED <<MetricsToReportOn, metric, released>>

-----------------------------------------------------------------------------
\* The end of the program.

\* main() lets go of the reporters after everything that has metrics.
Release ==
    /\ ~released
    /\ \A m \in Metric : metric[m].phase \in {"unborn", "gone"}
    /\ released' = TRUE
    /\ UNCHANGED <<carbonVars, MetricsToReportOn, reporter, todo, metric>>

\* IO.stop() lets the handler that is running finish.
CanJoin(s) == reporter[s] = "waiting"

\* ~Reporter: wait for the thread, then the sink goes, for CARBON the
\* connection with it.
DestroyReporter(s) ==
    /\ released
    /\ CanJoin(s)
    /\ reporter' = [reporter EXCEPT ![s] = "joined"]
    /\ IF s = "CARBON" THEN DestroyConnection ELSE UNCHANGED carbonVars
    /\ UNCHANGED <<MetricsToReportOn, todo, metric, released>>

-----------------------------------------------------------------------------
Owner(m) ==
    \/ \E n \in Name \cup {NoName} : registerMetric(m, n)
    \/ addMetric(m) \/ Destroy(m)
    \/ tryRemoveMetric(m)

Report(s) == Fire(s) \/ ReportMetric(s)

Next ==
    \/ CarbonNext /\ UNCHANGED metricsVars
    \/ \E m \in Metric : Owner(m)
    \/ \E s \in Sink : Report(s) \/ DestroyReporter(s)
    \/ Release

Spec == Init /\ [][Next]_vars

\* Threads are scheduled, handlers run, and operations of the network come to
\* an end, with errors a bounded number of times.
Fairness ==
    /\ WF_vars(Handle /\ UNCHANGED metricsVars)
    /\ WF_vars(Network /\ UNCHANGED metricsVars)
    /\ WF_vars(\E s \in Sink : ReportMetric(s))
    /\ WF_vars(\E s \in Sink : DestroyReporter(s))

FairSpec == Spec /\ Fairness

-----------------------------------------------------------------------------
\* The variables have their types.
TypeOK ==
    /\ ConnectionState \in {"ADDR_LOOKUP", "CONNECT", "SEND_LOOP",
                            "ADDR_RETRY_WAIT"}
    /\ pending \subseteq Operation
    /\ taken \in 0 .. Len(MessageBuffer)
    /\ Len(Messages) <= MaxMessageQueueSize
    /\ service \in {"running", "joined"}
    /\ surprises \in 0 .. MaxSurprises
    /\ MetricsToReportOn \in
           [Sink -> [Name -> Metric \cup {NoMetric}]]
    /\ reporter \in [Sink -> {"waiting", "reporting", "joined"}]
    /\ todo \in [Sink -> SUBSET Name]

\* No reporter holds the counter of a metric that is gone, and no other metric
\* under the same name, nor its end, takes a registered metric off a reporter
\* (registerMetric against ~Metric, on several reporters).  A round of reports
\* meets no other metrics, whatever their owners do (MetricsMapMutex).
RegisteredIsReported ==
    /\ \A s \in Sink : \A n \in Names(s) :
           metric[MetricsToReportOn[s][n]].phase # "gone"
    /\ \A m \in Metric : \A s \in metric[m].on :
           MetricsToReportOn[s][metric[m].name] = m
    /\ \A s \in Sink : todo[s] \subseteq Names(s)

\* The queue of the server's messages empties again and again, however the
\* connection was lost, so that the sink does not stay unhealthy, and once main
\* has let go of the reporters they end.
QueueDrains ==
    /\ []<>(Messages = <<>> \/ service = "joined")
    /\ released ~> \A s \in Sink : reporter[s] = "joined"
=============================================================================
