# kafka-to-nexus: specifications, model checking and proofs

This directory holds TLA+ specifications of the file-writer `kafka-to-nexus`,
the TLC configurations that check them on small instances, and theorems that
TLAPS checks for every value of the constants. Each definition is translated
from the C++ source; `PROJECT.json` names the lines.

## The system

The file-writer waits for a *start* command in a job pool, writes the messages
of the topics that the command names into a NeXus (HDF5) file until a stop time,
and reports the end of the job. A job is served by many threads:

| Thread | Code | Module |
|---|---|---|
| main: run loop, signals, commands | `apps/kafka-to-nexus.cpp`, `RunState.h`, `Master`, `CommandSystem/*` | `Master` |
| main: the file of a job | `JobCreator`, `FileWriterTask`, `HDFFile`, `HDFOperations` | `JobFile` |
| executor of the stream controller | `StreamController`, `ThreadedExecutor` | `StreamController` |
| executor of each topic | `Stream/Topic` | `StreamController` |
| worker of each partition | `Stream/Partition`, `PartitionFilter`, `SourceFilter` | `Partition`, `SourceFilter` |
| writer of the file | `Stream/MessageWriter`, `WriterModule/*`, `NeXusDataset/*` | `StreamController`, `WriterModules` |
| timer of the status reports | `Status/*`, `Kafka/Producer*` | `StatusReporter` |
| timers of the metrics, and the Carbon client | `Metrics/*` | `Metrics`, `CarbonConnection` |

Main owns the stream controller; the controller owns the topics and the writer;
a topic owns its partitions; a partition owns a source filter for each source of
the file. Commands and stop times travel down this chain, from executor to
executor and through atomics to the workers; messages travel from the workers
through the queue of the writer into the file; ends and errors travel up by
polling (`hasFinished`, `isDone`, `isDoneWriting`).

## Modules

| Module | What it is |
|---|---|
| `SourceFilterOps` | a `SourceFilter` as a record and its member functions as operators |
| `SourceFilter` | one filter from construction to destruction |
| `PartitionFilterOps` | `PartitionFilter`: the decision taken for each poll |
| `Partition` | one partition: its worker thread, its owner, the broker and the clock |
| `MessageDelivery` | abstract: what a partition promises the writer; `Partition` implements it |
| `StreamController` | one job: main, the controller, topics, partitions, writer |
| `Master` | the main thread over several jobs: commands, topics, signals, failures |
| `NeXusDatasetOps` | a dataset in the file and the object that appends to it |
| `WriterModules` | one writer module, its datasets and its metadata, from creation to the last message |
| `DataArrayOps` | the configuration of a `da00` variable, what the first message adds to it, the attributes of its group |
| `JsonConfigOps` | the fields of a JSON configuration: keys, defaults, what is missing |
| `HDFOperations` | groups, datasets, attributes and links of a file as `createHDFStructures` makes them |
| `JobFile` | the file over several jobs: template, structure, streams, SWMR mode, sources, metadata, destruction |
| `CarbonConnection` | the Carbon client: look-up, connection, queue, buffer and handlers |
| `Metrics` | metrics, their registration and the reporters, one of which sends through `CarbonConnection` |
| `StatusReporter` | the status thread, the switch of its topic, and the Kafka producer with its queue |
| `MC*` | the instances for TLC |
| `SourceFilterProofs` | proofs about `SourceFilter` |
| `PartitionProofs`, `PartitionWindowProofs` | proofs about `Partition`: its invariant, the refinement of `MessageDelivery`; the window |
| `StreamControllerProofs`, `StreamControllerJobProofs` | proofs about `StreamController`: vector, topics, partitions, stop time; messages, the theorems |
| `MasterProofs` | proofs about `Master` |
| `MetricsProofs` | proofs about `Metrics` and `CarbonConnection` |
| `StatusReporterProofs` | proofs about `StatusReporter` |

The modules form three layers. `Partition` uses the operators of `SourceFilter`
and `PartitionFilter` directly. `StreamController` abstracts a partition to what
`Partition` shows of it: it forwards messages while it runs, may hold back one
message that its destructor forwards, and finishes when it was stopped, when its
stop time has passed, or by itself. `Master` abstracts the controller to what
main sees of it: it is running, stopped, done or failed. `WriterModules` stands
below `StreamController`: it is what one call of the writer thread does to the
file. `JobFile` stands before and after it: it creates the datasets that a writer
module appends to and closes the file behind it. `StatusReporter` and `Metrics`
run beside the job and share with it only what they report.

`MessageDelivery` is the abstract specification of the middle layer. It has no
threads, atomics, clock or limits: messages are read once and in order, and each
receiver skips, keeps back or gets a message. `Partition` implements it
(`DeliversMessages`): `fetched` is the position of the consumer, `held` the
message that a source filter buffers, `delivered` what it has forwarded, and
`status` whether the partition runs, has finished, or has been joined and its
filters destroyed. `StreamController` relies on no more than this.

### How state and actions correspond to the code

*SourceFilter.* The record has one field for each member; `Outcome` names the
ways in which `filter_message` can end, `FilterMessage` and `Forwarding` give
the state and the messages forwarded for each. A message is its source, its
timestamp in nanoseconds and whether it is valid; `ToTimepoint` truncates to
microseconds as `to_timepoint` does.

*Partition.* `process()` is one action for each access to an atomic that the
owner writes as well: `Check`, `TakeStop`, `LoadStopTime`, `ApplyStopTime`
(which loads a second time), `ClearStopTime`, then one `Poll...` action for the
answer of the consumer. `stop`, `set_stop_time`, `destroy` and `Join` are the
owner's. The broker appends messages up to the leeway after their timestamp;
undecodable messages are those for which the constructor of `FlatbufferMessage`
throws. A stop time of `MaxTime` is `time_point::max()`, and a comparison with a
sum beyond it may yield either answer (`IsAfter`), as signed overflow may.

*StreamController.* `task` is the low-priority task of the executor and
`stopTasks` its high-priority queue, `stage` the chain of tasks of a topic.
`Streamers` is the vector itself: `std::remove_if` and `erase` are two steps,
between which moved-from pointers are in the vector (`NullTopic`). The members
of the controller are destroyed in the reverse order of their declaration:
`ExecutorExits`, `WriterJoined`, `StreamersFreed`. `main = "crashed"` is the
dereference of a null pointer.

*Master.* One turn of the run loop is `shouldStop` (`pc = "check"`), one poll
for a command with all that it entails (`pc = "loop"`) and the test for the end
of the job (`pc = "finish"`). `switchCommandTopic` and `revertCommandTopic`
return the set of their outcomes, those after a failure included. Subscribing
without a position starts at the end of a topic, as the consumers of the code
do; a control topic is read from the start time of the job.

*WriterModules.* `kind` chooses one of eight modules. A message is what its
flatbuffer tells the module; `f144_Appends`, `ev44_Appends` and so on list the
appends of `writeImpl` in the order of the code, and `write` performs all of them
or, when one throws, those before it (`AppendThrows`), half of an append that has
grown the dataset included. `members` are the counters of the module after as
many appends (`Members`), which is where the order of the code matters. A
dataset is its cells and `NrOfElements`; `Fill` is a cell that nobody has
written. `init_hdf` may fail after any dataset, and `reopen` then drops the
stream. For `da00` the instance also chooses a configuration: its first message
is a list of steps of its own (`handle_first_message`), each of which may throw
and leave the module with part of the update.

*JobFile.* `disk` is what survives a process: by name, the groups, datasets,
attributes, links and texts of a file. A document is a table of nodes whose
entries have a JSON type and a value, in the order in which nlohmann::json
iterates over them. `createHDFStructures` is a stack machine, one node a step,
because the path it shares with its callers is where its errors matter. The stages
of `createFileWritingJob` are steps of their own (`initialise`, `build`,
`streams`, `switch`, `sources`), each of which may fail once; `unwind` is the
destruction of the controller's members and the task. `File.opened` counts how
often the file was opened, which tells an open dataset from one of an earlier
mode; which of them are still open when the file is closed follows from the order
of the members of `FileWriterTask` (`Members`). `Kill` ends the process at any
step and keeps the disk; the template-maker runs before the first job.

*CarbonConnection and Metrics.* The io_service is a set of operations that are
under way (`pending`) and a queue of handlers that are ready to run (`ready`);
each handler is one action, and closing the socket completes what is under way
with an error. A write hands over any part of the buffer before it fails.
A reporter goes through the metrics it met with `MetricsMapMutex` held;
registration takes the mutex of one reporter after the other, and the destructor
of a metric likewise.

*StatusReporter.* The pointers to the two topics are variables that the main
thread swaps without `StatusMutex`; `std::swap` of two `unique_ptr` exchanges the
raw pointers, so a reader meets the old one or the new one. The thread tests the
pointer, gets the status, loads the pointer, and produces. `heap` and `queue` say
who has a message; what librdkafka has when `~Producer` gives up stays in the heap.
To produce through a pointer to a destroyed topic ends the process (`Crash`) or
goes on as if the topic were there, since the behaviour is undefined; to read
the status after its destruction likewise (`ReadsDestroyedStatus`).

## Runs

| Run | Shows | Distinct states |
|---|---|---|
| `source_filter` | the order of what is forwarded, the message held back, the window of a source whose messages are in order | 2.5 M |
| `partition` | which of two requests for a stop time can be lost over the atomics, all of the window is forwarded in spite of sums that overflow, the refinement of `MessageDelivery` | 3.1 M |
| `partition_live` | errors end the partition, and time-outs are logged, exactly after their limit; `stop` and the stop time end it, the destructor ends the worker thread | 0.4 M |
| `controller` | a job that ended by its stop time is complete; the stop time reaches each partition; a topic is freed only when it is done | 1.4 M |
| `controller_live` | a job ends, by its stop time or stopped at once; pauses end; errors are reported | 0.2 M |
| `master` | the topics of a job, one answer for each command, one report for each job; jobs finish, signals shut down; with any step failing | 0.8 M |
| `writer_modules` | nothing written is overwritten; datasets, event indices, cues and metadata are those of the messages; constants, units and axes of `da00` | 0.6 M |
| `job_file` | streams are where the document has them and are written to, or dropped for a known reason; files are kept, complete, and can be made from a template | 0.8 M |
| `metrics` | no reporter meets a metric that is gone; one connection, one sending loop, characters in order, an empty queue again, an end | 0.1 M |
| `status` | what the unlocked switch of the topic and the early end of the status can do to a report; a message is owned once; the destructor returns | 0.2 M |

`WindowComplete` of `partition` excepts the behaviours in which a poll timed out
although a message was there (`slow`): the code takes a poll that times out
after the stop time for the end of the data, so a fetch that is slower than the
poll loses the rest of the window.

`ContentOfMessages` and `CueFindsEntry` of `writer_modules` speak of behaviours in
which no append throws and no message has arrays of different lengths (`Smooth`).
They also except an `f144` stream that received an array: its timestamp is
appended before the message is refused, and the values after it are out of step
with their timestamps; and a `da00` stream with a variable that does not fit: the
rows of the variables before it stay.

Some properties name what the code does not do instead of leaving it out of the
instance. `StopTimeNotLost`: of any number of requests, only one that is stored
between the second load of `process()` and its clearing store is lost
(`overwritten`). `OnTopicOfJob`: a change of topic that fails leaves the
listener where it should not be (`stranded`) but, unless it was a start that could
not be reverted (`unreverted`), not the answers. `EachAnswered`: only
such a start goes without an answer.
`OneFinishedPerJob`: only a start that fails after its controller was made leaves
one behind, which is reported without a job (`orphaned`). `ReportUndisturbed`: a
report goes through a pointer to a destroyed topic only if two switches overlap it
and to another topic only if one does, and the reports end for these reasons, for a
timer that fires before `Master` has set the getter (`early`) or for a status that
was read after its destruction (`stale`). `TemplateCanBeUsed`: only a template whose
document names an attribute that jobs write (`creator`, `file_name` and so on) stops
a job. `ConfigurationCompleted`: the unit of a `da00` variable is not taken if it is
longer than its configured size, nor written if the message brings the axes as
well, and the ranges that end early are those of `FallsShort`.

`NoStreamForgotten` of `job_file` excepts streams with a contested dataset: two
streams in one group whose modules create a dataset of the same name (two `f144`, or
an `f144` and an `ev44`, which both create `cue_index`), or a dataset of the document
of that name. `init_hdf` then fails, which nobody looks at. If all datasets of the
second stream exist nevertheless, `reopen` succeeds and both streams write to the
same datasets, which `SourcesAreOpen` allows for such streams only; otherwise the
second one is dropped, with a line in the log. `NoStreamForgotten` also excepts what
follows a group whose attributes HDF5 refuses.

`FinishedIsComplete` asks for the times of `mdat` where the code has them: each
name is written once, to the group of the last `mdat` module of the document that
lists it, and nowhere if that module is at the root.

Each module with state has a `TypeOK` that documents its variables; the runs spend
their time on the other properties. For `SourceFilter`, `Partition`,
`StreamController`, `Master` and `StatusReporter` it is proved (below).

The other two runs are counterexamples: each checks one property that a comment
or a document of the repository states and that the code does not have. They are
listed with the lines they contradict under "findings" in `PROJECT.json`:

- `controller_held_back`: a message held back is lost when the job is stopped,
  because the writer is joined before the topics are destroyed.
- `controller_error_race`: a null pointer that `std::remove_if` leaves in the
  vector of topics is dereferenced.

The models also show these deviations, for which no run is kept; "hazards" in
`PROJECT.json` names most of their lines. A second stop time that arrives between
the second load and the store of `process()` is lost. Until a poll fails or times
out, `hasTopicTimedOut` adds its limit to `time_point::max()` in every poll; the
sum overflows, and its outcome does not matter (`TimeOutLogExact`). The job is
reported as finished before its queue is drained. A control topic that cannot be
connected to leaves the command listener there. A failure to revert the command
topic leaves a command without an answer, and one in `startWriting` leaves the
controller of a rejected job behind, for which a later signal makes `stopNow`
throw out of `main`. A SIGINT during `shouldStop` sets back a `RunState` that was
stopping. A process that exits on SIGHUP may not have reported the job that has
just ended. A stop command sent before the listener has subscribed is not read. A
group attribute that HDF5 refuses leaves its group on the path, and the streams
behind it are looked for one level too deep. An `mdat` module at the root has an
empty path and its times are never written (`isWritable`), also if a group had
asked for them before; an `mdat` module without a configuration object, or with
items that are not strings, ends the job before it starts. When the first message
of a `da00` stream brings the axes, the unit that it brings as well is not
written. A range of integers in a `da00` configuration whose step leaves a
remainder can end before its last value (`FallsShort`).

### Bounds

- *SourceFilter*: four messages with timestamps around the start and the stop
  time, two sources. Four are enough for a buffered message, one that replaces it
  or is older, one in the window and one beyond it.
- *Partition*: a clock of a few ticks on either side of the stop time and its
  leeway, `MaxTime` far enough for sums with a time of the clock and near enough
  for `time_point::max()` to be a time like the others; two keys of one source,
  two messages and two requests for different stop times, which meet the worker,
  and each other, at each of its steps; in the liveness run one message, two
  errors, a pause, one request and `stop`.
- *StreamController*: two topics with one partition each, one topic in the
  liveness run; one message held back per partition and, in the liveness run, one
  in the window, with a queue limit that a single partition can fill; a job with
  or without a stop time, which is set once, at any step of the other threads; one
  repeated call for metadata in the liveness run. Three topics are the fewest for
  an exception in the middle of `remove_if` after a topic has been moved
  (`controller_error_race`).
- *Master*: two jobs (the second sees what the first has left), two topics, a stop
  command, two signals (`MaxSignals`) and a failure of any of the eight steps that
  may fail (`Failing`), two of these in all (`MaxTroubles`).
- *WriterModules*: three or four messages with a cue interval of two, so that a
  cue follows a cue; arrays of up to two elements; one append that throws, with
  messages before and after it. `da00` has variables with and without a dataset
  and a constant whose values are configured or come with the first message.
- *JobFile*: documents of one node at the root, out of a table with each branch of
  `createHDFStructures` and groups up to three deep, and of two of which the
  second meets what the first has left behind; two jobs, so that the second meets
  the file of the first; one failure at any call that can fail, and one kill.
- *Metrics*: two metrics that compete for names, one on both reporters; two
  endpoints for each look-up, one unforeseen failure of the network, a queue of
  one message and messages of two characters, so that a write can be partial.
- *StatusReporter*: three jobs, as two switches during one report need two jobs
  and a third finds the outcome; a queue of two messages.

Runs that check no liveness end in a state without successor (the job is over,
the process has exited), which is why they do not check for deadlock; that
nothing waits for ever is what the liveness properties say.

### Fairness

Every thread of the program goes on when it can (weak fairness): its loops sleep
for a fixed time and block on nothing but the joins that the models contain.
The clock advances and a pause ends. `Partition` assumes strong fairness of
polling: a broker that is polled again and again delivers what it has and times
out when there is nothing left. `StreamController` assumes that a partition
that was stopped or whose stop time has passed finishes (a partition that ends
by itself, on errors, is never forced to), which is `FinishesWhenTold` of
`Partition`; `Master` assumes that streams are done once their stop time has
passed, which is `JobEnds` of `StreamController`. A broker that never answers
again is outside of these assumptions: `getTopicNames` then retries for ever.
`Metrics` assumes that handlers that are ready run and that the operating system
completes what was asked of the network; the timers of the reporters are not
forced to fire. `StatusReporter` assumes that a report that has begun goes on and
that the main thread finishes its destructor; neither the timer nor the broker is
assumed to do anything, so that `DestructorReturns` holds without an
acknowledgement.

## Proofs

The proof modules state for every value of the constants what the runs check on
small instances. The assumptions are those of the modules (`ASSUME`), which TLC
evaluates on every run.

| Theorem | Statement |
|---|---|
| `SourceFilterProofs` | |
| `TypeCorrect` | `[]TypeOK` |
| `OrderKept` | `[]ForwardedInOrder` |
| `OneMessageRecorded` | `[]AtLeastOneMessage` |
| `FinishedForever` | `FinishedIsFinal` |
| `NewestIsBuffered` | `[]BufferedIsNewest` |
| `PartitionProofs` | |
| `TypeCorrect` | `[]TypeOK` |
| `TimeOutsAreLogged` | `TimeOutLogExact` |
| `ErrorsEndItInTime` | `ErrorStopExact` |
| `RequestKept` | `[]StopTimeNotLost` |
| `ImplementsDelivery` | `DeliversMessages`: `Partition` implements `MessageDelivery` |
| `PartitionWindowProofs` | |
| `WindowForwarded` | `[]WindowComplete` |
| `StreamControllerJobProofs` | |
| `JobInvariance` | `[]IInv`, which has `TypeOK` in it |
| `JobsAreComplete` | `[]CompleteJob` |
| `StopTimeArrives` | `[]StopTimePropagated` |
| `OnlyDoneIsFreed` | `FreedWhenDone` |
| `MasterProofs` | |
| `TypesOfMain` | `[]TypeInv`, of which `TypeOK` is a part |
| `CommandsAnswered` | `[]EachAnswered` |
| `TopicFollowsJob` | `[]OnTopicOfJob` |
| `FinishedOnce` | `[]OneFinishedPerJob` |
| `MetricsProofs` | |
| `ReportsWhatIsRegistered` | `[]RegisteredIsReported` |
| `OneLink` | `[]OneConnection` |
| `StatusReporterProofs` | |
| `ReporterTypes` | `[]TypeOK` |
| `NoMessageLeaks` | `[]MessageOwnedOnce` |
| `TopicsSettle` | `[]SettledTopics` |
| `OnlyRacesDisturb` | `[]ReportUndisturbed` |

No theorem has another hypothesis: where the code stops keeping its promise, the
property says so, as above. `[]WindowComplete` speaks of the window up to the
earliest stop time, since one that is moved back comes too late for a filter that has
finished, which forwards nothing of the longer window.

### The arguments

*SourceFilter.* Neither order nor the record of one message is inductive. `IInv`
adds that the identifiers of what was forwarded, and of what is buffered, are those
of messages received, that the buffered message is newer than all that was
forwarded, that a finished filter buffers nothing, and that a filter that was
offered a message it ought to record has forwarded one or still holds one back.
`NewestKept` adds that nothing older than the buffered message has arrived since
the last one forwarded. The proof has one lemma for each action and, for
`filter_message`, one case for each outcome. The first lemmas, about what a member
function does to a filter, stand in `PartitionProofs` as well, where filters are
the elements of a function.

*Partition.* `WorkerInv` ties the finished partition and the request it has loaded
to the program counter of the worker, `OneStopTime` the stop times of the
partition, its filter and the source filters to each other, with room for the
leeway in each sum, `CountsErrors` the state of `PartitionFilter` to the time
since which polls have failed or timed out, so that the sums that overflow are
those whose state decides without them, and `HeldInv` what the filters keep back
to the position of the consumer. The refinement maps `held` to what the active
filters buffer; the identifiers of the messages forwarded in a poll or a
destructor are compared element by element. `Requests` says which request the
partition has applied, or still has to, at each step of `process()`, and
`StopsInv` that no filter stops before the earliest stop time. `WindowInv` says
what makes the window complete: what was read was forwarded or beyond the stop
time of a filter that has seen a later message; and when the partition ends at its
stop time, the broker's timestamps of what was not read are beyond the stop time
by more than the leeway, so that the messages are outside.

*StreamController.* `IInv` has a part for each level. `VectorInv`: the vector holds
exactly the topics that were created and not freed, and what lies behind the new
end between `remove_if` and `erase` is null or done; it is what `FreedWhenDone`
needs. `TopicInv` and `PartInv`: flags and stages agree, and a topic that is done
has partitions that have finished and hold nothing back. `StopInv`: the newest stop
time is the last one in the queue of the controller's executor, else the last one
in the queue of each topic's executor, else that of the topic, and a partition has
that of its topic. `JobInv`: what was forwarded is written or queued, and a job
that ended by its stop time has no error and, once the writer is done, an empty
queue. `Compacted` needs that the elements of a subset of positions, in order, are
the ones at these positions (`ElementsOf`: the rank of a position is a bijection,
by the theorems about cardinality).

*Master.* `TypeInv` is stronger than `TypeOK`: it says that the alternative topics
are topics whenever they are in use and that a job being written is one of the
pool. `StatusInv`, `ResponseInv`, `ListensInv`, `MessagesInv` and `JobsInv` follow
the two topics, the position of the listener, the messages and the jobs through
every outcome of `switchCommandTopic` and `revertCommandTopic`, the failures
included; the histories `stranded`, `unreverted` and `orphaned` are set where a
failure leaves the state half-way, and `stranded` is taken back by the next change
of topic that succeeds.

*Metrics.* `RegInv` relates the map of each reporter, what a metric believes of its
registration and what is left of a round of reports; a metric that is taking itself
out, or whose second name was refused, is the case to follow. For the Carbon
client, `ConnectionInv` says that of the look-up, the timer, the connection and the
read there is exactly one, counting what is under way and what waits to be handled,
and of the write and the posted wait at most one. This is not inductive: the
sending loop of a lost connection may still wait to be handled when the timer for
the next attempt is set. Handlers run in the order of completion, so the loop comes
before the timer and finds the socket closed; the last conjunct of `LinkInv` says
so. Closing the socket moves what is under way on it to the handlers that wait,
one operation after the other (`AbortKeeps`), so that as much is counted as before.

*StatusReporter.* `Pointers` says which topics the two pointers have and which
topics there are, between the assignment of the second one and the swap as well;
`Phases` when the topic of a job is in use and that the status is the one whose
topic is; and `CountsSwitches` that a report which sees a switch has counted it, so
that one that saw none produces to the topic of its status, and one that saw a
single switch to a topic that is still there.

### What stays with TLC

- Liveness under fairness (`partition_live`, `controller_live`, the temporal
  properties of `master`, `metrics` and `status`), which the prover cannot treat.
- `CharactersInOrder`: it speaks of the concatenation of any number of messages
  (`FlattenSeq`), which needs induction over a sequence.
- `WindowOfOrderedStream` of `SourceFilter`: what the whole sequence of forwarded
  messages is, given the whole sequence received.
- `WriterModules` and `JobFile`: their contents are defined by recursion over
  messages, and over the nodes of a document.

## Not modelled

- HDF5 itself: a file is the set of its objects. Calls of two threads into the
  library, chunking, and the types and values of datasets are left out but for
  whether they fit.
- The widths of the elements of a dataset, the shape of a row, `MultiVector`, and
  the `attributes` of a `da00` configuration (`da00_Attribute.h`), which are
  conversions between types without control of their own.
- librdkafka below `poll` and `produce`, its metadata queries, and asio below the
  handlers.
- The parsing of flatbuffers, of JSON text and of options, logging, and the
  wording of reports and metrics: pure conversions and I/O.
- The calculation of the file size in `StreamController`, the flushing of
  `MessageWriter`, and `file-maker`, which has no state of its own.
- `ThreadedExecutor` has no module of its own: its two priorities are those of
  `StreamController`.

Data races on plain variables (`StopNow`, `StopTimestamp`) are
modelled as atomic accesses; the race on the vector of topics is modelled by the
states that `std::remove_if` passes through.

## Plan

1. Proofs: `SourcesAreOpen` and `FilesAreKept` of `JobFile`.
2. Refinement of an abstract job service by `Master`.
