---------------------------- MODULE WriterModules ----------------------------
(***************************************************************************)
(* One writer module (f144, ev44, se00, tdct, ad00, al00, ep01 or da00)    *)
(* and its datasets, from init_hdf to the end of the job, as the writer    *)
(* thread calls it.  The appends of writeImpl are listed in the order of the code *)
(* (Appends); any of them may throw, which MessageWriter counts and goes   *)
(* on.  A value is a small number; a cue interval is the same for all.     *)
(***************************************************************************)
EXTENDS NeXusDatasetOps, DataArrayOps, FiniteSets

CONSTANTS
    Kind,         \* the writer modules that are looked at
    Stamp,        \* the timestamps of messages
    Val,          \* the values of messages
    Config,       \* the configurations of da00 that are looked at
    CueInterval,  \* cue_interval of the configuration
    MaxWrites,    \* bound: messages for each kind
    MaxFaults     \* bound: appends that throw

ASSUME WriterAssumption ==
    /\ Stamp \subseteq Nat /\ Val \subseteq Nat /\ Fill \notin Nat
    /\ CueInterval \in Nat \ {0}
    /\ MaxWrites \in [Kind -> Nat]
    /\ MaxFaults \in Nat

VARIABLES
    kind,        \* which writer module this is
    config,      \* the configuration of da00
    phase,       \* "configured", "initialised", "open" or "dropped"
    data,        \* the datasets that exist, by name
    attributes,  \* the attributes of the datasets of da00, and of its group
    members,     \* the counters of the writer module
    meta,        \* the values registered with the metadata tracker
    WriteCount,  \* writes that returned true
    WritesDone,  \* metrics of the message writer
    WriteErrors,
    log,         \* history: the messages that were written, in order
    odd,         \* history: a message contradicted itself
    rejected,    \* history: messages that the module threw away
    faults       \* history: appends that threw

file == <<data, attributes, members, meta>>
counters == <<WriteCount, WritesDone, WriteErrors>>
history == <<log, odd, rejected, faults>>
vars == <<kind, config, phase, file, counters, history>>

\* The datasets of each writer module in the order in which its init_hdf
\* creates them.
f144_Names == <<"time", "cue_timestamp_zero", "cue_index", "value">>
ev44_Names == <<"event_time_offset", "event_id", "event_time_zero",
                "event_index", "cue_index", "cue_timestamp_zero">>
se00_Names == <<"value", "time", "cue_index", "cue_timestamp_zero">>
tdct_Names == <<"time", "cue_index", "cue_timestamp_zero">>
ad00_Names == <<"value", "time", "cue_index", "cue_timestamp_zero">>
al00_Names == <<"alarm_message", "alarm_time", "alarm_severity">>
ep01_Names == <<"connection_status_time", "connection_status">>

\* da00: variables, constants in the order of their maps, as far as enough
\* is known of them.
MapOrder == <<"bare", "gain", "signal", "x">>

VariableConfigMap == fill_config_map(config.fields)

da00_Names ==
    SelectSeq(MapOrder, LAMBDA n : n \in DOMAIN VariableConfigMap
                                       /\ HasDataset(VariableConfigMap[n]))
    \o <<"time", "cue_index", "cue_timestamp_zero">>

Names(k) ==
    CASE k = "f144" -> f144_Names
      [] k = "ev44" -> ev44_Names
      [] k = "se00" -> se00_Names
      [] k = "tdct" -> tdct_Names
      [] k = "ad00" -> ad00_Names
      [] k = "al00" -> al00_Names
      [] k = "ep01" -> ep01_Names
      [] k = "da00" -> da00_Names

NameSet(k) == {Names(k)[i] : i \in DOMAIN Names(k)}

IsConstant(name) ==
    name \in DOMAIN config.fields /\ ~config.fields[name].variable

\* f144 and se00 reopen their values as ExtensibleDatasetBase; nothing is ever
\* appended to a constant of da00.
OpensBase(k, name) ==
    \/ k \in {"f144", "se00"} /\ name = "value"
    \/ IsConstant(name)

\* A constant of da00 has its size, and its values if they are configured.
CreatedAs(name) ==
    LET v == VariableConfigMap[name]
    IN  CASE ~IsConstant(name) -> Created
          [] has_data(v) -> [Created EXCEPT !.cells = edges(v.data, v.dtype)]
          [] OTHER -> [Created EXCEPT !.cells = <<Fill>>]

\* What a message of each schema tells its writer module.
Short == {<<>>, <<1>>, <<1, 2>>}

\* The variables of a message of da00, in their order; fits stands for the
\* rank and the size that the dataset can take.
Items ==
    LET item(n, v, f) == [name |-> n, val |-> v, fits |-> f]
        all(v, f, g) == <<item("x", v, TRUE), item("gain", v, f),
                          item("signal", v, g), item("bare", v, TRUE)>>
    IN  {<<>>}
        \cup {<<item("signal", v, TRUE)>> : v \in Val}
        \cup {all(v, TRUE, TRUE) : v \in Val}
        \cup {all(v, FALSE, TRUE) : v \in {Min(Val)}}
        \cup {all(v, TRUE, FALSE) : v \in {Min(Val)}}
        \cup {<<item("signal", v, TRUE), item("signal", v, TRUE)>>
                : v \in {Min(Val)}}

Message(k) ==
    CASE k = "f144" -> [ts : Stamp, val : Val, scalar : BOOLEAN]
      [] k = "ev44" -> [tof : Short, ids : Short, buffered : {FALSE},
                        ref : {<<1>>, <<3, 5>>}, idx : {<<0>>, <<0, 1>>}]
                       \cup [tof : {<<1>>}, ids : {<<1>>}, buffered : {TRUE},
                             ref : {<<1>>}, idx : {<<0>>}]
      [] k = "se00" -> [ts : Stamp, vals : Short, stamped : {TRUE},
                        stamps : Short, delta : {1}]
                       \cup [ts : Stamp, vals : Short, stamped : {FALSE},
                             stamps : {<<>>}, delta : {1, 3}]
      [] k = "tdct" -> [stamps : Short]
      [] k = "ad00" -> [ts : Stamp, val : Val, fits : BOOLEAN]
      [] k = "al00" -> [ts : Stamp, severity : Val, text : {"", "alarm"}]
      [] k = "ep01" -> [ts : Stamp, status : Val]
      [] k = "da00" -> [ts : Stamp, items : Items]

\* Arrays of a message that belong together have the same length, and no
\* variable is there twice.
Coherent(k, m) ==
    /\ k = "ev44" => Len(m.tof) = Len(m.ids) /\ Len(m.ref) = Len(m.idx)
    /\ k = "se00" => (m.stamped => Len(m.stamps) = Len(m.vals))
    /\ k = "da00" => \A i, j \in DOMAIN m.items :
                         m.items[i].name = m.items[j].name => i = j

-----------------------------------------------------------------------------
\* The appends of writeImpl, in order.
Element(name, v) == [ds |-> name, op |-> "element", data |-> <<v>>]
Vector(name, s) == [ds |-> name, op |-> "element", data |-> s]
Adapter(name, s) == [ds |-> name, op |-> "adapter", data |-> s]
Row(name, v) == [ds |-> name, op |-> "row", data |-> <<v>>]

Cue(index, stamp) ==
    <<Element("cue_index", index), Element("cue_timestamp_zero", stamp)>>

\* f144: one cue for each CueInterval writes.
f144_CueDue(w) == (w.writes + 1 - w.lastIndex) \div CueInterval > 0

f144_Appends_CueOfNext(w, m) ==
    IF ~m.scalar
    THEN <<Element("time", m.ts)>>
    ELSE <<Element("time", m.ts), Element("value", m.val)>>
         \o (IF f144_CueDue(w) THEN Cue(w.writes + 1, m.ts) ELSE <<>>)

f144_Appends(w, m) ==
    IF ~m.scalar
    THEN <<Element("time", m.ts)>>
    ELSE <<Element("time", m.ts), Element("value", m.val)>>
         \o (IF f144_CueDue(w) THEN Cue(w.writes, m.ts) ELSE <<>>)

\* ev44: the events of a message, its pulses, and a cue at its last event.
ev44_CueDue(w, m) == w.events + Len(m.tof) > w.lastCue + CueInterval

ShiftedReferenceTimeIndex(w, m) ==
    [j \in DOMAIN m.idx |-> m.idx[j] + w.events]

ev44_Appends(w, m) ==
    IF m.buffered
    THEN <<>>
    ELSE <<Adapter("event_time_offset", m.tof), Adapter("event_id", m.ids)>>
         \o (IF m.tof = <<>> THEN <<>>
             ELSE <<Adapter("event_time_zero", m.ref),
                    Vector("event_index", ShiftedReferenceTimeIndex(w, m))>>)
         \o (IF m.tof = <<>> \/ ~ev44_CueDue(w, m) THEN <<>>
             ELSE <<Element("cue_timestamp_zero",
                            m.ref[Len(m.ref)] + m.tof[Len(m.tof)]),
                    Element("cue_index", w.events + Len(m.tof) - 1)>>)

GenerateTimeStamps_Truncates(origin, delta, n) ==
    [i \in 1 .. n |-> origin + ((i - 1) * delta) \div 2]

\* se00: timestamps of the message, or an equidistant series.  TimeDelta is
\* given in halves of a tick, which llround rounds.
GenerateTimeStamps(origin, delta, n) ==
    [i \in 1 .. n |-> origin + ((i - 1) * delta + 1) \div 2]

se00_Appends(w, m) ==
    IF m.vals = <<>>
    THEN <<Adapter("value", m.vals)>>
    ELSE <<Adapter("value", m.vals)>>
         \o Cue(current_size(data["value"]), m.ts)
         \o <<IF m.stamped
              THEN Adapter("time", m.stamps)
              ELSE Vector("time", GenerateTimeStamps(m.ts, m.delta,
                                                     Len(m.vals)))>>

tdct_Appends(w, m) ==
    IF m.stamps = <<>>
    THEN <<>>
    ELSE Cue(current_size(data["time"]), m.stamps[1])
         \o <<Adapter("time", m.stamps)>>

\* ad00: an image is one row; fits stands for the type and the rank.
ad00_CueDue(w) == w.counter + 1 = CueInterval

ad00_Appends(w, m) ==
    IF ~m.fits
    THEN <<>>
    ELSE <<Row("value", m.val), Element("time", m.ts)>>
         \o (IF ad00_CueDue(w)
             THEN Cue(current_size(data["time"]), m.ts) ELSE <<>>)

NoAlarmMessage == "NO ALARM MESSAGE"

al00_Appends(w, m) ==
    <<Element("alarm_time", m.ts),
      Element("alarm_severity", m.severity),
      Element("alarm_message", IF m.text = "" THEN NoAlarmMessage ELSE m.text)>>

ep01_Appends(w, m) ==
    <<Element("connection_status", m.status),
      Element("connection_status_time", m.ts)>>

\* da00: what the first message completes, a row for each variable that has a
\* dataset, the rows of those that are missing, and a cue.
VariablePtrs == {n \in DOMAIN data \cap DOMAIN config.fields : ~IsConstant(n)}

Ours(m) == SelectSeq(m.items, LAMBDA item : item.name \in VariablePtrs)

Misfits(m) == {i \in DOMAIN Ours(m) : ~Ours(m)[i].fits}

First(w, m) ==
    IF w.first
    THEN handle_first_message(w.conf, m.items, config.named, DOMAIN data)
    ELSE [conf |-> w.conf, steps |-> <<>>]

Missing == -1

variable_append_missing(m) ==
    LET there == {Ours(m)[i].name : i \in DOMAIN Ours(m)}
        gone == SelectSeq(MapOrder, LAMBDA n : n \in VariablePtrs \ there)
    IN  IF Len(Ours(m)) = Cardinality(VariablePtrs)
        THEN <<>>
        ELSE [i \in DOMAIN gone |-> Row(gone[i], Missing)]

\* What does not agree with the configuration is logged and written.
variable_append(item) == Row(item.name, item.val)

da00_Appends(w, m) ==
    LET rows == [i \in DOMAIN Ours(m) |-> variable_append(Ours(m)[i])]
    IN  First(w, m).steps
        \o IF Misfits(m) # {}
           THEN SubSeq(rows, 1, Min(Misfits(m)) - 1)
           ELSE rows \o variable_append_missing(m)
                \o <<Element("time", m.ts)>>
                \o (IF w.counter + 1 = CueInterval
                    THEN Cue(w.writes, m.ts) ELSE <<>>)

Appends(k, w, m) ==
    CASE k = "f144" -> f144_Appends(w, m)
      [] k = "ev44" -> ev44_Appends(w, m)
      [] k = "se00" -> se00_Appends(w, m)
      [] k = "tdct" -> tdct_Appends(w, m)
      [] k = "ad00" -> ad00_Appends(w, m)
      [] k = "al00" -> al00_Appends(w, m)
      [] k = "ep01" -> ep01_Appends(w, m)
      [] k = "da00" -> da00_Appends(w, m)

\* writeImpl throws a WriterException once it has done its appends.
Throws(k, m) ==
    \/ k = "f144" /\ ~m.scalar
    \/ k = "ad00" /\ ~m.fits
    \/ k = "da00" /\ Misfits(m) # {}

\* writeImpl returns false: nothing was there to be written.
ReturnsFalse(k, m) ==
    \/ k = "ev44" /\ m.buffered
    \/ k = "se00" /\ m.vals = <<>>
    \/ k = "tdct" /\ m.stamps = <<>>

-----------------------------------------------------------------------------
\* The members of a writer module after k of the appends for m.
NoMembers == [writes |-> 0, lastIndex |-> 0, total |-> 0, min |-> 0,
              max |-> 0, sum |-> 0, events |-> 0, lastCue |-> -1,
              counter |-> 0, first |-> TRUE, conf |-> <<>>]

Least(a, b) == IF a < b THEN a ELSE b

Largest(a, b) == IF a < b THEN b ELSE a

f144_Statistics(w, m) ==
    [w EXCEPT !.min = IF w.total = 0 THEN m.val ELSE Least(@, m.val),
              !.max = IF w.total = 0 THEN m.val ELSE Largest(@, m.val),
              !.sum = @ + m.val,
              !.total = @ + 1]

f144_Members(w, m, k) ==
    LET counted == [w EXCEPT !.writes = @ + 1,
                             !.lastIndex = IF f144_CueDue(w)
                                           THEN w.writes + 1 ELSE @]
    IN  CASE ~m.scalar \/ k < 2 -> w
          [] k = Len(f144_Appends(w, m)) -> f144_Statistics(counted, m)
          [] OTHER -> counted

ev44_Members(w, m, k) ==
    [w EXCEPT !.events = IF k >= 4 THEN @ + Len(m.tof) ELSE @,
              !.lastCue = IF k = 6 THEN w.events + Len(m.tof) - 1 ELSE @]

ad00_Members(w, m, k) ==
    [w EXCEPT !.counter = CASE k < 2 -> @
                            [] k = 4 -> 0
                            [] OTHER -> @ + 1]

\* A step of the first message that throws leaves it to the next message to
\* be the first.
da00_Members(w, m, k) ==
    LET s == da00_Appends(w, m)
        steps == First(w, m).steps
        timed == \E i \in 1 .. k : s[i].ds = "time"
    IN  [w EXCEPT !.conf = IF k < Len(steps) THEN steps[k + 1].conf
                           ELSE First(w, m).conf,
                  !.first = @ /\ k < Len(steps),
                  !.writes = IF timed THEN @ + 1 ELSE @,
                  !.counter = CASE ~timed -> @
                                [] s[k].ds = "cue_timestamp_zero" -> 0
                                [] OTHER -> @ + 1]

Members(kd, w, m, k) ==
    CASE kd = "f144" -> f144_Members(w, m, k)
      [] kd = "ev44" -> ev44_Members(w, m, k)
      [] kd = "ad00" -> ad00_Members(w, m, k)
      [] kd = "da00" -> da00_Members(w, m, k)
      [] OTHER -> w

\* The metadata is set at the end of writeImpl: minimum, maximum, sum and
\* number of the values of f144, number of events of ev44.
MetaOf(kd, w) ==
    CASE kd = "f144" -> <<w.min, w.max, w.sum, w.total>>
      [] kd = "ev44" -> <<w.events>>
      [] OTHER -> <<>>

SetsMeta(kd, m) ==
    CASE kd = "f144" -> m.scalar
      [] kd = "ev44" -> ~m.buffered /\ m.tof # <<>>
      [] OTHER -> FALSE

\* The attributes of the datasets of da00 after k of the appends.
AttributesAfter(s, k) ==
    LET updates(n) == {i \in 1 .. k : s[i].op = "attributes" /\ s[i].ds = n}
    IN  [attributes EXCEPT !.of =
            [n \in DOMAIN @ |->
                IF updates(n) = {} THEN @[n]
                ELSE update_dataset_attributes(@[n],
                         s[Max(updates(n))].conf[n])]]

-----------------------------------------------------------------------------
NoConfig == [fields |-> <<>>, named |-> FALSE, signal |-> "", axes |-> <<>>]

Init ==
    /\ kind \in Kind
    /\ config \in IF kind = "da00" THEN Config ELSE {NoConfig}
    /\ attributes = [of |-> <<>>, group |-> [signal |-> "", axes |-> <<>>]]
    /\ phase = "configured"
    /\ data = <<>>
    /\ members = [NoMembers EXCEPT !.conf = VariableConfigMap]
    /\ meta = MetaOf(kind, NoMembers)
    /\ WriteCount = 0
    /\ WritesDone = 0
    /\ WriteErrors = 0
    /\ log = <<>>
    /\ odd = FALSE
    /\ rejected = 0
    /\ faults = 0

\* init_hdf creates the datasets one after the other; the caller ignores the
\* result if one of them cannot be created.
init_hdf ==
    /\ phase = "configured"
    /\ \E k \in 0 .. Len(Names(kind)) :
           /\ k < Len(Names(kind)) => faults < MaxFaults
           /\ data' = [name \in {Names(kind)[i] : i \in 1 .. k} |->
                           CreatedAs(name)]
           /\ faults' = IF k < Len(Names(kind)) THEN faults + 1 ELSE faults
    /\ attributes' =
           [of |-> [name \in DOMAIN data' \cap DOMAIN config.fields |->
                       add_dataset_attributes(VariableConfigMap[name])],
            group |-> handle_group_attributes(VariableConfigMap, MapOrder,
                          config.signal, config.axes)]
    /\ phase' = "initialised"
    /\ UNCHANGED <<kind, config, members, meta, counters, log, odd, rejected>>

\* addStreamSourceToWriterModule leaves a stream out if one of its datasets
\* cannot be opened.
reopen ==
    /\ phase = "initialised"
    /\ IF DOMAIN data = NameSet(kind)
       THEN /\ phase' = "open"
            /\ data' = [name \in DOMAIN data |->
                            IF OpensBase(kind, name)
                            THEN OpenedBase(data[name])
                            ELSE OpenedSized(data[name])]
       ELSE /\ phase' = "dropped"
            /\ UNCHANGED data
    /\ UNCHANGED <<kind, config, attributes, members, meta, counters, history>>

\* MessageWriter::writeMsgImpl and WriterModule::Base::write.
Written(m) ==
    LET s == Appends(kind, members, m)
    IN  /\ data' = Performed(data, s, Len(s))
        /\ members' = Members(kind, members, m, Len(s))
        /\ attributes' = AttributesAfter(s, Len(s))
        /\ IF Throws(kind, m)
           THEN /\ WriteErrors' = WriteErrors + 1
                /\ rejected' = rejected + 1
                /\ UNCHANGED <<WriteCount, WritesDone, meta, log>>
           ELSE /\ WritesDone' = WritesDone + 1
                /\ WriteCount' = IF ReturnsFalse(kind, m)
                                 THEN WriteCount ELSE WriteCount + 1
                /\ meta' = IF SetsMeta(kind, m)
                           THEN MetaOf(kind, members') ELSE meta
                /\ log' = IF ReturnsFalse(kind, m) THEN log ELSE Append(log, m)
                /\ UNCHANGED <<WriteErrors, rejected>>
        /\ UNCHANGED faults

AppendThrows(m) ==
    LET s == Appends(kind, members, m)
    IN  /\ faults < MaxFaults
        /\ \E k \in 0 .. Len(s) - 1, grown \in BOOLEAN :
               /\ ~IsEmpty(s[k + 1])
               /\ data' = Broken(data, s, k, grown)
               /\ members' = Members(kind, members, m, k)
               /\ attributes' = AttributesAfter(s, k)
        /\ WriteErrors' = WriteErrors + 1
        /\ faults' = faults + 1
        /\ UNCHANGED <<WriteCount, WritesDone, meta, log, rejected>>

write ==
    /\ phase = "open"
    /\ WritesDone + WriteErrors < MaxWrites[kind]
    /\ \E m \in Message(kind) :
           /\ odd' = (odd \/ ~Coherent(kind, m))
           /\ Written(m) \/ AppendThrows(m)
    /\ UNCHANGED <<kind, config, phase>>

Next == init_hdf \/ reopen \/ write

Spec == Init /\ [][Next]_vars
-----------------------------------------------------------------------------
\* The variables have their types; NrOfElements never exceeds the extent of its
\* dataset in the file, whatever append throws (ExtensibleDatasetBase).
TypeOK ==
    /\ kind \in Kind
    /\ phase \in {"configured", "initialised", "open", "dropped"}
    /\ DOMAIN data \subseteq NameSet(kind)
    /\ \A name \in DOMAIN data : data[name].n \in 0 .. current_size(data[name])
    /\ {WriteCount, WritesDone, WriteErrors, rejected} \subseteq Nat
    /\ faults \in 0 .. MaxFaults

\* What was counted as written stays in the file: whatever append throws, no
\* later message overwrites or cuts off an element that an earlier one has
\* appended (NrOfElements, extent and resize of the datasets).
WrittenStays ==
    [][\A name \in DOMAIN data :
          /\ data'[name].n >= data[name].n
          /\ \A i \in 1 .. data[name].n :
                data'[name].cells[i] = data[name].cells[i]]_vars
=============================================================================
