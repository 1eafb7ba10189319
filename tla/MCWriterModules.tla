--------------------------- MODULE MCWriterModules ---------------------------
(***************************************************************************)
(* WriterModules on a small instance, and what the datasets must hold, as  *)
(* a function of the messages that were written.                           *)
(***************************************************************************)
EXTENDS WriterModules

Bound == [k \in Kind |-> IF k \in {"f144", "ad00", "tdct"} THEN 4 ELSE 3]

\* Configurations of da00: a signal with and without axes, whose unit comes
\* with the first message, if it fits; a variable of unknown type, which gets no
\* dataset; a constant whose value comes with the first message, or is a range
\* of the configuration, of a given or a guessed type; no variable at all.
Sized(n) == [NoString EXCEPT !.size = n]
Valued(n) == [size |-> n, value |-> "configured"]

Signal(axes, unit) ==
    [variable |-> TRUE, dtype |-> "int64", shaped |-> TRUE, axes |-> axes,
     unit |-> unit, data |-> NoData]
Gain == Signal(FALSE, NoString)
Bare == [Gain EXCEPT !.dtype = "unknown"]
Open == [Signal(FALSE, Sized(LengthInMessage)) EXCEPT !.variable = FALSE]
Ranged(last, size) ==
    [Bare EXCEPT !.variable = FALSE, !.unit = Valued(NoSize),
                 !.data = [NoData EXCEPT !.last = last, !.size = size]]

AllOf(signal, x) ==
    [n \in {"bare", "gain", "signal", "x"} |->
        CASE n = "bare" -> Bare [] n = "gain" -> Gain
          [] n = "signal" -> signal [] OTHER -> x]

Configurations ==
    {[fields |-> AllOf(Signal(a, Sized(LengthInMessage)), Open), named |-> b,
      signal |-> "signal", axes |-> <<>>] : a \in BOOLEAN, b \in {TRUE}}
    \cup {[fields |-> [n \in {"signal"} |-> Signal(FALSE, u)],
           named |-> FALSE, signal |-> "", axes |-> <<"bin">>]
             : u \in {Sized(LengthInMessage), Sized(LengthInMessage - 1),
                      Valued(LengthInMessage + 1), Valued(LengthInMessage - 1)}}
    \cup {[fields |-> [n \in {"x"} |-> Ranged(r[1], r[2])], named |-> TRUE,
           signal |-> "x", axes |-> <<"bin">>]
             : r \in {<<4, 3>>, <<6, 4>>, <<1, 3>>, <<5, 3>>, <<4, 4>>}}

-----------------------------------------------------------------------------
Cells(name) == data[name].cells

\* Nothing went wrong: no append threw, no message contradicted itself, and
\* f144 met no array (its timestamp stays in the file without a value) and
\* da00 no variable that does not fit (the rows before it stay in the file).
Smooth ==
    /\ phase = "open"
    /\ faults = 0
    /\ ~odd
    /\ kind \in {"f144", "da00"} => rejected = 0

\* What one message adds to a dataset other than the indices.
Share(name, m) ==
    CASE kind = "da00" /\ name # "time" ->
             <<IF \E i \in DOMAIN m.items : m.items[i].name = name
               THEN m.items[CHOOSE i \in DOMAIN m.items :
                                m.items[i].name = name].val
               ELSE Missing>>
      [] name = "value" /\ kind = "se00" -> m.vals
      [] name = "value" -> <<m.val>>
      [] name = "time" /\ kind = "tdct" -> m.stamps
      [] name = "time" /\ kind = "se00" /\ m.stamped -> m.stamps
      [] name = "time" /\ kind = "se00" ->
             [i \in DOMAIN m.vals |-> m.ts + ((i - 1) * m.delta + 1) \div 2]
      [] name = "time" -> <<m.ts>>
      [] name = "event_time_offset" -> m.tof
      [] name = "event_id" -> m.ids
      [] name = "event_time_zero" -> IF m.tof = <<>> THEN <<>> ELSE m.ref
      [] name = "alarm_time" -> <<m.ts>>
      [] name = "alarm_severity" -> <<m.severity>>
      [] name = "alarm_message" ->
             <<IF m.text = "" THEN "NO ALARM MESSAGE" ELSE m.text>>
      [] name = "connection_status_time" -> <<m.ts>>
      [] name = "connection_status" -> <<m.status>>

\* The elements of a dataset from the first i messages.
Prefix(name, i) == FlattenSeq([j \in 1 .. i |-> Share(name, log[j])])

Indices == {"cue_index", "cue_timestamp_zero", "event_index"}

\* Each pulse of event data points at the first of its events.
PulseIndices ==
    FlattenSeq([i \in DOMAIN log |->
        IF log[i].tof = <<>> THEN <<>>
        ELSE [j \in DOMAIN log[i].idx |->
                log[i].idx[j] + Len(Prefix("event_time_offset", i - 1))]])

\* The statistics of the values in the file, and the number of its events.
MetaOfFile ==
    /\ kind = "f144" =>
           LET vals == ToSet(Cells("value"))
           IN  /\ meta[1] \in vals /\ \A v \in vals : meta[1] <= v
               /\ meta[2] \in vals /\ \A v \in vals : meta[2] >= v
               /\ meta[3] = FoldLeft(LAMBDA a, b : a + b, 0, Cells("value"))
               /\ meta[4] = Len(Cells("value"))
    /\ kind = "ev44" => meta[1] = Len(Cells("event_time_offset"))

\* The datasets hold the messages that were written, all of them, in their
\* order and nothing else, so that values and timestamps of the same position
\* belong together (writeImpl of each module); event_index counts the events
\* of the whole file (ShiftedReferenceTimeIndex), and the metadata is that of
\* the file.
ContentOfMessages ==
    Smooth =>
        /\ \A name \in NameSet(kind) \ Indices :
               ~IsConstant(name) => Cells(name) = Prefix(name, Len(log))
        /\ kind = "ev44" => Cells("event_index") = PulseIndices
        /\ log # <<>> => MetaOfFile

\* The entry that the jth cue stands for has the timestamp of the cue.
CueOfEntry(j) ==
    LET at == Cells("cue_index")[j]
        stamp == Cells("cue_timestamp_zero")[j]
    IN  CASE kind \in {"f144", "ad00", "tdct", "da00"} ->
                 at < Len(Cells("time")) /\ Cells("time")[at + 1] = stamp
          [] kind = "se00" -> \E i \in DOMAIN log :
                                 /\ at = Len(Prefix("value", i - 1))
                                 /\ stamp = log[i].ts
          [] kind = "ev44" -> \E i \in DOMAIN log :
                                 /\ log[i].tof # <<>>
                                 /\ at = Len(Prefix("event_time_offset", i)) - 1
                                 /\ stamp = Last(log[i].ref) + Last(log[i].tof)

\* A search by the cues finds the data: the cues are pairs, each with the
\* timestamp of the entry it points at, and there is one for each interval.
CueFindsEntry ==
    Smooth /\ "cue_index" \in NameSet(kind) =>
        /\ Len(Cells("cue_index")) = Len(Cells("cue_timestamp_zero"))
        /\ \A j \in DOMAIN Cells("cue_index") : CueOfEntry(j)
        /\ kind \in {"f144", "ad00", "da00"} =>
               Len(Cells("cue_index")) = Len(log) \div CueInterval
        /\ kind = "ev44" =>
               Len(Cells("event_time_offset")) <=
                   CueInterval + (IF Cells("cue_index") = <<>> THEN -1
                                  ELSE Last(Cells("cue_index")))

\* The first of the written messages has brought the variable or constant.
Brought(name) ==
    /\ log # <<>>
    /\ \E i \in DOMAIN log[1].items : log[1].items[i].name = name

\* What a range of integers falls short of its last value, when guess_dtype
\* does not see that the step leaves a remainder.
FallsShort(d) ==
    IF guess_dtype(d) = "int64" THEN (d.last - d.first) % (d.size - 1) ELSE 0

\* The values of a constant: size of them in equal steps from the first to the
\* last of a range, as far as integers can, or those of the first message,
\* whatever later ones say.
ConstantAsAsked(name) ==
    LET d == config.fields[name].data
        cells == Cells(name)
    IN  CASE d # NoData -> /\ Len(cells) = d.size
                          /\ cells[1] = 2 * d.first
                          /\ Last(cells) = 2 * (d.last - FallsShort(d))
                          /\ \A i \in 3 .. Len(cells) :
                                cells[i] - cells[i - 1] = cells[2] - cells[1]
          [] Brought(name) ->
                 cells = <<log[1].items[CHOOSE i \in DOMAIN log[1].items :
                                log[1].items[i].name = name].val>>
          [] OTHER -> cells = <<Fill>>

\* The unit of a dataset: absent if it is left out of the configuration, which
\* a file that is written cannot make up for; that of the first message if the
\* message brings the dataset and its unit fits into the configured size, and
\* does not bring the axes as well, by which update_from forgets that anything
\* has changed; else what the configuration says.
UnitAsAsked(name) ==
    LET v == config.fields[name]
    IN  attributes.of[name].units =
            CASE v.unit = NoString -> "absent"
              [] /\ Brought(name) /\ v.unit.size >= LengthInMessage
                 /\ v.axes \/ ~config.named -> "message"
              [] OTHER -> IF v.unit.value = "none" THEN "blank" ELSE "configured"

\* The configuration of da00 and the first message together decide the values
\* of constants (guess_dtype, edges, needs_data, isFirstMessage) and the units,
\* labels and sources in the file (StringConfig, VariableConfig::update_from);
\* the axes of the group are as many as the dimensions of its signal, of which
\* time is one if it is a variable.
ConfigurationCompleted ==
    Smooth =>
        /\ \A name \in NameSet(kind) : IsConstant(name) => ConstantAsAsked(name)
        /\ \A name \in DOMAIN attributes.of : UnitAsAsked(name)
        /\ attributes.group.axes # <<>> =>
               Len(attributes.group.axes)
                   = IF IsConstant(attributes.group.signal) THEN 1 ELSE 2
=============================================================================
