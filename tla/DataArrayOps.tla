---------------------------- MODULE DataArrayOps ----------------------------
(***************************************************************************)
(* The configuration of the da00 writer module and what it learns from the *)
(* first message: VariableConfig, StringConfig, EdgeConfig and the group   *)
(* attributes of WriterModule/da00/.  A variable or constant of a          *)
(* configuration is                                                        *)
(*   [variable, dtype, shaped, axes, unit, data]                           *)
(* where axes and shaped tell whether the field is there, and unit, which  *)
(* stands for the strings unit, label and source, is a StringConfig        *)
(*   [size, value]                                                         *)
(* whose value is the "configured" one, that of a "message", or "none".    *)
(* Numbers of a constant are counted in halves.                            *)
(***************************************************************************)
EXTENDS Integers, Sequences, SequencesExt

NoData == [edges |-> <<>>, first |-> 0, last |-> 0, size |-> 0]

NoSize == -1

\* A string that is left out.
NoString == [size |-> NoSize, value |-> "none"]

\* The length of a unit, label or source in a message.
LengthInMessage == 2

has_dtype(v) == v.dtype # "unknown"

has_data(v) == v.data # NoData

Step(d) == (d.last - d.first) \div (d.size - 1)

\* The type of integers from first to last in size steps.
guess_dtype(d) ==
    CASE d.edges # <<>> -> "int64"
      [] d.size < 1 -> "none"
      [] Step(d) = 0 -> "float64"
      [] (d.last - d.first) % Step(d) = 0 -> "int64"
      [] OTHER -> "float64"

\* The values of a constant; integers have an integer step.
edges(d, dtype) ==
    CASE d.edges # <<>> -> d.edges
      [] dtype = "int64" ->
             [i \in 1 .. d.size |-> 2 * (d.first + (i - 1) * Step(d))]
      [] OTHER ->
             [i \in 1 .. d.size |->
                 2 * d.first + ((i - 1) * 2 * (d.last - d.first))
                                   \div (d.size - 1)]

\* What is not configured is guessed from the data.
VariableConfig(json) ==
    [json EXCEPT !.dtype = IF ~has_dtype(json) /\ has_data(json)
                           THEN guess_dtype(json.data) ELSE @,
                 !.shaped = @ \/ has_data(json)]

fill_config_map(config) ==
    [name \in DOMAIN config |-> VariableConfig(config[name])]

\* init_hdf and reopen leave out what they know too little of.
HasDataset(v) ==
    \/ has_dtype(v) /\ v.shaped
    \/ ~v.variable /\ has_data(v)

-----------------------------------------------------------------------------
\* The attributes of the group.  The axes of the signal are led by time if the
\* signal is a variable.
FirstOf(order, config) ==
    LET vars == SelectSeq(order, LAMBDA n : n \in DOMAIN config
                                                /\ config[n].variable)
    IN  IF vars = <<>> THEN "" ELSE vars[1]

handle_group_attributes(config, order, signal, axes) ==
    LET sig == IF signal = "" THEN FirstOf(order, config) ELSE signal
        var == sig \in DOMAIN config /\ config[sig].variable
        own == IF axes # <<>> THEN axes
               ELSE IF var /\ config[sig].axes THEN <<"bin">> ELSE <<>>
    IN  [signal |-> sig,
         axes |-> IF var /\ own # <<>> THEN <<"time">> \o own ELSE own]

\* The attributes of a dataset when it is created.
add_dataset_attributes(v) ==
    [units |-> CASE v.unit = NoString -> "absent"
                 [] v.unit.value = "none" -> "blank"
                 [] OTHER -> v.unit.value,
     axes |-> CASE ~v.axes -> <<>>
                [] v.variable -> <<"time", "bin">>
                [] OTHER -> <<"bin">>]

\* A file in SWMR mode takes values of attributes, but no new attributes.
update_dataset_attributes(attr, v) ==
    [units |-> IF attr.units # "absent" /\ v.unit.value # "none"
               THEN v.unit.value ELSE attr.units,
     axes |-> IF attr.axes # <<>> /\ v.axes THEN <<"bin">> ELSE attr.axes]

-----------------------------------------------------------------------------
\* VariableConfig::update_from without force: what the configuration leaves
\* open is taken from the message, whose variables have a unit, a type and a
\* shape, and axes if named.  Axes that come from the message reset changed.
\* Mutant: the size of the attribute is not looked at.
Taken_AnySize(unit) == unit = NoString \/ unit.size # NoSize

\* StringConfig::update_from: a value that is longer than the configured size
\* is logged and not taken, as is one for which no size is configured.
Taken(unit) == unit = NoString \/ unit.size >= LengthInMessage

StringUpdated(unit) ==
    IF Taken(unit) THEN [unit EXCEPT !.value = "message"] ELSE unit

update_from(v, named) ==
    [conf |-> [v EXCEPT !.unit = StringUpdated(@),
                        !.dtype = IF has_dtype(v) THEN @ ELSE "int64",
                        !.shaped = TRUE,
                        !.axes = @ \/ named],
     changed |-> /\ Taken(v.unit) \/ ~has_dtype(v) \/ ~v.shaped
                 /\ v.axes \/ ~named]

needs_data(v) == ~v.variable /\ ~has_data(v)

\* Each step keeps the configuration as it is when the step is taken.
UpdateDataset(name, conf) ==
    [ds |-> name, op |-> "attributes", data |-> <<>>, conf |-> conf]

write_constant_dataset(name, val, conf) ==
    [ds |-> name, op |-> "constant", data |-> <<val>>, conf |-> conf]

FirstOfItem(acc, item, named, ptrs) ==
    LET u == update_from(acc.conf[item.name], named)
        conf == [acc.conf EXCEPT ![item.name] = u.conf]
        found == item.name \in ptrs
    IN  [conf |-> conf,
         steps |-> acc.steps
             \o (IF found /\ u.changed
                 THEN <<UpdateDataset(item.name, conf)>> ELSE <<>>)
             \o (IF found /\ needs_data(u.conf)
                 THEN <<write_constant_dataset(item.name, item.val, conf)>>
                 ELSE <<>>)]

\* The variables of the message, then its constants; ptrs are the datasets.
handle_first_message(conf, items, named, ptrs) ==
    LET of(acc, variable) ==
            FoldLeft(LAMBDA a, item :
                         IF /\ item.name \in DOMAIN a.conf
                            /\ a.conf[item.name].variable = variable
                         THEN FirstOfItem(a, item, named, ptrs)
                         ELSE a,
                     acc, items)
    IN  of(of([conf |-> conf, steps |-> <<>>], TRUE), FALSE)
=============================================================================
