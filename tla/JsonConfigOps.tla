--------------------------- MODULE JsonConfigOps ---------------------------
(***************************************************************************)
(* The JSON configuration of the file-writer (JsonConfig): a FieldHandler  *)
(* maps keys to fields and gives each field the value that its key has in  *)
(* a JSON object.  An object is a sequence of entries in the order in      *)
(* which nlohmann::json iterates over it, which is that of the keys.       *)
(***************************************************************************)
EXTENDS Naturals, Sequences, FiniteSetsExt

Entry(key, type, value) == [key |-> key, type |-> type, value |-> value]

JsonType == {"string", "boolean", "number", "array", "object"}

\* A field answers to its keys.  A string field takes any JSON value (what
\* is not a string is dumped), a json field too; a field of another type
\* throws a type_error for what does not convert.
Field(keys, accepts) == [keys |-> keys, accepts |-> accepts, required |-> FALSE]

RequiredField(keys, accepts) ==
    [keys |-> keys, accepts |-> accepts, required |-> TRUE]

\* The entries that set the field.  processConfigData logs a key that it does
\* not know, and a type_error, and goes on.
Assignments(field, object) ==
    {i \in DOMAIN object : /\ object[i].key \in field.keys
                           /\ object[i].type \in field.accepts}

hasDefaultValue(field, object) == Assignments(field, object) = {}

\* A later key replaces the value and the key of an earlier one.
Assigned(field, object) == object[Max(Assignments(field, object))]

get_key(field, object) ==
    IF hasDefaultValue(field, object) THEN "" ELSE Assigned(field, object).key

get_value(field, object, default) ==
    IF hasDefaultValue(field, object)
    THEN default
    ELSE Assigned(field, object).value

\* processConfigData throws when a required field was not set.
MissingFields(fields, object) ==
    {f \in fields : f.required /\ hasDefaultValue(f, object)}

processConfigData_Throws(fields, object) == MissingFields(fields, object) # {}
=============================================================================
