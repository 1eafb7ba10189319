--------------------------- MODULE HDFOperations ---------------------------
(***************************************************************************)
(* The structure of a NeXus file: what a file holds and how createHDF-     *)
(* Structures builds it from the JSON document of a start command.         *)
(*                                                                         *)
(* A path is the sequence of the names on it.  The nodes of a document are *)
(* entries of a table: Node[n] is a JSON object whose children are indices *)
(* of the table.  The value of an attribute is abstracted to what the code *)
(* and HDF5 make of it: "good" is written; "null" has a JSON type that the *)
(* code skips; HDF5 throws for "refused"; "malformed" lacks a name or a    *)
(* value, which only an attribute in an array can.                         *)
(***************************************************************************)
EXTENDS JsonConfigOps, SequencesExt

CONSTANT Node

Root == <<>>

EmptyFile == [groups |-> {Root}, datasets |-> {}, links |-> {},
              attributes |-> {}, text |-> {}]

Objects(c) == c.groups \cup c.datasets \cup c.links

HasAttribute(c, at, name) == \E a \in c.attributes : a.at = at /\ a.name = name

RemoveAttribute(c, at, name) ==
    [c EXCEPT !.attributes = {a \in @ : ~(a.at = at /\ a.name = name)}]

WriteAttribute(c, at, name, value) ==
    [c EXCEPT !.attributes = @ \cup {[at |-> at, name |-> name,
                                      value |-> value]}]

-----------------------------------------------------------------------------
\* Writing the attributes of a node: the file, and whether an exception left
\* the function.
Written(c) == [file |-> c, threw |-> FALSE]
Threw(c) == [file |-> c, threw |-> TRUE]

\* An attribute that exists is removed before the new one is written.
ReplaceAttribute(c, at, a) ==
    LET removed == RemoveAttribute(c, at, a.name)
    IN  CASE a.value = "good" ->
                 Written(WriteAttribute(removed, at, a.name, "json"))
          [] a.value = "null" -> Written(removed)
          [] a.value = "refused" -> Threw(removed)

\* The attributes after one that throws are not written.
writeObjectOfAttributes(c, at, values) ==
    FoldLeft(LAMBDA w, a : IF w.threw THEN w
                           ELSE ReplaceAttribute(w.file, at, a),
             Written(c), values)

\* An exception is caught for each attribute.
writeArrayOfAttributes(c, at, values) ==
    Written(FoldLeft(LAMBDA f, a : IF a.value = "malformed" THEN f
                                   ELSE ReplaceAttribute(f, at, a).file,
                     c, values))

\* A value that is neither an array nor an object is ignored.
writeAttributes(c, at, entry) ==
    CASE entry.type = "array" -> writeArrayOfAttributes(c, at, entry.value)
      [] entry.type = "object" -> writeObjectOfAttributes(c, at, entry.value)
      [] OTHER -> Written(c)

AnyJson(key) == Field({key}, JsonType)

writeAttributesIfPresent(c, at, object) ==
    IF hasDefaultValue(AnyJson("attributes"), object)
    THEN Written(c)
    ELSE writeAttributes(c, at, Assigned(AnyJson("attributes"), object))

-----------------------------------------------------------------------------
\* JSONHdfNode and JSONDataset.
NodeName == Field({"name"}, JsonType)
NodeType == RequiredField({"type", "module"}, JsonType)
NodeConfig == AnyJson("config")
NodeChildren == AnyJson("children")

JSONHdfNode == {NodeName, NodeType, NodeConfig, NodeChildren,
                AnyJson("attributes"), AnyJson("target")}

DatasetName == RequiredField({"name"}, JsonType)
DatasetValue == RequiredField({"value", "values"}, JsonType)
DatasetType == Field({"type", "dtype"}, JsonType)

JSONDataset == {DatasetName, DatasetValue, DatasetType}

\* writeGenericDataset has no entry for another type.
KnownTypes == {"double", "int64", "string"}

\* A number cannot be made of text, nor text of a number.
Converts(value, dtype) ==
    value.type \in (IF dtype = "string" THEN {"string", "array"}
                    ELSE {"number", "boolean", "array"})

writeDataset_Throws(c, at, config) ==
    \/ processConfigData_Throws(JSONDataset, config)
    \/ get_value(DatasetType, config, "double") \notin KnownTypes
    \/ ~Converts(Assigned(DatasetValue, config),
                 get_value(DatasetType, config, "double"))
    \/ Append(at, get_value(DatasetName, config, "")) \in Objects(c)

\* The handler of a dataset node: one that exists keeps its value.
CreateDataset(c, at, object) ==
    LET config == get_value(NodeConfig, object, <<>>)
        path == Append(at, get_value(DatasetName, config, ""))
    IN  IF hasDefaultValue(DatasetName, config) THEN c
        ELSE IF path \in c.datasets
        THEN writeAttributesIfPresent(c, path, object).file
        ELSE IF writeDataset_Throws(c, at, config) THEN c
        ELSE writeAttributesIfPresent(
                 [c EXCEPT !.datasets = @ \cup {path}], path, object).file

\* What createHDFStructures works on: the file, the deque Path, the streams
\* that were found, and the calls that are still to be made.  A call is a node
\* and the group that it is made in, or the end of the loop over the children
\* of a group.
Structure(c, calls) ==
    [file |-> c, Path |-> Root, streams |-> <<>>, calls |-> calls]

Call(n, parent) == [node |-> n, parent |-> parent]
EndOfChildren == [node |-> 0, parent |-> Root]

Calls(nodes, parent) == [i \in DOMAIN nodes |-> Call(nodes[i], parent)]

\* Path is popped whatever is at its end.
PopPath(path) == Front(path)

Children(object) ==
    IF \/ hasDefaultValue(NodeChildren, object)
       \/ Assigned(NodeChildren, object).type # "array"
    THEN <<>>
    ELSE Assigned(NodeChildren, object).value

\* A group node.  When its attributes throw, its children are not visited and
\* Path is not popped.
CreateGroup(st, n, parent) ==
    LET name == get_value(NodeName, Node[n], "")
        group == Append(parent, name)
        written == writeAttributesIfPresent(
                       [st.file EXCEPT !.groups = @ \cup {group}], group,
                       Node[n])
    IN  IF name = "" \/ group \in Objects(st.file) \ st.file.groups
        THEN st
        ELSE [st EXCEPT !.file = written.file,
                        !.Path = Append(@, name),
                        !.calls = IF written.threw THEN @
                                  ELSE Calls(Children(Node[n]), group)
                                       \o <<EndOfChildren>> \o @]

FoundStream(st, n) ==
    [module |-> get_value(NodeType, Node[n], ""), parent |-> st.Path,
     config |-> get_value(NodeConfig, Node[n], <<>>), node |-> n]

\* The next of the calls, up to the calls that it makes.
createHDFStructures(st) ==
    LET call == Head(st.calls)
        n == call.node
        rest == [st EXCEPT !.calls = Tail(@)]
        value == get_value(NodeType, Node[n], "")
    IN  IF call = EndOfChildren
        THEN [rest EXCEPT !.Path = PopPath(@)]
        ELSE IF processConfigData_Throws(JSONHdfNode, Node[n])
        THEN rest
        ELSE IF get_key(NodeType, Node[n]) = "type"
        THEN IF value = "group" THEN CreateGroup(rest, n, call.parent)
             ELSE rest
        ELSE IF value = "dataset"
        THEN [rest EXCEPT !.file = CreateDataset(@, call.parent, Node[n])]
        ELSE [rest EXCEPT !.streams = Append(@, FoundStream(st, n))]

-----------------------------------------------------------------------------
\* A link to the object at target: `up` steps from the group of the link,
\* then down the path `down`.
LinkTarget(at, target) ==
    SubSeq(at, 1, Len(at) - target.up) \o target.down

\* H5Olink fails, which is logged, when there is no target or the name is
\* taken.
addLinkToNode(c, at, name, target) ==
    IF LinkTarget(at, target) \in Objects(c)
       /\ Append(at, name) \notin Objects(c)
    THEN [c EXCEPT !.links = @ \cup {Append(at, name)}]
    ELSE c

\* A group that does not exist ends the loop with an exception, which
\* HDFFile::addLinks logs.
addLinks(c, links) ==
    LET missing == {i \in DOMAIN links : links[i].parent \notin c.groups}
        last == IF missing = {} THEN Len(links) ELSE Min(missing) - 1
    IN  FoldLeft(LAMBDA f, l : addLinkToNode(f, l.parent, l.name, l.source),
                 c, SubSeq(links, 1, last))
=============================================================================
