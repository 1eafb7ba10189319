----------------------------- MODULE MCJobFile -----------------------------
(***************************************************************************)
(* JobFile for TLC: a table of nodes that covers each branch of createHDF- *)
(* Structures, and documents of up to two of them at the root: each of     *)
(* them alone, and the pairs whose second node meets what the first has    *)
(* left behind.                                                            *)
(***************************************************************************)
EXTENDS JobFile

Text(key, value) == Entry(key, "string", value)
Number(key) == Entry(key, "number", 0)

Stream(module, source) ==
    <<Entry("config", "object", <<Text("source", source), Text("topic", "t")>>),
      Text("module", module)>>

StreamWith(module, entries) ==
    <<Entry("config", "object",
            entries \o <<Text("source", "s"), Text("topic", "t")>>),
      Text("module", module)>>

DatasetNode(entries) ==
    <<Entry("config", "object", entries), Text("module", "dataset")>>

Group(name, children) ==
    <<Entry("children", "array", children), Text("name", name),
      Text("type", "group")>>

Attr(name, value) == [name |-> name, value |-> value]

WithAttributes(type, attributes, node) ==
    <<Entry("attributes", type, attributes)>> \o node

MCNode ==
    << Stream("f144", "s"),                                             \* 1
       StreamWith("f144", <<Entry("enable_alarm_info", "boolean", FALSE),
                            Entry("meta_data", "number", 0)>>),         \* 2
       Stream("ev44", "e"),                                             \* 3
       <<Entry("config", "object",
               <<Text("name", "l"),
                 Entry("source", "string",
                       [up |-> 1, down |-> <<"b">>])>>),
         Text("module", "link")>>,                                      \* 4
       <<Entry("config", "object",
               <<Entry("items", "array",
                       {"start_time", "end_time", "title"})>>),
         Text("module", "mdat")>>,                                      \* 5
       DatasetNode(<<Text("name", "value"), Number("value")>>),         \* 6
       DatasetNode(<<Text("name", "d")>>),                              \* 7
       Stream("unknown", "u"),                                          \* 8
       <<Text("module", "f144")>>,                                      \* 9
       Group("", <<1>>),                                                \* 10
       Group("a", <<1, 5>>),                                            \* 11
       WithAttributes("object", <<Attr("k", "refused")>>,
                      Group("a", <<1>>)),                               \* 12
       WithAttributes("array", <<Attr("k", "malformed"), Attr("k", "refused"),
                                 Attr("source", "good")>>,
                      Group("b", <<2, 4>>)),                            \* 13
       Group("b", <<11, 3>>),                                           \* 14
       Group("a", <<6, 1>>),                                            \* 15
       DatasetNode(<<Text("dtype", "string"), Text("name", "a"),
                     Text("value", "v")>>),                             \* 16
       <<Text("name", "n")>>,                                           \* 17
       <<Text("children", "none"), Text("module", "f144"),
         Text("name", "c"), Text("type", "group")>>,                    \* 18
       WithAttributes("object", <<Attr("k", "good"), Attr("k", "null")>>,
                      Group("a", <<3, 5, 7, 21>>)),                     \* 19
       <<Text("type", "unknown")>>,                                     \* 20
       DatasetNode(<<Text("name", "e"), Text("value", "v")>>),          \* 21
       <<Text("module", "mdat")>>,                                      \* 22
       <<Entry("config", "object", <<Text("items", "start_time")>>),
         Text("module", "mdat")>>,                                      \* 23
       Group("b", <<25, 2, 3>>),                                        \* 24
       <<Entry("config", "object",
               <<Entry("items", "array", {"start_time"})>>),
         Text("module", "mdat")>> >>                                    \* 25

Doc(children, attributes, versions) ==
    [children |-> children, attributes |-> attributes, versions |-> versions,
     valid |-> TRUE]

AtRoot == {3, 4, 5, 8} \cup (10 .. 20) \cup (22 .. 24)

RootAttributes(name, value) ==
    <<Entry("attributes", "object", <<Attr(name, value)>>)>>

Plain == {<<>>} \cup {<<n>> : n \in AtRoot}
         \cup {<<m, n>> : m \in {3, 11, 12, 13, 15, 16, 19},
                        n \in {11, 13, 14}}
         \cup {<<m, n>> : m \in {11, 14, 19}, n \in {5, 12, 24}}
         \cup {<<5, 11>>, <<23, 11>>}

\* Documents by the nodes at the root; a leading 0, -1, -2 or -3 stands for a
\* root attribute that is refused, for versions, for text that is not JSON, and
\* for a root attribute that jobs write.
MCDocument ==
    [d \in Plain \cup {<<0, 11>>, <<-1, 11>>, <<-2>>, <<-3, 11>>} |->
        CASE d \in Plain -> Doc(d, <<>>, {})
          [] d = <<0, 11>> -> Doc(<<11>>, RootAttributes("k", "refused"), {})
          [] d = <<-1, 11>> -> Doc(<<11>>, RootAttributes("k", "good"),
                                   {"dynamic_version", "template_version"})
          [] d = <<-2>> -> [Doc(<<>>, <<>>, {}) EXCEPT !.valid = FALSE]
          [] d = <<-3, 11>> -> Doc(<<11>>, RootAttributes("creator", "good"),
                                   {})]

MCTemplateDoc == {<<-1, 11>>, <<19>>, <<16, 13>>, <<-3, 11>>}

MCFileName == {"n"}
MCStopTime == {1, 2}
=============================================================================
