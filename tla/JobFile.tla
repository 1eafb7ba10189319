------------------------------ MODULE JobFile ------------------------------
(***************************************************************************)
(* The file of a job from the start command to its last byte: JobCreator,  *)
(* FileWriterTask, HDFFile, the mdat writer and the metadata tracker, and  *)
(* the template-maker, whose files jobs are copied from.                   *)
(*                                                                         *)
(* The main thread does all of this; one action is one stage of it.  A     *)
(* stage may fail (Fault), and the process may be killed after any stage,  *)
(* which leaves on disk what was written so far.  The exceptions of a      *)
(* stage unwind to Master, which destroys the task.                        *)
(***************************************************************************)
EXTENDS HDFOperations, Integers

CONSTANTS
    FileName,     \* names that a job can be given
    Document,     \* JSON documents, by index
    TemplateDoc,  \* the documents that templates are made from
    StopTime,     \* stop times that commands ask for
    MaxJobs,      \* bound: start commands
    MaxFaults,    \* bound: operations of HDF5 or of the file system that fail
    MaxKills      \* bound: kills of the process

ASSUME JobFileAssumption ==
    /\ TemplateDoc \subseteq DOMAIN Document
    /\ MaxJobs \in Nat /\ MaxFaults \in Nat /\ MaxKills \in Nat
    /\ 0 \notin StopTime

VARIABLES
    disk,      \* the files, by name
    template,  \* the file of the template-maker
    document,  \* the document of the start commands
    pc,        \* the stage that the main thread has reached
    job,       \* the arguments of the job
    building,  \* createHDFStructures in progress
    File,      \* the HDFFile: is it open, in SWMR mode, how often opened
    streams,   \* StreamSettingsList, WriterModule included
    next,      \* the index of the loop over StreamSettingsList
    links,     \* LinkSettingsList
    writables, \* the values of the mdat writer, by name
    tracker,   \* KnownMetaData
    sources,   \* SourceToModuleMap
    jobs, faults, kills,  \* bounds
    outcome    \* history: how the last job ended, and what it met

jobVars == <<job, building, File, streams, next, links, writables, sources>>
bounds == <<jobs, faults, kills>>
vars == <<disk, template, document, pc, jobVars, tracker, bounds, outcome>>

NoFile == [EmptyFile EXCEPT !.groups = {}]
NoName == ""
NoJob == [name |-> NoName, legacy |-> TRUE, doc |-> <<>>, stop |-> 0]
NoStructure == Structure(NoFile, <<>>)
Closed == [open |-> FALSE, SWMRMode |-> FALSE, opened |-> 0]

NoOutcome == [result |-> "none", name |-> NoName, clean |-> FALSE]

Failed(why) ==
    outcome' = [result |-> why, name |-> job.name, clean |-> FALSE]

Fault == faults < MaxFaults /\ faults' = faults + 1
NoFault == UNCHANGED faults

file == disk[job.name]
SetFile(c) == disk' = [disk EXCEPT ![job.name] = c]

-----------------------------------------------------------------------------
\* The writer modules: registry, datasets, extra modules, metadata.
Registry == {[Id |-> "f144", Name |-> "f144"],
             [Id |-> "ev44", Name |-> "ev44"],
             [Id |-> "ep01", Name |-> "epics_con_info"],
             [Id |-> "al00", Name |-> "alarm_info"]}

Find(module) ==
    LET named == {r \in Registry : r.Name = module}
    IN  IF named # {} THEN named ELSE {r \in Registry : r.Id = module}

Id(module) == (CHOOSE r \in Find(module) : TRUE).Id

Datasets(id) ==
    CASE id = "f144" -> <<"time", "cue_timestamp_zero", "cue_index", "value">>
      [] id = "ev44" -> <<"event_time_offset", "event_id", "event_time_zero",
                          "event_index", "cue_index", "cue_timestamp_zero">>
      [] id = "ep01" -> <<"connection_status_time", "connection_status">>
      [] id = "al00" -> <<"alarm_message", "alarm_time", "alarm_severity">>

ExtraModules(id) == IF id = "f144" THEN <<"epics_con_info", "alarm_info">>
                    ELSE <<>>

EnableKey(m) == IF m = "epics_con_info" THEN "enable_epics_con_info"
                ELSE "enable_alarm_info"

getEnabledExtraModules(id, config) ==
    SelectSeq(ExtraModules(id),
              LAMBDA m : get_value(Field({EnableKey(m)}, {"boolean"}), config,
                                   TRUE))

\* The values that register_meta_data gives a writer for the file.
MetaDataNames(id, config) ==
    IF id = "f144" /\ get_value(Field({"meta_data"}, {"boolean"}), config, TRUE)
    THEN {"minimum_value", "maximum_value", "average_value"}
    ELSE {}

-----------------------------------------------------------------------------
\* HDFFileBase::init on a file that holds c.
CommonAttributes == {"HDF5_Version", "file_name", "creator", "file_time"}

\* attributes.create throws for an attribute that exists.
CreateAttributes(w, names) ==
    IF w.threw \/ \E n \in names : HasAttribute(w.file, Root, n)
    THEN Threw(w.file)
    ELSE Written([w.file EXCEPT !.attributes =
                     @ \cup {[at |-> Root, name |-> n, value |-> "code"] :
                             n \in names}])

WritesFileMetadata_Always(template_path, legacy) == TRUE

WritesFileMetadata(template_path, legacy) == template_path \/ legacy

Version(d, key) == IF key \in Document[d].versions THEN {key} ELSE {}

\* The end of init, once the structures are made.
FinishInit(c, d, template_path, legacy) ==
    LET meta == IF WritesFileMetadata(template_path, legacy)
                THEN CreateAttributes(CreateAttributes(Written(c),
                                                       CommonAttributes),
                                      Version(d, "dynamic_version"))
                ELSE CreateAttributes(Written(c),
                                      Version(d, "template_version"))
    IN  IF meta.threw THEN meta
        ELSE writeAttributesIfPresent(meta.file, Root, Document[d].attributes)

NewStructure(c, d) == Structure(c, Calls(Document[d].children, Root))

\* The main thread is idle again: nothing of the job is left in memory.
Reset ==
    /\ pc' = "idle"
    /\ job' = NoJob /\ File' = Closed
    /\ building' = NoStructure
    /\ streams' = <<>> /\ next' = 1 /\ links' = <<>>
    /\ writables' = <<>> /\ sources' = <<>>
    /\ tracker' = {}

\* The template-maker: createFileWriterTemplate refuses an existing file; its
\* streams are not used.
MakeTemplate ==
    /\ pc = "idle" /\ template = NoFile /\ jobs = 0
    /\ \E d \in TemplateDoc :
           /\ job' = [name |-> NoName, legacy |-> FALSE, doc |-> d, stop |-> 0]
           /\ building' = NewStructure(EmptyFile, d)
    /\ pc' = "build"
    /\ UNCHANGED <<disk, template, document, File, streams, next, links,
                   writables, sources, tracker, bounds, outcome>>

-----------------------------------------------------------------------------
\* Master::startWriting: the metadata of the last job is cleared, the task is
\* made.  An empty instrument name is legacy writing.
startWriting ==
    /\ pc = "idle" /\ jobs < MaxJobs
    /\ \E n \in FileName, l \in BOOLEAN, s \in StopTime :
           job' = [name |-> n, legacy |-> l, doc |-> document, stop |-> s]
    /\ tracker' = {}
    /\ jobs' = jobs + 1
    /\ pc' = "initialise"
    /\ UNCHANGED <<disk, template, document, building, File, streams, next,
                   links, writables, sources, faults, kills, outcome>>

CreateFailed(why) ==
    /\ Failed(why) /\ pc' = "unwind"
    /\ UNCHANGED <<template, document, jobVars, tracker, jobs, kills>>

Exists_Not(n) == FALSE

Exists(n) == disk[n] # NoFile

\* createFileInRegularMode throws: the template is missing, the file cannot be
\* created, or the copy of the template, which stays, cannot be opened.
CannotCreate ==
    \/ ~job.legacy /\ template = NoFile /\ NoFault /\ UNCHANGED disk
    \/ Fault /\ UNCHANGED disk
    \/ ~job.legacy /\ template # NoFile /\ Fault /\ SetFile(template)

InitialFile == IF job.legacy THEN EmptyFile ELSE template

\* The streams in the order of the list, without links and mdat.
Mdat(infos) == SelectSeq(infos, LAMBDA i : i.module = "mdat")

Has(key) == RequiredField({key}, {"string"})

\* extractModuleInformationFromJsonForSource throws, which skips the module.
Extractable(i) ==
    /\ i.module # "" /\ ~hasDefaultValue(AnyJson("source"), i.config)
    /\ IF i.module = "link" THEN ~hasDefaultValue(Has("name"), i.config)
       ELSE ~hasDefaultValue(Has("topic"), i.config)

Extracted(infos) ==
    SelectSeq(infos, LAMBDA i : i.module # "mdat" /\ Extractable(i))

LinkSettings(infos) ==
    LET found == SelectSeq(Extracted(infos), LAMBDA i : i.module = "link")
    IN  [j \in DOMAIN found |->
            [parent |-> found[j].parent,
             name |-> get_value(Has("name"), found[j].config, ""),
             source |-> get_value(AnyJson("source"), found[j].config, "")]]

StreamSettings(infos) ==
    SelectSeq(Extracted(infos), LAMBDA i : i.module # "link")

\* mdat_Writer::define_metadata: the last module that lists a name decides.
AllowedNames == {"start_time", "end_time"}

Items == AnyJson("items")

ExtractNames(i) == get_value(Items, i.config, {}) \cap AllowedNames

\* extract_names throws for a module without a configuration object, and for
\* items that are not an array (of strings).
NamesReadable(i) ==
    /\ ~hasDefaultValue(NodeConfig, Node[i.node])
    /\ Assigned(NodeConfig, Node[i.node]).type = "object"
    /\ ~hasDefaultValue(Items, i.config)
           => Assigned(Items, i.config).type = "array"

Writables(mdat) ==
    [name \in UNION {ExtractNames(mdat[j]) : j \in DOMAIN mdat} |->
        LET j == Max({k \in DOMAIN mdat : name \in ExtractNames(mdat[k])})
        IN  [path |-> mdat[j].parent, value |-> 0]]

\* InitialiseHdf, and the creation of the file in the constructor of HDFFile.
InitialiseHdf ==
    /\ pc = "initialise"
    /\ \/ /\ Exists(job.name) \/ ~Document[document].valid
          /\ UNCHANGED <<disk, faults>>
          /\ CreateFailed("refused")
       \/ /\ ~Exists(job.name) /\ Document[document].valid
          /\ CannotCreate
          /\ CreateFailed("not created")
       \/ /\ ~Exists(job.name) /\ Document[document].valid
          /\ job.legacy \/ template # NoFile
          /\ NoFault
          /\ SetFile(InitialFile)
          /\ building' = NewStructure(InitialFile, document)
          /\ File' = [open |-> TRUE, SWMRMode |-> FALSE, opened |-> 1]
          /\ pc' = "build"
          /\ UNCHANGED <<template, document, job, streams, next, links,
                         writables, sources, tracker, jobs, kills, outcome>>

\* A template is the file of the template-maker, any other file one of a job.
Store(c) ==
    IF job.name = NoName
    THEN template' = c /\ UNCHANGED disk
    ELSE SetFile(c) /\ UNCHANGED template

\* One call of createHDFStructures.
buildStructure ==
    /\ pc = "build" /\ building.calls # <<>>
    /\ building' = createHDFStructures(building)
    /\ Store(building'.file)
    /\ UNCHANGED <<document, pc, job, File, streams, next, links, writables,
                   sources, tracker, bounds, outcome>>

\* The end of init, whose exception leaves the file behind, and the metadata of
\* the mdat modules.
initTemplate ==
    /\ pc = "build" /\ building.calls = <<>> /\ job.name = NoName
    /\ template' = FinishInit(building.file, job.doc, FALSE, FALSE).file
    /\ Reset
    /\ UNCHANGED <<disk, document, bounds, outcome>>

init ==
    /\ pc = "build" /\ building.calls = <<>> /\ job.name # NoName
    /\ LET i == FinishInit(building.file, document, TRUE, job.legacy)
           mdat == Mdat(building.streams)
       IN  /\ SetFile(i.file)
           /\ \/ /\ i.threw
                 /\ Failed("not initialised") /\ pc' = "unwind"
                 /\ File' = Closed
                 /\ UNCHANGED <<streams, links, writables>>
              \/ /\ ~i.threw /\ \E m \in ToSet(mdat) : ~NamesReadable(m)
                 /\ Failed("no metadata") /\ pc' = "unwind"
                 /\ UNCHANGED <<File, streams, links, writables>>
              \/ /\ ~i.threw /\ \A m \in ToSet(mdat) : NamesReadable(m)
                 /\ streams' = StreamSettings(building.streams)
                 /\ links' = LinkSettings(building.streams)
                 /\ writables' = Writables(mdat)
                 /\ pc' = "streams"
                 /\ UNCHANGED <<File, outcome>>
    /\ building' = NoStructure
    /\ UNCHANGED <<template, document, job, next, sources, tracker, bounds>>

-----------------------------------------------------------------------------
\* createFileWritingJob: the loop over StreamSettingsList.
CreateDatasets(c, at, names) ==
    LET taken == {i \in DOMAIN names : Append(at, names[i]) \in Objects(c)}
        last == IF taken = {} THEN Len(names) ELSE Min(taken) - 1
    IN  [c EXCEPT !.datasets = @ \cup {Append(at, names[i]) : i \in 1 .. last}]

\* setWriterHDFAttributes leaves an attribute that exists alone.
setWriterHDFAttributes(c, item) ==
    FoldLeft(LAMBDA f, a : IF HasAttribute(f, item.parent, a[1]) THEN f
                           ELSE WriteAttribute(f, item.parent, a[1], a[2]),
             c, <<<<"NX_class", "default">>,
                  <<"topic", get_value(Has("topic"), item.config, "")>>,
                  <<"source", get_value(AnyJson("source"), item.config, "")>>,
                  <<"writer_module", item.module>>>>)

registerMetaData(values) == tracker' = tracker \cup values

ExtraSettings_None(item) == <<>>

\* getCopyForExtraModule: the place and the source of the stream, and no
\* configuration.
ExtraSettings(item) ==
    LET extra == getEnabledExtraModules(Id(item.module), item.config)
    IN  [j \in DOMAIN extra |-> [item EXCEPT !.module = extra[j],
                                            !.config = <<>>]]

\* The result of init_hdf is not looked at.  A fault ends it early.
InitStream ==
    /\ pc = "streams" /\ next <= Len(streams)
    /\ LET item == streams[next]
           attributed == setWriterHDFAttributes(file, item)
           names == Datasets(Id(item.module))
       IN  IF item.parent \notin file.groups \/ Find(item.module) = {}
           THEN /\ UNCHANGED <<disk, faults>>
                /\ CreateFailed("no stream")
           ELSE /\ \/ NoFault /\ SetFile(CreateDatasets(attributed,
                                                        item.parent, names))
                   \/ Fault /\ \E k \in 0 .. Len(names) - 1 :
                         SetFile(CreateDatasets(attributed, item.parent,
                                                SubSeq(names, 1, k)))
                /\ registerMetaData({Append(item.parent, m) :
                       m \in MetaDataNames(Id(item.module), item.config)})
                /\ streams' = streams \o ExtraSettings(item)
                /\ next' = next + 1
                /\ UNCHANGED <<template, document, pc, job, building, File,
                               links, writables, sources, jobs, kills, outcome>>

\* Task->writeLinks: the file is in regular mode still.
writeLinks ==
    /\ pc = "streams" /\ next > Len(streams)
    /\ SetFile(addLinks(file, links))
    /\ pc' = "switch"
    /\ UNCHANGED <<template, document, jobVars, tracker, bounds, outcome>>

\* HDF5 does not open a file with other flags while an object of it is open.
OpenHandles == {i \in DOMAIN sources : sources[i].opened = File.opened}

closeFile == [File EXCEPT !.open = FALSE]

Reopened(swmr) ==
    [open |-> TRUE, SWMRMode |-> swmr, opened |-> File.opened + 1]

\* openInSWMRMode: close, open, set the flag.
switchToWriteMode ==
    /\ pc = "switch"
    /\ \/ /\ NoFault
          /\ File' = Reopened(TRUE)
          /\ pc' = "sources" /\ next' = 1
          /\ UNCHANGED <<disk, template, document, job, building, streams,
                         links, writables, tracker, sources, jobs, kills, outcome>>
       \/ /\ Fault
          /\ File' = closeFile
          /\ Failed("not switched") /\ pc' = "unwind"
          /\ UNCHANGED <<disk, template, document, job, building, streams,
                         next, links, writables, tracker, sources, jobs, kills>>

\* One turn of addStreamSourceToWriterModule: a stream whose datasets cannot
\* be reopened is left out.
CanReopen_Always(item) == TRUE

CanReopen(item) ==
    \A i \in DOMAIN Datasets(Id(item.module)) :
        Append(item.parent, Datasets(Id(item.module))[i]) \in file.datasets

AddSource(item) ==
    sources' = Append(sources, [id |-> Id(item.module), parent |-> item.parent,
                                node |-> item.node, opened |-> File.opened])

addStreamSource ==
    /\ pc = "sources" /\ next <= Len(streams)
    /\ \/ CanReopen(streams[next]) /\ NoFault /\ AddSource(streams[next])
       \/ ~CanReopen(streams[next]) /\ NoFault /\ UNCHANGED sources
       \/ CanReopen(streams[next]) /\ Fault /\ UNCHANGED sources
    /\ next' = next + 1
    /\ UNCHANGED <<disk, template, document, pc, job, building, File, streams,
                   links, writables, tracker, jobs, kills, outcome>>

\* StreamController::start and setStopTime give the mdat writer its values.
start ==
    /\ pc = "sources" /\ next > Len(streams)
    /\ writables' = [n \in DOMAIN writables |->
           [writables[n] EXCEPT !.value = IF n = "end_time" THEN job.stop
                                          ELSE 1]]
    /\ pc' = "writing"
    /\ UNCHANGED <<disk, template, document, job, building, File, streams, next,
                   links, sources, tracker, bounds, outcome>>

set_stop_time(w, t) ==
    [n \in DOMAIN w |-> IF n = "end_time" THEN [w[n] EXCEPT !.value = t]
                        ELSE w[n]]

setStopTime ==
    /\ pc = "writing"
    /\ \E t \in StopTime : /\ job' = [job EXCEPT !.stop = t]
                           /\ writables' = set_stop_time(writables, t)
    /\ UNCHANGED <<disk, template, document, pc, building, File, streams, next,
                   links, sources, tracker, bounds, outcome>>

-----------------------------------------------------------------------------
\* ~StreamController: mdat_Writer::write_metadata creates its datasets; an
\* error is logged.  The path of the root is empty, which is not writable.
isWritable(w) == w.path # Root /\ w.value # 0

write_string_value(c, name, w) ==
    IF \/ ~isWritable(w) \/ w.path \notin c.groups
       \/ Append(w.path, name) \in Objects(c)
    THEN c
    ELSE [c EXCEPT !.datasets = @ \cup {Append(w.path, name)},
                   !.text = @ \cup {[at |-> Append(w.path, name),
                                     value |-> w.value]}]

write_metadata(c) ==
    FoldSet(LAMBDA name, f : write_string_value(f, name, writables[name]),
            c, DOMAIN writables)

DestroyController ==
    /\ pc = "writing"
    /\ SetFile(write_metadata(file))
    /\ outcome' = [result |-> "written", name |-> job.name,
                   clean |-> faults = 0]
    /\ pc' = "unwind"
    /\ UNCHANGED <<template, document, jobVars, tracker, bounds>>

\* Tracker::writeToHDF5File: a dataset that exists, or a group that does not,
\* is counted as an error.
basicDatasetWriter(c, p) ==
    IF p \in Objects(c) THEN c ELSE [c EXCEPT !.datasets = @ \cup {p}]

WriteValue(c, p) ==
    IF Front(p) \in c.groups THEN basicDatasetWriter(c, p) ELSE c

writeToHDF5File(c) == FoldSet(LAMBDA p, f : WriteValue(f, p), c, tracker)

\* Mutant: the file is declared last.
Members_FileLast == <<"SourceToModuleMap", "File">>

\* The members of FileWriterTask that its destructor destroys, in the order of
\* their declaration: the last one goes first.
Members == <<"File", "SourceToModuleMap">>

DestroyedAfter(m, k) ==
    \E i, j \in DOMAIN Members : Members[i] = m /\ Members[j] = k /\ i < j

\* The objects of the file that are still open when ~HDFFile runs.
HeldByModules ==
    IF DestroyedAfter("SourceToModuleMap", "File") THEN OpenHandles ELSE {}

\* A file in regular mode is not opened again.
openInRegularMode == File.SWMRMode => HeldByModules = {}

\* The destructor of the file is addMetaData: back to regular mode, then the
\* metadata.  Opening fails with a fault or with an object still open.  A file
\* that could not be switched to SWMR mode is not open, and has no root group.
addMetaData ==
    \/ /\ NoFault
       /\ IF File.open /\ openInRegularMode
          THEN SetFile(writeToHDF5File(file))
          ELSE UNCHANGED disk
    \/ /\ File.SWMRMode /\ Fault
       /\ UNCHANGED disk

\* Master clears the metadata in setToIdle.
destroyTask ==
    /\ pc = "unwind"
    /\ addMetaData
    /\ Reset
    /\ outcome' = [outcome EXCEPT !.clean = @ /\ faults' = faults]
    /\ UNCHANGED <<template, document, jobs, kills>>

\* The process is killed and started again.
Kill ==
    /\ pc # "idle" /\ kills < MaxKills
    /\ kills' = kills + 1
    /\ Reset
    /\ outcome' = NoOutcome
    /\ UNCHANGED <<disk, template, document, jobs, faults>>

-----------------------------------------------------------------------------
Init ==
    /\ disk = [n \in FileName |-> NoFile]
    /\ template = NoFile
    /\ document \in DOMAIN Document
    /\ pc = "idle"
    /\ job = NoJob /\ File = Closed
    /\ building = NoStructure
    /\ streams = <<>> /\ next = 1 /\ links = <<>>
    /\ writables = <<>> /\ sources = <<>>
    /\ tracker = {}
    /\ jobs = 0 /\ faults = 0 /\ kills = 0
    /\ outcome = NoOutcome

Next ==
    \/ MakeTemplate
    \/ startWriting
    \/ InitialiseHdf
    \/ buildStructure
    \/ initTemplate
    \/ init
    \/ InitStream
    \/ writeLinks
    \/ switchToWriteMode
    \/ addStreamSource
    \/ start
    \/ setStopTime
    \/ DestroyController
    \/ destroyTask
    \/ Kill

Spec == Init /\ [][Next]_vars

-----------------------------------------------------------------------------
(***************************************************************************)
(* What a document asks for, read from its tree.                           *)
(***************************************************************************)
\* The modules below a node in the order of the document, by their path
\* relative to the node.
Below[n \in DOMAIN Node] ==
    CASE get_key(NodeType, Node[n]) = "module" ->
             <<[module |-> get_value(NodeType, Node[n], ""), parent |-> Root,
                config |-> get_value(NodeConfig, Node[n], <<>>), node |-> n]>>
      [] /\ get_key(NodeType, Node[n]) = "type"
         /\ get_value(NodeType, Node[n], "") = "group" ->
             LET name == get_value(NodeName, Node[n], "")
                 ch == Children(Node[n])
                 all == FlattenSeq([i \in DOMAIN ch |-> Below[ch[i]]])
             IN  [i \in DOMAIN all |-> [all[i] EXCEPT !.parent = <<name>> \o @]]
      [] OTHER -> <<>>

AskedOf(nodes) == FlattenSeq([i \in DOMAIN nodes |-> Below[nodes[i]]])

AskedOfDocument == ToSet(AskedOf(Document[document].children))

\* Streams in groups that the file has.
AskedStreams ==
    {a \in AskedOfDocument : /\ a.module \notin {"dataset", "link", "mdat"}
                            /\ Extractable(a) /\ a.parent \in file.groups}

\* HDF5 refuses an attribute of the node.
AttributesRefused(n) ==
    \E i \in DOMAIN Node[n] :
        /\ Node[n][i].key = "attributes" /\ Node[n][i].type = "object"
        /\ \E j \in DOMAIN Node[n][i].value :
               Node[n][i].value[j].value = "refused"

\* The nodes at the root before the first that is refused an attribute, after
\* which createHDFStructures is lost in the document.
BeforeRefused ==
    LET ch == Document[document].children
        refused == {i \in DOMAIN ch : AttributesRefused(ch[i])}
    IN  IF refused = {} THEN ch ELSE SubSeq(ch, 1, Min(refused) - 1)

Key(i) == [node |-> i.node, parent |-> i.parent]

DatasetNames(id) == ToSet(Datasets(id))

Modules(a) ==
    {Id(a.module)} \cup
    {Id(m) : m \in ToSet(getEnabledExtraModules(Id(a.module), a.config))}

NamesOf(a) == UNION {DatasetNames(k) : k \in Modules(a)}

\* The document or the template has a dataset at the path.
AlsoDataset(path) ==
    \/ path \in template.datasets
    \/ \E b \in AskedOfDocument :
           /\ b.module = "dataset"
           /\ path = Append(b.parent, get_value(DatasetName, b.config, ""))

\* A dataset of the stream is also one of another stream of the group, or of
\* the document or the template.
Contested(a) ==
    \/ \E b \in AskedStreams :
           a # b /\ a.parent = b.parent /\ NamesOf(a) \cap NamesOf(b) # {}
    \/ \E n \in NamesOf(a) : AlsoDataset(Append(a.parent, n))

-----------------------------------------------------------------------------
\* Type correctness: the stages of the job, its file and its sources are the
\* ones the code distinguishes (JobCreator.cpp, HDFFile.cpp).
TypeOK ==
    /\ pc \in {"idle", "initialise", "build", "streams", "switch", "sources", "writing",
               "unwind"}
    /\ document \in DOMAIN Document
    /\ File \in [open : BOOLEAN, SWMRMode : BOOLEAN, opened : 0 .. 2]
    /\ next \in 1 .. Len(streams) + 1
    /\ DOMAIN writables \subseteq AllowedNames
    /\ \A n \in FileName : disk[n].groups = {} => disk[n] = NoFile
    /\ pc \in {"streams", "switch", "sources", "writing"} => File.open

\* Each source that messages are written to holds datasets of the file as it
\* was opened last (after switchToWriteMode), and all of its datasets exist.
\* Two sources write to the same dataset only if two streams of the document
\* contest it, or a group before them was refused an attribute (init_hdf, whose
\* result is ignored, and reopen).
SourcesAreOpen ==
    \A i \in DOMAIN sources :
        /\ sources[i].opened = File.opened /\ File.SWMRMode
        /\ \A n \in DatasetNames(sources[i].id) :
               Append(sources[i].parent, n) \in file.datasets
        /\ \A j \in 1 .. i - 1 :
               /\ sources[j].parent = sources[i].parent
               /\ DatasetNames(sources[j].id) \cap DatasetNames(sources[i].id)
                     # {}
               => \/ BeforeRefused # Document[document].children
                  \/ LET asked == AskedOf(Document[document].children)
                     IN  \E p, q \in DOMAIN asked :
                            /\ p # q
                            /\ Key(asked[p]) = Key(sources[i])
                            /\ Key(asked[q]) = Key(sources[j])

\* createFileWritingJob makes a source for each stream of the document and for
\* each extra module that its configuration enables, in the group in which the
\* document has it, in spite of the results it ignores, unless something fails,
\* one of their datasets is contested (init_hdf) or HDF5 refused an attribute
\* of a group before them (createHDFStructures).
NoStreamForgotten ==
    pc = "writing" /\ faults = 0
        => \A a \in AskedStreams \cap ToSet(AskedOf(BeforeRefused)) :
               ~Contested(a) => {sources[i].id : i \in {j \in DOMAIN sources :
                                                  Key(sources[j]) = Key(a)}}
                                = Modules(a)

\* A file that exists is never changed by a job that did not create it: a
\* refused start command leaves the file of an earlier job alone, also one
\* that a killed process left behind (FileWriterTask::InitialiseHdf).
FilesAreKept ==
    [][\A n \in FileName : disk'[n] # disk[n]
           => n = job.name /\ (disk[n] = NoFile \/ File.open)]_vars

\* Each time that mdat modules of the document ask for is written once: to the
\* group of the last of them, and nowhere if that is the root.  The end time is
\* the last stop time of the job, however often it was moved.
HasTimes(f) ==
    \A name \in AllowedNames :
        LET asked == AskedOf(Document[document].children)
            asking == {i \in DOMAIN asked : /\ asked[i].module = "mdat"
                                            /\ asked[i].parent \in f.groups
                                            /\ name \in ExtractNames(asked[i])}
            group == asked[Max(asking)].parent
            times == {t \in f.text : Last(t.at) = name}
            value == IF name = "end_time" THEN job.stop ELSE 1
        IN  times = IF \/ asking = {} \/ group = Root
                      \/ AlsoDataset(Append(group, name))
                    THEN {}
                    ELSE {[at |-> Append(group, name), value |-> value]}

\* The file of a job that has ended and met no failure is complete: it has the
\* metadata registered by the writer modules, unless a name was taken (the
\* members of FileWriterTask, HDFFile::addMetaData), and the times of the mdat
\* modules (extract_details, ~StreamController), if no group of the document
\* was refused an attribute.
FinishedIsComplete ==
    [][pc = "unwind" /\ pc' = "idle" /\ outcome'.clean
          => /\ tracker \subseteq Objects(disk'[job.name])
             /\ outcome.result = "written" /\ BeforeRefused = Document[document].children
                    => HasTimes(disk'[job.name])]_vars

\* HDF5 refuses an attribute of the root of the document.
RootRefused ==
    \E i \in DOMAIN Document[document].attributes :
        \E j \in DOMAIN Document[document].attributes[i].value :
            Document[document].attributes[i].value[j].value = "refused"

\* A job that is copied from a file of the template-maker is initialised: the
\* template-maker leaves the attributes to the job that init creates there and
\* that must not exist (write_common_attributes).  Only a template whose own
\* document names one of them at the root stops the job, or an attribute of the
\* document of the job that HDF5 refuses.
TemplateCanBeUsed ==
    pc = "unwind" /\ outcome.result = "not initialised" =>
        \/ RootRefused
        \/ /\ ~job.legacy
           /\ \E a \in template.attributes :
                  /\ a.at = Root /\ a.value = "json"
                  /\ a.name \in CommonAttributes \cup {"dynamic_version"}
=============================================================================
