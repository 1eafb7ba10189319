--------------------------- MODULE NeXusDatasetOps ---------------------------
(***************************************************************************)
(* The datasets that the writer modules append to: ExtensibleDatasetBase,  *)
(* FixedSizeString and MultiDimDatasetBase of NeXusDataset/.  A dataset is *)
(* its cells in the file and NrOfElements, the position that the object in *)
(* memory believes to be the end.  An append first grows the dataset in    *)
(* the file, then writes, then counts; it may throw between these steps.   *)
(***************************************************************************)
EXTENDS Naturals, Sequences, SequencesExt

CONSTANT Fill   \* what HDF5 shows in a cell that was never written

\* An append is [ds, op, data]: the dataset, the member function and the
\* elements.  The member functions grow a dataset in three ways:
\*   "element"  appendElement, appendStringElement and appendArray of a vector
\*   "adapter"  appendArray of an ArrayAdapter
\*   "row"      MultiDimDatasetBase::appendArray, appendArray of da00
\* and two steps of da00 append nothing: "constant" writes the values of a
\* dataset of fixed size, "attributes" updates the attributes of a dataset.
Created == [cells |-> <<>>, n |-> 0]

\* ExtensibleDataset and FixedSizeString count what is in the file when they
\* open it; ExtensibleDatasetBase does not.
OpenedSized(d) == [d EXCEPT !.n = Len(d.cells)]

OpenedBase(d) == [d EXCEPT !.n = 0]

current_size(d) == Len(d.cells)

Resized(cells, len) ==
    [i \in 1 .. len |-> IF i <= Len(cells) THEN cells[i] ELSE Fill]

IsEmpty(a) == a.op = "adapter" /\ a.data = <<>>

Grown(d, a) ==
    IF a.op = "adapter"
    THEN Resized(d.cells, d.n + Len(a.data))
    ELSE IF a.op = "constant" THEN d.cells
    ELSE Resized(d.cells, current_size(d) + Len(a.data))

Origin_Start(d, a) == IF a.op = "row" THEN current_size(d) ELSE 0

\* Where the elements go: a MultiDimDataset has no count of its own.
Origin(d, a) == IF a.op = "row" THEN current_size(d) ELSE d.n

Appended(d, a) ==
    LET at == Origin(d, a)
        cells == Grown(d, a)
    IN  IF IsEmpty(a) \/ a.op = "attributes"
        THEN d
        ELSE IF a.op = "constant"
        THEN [d EXCEPT !.cells = a.data]
        ELSE [cells |-> [i \in DOMAIN cells |->
                            IF i \in at + 1 .. at + Len(a.data)
                            THEN a.data[i - at] ELSE cells[i]],
              n |-> at + Len(a.data)]

\* The datasets after the first k of the appends in s.
Performed(data, s, k) ==
    FoldLeft(LAMBDA d, a : [d EXCEPT ![a.ds] = Appended(d[a.ds], a)],
             data, SubSeq(s, 1, k))

\* The next append has thrown, before or after it had grown the dataset.
Broken(data, s, k, grown) ==
    LET a == s[k + 1]
        d == Performed(data, s, k)
    IN  IF grown THEN [d EXCEPT ![a.ds].cells = Grown(d[a.ds], a)] ELSE d
=============================================================================
