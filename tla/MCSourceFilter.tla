--------------------------- MODULE MCSourceFilter ---------------------------
(***************************************************************************)
(* SourceFilter on a small instance, and the filter against a declarative  *)
(* definition of its result for a chronological stream.                    *)
(***************************************************************************)
EXTENDS SourceFilter, SequencesExt

VARIABLE moved   \* history: the stop time has been changed

MCInit ==
    /\ Init
    /\ moved = FALSE

MCNext ==
    /\ Next
    /\ moved' = (moved \/ filter'.stop # filter.stop)

MCSpec == MCInit /\ [][MCNext]_<<vars, moved>>

-----------------------------------------------------------------------------
Own == SelectSeq(inbox, LAMBDA m : m.src = filter.src /\ m.valid)

Chronological ==
    \A i \in 1 .. Len(Own) - 1 : Own[i].ts <= Own[i + 1].ts

\* Own messages without those that repeat the timestamp of the one before.
Distinct ==
    LET keep(i) == \/ filter.allowRepeated
                   \/ i = 1
                   \/ Own[i].ts # Own[i - 1].ts
    IN  SelectSeq([i \in DOMAIN Own |-> [m |-> Own[i], keep |-> keep(i)]],
                  LAMBDA e : e.keep)

Times == [i \in DOMAIN Distinct |-> ToTimepoint(Distinct[i].m.ts)]

Early == {i \in DOMAIN Times : Times[i] < filter.start}

InWindow == {i \in DOMAIN Times : Times[i] \in filter.start .. filter.stop}

\* The newest message from before the start time, then all of the window.
Expected ==
    LET kept == (IF Early = {} THEN {} ELSE {Max(Early)}) \cup InWindow
    IN  {Distinct[i].m.id : i \in kept}

SentIds == {sent[i].msg.id : i \in DOMAIN sent}

\* What a source delivers in chronological order is cut to the window of the
\* job: at the end the writer has exactly the last message before the start
\* time and every message from the start to the stop time, repeats excepted,
\* if the stop time stays as it is (filter_message and the destructor).
WindowOfOrderedStream ==
    ~alive /\ ~moved /\ Chronological => SentIds = Expected
=============================================================================
