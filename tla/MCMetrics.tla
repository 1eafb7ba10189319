------------------------------ MODULE MCMetrics ------------------------------
(***************************************************************************)
(* A small instance of Metrics.                                            *)
(***************************************************************************)
EXTENDS Metrics, SequencesExt

CONSTANTS m1, m2

BothAndCarbon == m1 :> {"LOG_MSG", "CARBON"} @@ m2 :> {"CARBON"}

\* No character of a message is lost, repeated or out of order between the
\* queue and the socket, over all connections (sentMessageHandler).
CharactersInOrder ==
    handed \o SubSeq(MessageBuffer, taken + 1, Len(MessageBuffer))
           \o FlattenSeq([i \in DOMAIN Messages |-> Chars(Messages[i])])
        = FlattenSeq([id \in 1 .. offered |-> Chars(id)])
=============================================================================
