-------------------------- MODULE MessageDelivery --------------------------
(***************************************************************************)
(* What a partition promises the writer, without its threads, its clock    *)
(* and its time limits: it reads the messages of the broker once and in    *)
(* order, and for each source it either passes a message on, skips it, or  *)
(* keeps it back in place of the one it kept before, until a later message *)
(* or the end of the partition releases it.  Messages are the numbers of   *)
(* their positions.                                                        *)
(***************************************************************************)
EXTENDS Naturals, Sequences

CONSTANT Key       \* the receivers of messages

VARIABLES
    fetched,       \* messages read so far
    held,          \* by receiver: the message kept back, 0 if there is none
    delivered,     \* by receiver: the messages passed on
    status         \* "running", "ended" or "closed"

vars == <<fetched, held, delivered, status>>

Init ==
    /\ fetched = 0
    /\ held = [k \in Key |-> 0]
    /\ delivered = [k \in Key |-> <<>>]
    /\ status = "running"

Released(k) == IF held[k] = 0 THEN <<>> ELSE <<held[k]>>

Skipped(k) ==
    held'[k] = held[k] /\ delivered'[k] = delivered[k]

KeptBack(k) ==
    held'[k] = fetched' /\ delivered'[k] = delivered[k]

PassedOn(k) ==
    held'[k] = 0 /\ delivered'[k] = delivered[k] \o Released(k) \o <<fetched'>>

OnlyReleased(k) ==
    held'[k] = 0 /\ delivered'[k] = delivered[k] \o Released(k)

\* A message is read; it may be the last one.
Fetch ==
    /\ status = "running" /\ status' \in {"running", "ended"}
    /\ fetched' = fetched + 1
    /\ \A k \in Key :
           Skipped(k) \/ KeptBack(k) \/ PassedOn(k) \/ OnlyReleased(k)

End ==
    /\ status = "running" /\ status' = "ended"
    /\ UNCHANGED <<fetched, held, delivered>>

\* What is kept back at the end is passed on.
Close ==
    /\ status = "ended" /\ status' = "closed"
    /\ \A k \in Key : OnlyReleased(k)
    /\ UNCHANGED fetched

Next == Fetch \/ End \/ Close

Spec == Init /\ [][Next]_vars
=============================================================================
