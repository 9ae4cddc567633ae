----------------------------- MODULE StreamLife -----------------------------
(***************************************************************************)
(* What the SFU promises about a published stream, whoever ends it: it     *)
(* enters the table once, its media opens at most once, it leaves the      *)
(* table only after its media was closed and never comes back, and the     *)
(* notice of its removal is owed at most once and given only then.         *)
(* SfuRouter implements this specification.                                *)
(***************************************************************************)
CONSTANT Mids

VARIABLES
    table,   \* the streams clients can find
    media,   \* "none" before the publisher answered, then "open", then "closed"
    due,     \* removed streams whose notice is still to be queued
    queue    \* queued notices

vars == <<table, media, due, queue>>

Init ==
    /\ table = {} /\ due = {} /\ queue = {}
    /\ media = [m \in Mids |-> "none"]

Create(m) ==
    /\ m \notin table /\ media[m] = "none"
    /\ table' = table \cup {m}
    /\ UNCHANGED <<media, due, queue>>

Open(m) ==
    /\ m \in table /\ media[m] = "none"
    /\ media' = [media EXCEPT ![m] = "open"]
    /\ UNCHANGED <<table, due, queue>>

Shut(m) ==
    /\ m \in table /\ media[m] = "open"
    /\ media' = [media EXCEPT ![m] = "closed"]
    /\ UNCHANGED <<table, due, queue>>

\* On a client's request, which owes no notice, or because the stream died.
Remove(m) ==
    /\ m \in table /\ media[m] = "closed"
    /\ table' = table \ {m}
    /\ due' \in {due, due \cup {m}}
    /\ UNCHANGED <<media, queue>>

Queue(m) ==
    /\ m \in due
    /\ due' = due \ {m} /\ queue' = queue \cup {m}
    /\ UNCHANGED <<table, media>>

Take(m) ==
    /\ m \in queue
    /\ queue' = queue \ {m}
    /\ UNCHANGED <<table, media, due>>

Next ==
    \E m \in Mids : Create(m) \/ Open(m) \/ Shut(m) \/ Remove(m) \/ Queue(m) \/ Take(m)

Spec == Init /\ [][Next]_vars

\* A stream that is owed or given a notice has left the table with its media
\* closed, and it is not both.
NoticeAfterRemoval ==
    /\ due \cap queue = {}
    /\ \A m \in due \cup queue : m \notin table /\ media[m] = "closed"

\* A stream that left the table is never published again under the same id.
NoReturn == [][\A m \in Mids : media[m] = "closed" /\ m \notin table => m \notin table']_vars

=============================================================================
