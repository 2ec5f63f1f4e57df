--------------------------- MODULE ReadersWriters ---------------------------
(***************************************************************************)
(* What a multiple reader single writer lock promises: threads hold it for *)
(* reading together, or one thread holds it for writing alone.             *)
(***************************************************************************)
EXTENDS FiniteSets

CONSTANT Threads

VARIABLES
    readers,    \* threads that hold the lock for reading
    writers     \* threads that hold the lock for writing

rwVars == <<readers, writers>>

Init == readers = {} /\ writers = {}

BeginRead(t) ==
    /\ t \notin readers /\ writers = {}
    /\ readers' = readers \cup {t} /\ UNCHANGED writers

EndRead(t) ==
    /\ t \in readers
    /\ readers' = readers \ {t} /\ UNCHANGED writers

BeginWrite(t) ==
    /\ readers = {} /\ writers = {}
    /\ writers' = {t} /\ UNCHANGED readers

EndWrite(t) ==
    /\ t \in writers
    /\ writers' = writers \ {t} /\ UNCHANGED readers

Next == \E t \in Threads : BeginRead(t) \/ EndRead(t) \/ BeginWrite(t) \/ EndWrite(t)

Spec == Init /\ [][Next]_rwVars
=============================================================================
