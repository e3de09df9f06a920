------------------------------- MODULE RWLock -------------------------------
(***************************************************************************)
(* What IThread::SharedLock promises (Core/Interface/IThread.h): one       *)
(* writer, or any number of readers.  ResourceManager guards its map with  *)
(* it, and SharedLock is how the thread driver makes it.                   *)
(***************************************************************************)
CONSTANT Threads

VARIABLES
    writing,    \* the threads that hold the lock as a writer
    reading     \* and those that hold it as readers

vars == <<writing, reading>>

Init == writing = {} /\ reading = {}

AcquireWriter(t) ==
    /\ writing = {} /\ reading = {}
    /\ writing' = {t}
    /\ UNCHANGED reading

ReleaseWriter(t) ==
    /\ t \in writing
    /\ writing' = writing \ {t}
    /\ UNCHANGED reading

AcquireReader(t) ==
    /\ writing = {} /\ t \notin reading
    /\ reading' = reading \cup {t}
    /\ UNCHANGED writing

ReleaseReader(t) ==
    /\ t \in reading
    /\ reading' = reading \ {t}
    /\ UNCHANGED writing

Next ==
    \E t \in Threads :
        \/ AcquireWriter(t) \/ ReleaseWriter(t)
        \/ AcquireReader(t) \/ ReleaseReader(t)

Spec == Init /\ [][Next]_vars

(* A writer is alone.                                                        *)
Exclusive ==
    /\ \A t, u \in writing : t = u
    /\ writing # {} => reading = {}

=============================================================================
