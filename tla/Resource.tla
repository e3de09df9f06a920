------------------------------ MODULE Resource ------------------------------
(***************************************************************************)
(* The resources of SnowyStream and the map that names them:               *)
(* SnowyStream::CreateResource, LoadResource and Uninitialize,             *)
(* ResourceManager and ResourceBase.  The map holds raw pointers; an object*)
(* whose last reference goes takes itself out of it, then deletes itself.  *)
(*                                                                         *)
(* A step is one access to a counter or to the flags of an object, or one  *)
(* stretch under the manager's lock (RWLock) or under the object's spin    *)
(* lock `critical` in which the lock is not given up.                      *)
(***************************************************************************)
EXTENDS Integers, Sequences, FiniteSets

CONSTANTS
    Threads, Objects, Locations,
    Anonymous,      \* the empty location
    Closer,         \* the thread that calls Uninitialize
    NoObject, NoThread,
    CreateFlags,    \* the flags CreateResource is called with: subsets of
                    \* {"eternal", "manual", "mapped"}
    MaxCalls        \* bound: CreateResource and Map

ASSUME ResourceAssumption ==
    /\ NoObject \notin Objects /\ NoThread \notin Threads
    /\ Anonymous \notin Locations
    /\ IsFiniteSet(Threads)
    /\ \A fl \in CreateFlags : fl \subseteq {"eternal", "manual", "mapped"}
    /\ MaxCalls \in Nat

VARIABLES
    resourceMap, writer,
    state, location, flags, referCount, mapCount, data,    \* of each object
    todo,       \* of each thread: the steps left of its call, with the object
    ok,         \* of each thread: what Map returned
    request,    \* of each thread: the flags of its CreateResource
    held, mapped, good, \* of each thread: the objects it refers to, has mapped,
                        \* has mapped with success
    removed,    \* what RemoveAll has taken from the map and not let go yet
    externals,  \* the eternal ones of them
    calls, closed,
    revived,    \* history: objects found in the map by LoadExist with no
                \* reference left
    overlapped  \* history: objects mapped again by a Map between the two
                \* halves of an UnMap

object == <<state, location, flags, referCount, mapCount, data>>
client == <<ok, request, held, mapped, good>>
closing == <<removed, externals, closed>>
vars == <<resourceMap, writer, object, todo, client, closing, calls, revived, overlapped>>

Init ==
    /\ resourceMap = [l \in Locations |-> NoObject] /\ writer = NoThread
    /\ state = [o \in Objects |-> "unborn"]
    /\ location = [o \in Objects |-> Anonymous]
    /\ flags = [o \in Objects |-> {}]
    /\ referCount = [o \in Objects |-> 0] /\ mapCount = [o \in Objects |-> 0]
    /\ data = [o \in Objects |-> FALSE]
    /\ todo = [t \in Threads |-> <<>>]
    /\ ok = [t \in Threads |-> FALSE] /\ request = [t \in Threads |-> {}]
    /\ held = [t \in Threads |-> {}]
    /\ mapped = [t \in Threads |-> {}] /\ good = [t \in Threads |-> {}]
    /\ removed = {} /\ externals = {} /\ closed = FALSE
    /\ calls = 0 /\ revived = {} /\ overlapped = {}

-----------------------------------------------------------------------------
Idle(t) == todo[t] = <<>>

At(t, l, o) == ~Idle(t) /\ Head(todo[t]) = <<l, o>>

(* The step is done, and these come before the rest of the call.             *)
Then(t, steps) == todo' = [todo EXCEPT ![t] = steps \o Tail(@)]

Call(t, steps) == Idle(t) /\ todo' = [todo EXCEPT ![t] = steps]

Add(f, o, n) == [f EXCEPT ![o] = @ + n]

Raise(o, fl) == flags' = [flags EXCEPT ![o] = @ \cup fl]

Clear(o, fl) == flags' = [flags EXCEPT ![o] = @ \ fl]

(* What a CreateResource still does with an object it has found ...          *)
UseExist(t, o) == IF "mapped" \in request[t] THEN <<<<"map", o>>>> ELSE <<>>

(* ... and with the one it has made.                                         *)
UseNew(fl, o) ==
    IF "manual" \in fl
    THEN IF "mapped" \in fl THEN <<<<"map", o>>>> ELSE <<>>
    ELSE <<<<"map", o>>, <<"upload", o>>>>
         \o (IF "mapped" \in fl THEN <<>> ELSE <<<<"unmap", o>>>>)

(* t has o from now on, mapped if it has asked for that.                     *)
Obtain(t, o, fl) ==
    /\ held' = [held EXCEPT ![t] = @ \cup {o}]
    /\ mapped' = [mapped EXCEPT ![t] = IF "mapped" \in fl THEN @ \cup {o} ELSE @]

(* The TShared made of the raw pointer in the map.                           *)
LoadExist(o) ==
    /\ referCount' = Add(referCount, o, 1)
    /\ revived' = IF referCount[o] = 0 THEN revived \cup {o} ELSE revived

-----------------------------------------------------------------------------
(* CreateResource finds the object, under the reader lock.                   *)
CreateExisting(t, l, fl) ==
    /\ calls < MaxCalls /\ writer = NoThread
    /\ resourceMap[l] # NoObject /\ resourceMap[l] \notin held[t]
    /\ LET o == resourceMap[l]
       IN  /\ LoadExist(o)
           /\ request' = [request EXCEPT ![t] = fl]
           /\ \/ Obtain(t, o, fl)
                 /\ Call(t, IF "mapped" \in fl THEN <<<<"map", o>>>> ELSE <<>>)
              \/ \* openExisting is false
                 Call(t, <<<<"release", o>>>>) /\ UNCHANGED <<held, mapped>>
    /\ calls' = calls + 1
    /\ UNCHANGED <<resourceMap, writer, state, location, flags, mapCount, data,
                   ok, good, closing, overlapped>>

Unborn == {o \in Objects : state[o] = "unborn"}

(* It does not, and makes one.                                               *)
CreateNew(t, l, fl) ==
    /\ calls < MaxCalls
    /\ l \in Locations => writer = NoThread /\ resourceMap[l] = NoObject
    /\ Unborn # {}
    /\ LET o == CHOOSE o \in Unborn : TRUE
       IN  /\ state' = [state EXCEPT ![o] = "live"]
           /\ location' = [location EXCEPT ![o] = l]
           /\ flags' = [flags EXCEPT ![o] = {"orphan"} \cup (fl \ {"mapped"})]
           /\ referCount' = Add(referCount, o, 1)
           /\ Call(t, <<<<"insert", o>>>>)
    /\ request' = [request EXCEPT ![t] = fl]
    /\ calls' = calls + 1
    /\ UNCHANGED <<resourceMap, writer, mapCount, data, ok, held, mapped, good, closing,
                   revived, overlapped>>

(* The second look, under the writer lock: another thread has been faster.   *)
InsertExisting(t, o) ==
    /\ At(t, "insert", o) /\ location[o] \in Locations /\ writer = NoThread
    /\ resourceMap[location[o]] # NoObject
    /\ LET exist == resourceMap[location[o]]
       IN  /\ LoadExist(exist)
           /\ Obtain(t, exist, request[t])
           /\ Then(t, UseExist(t, exist) \o <<<<"release", o>>>>)
    /\ UNCHANGED <<resourceMap, writer, state, location, flags, mapCount, data,
                   ok, request, good, closing, calls, overlapped>>

Insert(t, o) ==
    /\ At(t, "insert", o)
    /\ IF location[o] \in Locations
       THEN /\ writer = NoThread /\ resourceMap[location[o]] = NoObject
            /\ resourceMap' = [resourceMap EXCEPT ![location[o]] = o]
            /\ referCount' = Add(referCount, o, IF "eternal" \in flags[o] THEN 1 ELSE 0)
            /\ flags' = [flags EXCEPT ![o] = (@ \ {"orphan"}) \cup {"attached"}]
       ELSE Raise(o, {"attached"}) /\ UNCHANGED <<resourceMap, referCount>>
    /\ Obtain(t, o, request[t])
    /\ Then(t, UseNew(request[t], o))
    /\ UNCHANGED <<writer, state, location, mapCount, data, ok, request, good, closing,
                   calls, revived, overlapped>>

-----------------------------------------------------------------------------
(* Map and UnMap                                                             *)

MapCall(t, o) ==
    /\ calls < MaxCalls /\ o \in held[t] \ mapped[t]
    /\ Call(t, <<<<"map", o>>>>)
    /\ mapped' = [mapped EXCEPT ![t] = @ \cup {o}]
    /\ calls' = calls + 1
    /\ UNCHANGED <<resourceMap, writer, object, ok, request, held, good, closing,
                   revived, overlapped>>

MapCount(t, o) ==
    /\ At(t, "map", o)
    /\ mapCount' = Add(mapCount, o, 1)
    /\ Then(t, IF mapCount[o] = 0 THEN <<<<"load", o>>>> ELSE <<<<"wait", o>>>>)
    /\ overlapped' = IF mapCount[o] = 0 /\ \E u \in Threads : At(u, "unflag", o)
                     THEN overlapped \cup {o} ELSE overlapped
    /\ UNCHANGED <<resourceMap, writer, state, location, flags, referCount, data, client,
                   closing, calls, revived>>

(* LoadResource: there is no stream, or it is read under `critical`.         *)
Load(t, o) ==
    /\ At(t, "load", o)
    /\ \/ ok' = [ok EXCEPT ![t] = FALSE] /\ UNCHANGED <<data, flags>>
       \/ \E result \in BOOLEAN :
            /\ ok' = [ok EXCEPT ![t] = result]
            /\ data' = [data EXCEPT ![o] = result]
            /\ Raise(o, {"modified"})
    /\ Then(t, <<<<"loaded", o>>>>)
    /\ UNCHANGED <<resourceMap, writer, state, location, referCount, mapCount, request, held,
                   mapped, good, closing, calls, revived, overlapped>>

(* Map returns: whether t may use the data now.                              *)
MapReturns(t, o, result) ==
    /\ ok' = [ok EXCEPT ![t] = result]
    /\ good' = [good EXCEPT ![t] = IF result /\ o \in mapped[t] THEN @ \cup {o} ELSE @]

(* Mutant: a load that fails does not tell those who wait for it.            *)
MapLoadedQuietly(t, o) ==
    /\ At(t, "loaded", o)
    /\ Raise(o, IF ok[t] THEN {"mapped"} ELSE {"invalid"})
    /\ MapReturns(t, o, ok[t])
    /\ Then(t, <<>>)
    /\ UNCHANGED <<resourceMap, writer, state, location, referCount, mapCount, data, request,
                   held, mapped, closing, calls, revived, overlapped>>

MapLoaded(t, o) ==
    /\ At(t, "loaded", o)
    /\ Raise(o, IF ok[t] THEN {"mapped"} ELSE {"mapped", "invalid"})
    /\ MapReturns(t, o, ok[t])
    /\ Then(t, <<>>)
    /\ UNCHANGED <<resourceMap, writer, state, location, referCount, mapCount, data, request,
                   held, mapped, closing, calls, revived, overlapped>>

(* Kernel::Wait ends with the flag set.                                      *)
MapWait(t, o) ==
    /\ At(t, "wait", o) /\ "mapped" \in flags[o]
    /\ Then(t, <<<<"check", o>>>>)
    /\ UNCHANGED <<resourceMap, writer, object, client, closing, calls, revived, overlapped>>

MapCheck(t, o) ==
    /\ At(t, "check", o)
    /\ MapReturns(t, o, "invalid" \notin flags[o])
    /\ Then(t, <<>>)
    /\ UNCHANGED <<resourceMap, writer, object, request, held, mapped, closing, calls,
                   revived, overlapped>>

(* InvokeUpload: the data is copied to the device, or moved there if nobody  *)
(* has it mapped.                                                            *)
Upload(t, o) ==
    /\ At(t, "upload", o)
    /\ IF ok[t]
       THEN /\ Clear(o, {"modified"})
            /\ data' = [data EXCEPT ![o] = @ /\ mapCount[o] # 0]
       ELSE UNCHANGED <<flags, data>>
    /\ Then(t, <<>>)
    /\ UNCHANGED <<resourceMap, writer, state, location, referCount, mapCount, client,
                   closing, calls, revived, overlapped>>

UnMapCall(t, o) ==
    /\ o \in mapped[t]
    /\ Call(t, <<<<"unmap", o>>>>)
    /\ mapped' = [mapped EXCEPT ![t] = @ \ {o}] /\ good' = [good EXCEPT ![t] = @ \ {o}]
    /\ UNCHANGED <<resourceMap, writer, object, ok, request, held, closing, calls,
                   revived, overlapped>>

UnMapCount(t, o) ==
    /\ At(t, "unmap", o)
    /\ mapCount' = Add(mapCount, o, -1)
    /\ Then(t, IF mapCount[o] = 1 THEN <<<<"unflag", o>>, <<"drop", o>>>> ELSE <<>>)
    /\ UNCHANGED <<resourceMap, writer, state, location, flags, referCount, data, client,
                   closing, calls, revived, overlapped>>

UnMapFlag(t, o) ==
    /\ At(t, "unflag", o)
    /\ Clear(o, {"mapped"})
    /\ Then(t, <<>>)
    /\ UNCHANGED <<resourceMap, writer, state, location, referCount, mapCount, data, client,
                   closing, calls, revived, overlapped>>

(* Mutant: the payload goes although others may have mapped it again.        *)
DropDataAnyway(t, o) ==
    /\ At(t, "drop", o)
    /\ data' = [data EXCEPT ![o] = FALSE]
    /\ Then(t, <<>>)
    /\ UNCHANGED <<resourceMap, writer, state, location, flags, referCount, mapCount, client,
                   closing, calls, revived, overlapped>>

(* TextureResource::UnMap: the payload goes, under `critical`, if nobody has *)
(* mapped it meanwhile.                                                      *)
DropData(t, o) ==
    /\ At(t, "drop", o)
    /\ data' = [data EXCEPT ![o] = @ /\ mapCount[o] # 0]
    /\ Then(t, <<>>)
    /\ UNCHANGED <<resourceMap, writer, state, location, flags, referCount, mapCount, client,
                   closing, calls, revived, overlapped>>

-----------------------------------------------------------------------------
(* ReleaseObject and Destroy                                                 *)

ReleaseCall(t, o) ==
    /\ o \in held[t] \ mapped[t]
    /\ Call(t, <<<<"release", o>>>>)
    /\ held' = [held EXCEPT ![t] = @ \ {o}]
    /\ UNCHANGED <<resourceMap, writer, object, ok, request, mapped, good, closing, calls,
                   revived, overlapped>>

(* A step on referCount and what follows if it was 1.                        *)
Count(t, o, n, next) ==
    /\ referCount' = Add(referCount, o, n)
    /\ Then(t, next)
    /\ UNCHANGED <<resourceMap, writer, location, flags, mapCount, data, client, closing,
                   calls, revived, overlapped>>

Release(t, o) ==
    /\ At(t, "release", o)
    /\ Count(t, o, -1, IF referCount[o] = 1 THEN <<<<"destroy", o>>>> ELSE <<>>)
    /\ UNCHANGED state

Destroy(t, o) ==
    /\ At(t, "destroy", o)
    /\ Count(t, o, 1, IF "orphan" \in flags[o] THEN <<<<"last", o>>>> ELSE <<<<"remove", o>>>>)
    /\ UNCHANGED state

(* Mutant: the flags are not looked at again under the lock.                 *)
RemoveUntested(t, o) ==
    /\ At(t, "remove", o) /\ writer = NoThread
    /\ resourceMap' = [resourceMap EXCEPT ![location[o]] = NoObject]
    /\ Raise(o, {"orphan"})
    /\ Then(t, <<<<"detach", o>>, <<"relock", o>>, <<"last", o>>>>)
    /\ UNCHANGED <<writer, state, location, referCount, mapCount, data, client, closing,
                   calls, revived, overlapped>>

(* Mutant: the object stays in the map.                                      *)
RemoveNamed(t, o) ==
    /\ At(t, "remove", o) /\ writer = NoThread
    /\ IF flags[o] \cap {"orphan", "eternal"} # {}
       THEN Then(t, <<<<"last", o>>>>) /\ UNCHANGED flags
       ELSE /\ Raise(o, {"orphan"})
            /\ Then(t, <<<<"detach", o>>, <<"relock", o>>, <<"last", o>>>>)
    /\ UNCHANGED <<resourceMap, writer, state, location, referCount, mapCount, data, client,
                   closing, calls, revived, overlapped>>

(* The second test, and ResourceManager::Remove up to where it unlocks.      *)
Remove(t, o) ==
    /\ At(t, "remove", o) /\ writer = NoThread
    /\ IF flags[o] \cap {"orphan", "eternal"} # {}
       THEN Then(t, <<<<"last", o>>>>) /\ UNCHANGED <<resourceMap, flags>>
       ELSE /\ resourceMap' = [resourceMap EXCEPT ![location[o]] = NoObject]
            /\ Raise(o, {"orphan"})
            /\ Then(t, <<<<"detach", o>>, <<"relock", o>>, <<"last", o>>>>)
    /\ UNCHANGED <<writer, state, location, referCount, mapCount, data, client, closing,
                   calls, revived, overlapped>>

Detach(t, o) ==
    /\ At(t, "detach", o)
    /\ Clear(o, {"attached"})
    /\ Then(t, <<>>)
    /\ UNCHANGED <<resourceMap, writer, state, location, referCount, mapCount, data, client,
                   closing, calls, revived, overlapped>>

(* DoLockWriter, for the guard of the caller to unlock.                      *)
Relock(t, o) ==
    /\ At(t, "relock", o) /\ writer = NoThread
    /\ Then(t, <<>>)
    /\ UNCHANGED <<resourceMap, writer, object, client, closing, calls, revived, overlapped>>

Last(t, o) ==
    /\ At(t, "last", o)
    /\ Count(t, o, -1, <<>>)
    /\ state' = [state EXCEPT ![o] = IF referCount[o] = 1 THEN "deleted" ELSE @]

-----------------------------------------------------------------------------
(* SnowyStream::Uninitialize, RemoveAll                                      *)

Uninitialize(t) ==
    /\ t = Closer /\ ~closed /\ writer = NoThread
    /\ closed' = TRUE /\ writer' = t
    /\ removed' = {resourceMap[l] : l \in Locations} \ {NoObject}
    /\ resourceMap' = [l \in Locations |-> NoObject]
    /\ Call(t, <<<<"removeAll", NoObject>>>>)
    /\ UNCHANGED <<object, client, externals, calls, revived, overlapped>>

RemoveAllDetach(t) ==
    /\ At(t, "removeAll", NoObject)
    /\ \E o \in removed : Clear(o, {"attached"}) /\ Then(t, <<<<"orphan", o>>>>)
    /\ UNCHANGED <<resourceMap, writer, state, location, referCount, mapCount, data, client,
                   closing, calls, revived, overlapped>>

(* Mutant: the eternal ones are not kept for their release.                  *)
RemoveAllOrphanOnly(t, o) ==
    /\ At(t, "orphan", o)
    /\ Raise(o, {"orphan"})
    /\ removed' = removed \ {o}
    /\ Then(t, <<<<"removeAll", NoObject>>>>)
    /\ UNCHANGED <<resourceMap, writer, state, location, referCount, mapCount, data, client,
                   externals, closed, calls, revived, overlapped>>

RemoveAllOrphan(t, o) ==
    /\ At(t, "orphan", o)
    /\ externals' = IF "eternal" \in flags[o] THEN externals \cup {o} ELSE externals
    /\ Raise(o, {"orphan"})
    /\ removed' = removed \ {o}
    /\ Then(t, <<<<"removeAll", NoObject>>>>)
    /\ UNCHANGED <<resourceMap, writer, state, location, referCount, mapCount, data, client,
                   closed, calls, revived, overlapped>>

(* The lock is given up while the eternal resources are released.            *)
RemoveAllRelease(t) ==
    /\ At(t, "removeAll", NoObject) /\ removed = {}
    /\ writer' = NoThread
    /\ IF externals = {}
       THEN Then(t, <<<<"relock", NoObject>>>>) /\ UNCHANGED externals
       ELSE \E o \in externals :
                /\ externals' = externals \ {o}
                /\ Then(t, <<<<"release", o>>, <<"removeAll", NoObject>>>>)
    /\ UNCHANGED <<resourceMap, object, client, removed, closed, calls, revived, overlapped>>

-----------------------------------------------------------------------------
Calls(t) ==
    \/ \E l \in Locations, fl \in CreateFlags : CreateExisting(t, l, fl)
    \/ \E l \in Locations \cup {Anonymous}, fl \in CreateFlags : CreateNew(t, l, fl)
    \/ \E o \in Objects : MapCall(t, o)
    \/ Uninitialize(t)

(* A thread gives back what it has.                                          *)
GivesBack(t) == \E o \in Objects : UnMapCall(t, o) \/ ReleaseCall(t, o)

Step(t) ==
    \/ \E o \in Objects :
        \/ InsertExisting(t, o) \/ Insert(t, o)
        \/ MapCount(t, o) \/ Load(t, o) \/ MapLoaded(t, o) \/ MapWait(t, o) \/ MapCheck(t, o)
        \/ Upload(t, o) \/ UnMapCount(t, o) \/ UnMapFlag(t, o) \/ DropData(t, o)
        \/ Release(t, o) \/ Destroy(t, o) \/ Remove(t, o) \/ Detach(t, o) \/ Last(t, o)
        \/ RemoveAllOrphan(t, o)
    \/ \E o \in Objects \cup {NoObject} : Relock(t, o)
    \/ RemoveAllDetach(t) \/ RemoveAllRelease(t)

Next == \E t \in Threads : Calls(t) \/ GivesBack(t) \/ Step(t)

Spec == Init /\ [][Next]_vars

FairSpec == Spec /\ \A t \in Threads : WF_vars(Step(t))

-----------------------------------------------------------------------------
TypeOK ==
    /\ resourceMap \in [Locations -> Objects \cup {NoObject}]
    /\ writer \in Threads \cup {NoThread}
    /\ state \in [Objects -> {"unborn", "live", "deleted"}]
    /\ referCount \in [Objects -> Int] /\ mapCount \in [Objects -> Int]
    /\ data \in [Objects -> BOOLEAN] /\ ok \in [Threads -> BOOLEAN]
    /\ calls \in 0 .. MaxCalls

(* A raw pointer never dangles: what is in the map is alive, attached and    *)
(* not an orphan, and nobody works on an object that has been deleted or     *)
(* refers to it (ResourceBase.cpp:80-96, ResourceManager.cpp:41-65, 97-136), *)
(* unless LoadExist has brought the object back while it was being           *)
(* destroyed.                                                                *)
NothingDangles ==
    /\ \A l \in Locations : resourceMap[l] # NoObject =>
        LET o == resourceMap[l]
        IN  state[o] = "live" /\ location[o] = l /\ "orphan" \notin flags[o] /\ "attached" \in flags[o]
    /\ \A t \in Threads, o \in Objects \ revived :
        (o \in held[t] \/ o \in removed \/ \E i \in 1 .. Len(todo[t]) : todo[t][i][2] = o)
            => state[o] = "live"

(* The assertions of the sources, on objects not brought back: a reference   *)
(* is left to release (Tiny.h:65), the flag is set after the wait for it     *)
(* (ResourceBase.cpp:139), what is uploaded has been loaded                  *)
(* (ResourceManager.h:92), what is detached is attached (84), and an object  *)
(* is deleted unmapped and an orphan (ResourceBase.cpp:57, 61), its device   *)
(* part gone if it had a name.                                               *)
CodeAssertions ==
    /\ TypeOK
    /\ \A t \in Threads, o \in Objects \ revived :
        /\ At(t, "release", o) => referCount[o] > 0
        /\ At(t, "check", o) /\ o \notin overlapped => "mapped" \in flags[o]
        /\ At(t, "upload", o) /\ ok[t] => "modified" \in flags[o]
        /\ At(t, "detach", o) => "attached" \in flags[o]
        /\ o \in removed /\ ~At(t, "orphan", o) /\ t = writer => "attached" \in flags[o]
    /\ \A o \in Objects \ revived : state[o] = "deleted" =>
        /\ mapCount[o] = 0 /\ "orphan" \in flags[o]
        /\ location[o] \in Locations => "attached" \notin flags[o]

(* Who has mapped a resource with success has its data until he unmaps it,   *)
(* although others map and unmap it, load it again and upload it meanwhile   *)
(* (ResourceBase.cpp:131-155, TextureResource.cpp:39-53, 79-83), unless a    *)
(* Map has come between the two halves of an UnMap (overlapped).             *)
DataWhileMapped ==
    \A t \in Threads : \A o \in good[t] \ overlapped : data[o]

(* Nothing leaks: when nobody refers to anything and no call is under way,   *)
(* what is alive is eternal, and still named.                                *)
NothingLeaks ==
    (\A t \in Threads : Idle(t) /\ held[t] = {}) =>
        \A o \in Objects \ revived : state[o] = "live" =>
            "eternal" \in flags[o] /\ resourceMap[location[o]] = o

(* Every call returns: locks are given back and a load that is waited for    *)
(* comes to an end, unless an UnMap has wiped the flag of the load after it. *)
CallsReturn ==
    \A t \in Threads : ~Idle(t) ~> (Idle(t) \/ overlapped # {} \/ revived # {})

=============================================================================
