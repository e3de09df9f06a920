--------------------------- MODULE ResourceProofs ---------------------------
(***************************************************************************)
(* Proofs about Resource for any number of threads, objects, locations and *)
(* calls.                                                                  *)
(*                                                                         *)
(* A raw pointer is safe as long as referCount counts what it should: the  *)
(* threads that hold the object, those whose call still owes it a release, *)
(* and the map's own reference to an eternal resource.  Around this stand  *)
(* where an object may be (not made, new, named, on its way out, taken out *)
(* by Uninitialize) and what the flags and mapCount tell of a map.  The    *)
(* rest of a call is a sequence of steps: its steps are followed as a set, *)
(* so that an action changes an invariant only by the step it takes out of *)
(* the set and those it puts there.                                        *)
(***************************************************************************)
EXTENDS Resource, FiniteSetTheorems, SequenceTheorems, TLAPS

-----------------------------------------------------------------------------
(* The invariant, and the steps a thread has to do as a set                  *)

(* The labels of the steps of the model, by what they work on: a map, an     *)
(* object that is let go, an object held; and those that own a reference.    *)
MapLabels == {"map", "load", "loaded", "wait", "check"}
LetGoLabels == {"release", "destroy", "remove", "last"}
WorkLabels == MapLabels \cup {"upload", "unmap", "unflag", "drop"}
OweLabels == {"insert", "release", "remove", "last"}
Labels == WorkLabels \cup LetGoLabels \cup {"insert", "orphan", "detach", "relock"}

(* A Boolean, counted.                                                       *)
Marked(b) == IF b THEN 1 ELSE 0

(* What may come behind the first step of a thread, if that is <<l, o>>      *)
Tails(l, o) ==
    CASE l \in MapLabels -> {<<>>, <<<<"upload", o>>>>, <<<<"upload", o>>, <<"unmap", o>>>>}
                            \cup {<<<<"release", e>>>> : e \in Objects}
      [] l = "upload" -> {<<>>, <<<<"unmap", o>>>>}
      [] l \in {"insert", "orphan", "unmap", "drop"} -> {<<>>}
      [] l = "unflag" -> {<<<<"drop", o>>>>}
      [] l \in LetGoLabels -> {<<>>, <<<<"removeAll", NoObject>>>>}
      [] l = "detach" -> {<<<<"relock", o>>, <<"last", o>>>>,
                          <<<<"relock", o>>, <<"last", o>>, <<"removeAll", NoObject>>>>}
      [] l = "relock" -> {<<<<"last", o>>>>, <<<<"last", o>>, <<"removeAll", NoObject>>>>}

(* The rest of a call                                                        *)
WellFormed(r) ==
    \/ r = <<>>
    \/ \E o \in Objects, l \in Labels : \E s \in Tails(l, o) : r = <<<<l, o>>>> \o s
    \/ r = <<<<"relock", NoObject>>>> \/ r = <<<<"removeAll", NoObject>>>>

(* The rest of every call is well-formed.                                    *)
Shaped == DOMAIN todo = Threads /\ \A t \in Threads : WellFormed(todo[t])

(* t still has the step <<l, o>> to do; it owns a reference to o by what it  *)
(* has to do; it has something to do with o; the map names o.                *)
Has(t, l, o) == \E i \in 1 .. Len(todo[t]) : todo[t][i] = <<l, o>>
Owes(t, o) == \E l \in OweLabels : Has(t, l, o)
Mentions(t, o) == \E l \in Labels : Has(t, l, o)
InMap(o) == \E l \in Locations : resourceMap[l] = o

(* The types of all variables: the flags an object can have, and what the    *)
(* sets of the threads and of Uninitialize hold.                             *)
Typed ==
    /\ TypeOK
    /\ location \in [Objects -> Locations \cup {Anonymous}]
    /\ flags \in [Objects -> SUBSET {"eternal", "manual", "mapped", "orphan", "attached",
                                     "modified", "invalid"}]
    /\ request \in [Threads -> SUBSET {"eternal", "manual", "mapped"}]
    /\ held \in [Threads -> SUBSET Objects]
    /\ mapped \in [Threads -> SUBSET Objects] /\ good \in [Threads -> SUBSET Objects]
    /\ removed \subseteq Objects /\ externals \subseteq Objects /\ closed \in BOOLEAN
    /\ revived \subseteq Objects /\ overlapped \subseteq Objects

(* A thread works on what it holds, and on a map it has or is to undo.       *)
Working == \A t \in Threads :
    /\ good[t] \subseteq mapped[t] /\ mapped[t] \subseteq held[t]
    /\ \A o \in Objects :
        /\ \A l \in WorkLabels : Has(t, l, o) => o \in held[t]
        /\ Has(t, "unmap", o) => o \notin mapped[t]
        /\ \A l \in MapLabels \cup {"upload"} :
            Has(t, l, o) => o \in mapped[t] \/ Has(t, "unmap", o)
        /\ Has(t, "unflag", o) \/ Has(t, "drop", o) => o \notin mapped[t]
        /\ o \in good[t] => \A l \in MapLabels : ~Has(t, l, o)

(* Uninitialize: what RemoveAll has taken from the map is alive and, but for *)
(* the one it is at, attached; only the closing thread has to do with it.    *)
Closing ==
    /\ \A t \in Threads, o \in Objects :
        Has(t, "orphan", o) => t = Closer /\ o \in removed /\ "attached" \notin flags[o]
    /\ \A t \in Threads : Has(t, "removeAll", NoObject) => t = Closer
    /\ removed # {} => writer = Closer
    /\ removed \cup externals # {} =>
        /\ Closer \in Threads /\ closed
        /\ Has(Closer, "removeAll", NoObject) \/ \E o \in Objects : Has(Closer, "orphan", o)
    /\ \A o \in removed :
        /\ ~InMap(o) /\ state[o] = "live" /\ "orphan" \notin flags[o]
        /\ "attached" \in flags[o] \/ Has(Closer, "orphan", o)
        /\ location[o] \in Locations /\ o \notin externals
    /\ \A o \in externals : "orphan" \in flags[o] /\ "eternal" \in flags[o]

(* Nobody knows of an object that has not been made.                         *)
Unborns == \A o \in Objects : state[o] = "unborn" =>
    /\ referCount[o] = 0 /\ mapCount[o] = 0 /\ flags[o] = {}
    /\ ~InMap(o) /\ o \notin removed /\ o \notin externals
    /\ o \notin revived /\ o \notin overlapped
    /\ \A t \in Threads : ~Mentions(t, o) /\ o \notin held[t]

(* Only t knows of an object it has made and not inserted yet.               *)
NewFor(t, o) ==
    /\ state[o] = "live" /\ referCount[o] = 1 /\ mapCount[o] = 0
    /\ "orphan" \in flags[o] /\ "attached" \notin flags[o]
    /\ "mapped" \notin flags[o] /\ "invalid" \notin flags[o]
    /\ ~InMap(o) /\ o \notin removed /\ o \notin externals /\ o \notin revived
    /\ \A u \in Threads : o \notin held[u] /\ (u # t => ~Mentions(u, o))
    /\ location[o] \in Locations => resourceMap[location[o]] \notin held[t]

(* An object that is still to be inserted is new.                            *)
Fresh == \A t \in Threads, o \in Objects : Has(t, "insert", o) => NewFor(t, o)

(* A reference is held by a client, owned by a step that is to come, or kept *)
(* for an eternal resource.                                                  *)
Holders(o) == {t \in Threads : o \in held[t]}
Owers(o) == {t \in Threads : Owes(t, o)}
Kept(o) == ("eternal" \in flags[o] /\ (InMap(o) \/ o \in removed)) \/ o \in externals
(* referCount counts them.                                                   *)
References == \A o \in Objects :
    referCount[o] = Cardinality(Holders(o)) + Cardinality(Owers(o)) + Marked(Kept(o))

(* The map names live objects, and every object that is not an orphan.       *)
Named ==
    /\ \A l \in Locations : resourceMap[l] # NoObject =>
        LET o == resourceMap[l]
        IN  /\ state[o] = "live" /\ location[o] = l
            /\ "orphan" \notin flags[o] /\ "attached" \in flags[o]
    /\ \A o \in Objects : state[o] # "unborn" /\ "orphan" \notin flags[o] =>
        location[o] \in Locations /\ (resourceMap[location[o]] = o \/ o \in removed)
    /\ \A o \in Objects : state[o] = "deleted" => "orphan" \in flags[o]

(* Who lets an object go has made an orphan of it first; one thread detaches *)
(* it, once.                                                                 *)
Leaving ==
    /\ \A t \in Threads, o \in Objects :
        /\ Has(t, "last", o) \/ Has(t, "detach", o) => "orphan" \in flags[o]
        /\ Has(t, "detach", o) => "attached" \in flags[o]
        /\ Has(t, "destroy", o) \/ Has(t, "remove", o) =>
            ("eternal" \in flags[o] => "orphan" \in flags[o])
    /\ \A t, u \in Threads, o \in Objects : Has(t, "detach", o) /\ Has(u, "detach", o) => t = u
    /\ \A o \in Objects :
        location[o] \in Locations /\ "orphan" \in flags[o] /\ "attached" \in flags[o] =>
            \E t \in Threads : Has(t, "detach", o)

(* An object lives as long as it is referred to or one thread destroys it.   *)
Life == \A o \in Objects \ revived :
    /\ \A t \in Threads : Has(t, "destroy", o) => referCount[o] = 0 /\ state[o] = "live"
    /\ \A t, u \in Threads : Has(t, "destroy", o) /\ Has(u, "destroy", o) => t = u
    /\ referCount[o] # 0 => state[o] = "live"
    /\ state[o] = "live" => referCount[o] # 0 \/ \E t \in Threads : Has(t, "destroy", o)
    /\ state[o] = "deleted" /\ location[o] \in Locations => "attached" \notin flags[o]

(* Who is counted in mapCount                                                *)
Maps(t, o) == (o \in mapped[t] \/ Has(t, "unmap", o)) /\ ~Has(t, "map", o)
(* The threads that are counted.                                             *)
Mappers(o) == {t \in Threads : Maps(t, o)}
(* mapCount counts them.                                                     *)
MapCounts == \A o \in Objects : mapCount[o] = Cardinality(Mappers(o))

(* RESOURCE_MAPPED is set when the one load has come to an end, and as long  *)
(* as the object is mapped; then the data is there unless the load failed.   *)
Loading(t, o) == Has(t, "load", o) \/ Has(t, "loaded", o)
FlagsTell(o) ==
    /\ \A t \in Threads :
        /\ Loading(t, o) => "mapped" \notin flags[o]
        /\ Has(t, "unflag", o) => mapCount[o] = 0
        /\ Has(t, "check", o) => "mapped" \in flags[o]
        /\ Has(t, "loaded", o) /\ ok[t] => data[o]
        /\ o \in good[t] => data[o] /\ "mapped" \in flags[o]
    /\ \A t, u \in Threads : Loading(t, o) /\ Loading(u, o) => t = u
    /\ "mapped" \in flags[o] /\ mapCount[o] = 0 => \E u \in Threads : Has(u, "unflag", o)
    /\ "mapped" \in flags[o] /\ mapCount[o] # 0 /\ "invalid" \notin flags[o] => data[o]
(* The flags tell it of every object but those whose flag an UnMap may have  *)
(* cleared after a Map.                                                      *)
Flagged == \A o \in Objects \ overlapped : FlagsTell(o)

(* One thread uploads an object, its maker, and whatever tells it that the   *)
(* data is there comes after RESOURCE_MODIFIED.                              *)
UploadsTell(o) ==
    /\ \A t, u \in Threads : Has(t, "upload", o) /\ Has(u, "upload", o) => t = u
    /\ \A u \in Threads : Has(u, "upload", o) =>
        /\ "mapped" \in flags[o] /\ "invalid" \notin flags[o] => "modified" \in flags[o]
        /\ \A t \in Threads :
            Has(t, "check", o) /\ "invalid" \notin flags[o] => "modified" \in flags[o]
        /\ \A t \in Threads : Has(t, "loaded", o) /\ ok[t] => "modified" \in flags[o]
        /\ (\A l \in MapLabels : ~Has(u, l, o)) /\ ok[u] => "modified" \in flags[o]
(* It tells it of every object.                                              *)
Modified == \A o \in Objects : UploadsTell(o)

-----------------------------------------------------------------------------
(* The steps a thread has to do, as a set                                    *)
(* The steps a thread has to do, as a set. The label "removeAll" has no      *)
(* object.                                                                   *)
AllLabels == Labels \cup {"removeAll"}
Pairs == AllLabels \X (Objects \cup {NoObject})

(* The members of a sequence.                                                *)
StepsOf(s) == {s[i] : i \in 1 .. Len(s)}

(* The members of the empty sequence, of sequences of up to three, and of    *)
(* two sequences one behind the other.                                       *)
LEMMA StepsOfNone == StepsOf(<<>>) = {}
  BY DEF StepsOf

LEMMA StepsOfOne ==
    ASSUME NEW a PROVE StepsOf(<<a>>) = {a}
  BY DEF StepsOf

LEMMA StepsOfTwo ==
    ASSUME NEW a, NEW b PROVE StepsOf(<<a, b>>) = {a, b}
  BY DEF StepsOf

LEMMA StepsOfThree ==
    ASSUME NEW a, NEW b, NEW c PROVE StepsOf(<<a, b, c>>) = {a, b, c}
  BY DEF StepsOf

LEMMA StepsOfConcat ==
    ASSUME NEW S, NEW s \in Seq(S), NEW r \in Seq(S)
    PROVE  s \o r \in Seq(S) /\ StepsOf(s \o r) = StepsOf(s) \cup StepsOf(r)
  <1>1. s \o r \in Seq(S) /\ Len(s \o r) = Len(s) + Len(r)
    BY ConcatProperties
  <1>2. \A i \in 1 .. Len(s) : (s \o r)[i] = s[i]
    BY ConcatProperties
  <1>3. \A i \in 1 .. Len(r) : (s \o r)[Len(s) + i] = r[i]
    BY ConcatProperties, LenProperties
  <1>4. ASSUME NEW i \in 1 .. Len(s \o r) PROVE (s \o r)[i] \in StepsOf(s) \cup StepsOf(r)
    <2>1. CASE i <= Len(s)
      <3>1. i \in 1 .. Len(s)
        BY <2>1, LenProperties
      <3> QED
        BY <3>1, <1>2 DEF StepsOf
    <2>2. CASE i > Len(s)
      <3>1. i - Len(s) \in 1 .. Len(r) /\ Len(s) + (i - Len(s)) = i
        BY <2>2, <1>1, LenProperties
      <3> QED
        BY <3>1, <1>3 DEF StepsOf
    <2> QED
      BY <2>1, <2>2, LenProperties
  <1>5. ASSUME NEW i \in 1 .. Len(s) PROVE s[i] \in StepsOf(s \o r)
    <2>1. i \in 1 .. Len(s \o r)
      BY <1>1, LenProperties
    <2> QED
      BY <2>1, <1>2 DEF StepsOf
  <1>6. ASSUME NEW i \in 1 .. Len(r) PROVE r[i] \in StepsOf(s \o r)
    <2>1. Len(s) + i \in 1 .. Len(s \o r)
      BY <1>1, LenProperties
    <2> QED
      BY <2>1, <1>3 DEF StepsOf
  <1> QED
    BY <1>1, <1>4, <1>5, <1>6 DEF StepsOf

(* A step put before others: the first, the rest and the members of the new  *)
(* sequence.                                                                 *)
LEMMA ConsIs ==
    ASSUME NEW S, NEW x \in S, NEW s \in Seq(S)
    PROVE  /\ <<x>> \o s \in Seq(S) /\ <<x>> \o s # <<>>
           /\ Head(<<x>> \o s) = x /\ Tail(<<x>> \o s) = s
           /\ StepsOf(<<x>> \o s) = {x} \cup StepsOf(s)
  <1>1. <<x>> \in Seq(S) /\ Len(<<x>>) = 1
    OBVIOUS
  <1>a. StepsOf(<<x>>) = {x}
    BY StepsOfOne
  <1>2. StepsOf(<<x>> \o s) = {x} \cup StepsOf(s) /\ <<x>> \o s \in Seq(S)
    <2>1. StepsOf(<<x>> \o s) = StepsOf(<<x>>) \cup StepsOf(s) /\ <<x>> \o s \in Seq(S)
      BY <1>1, StepsOfConcat
    <2> QED
      BY <2>1, <1>a
  <1>3. Len(<<x>> \o s) = 1 + Len(s) /\ (<<x>> \o s)[1] = x
    BY <1>1, ConcatProperties
  <1>4. \A i \in 1 .. Len(s) : (<<x>> \o s)[1 + i] = s[i]
    BY <1>1, ConcatProperties, LenProperties
  <1>5. <<x>> \o s # <<>> /\ Head(<<x>> \o s) = x
    BY <1>2, <1>3, LenProperties
  <1>6. Tail(<<x>> \o s) = s
    BY <1>2, <1>3, <1>4, <1>5, LenProperties
  <1> QED
    BY <1>2, <1>5, <1>6

-----------------------------------------------------------------------------
(* The other steps of a thread that is at <<l, o>> *)
(* <<k, p>> may be another step of a thread whose first step is <<l, o>>.    *)
Beside(l, o, k, p) ==
    \/ l \in MapLabels /\ k \in {"upload", "unmap"} /\ p = o
    \/ l \in MapLabels /\ k = "release" /\ p \in Objects
    \/ l = "upload" /\ k = "unmap" /\ p = o
    \/ l = "unflag" /\ k = "drop" /\ p = o
    \/ l \in LetGoLabels \cup {"detach", "relock"} /\ k = "removeAll" /\ p = NoObject
    \/ l = "detach" /\ k \in {"relock", "last"} /\ p = o
    \/ l = "relock" /\ k = "last" /\ p = o

(* What comes behind a first step consists of steps that may come there, and *)
(* is a sequence of steps.                                                   *)
LEMMA TailsAre ==
    ASSUME NEW l \in Labels, NEW o \in Objects, NEW s \in Tails(l, o)
    PROVE  /\ s \in Seq(Pairs)
           /\ \A k, p : <<k, p>> \in StepsOf(s) => Beside(l, o, k, p)
  <1>1. NoObject \in Objects \cup {NoObject} /\ o \in Objects \cup {NoObject}
    OBVIOUS
  <1>2. CASE l \in MapLabels
    <2>1. s \in {<<>>, <<<<"upload", o>>>>, <<<<"upload", o>>, <<"unmap", o>>>>}
                            \cup {<<<<"release", e>>>> : e \in Objects}
      BY <1>2 DEF Tails, MapLabels, LetGoLabels
    <2>2. CASE s = <<>>
      BY <2>2, StepsOfNone
    <2>3. CASE s = <<<<"upload", o>>>>
      <3>1. <<"upload", o>> \in Pairs
        BY DEF Pairs, AllLabels, Labels, WorkLabels
      <3>2. StepsOf(s) = {<<"upload", o>>}
        BY <2>3, StepsOfOne
      <3> QED
        BY <2>3, <3>1, <3>2, <1>2 DEF Beside
    <2>4. CASE s = <<<<"upload", o>>, <<"unmap", o>>>>
      <3>1. <<"upload", o>> \in Pairs /\ <<"unmap", o>> \in Pairs
        BY DEF Pairs, AllLabels, Labels, WorkLabels
      <3>2. StepsOf(s) = {<<"upload", o>>, <<"unmap", o>>}
        BY <2>4, StepsOfTwo
      <3> QED
        BY <2>4, <3>1, <3>2, <1>2 DEF Beside
    <2>5. ASSUME NEW e \in Objects, s = <<<<"release", e>>>> 
          PROVE  s \in Seq(Pairs) /\ \A k, p : <<k, p>> \in StepsOf(s) => Beside(l, o, k, p)
      <3>1. <<"release", e>> \in Pairs
        BY DEF Pairs, AllLabels, Labels, LetGoLabels
      <3>2. StepsOf(s) = {<<"release", e>>}
        BY <2>5, StepsOfOne
      <3> QED
        BY <2>5, <3>1, <3>2, <1>2 DEF Beside
    <2> QED
      BY <2>1, <2>2, <2>3, <2>4, <2>5
  <1>3. CASE l = "upload"
    <2>1. s \in {<<>>, <<<<"unmap", o>>>>}
      BY <1>3 DEF Tails, MapLabels, LetGoLabels
    <2>2. CASE s = <<>>
      BY <2>2, StepsOfNone
    <2>3. CASE s = <<<<"unmap", o>>>>
      <3>1. <<"unmap", o>> \in Pairs
        BY DEF Pairs, AllLabels, Labels, WorkLabels
      <3>2. StepsOf(s) = {<<"unmap", o>>}
        BY <2>3, StepsOfOne
      <3> QED
        BY <2>3, <3>1, <3>2, <1>3 DEF Beside
    <2> QED
      BY <2>1, <2>2, <2>3
  <1>4. CASE l \in {"insert", "orphan", "unmap", "drop"}
    <2>1. s = <<>>
      BY <1>4 DEF Tails, MapLabels, LetGoLabels
    <2> QED
      BY <2>1, StepsOfNone
  <1>5. CASE l = "unflag"
    <2>1. s = <<<<"drop", o>>>>
      BY <1>5 DEF Tails, MapLabels, LetGoLabels
    <2>2. <<"drop", o>> \in Pairs
      BY DEF Pairs, AllLabels, Labels, WorkLabels
    <2>3. StepsOf(s) = {<<"drop", o>>}
      BY <2>1, StepsOfOne
    <2> QED
      BY <2>1, <2>2, <2>3, <1>5 DEF Beside
  <1>6. <<"removeAll", NoObject>> \in Pairs
    BY DEF Pairs, AllLabels
  <1>7. CASE l \in LetGoLabels
    <2>1. s \in {<<>>, <<<<"removeAll", NoObject>>>>}
      BY <1>7 DEF Tails, MapLabels, LetGoLabels
    <2>2. CASE s = <<>>
      BY <2>2, StepsOfNone
    <2>3. CASE s = <<<<"removeAll", NoObject>>>>
      <3>1. StepsOf(s) = {<<"removeAll", NoObject>>}
        BY <2>3, StepsOfOne
      <3> QED
        BY <2>3, <3>1, <1>6, <1>7 DEF Beside
    <2> QED
      BY <2>1, <2>2, <2>3
  <1>8. <<"relock", o>> \in Pairs /\ <<"last", o>> \in Pairs
    BY DEF Pairs, AllLabels, Labels, LetGoLabels
  <1>9. CASE l = "detach"
    <2>1. s \in {<<<<"relock", o>>, <<"last", o>>>>,
          <<<<"relock", o>>, <<"last", o>>, <<"removeAll", NoObject>>>>}
      BY <1>9 DEF Tails, MapLabels, LetGoLabels
    <2>2. CASE s = <<<<"relock", o>>, <<"last", o>>>>
      <3>1. StepsOf(s) = {<<"relock", o>>, <<"last", o>>}
        BY <2>2, StepsOfTwo
      <3> QED
        BY <2>2, <3>1, <1>8, <1>9 DEF Beside
    <2>3. CASE s = <<<<"relock", o>>, <<"last", o>>, <<"removeAll", NoObject>>>>
      <3>1. StepsOf(s) = {<<"relock", o>>, <<"last", o>>, <<"removeAll", NoObject>>}
        BY <2>3, StepsOfThree
      <3> QED
        BY <2>3, <3>1, <1>6, <1>8, <1>9 DEF Beside
    <2> QED
      BY <2>1, <2>2, <2>3
  <1>10. CASE l = "relock"
    <2>1. s \in {<<<<"last", o>>>>, <<<<"last", o>>, <<"removeAll", NoObject>>>>}
      BY <1>10 DEF Tails, MapLabels, LetGoLabels
    <2>2. CASE s = <<<<"last", o>>>>
      <3>1. StepsOf(s) = {<<"last", o>>}
        BY <2>2, StepsOfOne
      <3> QED
        BY <2>2, <3>1, <1>8, <1>10 DEF Beside
    <2>3. CASE s = <<<<"last", o>>, <<"removeAll", NoObject>>>>
      <3>1. StepsOf(s) = {<<"last", o>>, <<"removeAll", NoObject>>}
        BY <2>3, StepsOfTwo
      <3> QED
        BY <2>3, <3>1, <1>6, <1>8, <1>10 DEF Beside
    <2> QED
      BY <2>1, <2>2, <2>3
  <1> QED
    BY <1>2, <1>3, <1>4, <1>5, <1>7, <1>9, <1>10 DEF Labels, WorkLabels

(* The step of a thread that comes first is not among the others.            *)
LEMMA BesideOther ==
    ASSUME NEW l, NEW o
    PROVE  ~Beside(l, o, l, o)
  BY DEF Beside, MapLabels, LetGoLabels

(* A thread at <<l, o>>: that is its first step, an object has one of the    *)
(* labels of objects, and behind it come steps that may.                     *)
LEMMA AtIs ==
    ASSUME Shaped, NEW t \in Threads, NEW l, NEW o, At(t, l, o)
    PROVE  /\ <<l, o>> \in Pairs
           /\ \E s \in Seq(Pairs) :
                /\ todo[t] = <<<<l, o>>>> \o s
                /\ IF o \in Objects THEN l \in Labels /\ s \in Tails(l, o)
                                    ELSE s = <<>> /\ o = NoObject /\ l \in {"relock", "removeAll"}
                /\ \A k, p : <<k, p>> \in StepsOf(s) => Beside(l, o, k, p)
  <1>1. todo[t] # <<>> /\ Head(todo[t]) = <<l, o>>
    BY DEF At, Idle
  <1>2. NoObject \notin Objects
    BY ResourceAssumption
  <1>3. ASSUME NEW q \in Objects, NEW k \in Labels,
               NEW s \in Tails(k, q), todo[t] = <<<<k, q>>>> \o s
        PROVE  k = l /\ q = o /\ <<l, o>> \in Pairs /\ s \in Seq(Pairs)
               /\ \A kk, p : <<kk, p>> \in StepsOf(s) => Beside(l, o, kk, p)
    <2>1. s \in Seq(Pairs) /\ \A kk, p : <<kk, p>> \in StepsOf(s) => Beside(k, q, kk, p)
      BY TailsAre
    <2>2. <<k, q>> \in Pairs
      BY DEF Pairs, AllLabels
    <2>3. Head(todo[t]) = <<k, q>>
      BY <2>1, <2>2, <1>3, ConsIs
    <2>4. <<k, q>> = <<l, o>>
      BY <2>3, <1>1
    <2>5. k = l /\ q = o
      BY <2>4
    <2> QED
      BY <2>1, <2>2, <2>5
  <1>4. ASSUME NEW k \in {"relock", "removeAll"}, todo[t] = <<<<k, NoObject>>>>
        PROVE  k = l /\ o = NoObject /\ <<l, o>> \in Pairs /\ todo[t] = <<<<l, o>>>> \o <<>>
    <2>1. Head(todo[t]) = <<k, NoObject>>
      BY <1>4
    <2>2. <<k, NoObject>> = <<l, o>>
      BY <2>1, <1>1
    <2>3. k = l /\ NoObject = o
      BY <2>2
    <2>4. <<k, NoObject>> \in Pairs
      BY DEF Pairs, AllLabels, Labels
    <2>5. <<<<l, o>>>> \o <<>> = <<<<l, o>>>>
      <3>1. <<<<l, o>>>> \in Seq(Pairs)
        BY <2>3, <2>4
      <3> QED
        BY <3>1, ConcatEmptySeq
    <2> QED
      BY <2>3, <2>4, <2>5, <1>4
  <1>5. CASE \E q \in Objects, k \in Labels : \E s \in Tails(k, q) : todo[t] = <<<<k, q>>>> \o s
    BY <1>5, <1>3
  <1>6. CASE todo[t] = <<<<"relock", NoObject>>>> \/ todo[t] = <<<<"removeAll", NoObject>>>>
    <2>1. PICK k \in {"relock", "removeAll"} : todo[t] = <<<<k, NoObject>>>>
      BY <1>6
    <2>2. k = l /\ o = NoObject /\ <<l, o>> \in Pairs /\ todo[t] = <<<<l, o>>>> \o <<>>
      BY <2>1, <1>4
    <2>3. <<>> \in Seq(Pairs)
      OBVIOUS
    <2> QED
      BY <2>2, <2>3, <1>2, StepsOfNone
  <1> QED
    BY <1>1, <1>5, <1>6 DEF Shaped, WellFormed

(* To have a step is to have it among the steps of the rest of the call.     *)
LEMMA HasIs ==
    ASSUME NEW t, NEW k, NEW p
    PROVE  Has(t, k, p) <=> <<k, p>> \in StepsOf(todo[t])
  BY DEF Has, StepsOf

(* What a thread has to do beside its first step may come behind it.         *)
LEMMA Only ==
    ASSUME Shaped, NEW t \in Threads, NEW l, NEW o, At(t, l, o)
    PROVE  Has(t, l, o) /\ \A k, p : Has(t, k, p) => (k = l /\ p = o) \/ Beside(l, o, k, p)
  <1>1. PICK s \in Seq(Pairs) : todo[t] = <<<<l, o>>>> \o s
                /\ \A k, p : <<k, p>> \in StepsOf(s) => Beside(l, o, k, p)
    BY AtIs
  <1>2. <<l, o>> \in Pairs
    BY AtIs
  <1>3. StepsOf(todo[t]) = {<<l, o>>} \cup StepsOf(s)
    BY <1>1, <1>2, ConsIs
  <1>4. \A k, p : <<k, p>> = <<l, o>> => k = l /\ p = o
    OBVIOUS
  <1> QED
    BY <1>1, <1>3, <1>4, HasIs

(* The step <<l, o>> of t is replaced by those of S.                         *)
Puts(t, l, o, S) ==
    \A u \in Threads : \A k, p :
        Has(u, k, p)' <=> IF u = t THEN <<k, p>> \in S \/ (Has(u, k, p) /\ ~(k = l /\ p = o))
                                   ELSE Has(u, k, p)

(* A step that goes on with r puts the steps of r in the place of its own.   *)
LEMMA ThenPuts ==
    ASSUME Shaped, NEW t \in Threads, NEW l, NEW o, At(t, l, o),
           NEW steps \in Seq(Pairs), Then(t, steps)
    PROVE  Puts(t, l, o, StepsOf(steps))
  <1>1. PICK s \in Seq(Pairs) : todo[t] = <<<<l, o>>>> \o s
                /\ \A k, p : <<k, p>> \in StepsOf(s) => Beside(l, o, k, p)
    BY AtIs
  <1>2. <<l, o>> \in Pairs
    BY AtIs
  <1>3. StepsOf(todo[t]) = {<<l, o>>} \cup StepsOf(s) /\ Tail(todo[t]) = s
    <2>1. /\ Tail(<<<<l, o>>>> \o s) = s
          /\ StepsOf(<<<<l, o>>>> \o s) = {<<l, o>>} \cup StepsOf(s)
      BY <1>2, ConsIs
    <2> QED
      BY <2>1, <1>1
  <1>4. todo' = [todo EXCEPT ![t] = steps \o s]
    BY <1>3 DEF Then
  <1>5. todo'[t] = steps \o s /\ \A u \in Threads : u # t => todo'[u] = todo[u]
    BY <1>4 DEF Shaped
  <1>6. StepsOf(todo'[t]) = StepsOf(steps) \cup StepsOf(s)
    BY <1>5, StepsOfConcat
  <1>7. ~Beside(l, o, l, o)
    BY BesideOther
  <1>8. \A k, p : <<k, p>> \in StepsOf(s) <=> (<<k, p>> \in StepsOf(todo[t]) /\ ~(k = l /\ p = o))
    <2>1. \A k, p : <<k, p>> = <<l, o>> <=> k = l /\ p = o
      OBVIOUS
    <2> QED
      BY <1>1, <1>3, <1>7, <2>1
  <1>9. ASSUME NEW u \in Threads, NEW k, NEW p
        PROVE  Has(u, k, p)' <=> <<k, p>> \in StepsOf(todo'[u])
    BY DEF Has, StepsOf
  <1>10. ASSUME NEW u \in Threads, NEW k, NEW p
         PROVE  Has(u, k, p)' <=> IF u = t THEN <<k, p>> \in StepsOf(steps)
                \/ (Has(u, k, p) /\ ~(k = l /\ p = o))
                                   ELSE Has(u, k, p)
    <2>1. CASE u = t
      BY <2>1, <1>6, <1>8, <1>9, HasIs
    <2>2. CASE u # t
      BY <2>2, <1>5, <1>9, HasIs
    <2> QED
      BY <2>1, <2>2
  <1> QED
    BY <1>10 DEF Puts

(* A call of an idle thread gives it the steps of r and takes none away.     *)
LEMMA CallPuts ==
    ASSUME DOMAIN todo = Threads, NEW t \in Threads, NEW steps, Call(t, steps), NEW l, NEW o
    PROVE  Puts(t, l, o, StepsOf(steps)) /\ \A k, p : ~Has(t, k, p)
  <1>1. todo'[t] = steps /\ \A u \in Threads : u # t => todo'[u] = todo[u]
    BY DEF Call
  <1>2. todo[t] = <<>>
    BY DEF Call, Idle
  <1>3. \A k, p : ~Has(t, k, p)
    BY <1>2, HasIs, StepsOfNone
  <1>4. ASSUME NEW u \in Threads, NEW k, NEW p
        PROVE  Has(u, k, p)' <=> <<k, p>> \in StepsOf(todo'[u])
    BY DEF Has, StepsOf
  <1>5. ASSUME NEW u \in Threads, NEW k, NEW p
         PROVE  Has(u, k, p)' <=> IF u = t THEN <<k, p>> \in StepsOf(steps)
                \/ (Has(u, k, p) /\ ~(k = l /\ p = o))
                                   ELSE Has(u, k, p)
    <2>1. CASE u = t
      BY <2>1, <1>1, <1>3, <1>4
    <2>2. CASE u # t
      BY <2>2, <1>1, <1>4, HasIs
    <2> QED
      BY <2>1, <2>2
  <1> QED
    BY <1>3, <1>5 DEF Puts

-----------------------------------------------------------------------------
(* Well-formed calls                                                         *)

(* The calls stay well-formed when one of them becomes another well-formed   *)
(* one.                                                                      *)
LEMMA ShapedAfter ==
    ASSUME Shaped, NEW t \in Threads, NEW x, todo' = [todo EXCEPT ![t] = x], WellFormed(x)
    PROVE  Shaped'
  <1>1. DOMAIN todo' = Threads /\ todo'[t] = x /\ \A u \in Threads : u # t => todo'[u] = todo[u]
    BY DEF Shaped
  <1>2. \A u \in Threads : WellFormed(todo'[u])
    BY <1>1 DEF Shaped
  <1> QED
    BY <1>1, <1>2 DEF Shaped, WellFormed

(* A sequence of two is one step before one other.                           *)
LEMMA PairIsCons ==
    ASSUME NEW a \in Pairs, NEW b \in Pairs
    PROVE  <<a, b>> = <<a>> \o <<b>>
  <1>1. <<a>> \in Seq(Pairs) /\ <<b>> \in Seq(Pairs) /\ Len(<<a>>) = 1 /\ Len(<<b>>) = 1
    OBVIOUS
  <1>2. <<a, b>> \in Seq(Pairs) /\ Len(<<a, b>>) = 2
    OBVIOUS
  <1>3. <<a>> \o <<b>> \in Seq(Pairs) /\ Len(<<a>> \o <<b>>) = 2
    BY <1>1, ConcatProperties
  <1>4. (<<a>> \o <<b>>)[1] = a /\ (<<a>> \o <<b>>)[2] = b
    BY <1>1, ConcatProperties
  <1>5. \A i \in 1 .. 2 : (<<a>> \o <<b>>)[i] = <<a, b>>[i]
    BY <1>4
  <1> QED
    BY <1>2, <1>3, <1>5, SeqEqual

(* A sequence of three is one step before two others.                        *)
LEMMA TripleIsCons ==
    ASSUME NEW a \in Pairs, NEW b \in Pairs, NEW c \in Pairs
    PROVE  <<a, b, c>> = <<a>> \o <<b, c>> /\ <<a, b>> \o <<c>> = <<a, b, c>>
  <1>1. /\ <<a>> \in Seq(Pairs) /\ <<c>> \in Seq(Pairs) /\ Len(<<a>>) = 1 /\ Len(<<c>>) = 1
        /\ <<a, b>> \in Seq(Pairs) /\ <<b, c>> \in Seq(Pairs) /\ Len(<<a, b>>) = 2
            /\ Len(<<b, c>>) = 2
    OBVIOUS
  <1>2. <<a, b, c>> \in Seq(Pairs) /\ Len(<<a, b, c>>) = 3
    OBVIOUS
  <1>3. <<a>> \o <<b, c>> \in Seq(Pairs) /\ Len(<<a>> \o <<b, c>>) = 3
    BY <1>1, ConcatProperties
  <1>4. \A i \in 1 .. 3 : (<<a>> \o <<b, c>>)[i] = <<a, b, c>>[i]
    <2>1. (<<a>> \o <<b, c>>)[1] = a /\ (<<a>> \o <<b, c>>)[2] = b /\ (<<a>> \o <<b, c>>)[3] = c
      BY <1>1, ConcatProperties
    <2> QED
      BY <2>1
  <1>5. <<a, b>> \o <<c>> \in Seq(Pairs) /\ Len(<<a, b>> \o <<c>>) = 3
    BY <1>1, ConcatProperties
  <1>6. \A i \in 1 .. 3 : (<<a, b>> \o <<c>>)[i] = <<a, b, c>>[i]
    <2>1. (<<a, b>> \o <<c>>)[1] = a /\ (<<a, b>> \o <<c>>)[2] = b /\ (<<a, b>> \o <<c>>)[3] = c
      BY <1>1, ConcatProperties
    <2> QED
      BY <2>1
  <1> QED
    BY <1>2, <1>3, <1>4, <1>5, <1>6, SeqEqual

(* A label and an object are a step.                                         *)
LEMMA PairsAre ==
    ASSUME NEW o \in Objects \cup {NoObject}, NEW l \in AllLabels
    PROVE  <<l, o>> \in Pairs
  BY DEF Pairs

(* A step alone is a well-formed call.                                       *)
LEMMA OneFormed ==
    ASSUME NEW o \in Objects, NEW l \in Labels \ {"unflag", "detach", "relock"}
    PROVE  WellFormed(<<<<l, o>>>>) /\ <<<<l, o>>>> \in Seq(Pairs)
  <1>1. <<l, o>> \in Pairs
    BY PairsAre DEF AllLabels
  <1>2. <<<<l, o>>>> = <<<<l, o>>>> \o <<>> /\ <<<<l, o>>>> \in Seq(Pairs)
    BY <1>1, ConcatEmptySeq
  <1>3. <<>> \in Tails(l, o)
    BY DEF Tails, Labels, WorkLabels, MapLabels, LetGoLabels
  <1> QED
    BY <1>2, <1>3 DEF WellFormed

(* The first step gives way to one that may have the same behind it.         *)
LEMMA Relabel ==
    ASSUME Shaped, NEW t \in Threads, NEW l \in Labels, NEW k \in Labels,
           NEW o \in Objects, At(t, l, o),
           Tails(l, o) \subseteq Tails(k, o), Then(t, <<<<k, o>>>>)
    PROVE  Shaped' /\ Puts(t, l, o, {<<k, o>>})
  <1>1. PICK s \in Seq(Pairs) : todo[t] = <<<<l, o>>>> \o s /\ s \in Tails(l, o)
    BY AtIs
  <1>2. <<k, o>> \in Pairs /\ <<l, o>> \in Pairs
    BY PairsAre DEF AllLabels
  <1>3. Tail(todo[t]) = s
    BY <1>1, <1>2, ConsIs
  <1>4. todo' = [todo EXCEPT ![t] = <<<<k, o>>>> \o s]
    BY <1>3 DEF Then
  <1>5. WellFormed(<<<<k, o>>>> \o s)
    BY <1>1 DEF WellFormed
  <1>6. StepsOf(<<<<k, o>>>>) = {<<k, o>>}
    BY StepsOfOne
  <1>7. <<<<k, o>>>> \in Seq(Pairs)
    BY <1>2
  <1> QED
    BY <1>4, <1>5, <1>6, <1>7, ShapedAfter, ThenPuts

(* The first step is done.                                                   *)
LEMMA Pop ==
    ASSUME Shaped, NEW t \in Threads, NEW l, NEW o, At(t, l, o), Then(t, <<>>)
    PROVE  Shaped' /\ Puts(t, l, o, {})
  <1>1. PICK s \in Seq(Pairs) : 
            /\ todo[t] = <<<<l, o>>>> \o s 
            /\ IF o \in Objects THEN l \in Labels /\ s \in Tails(l, o)
                                    ELSE s = <<>> /\ o = NoObject /\ l \in {"relock", "removeAll"}
    BY AtIs
  <1>2. <<l, o>> \in Pairs
    BY AtIs
  <1>3. Tail(todo[t]) = s
    BY <1>1, <1>2, ConsIs
  <1>4. <<>> \o s = s /\ <<>> \in Seq(Pairs)
    BY ConcatEmptySeq
  <1>5. todo' = [todo EXCEPT ![t] = s]
    BY <1>3, <1>4 DEF Then
  <1>6. WellFormed(s)
    <2>1. CASE s = <<>>
      BY <2>1 DEF WellFormed
    <2>2. ASSUME NEW e \in Objects, s = <<<<"release", e>>>> PROVE WellFormed(s)
      BY <2>2, OneFormed DEF Labels, LetGoLabels
    <2>3. CASE o \in Objects /\ s = <<<<"upload", o>>>>
      BY <2>3, OneFormed DEF Labels, WorkLabels
    <2>4. CASE o \in Objects /\ s = <<<<"unmap", o>>>>
      BY <2>4, OneFormed DEF Labels, WorkLabels
    <2>5. CASE o \in Objects /\ s = <<<<"drop", o>>>>
      BY <2>5, OneFormed DEF Labels, WorkLabels
    <2>6. CASE o \in Objects /\ s = <<<<"last", o>>>>
      BY <2>6, OneFormed DEF Labels, LetGoLabels
    <2>7. CASE s = <<<<"removeAll", NoObject>>>>
      BY <2>7 DEF WellFormed
    <2>8. CASE o \in Objects /\ s = <<<<"upload", o>>, <<"unmap", o>>>>
      <3>1. <<"upload", o>> \in Pairs /\ <<"unmap", o>> \in Pairs
        BY <2>8, PairsAre DEF AllLabels, Labels, WorkLabels
      <3>2. s = <<<<"upload", o>>>> \o <<<<"unmap", o>>>>
        BY <3>1, <2>8, PairIsCons
      <3>3. <<<<"unmap", o>>>> \in Tails("upload", o)
        BY DEF Tails, MapLabels, LetGoLabels
      <3>4. "upload" \in Labels
        BY DEF Labels, WorkLabels
      <3> QED
        BY <3>2, <3>3, <3>4, <2>8 DEF WellFormed
    <2>9. CASE o \in Objects /\ s = <<<<"last", o>>, <<"removeAll", NoObject>>>>
      <3>1. <<"last", o>> \in Pairs /\ <<"removeAll", NoObject>> \in Pairs
        BY <2>9, PairsAre DEF AllLabels, Labels, LetGoLabels
      <3>2. s = <<<<"last", o>>>> \o <<<<"removeAll", NoObject>>>>
        BY <3>1, <2>9, PairIsCons
      <3>3. <<<<"removeAll", NoObject>>>> \in Tails("last", o)
        BY DEF Tails, MapLabels, LetGoLabels
      <3>4. "last" \in Labels
        BY DEF Labels, LetGoLabels
      <3> QED
        BY <3>2, <3>3, <3>4, <2>9 DEF WellFormed
    <2>10. <<"relock", o>> \in Pairs /\ <<"last", o>> \in Pairs
           /\ <<"removeAll", NoObject>> \in Pairs
      BY <1>2, PairsAre DEF Pairs, AllLabels, Labels, LetGoLabels
    <2>11. CASE o \in Objects /\ s = <<<<"relock", o>>, <<"last", o>>>>
      <3>2. s = <<<<"relock", o>>>> \o <<<<"last", o>>>>
        BY <2>10, <2>11, PairIsCons
      <3>3. <<<<"last", o>>>> \in Tails("relock", o)
        BY DEF Tails, MapLabels, LetGoLabels
      <3>4. "relock" \in Labels
        BY DEF Labels
      <3> QED
        BY <3>2, <3>3, <3>4, <2>11 DEF WellFormed
    <2>12. CASE o \in Objects /\ s = <<<<"relock", o>>, <<"last", o>>, <<"removeAll", NoObject>>>>
      <3>2. s = <<<<"relock", o>>>> \o <<<<"last", o>>, <<"removeAll", NoObject>>>>
        BY <2>10, <2>12, TripleIsCons
      <3>3. <<<<"last", o>>, <<"removeAll", NoObject>>>> \in Tails("relock", o)
        BY DEF Tails, MapLabels, LetGoLabels
      <3>4. "relock" \in Labels
        BY DEF Labels
      <3> QED
        BY <3>2, <3>3, <3>4, <2>12 DEF WellFormed
    <2> DEFINE Known == 
          \/ s = <<>> \/ s = <<<<"removeAll", NoObject>>>>
          \/ \E e \in Objects : s = <<<<"release", e>>>>
          \/ o \in Objects /\ s \in {<<<<"upload", o>>>>, <<<<"unmap", o>>>>,
              <<<<"drop", o>>>>, <<<<"last", o>>>>,
                <<<<"upload", o>>, <<"unmap", o>>>>, <<<<"last", o>>, <<"removeAll", NoObject>>>>,
                <<<<"relock", o>>, <<"last", o>>>>,
                    <<<<"relock", o>>, <<"last", o>>, <<"removeAll", NoObject>>>>}
    <2>13. Known
      <3>1. CASE o \notin Objects
        BY <3>1, <1>1
      <3>2. CASE o \in Objects
        <4>1. l \in Labels /\ s \in Tails(l, o)
          BY <3>2, <1>1
        <4>2. CASE l \in MapLabels
          BY <4>1, <4>2, <3>2 DEF Tails, MapLabels, LetGoLabels
        <4>3. CASE l = "upload"
          BY <4>1, <4>3, <3>2 DEF Tails, MapLabels, LetGoLabels
        <4>4. CASE l \in {"insert", "orphan", "unmap", "drop"}
          BY <4>1, <4>4, <3>2 DEF Tails, MapLabels, LetGoLabels
        <4>5. CASE l = "unflag"
          BY <4>1, <4>5, <3>2 DEF Tails, MapLabels, LetGoLabels
        <4>6. CASE l \in LetGoLabels
          BY <4>1, <4>6, <3>2 DEF Tails, MapLabels, LetGoLabels
        <4>7. CASE l = "detach"
          BY <4>1, <4>7, <3>2 DEF Tails, MapLabels, LetGoLabels
        <4>8. CASE l = "relock"
          BY <4>1, <4>8, <3>2 DEF Tails, MapLabels, LetGoLabels
        <4> QED
          BY <4>1, <4>2, <4>3, <4>4, <4>5, <4>6, <4>7, <4>8 DEF Labels, WorkLabels
      <3> QED
        BY <3>1, <3>2
    <2> QED
      BY <2>13, <2>1, <2>2, <2>3, <2>4, <2>5, <2>6, <2>7, <2>8, <2>9, <2>11, <2>12
  <1>7. StepsOf(<<>>) = {}
    BY StepsOfNone
  <1> QED
    BY <1>4, <1>5, <1>6, <1>7, ShapedAfter, ThenPuts

(* The first step was the last one.                                          *)
LEMMA ThenAll ==
    ASSUME Shaped, NEW t \in Threads, NEW l, NEW o, At(t, l, o),
           l \in {"insert", "unmap", "orphan", "removeAll"},
           NEW steps \in Seq(Pairs), WellFormed(steps), Then(t, steps)
    PROVE  Shaped' /\ Puts(t, l, o, StepsOf(steps))
  <1>1. PICK s \in Seq(Pairs) : 
            /\ todo[t] = <<<<l, o>>>> \o s 
            /\ IF o \in Objects THEN l \in Labels /\ s \in Tails(l, o)
                                    ELSE s = <<>> /\ o = NoObject /\ l \in {"relock", "removeAll"}
    BY AtIs
  <1>2. <<l, o>> \in Pairs
    BY AtIs
  <1>3. Tail(todo[t]) = s
    BY <1>1, <1>2, ConsIs
  <1>4. s = <<>>
    <2>1. CASE o \in Objects
      <3>1. l \in Labels /\ s \in Tails(l, o)
        BY <2>1, <1>1
      <3>2. l \in {"insert", "unmap", "orphan"}
        BY <3>1 DEF Labels, WorkLabels, MapLabels, LetGoLabels
      <3> QED
        BY <3>1, <3>2 DEF Tails, MapLabels, LetGoLabels
    <2> QED
      BY <2>1, <1>1
  <1>5. steps \o s = steps
    BY <1>4, ConcatEmptySeq
  <1>6. todo' = [todo EXCEPT ![t] = steps]
    BY <1>3, <1>5 DEF Then
  <1> QED
    BY <1>6, ShapedAfter, ThenPuts

(* A call with a well-formed rest: the shape is kept and the thread has its  *)
(* steps.                                                                    *)
LEMMA CallAll ==
    ASSUME Shaped, NEW t \in Threads, NEW steps, WellFormed(steps), Call(t, steps)
    PROVE  Shaped' /\ Puts(t, "none", NoObject, StepsOf(steps)) /\ \A k, p : ~Has(t, k, p)
  <1>1. todo' = [todo EXCEPT ![t] = steps]
    BY DEF Call
  <1>2. DOMAIN todo = Threads
    BY DEF Shaped
  <1> QED
    BY <1>1, <1>2, ShapedAfter, CallPuts

-----------------------------------------------------------------------------
(* What a step puts in the place of another                                  *)

(* The labels one by one, and which are among which.                         *)
LEMMA LabelsAre ==
    /\ WorkLabels \subseteq Labels /\ LetGoLabels \subseteq Labels /\ MapLabels \subseteq Labels
    /\ {"insert", "orphan", "detach", "relock", "map", "load", "loaded", "wait", "check",
        "upload", "unmap",
        "unflag", "drop", "release", "destroy", "remove", "last"} = Labels
    /\ OweLabels \subseteq Labels /\ Labels \subseteq AllLabels /\ "removeAll" \in AllLabels
  BY DEF Labels, WorkLabels, MapLabels, LetGoLabels, OweLabels, AllLabels

(* The calls of several steps are well-formed.                               *)
LEMMA TwoFormed ==
    ASSUME NEW o \in Objects, NEW e \in Objects
    PROVE  /\ <<<<"map", o>>, <<"upload", o>>>> = <<<<"map", o>>>> \o <<<<"upload", o>>>>
           /\ WellFormed(<<<<"map", o>>, <<"upload", o>>>>)
           /\ WellFormed(<<<<"map", e>>, <<"release", o>>>>)
           /\ WellFormed(<<<<"release", o>>, <<"removeAll", NoObject>>>>)
           /\ WellFormed(<<<<"unflag", o>>, <<"drop", o>>>>)
           /\ WellFormed(<<<<"map", o>>, <<"upload", o>>, <<"unmap", o>>>>)
  <1> DEFINE M(x) == <<"map", x>>  U == <<"upload", o>>  N == <<"unmap", o>>  R == <<"release", o>>
             A == <<"removeAll", NoObject>>  F == <<"unflag", o>>  D == <<"drop", o>>
  <1>1. /\ M(o) \in Pairs /\ M(e) \in Pairs /\ U \in Pairs /\ N \in Pairs /\ R \in Pairs
           /\ A \in Pairs
        /\ F \in Pairs /\ D \in Pairs
    BY PairsAre, LabelsAre
  <1>2. /\ <<U>> \in Tails("map", o) /\ <<U, N>> \in Tails("map", o) /\ <<R>> \in Tails("map", e)
        /\ <<A>> \in Tails("release", o) /\ <<D>> \in Tails("unflag", o)
    BY DEF Tails, MapLabels, LetGoLabels
  <1>3. "map" \in Labels /\ "release" \in Labels /\ "unflag" \in Labels
    BY LabelsAre
  <1> HIDE DEF M, U, N, R, A, F, D
  <1>4. <<M(o), U>> = <<M(o)>> \o <<U>> /\ <<M(e), R>> = <<M(e)>> \o <<R>>
    BY <1>1, PairIsCons
  <1>5. <<R, A>> = <<R>> \o <<A>> /\ <<F, D>> = <<F>> \o <<D>>
    BY <1>1, PairIsCons
  <1>6. <<M(o), U, N>> = <<M(o)>> \o <<U, N>>
    BY <1>1, TripleIsCons
  <1>7. /\ WellFormed(<<<<"map", o>>>> \o <<U>>) /\ WellFormed(<<<<"map", o>>>> \o <<U, N>>)
        /\ WellFormed(<<<<"map", e>>>> \o <<R>>) /\ WellFormed(<<<<"release", o>>>> \o <<A>>)
        /\ WellFormed(<<<<"unflag", o>>>> \o <<D>>)
    BY <1>2, <1>3 DEF WellFormed
  <1> QED
    BY <1>4, <1>5, <1>6, <1>7 DEF M, U, N, R, A, F, D

(* Nothing left to do is a well-formed call.                                 *)
LEMMA NoneFormed ==
    /\ WellFormed(<<>>) /\ WellFormed(<<<<"relock", NoObject>>>>)
        /\ WellFormed(<<<<"removeAll", NoObject>>>>)
    /\ <<>> \in Seq(Pairs) /\ <<<<"relock", NoObject>>>> \in Seq(Pairs)
        /\ <<<<"removeAll", NoObject>>>> \in Seq(Pairs)
  <1>1. <<"relock", NoObject>> \in Pairs /\ <<"removeAll", NoObject>> \in Pairs
    BY PairsAre, LabelsAre
  <1> QED
    BY <1>1 DEF WellFormed

(* CreateExisting: the call stays well-formed, and the steps it puts in the  *)
(* place of its own.                                                         *)
LEMMA CreateExistingPuts ==
    ASSUME Typed, Shaped, NEW t \in Threads, NEW l \in Locations,
           NEW fl \in CreateFlags, CreateExisting(t, l, fl)
    PROVE  /\ resourceMap[l] \in Objects /\ Shaped' /\ \A k, p : ~Has(t, k, p)
           /\ \/ Obtain(t, resourceMap[l], fl)
                 /\ Puts(t, "none", NoObject, IF "mapped" \in fl
                     THEN {<<"map", resourceMap[l]>>} ELSE {})
              \/ UNCHANGED <<held, mapped>> /\ Puts(t, "none", NoObject,
                  {<<"release", resourceMap[l]>>})
  <1>1. PICK o : o = resourceMap[l]
    OBVIOUS
  <1>2. o \in Objects
    BY <1>1 DEF CreateExisting, Typed, TypeOK
  <1>3. \/ Obtain(t, o, fl) /\ Call(t, IF "mapped" \in fl THEN <<<<"map", o>>>> ELSE <<>>)
        \/ Call(t, <<<<"release", o>>>>) /\ UNCHANGED <<held, mapped>>
    BY <1>1 DEF CreateExisting
  <1>4. /\ WellFormed(<<<<"map", o>>>>) /\ WellFormed(<<<<"release", o>>>>) /\ WellFormed(<<>>)
        /\ StepsOf(<<>>) = {} /\ StepsOf(<<<<"map", o>>>>) = {<<"map", o>>}
        /\ StepsOf(<<<<"release", o>>>>) = {<<"release", o>>}
    BY <1>2, OneFormed, NoneFormed, LabelsAre, StepsOfNone, StepsOfOne
  <1>5. CASE Obtain(t, o, fl) /\ Call(t, IF "mapped" \in fl THEN <<<<"map", o>>>> ELSE <<>>)
    <2>1. CASE "mapped" \in fl
      <3>1. Call(t, <<<<"map", o>>>>)
        BY <2>1, <1>5
      <3> QED
        BY <3>1, <2>1, <1>1, <1>2, <1>4, <1>5, CallAll
    <2>2. CASE "mapped" \notin fl
      <3>1. Call(t, <<>>)
        BY <2>2, <1>5
      <3> QED
        BY <3>1, <2>2, <1>1, <1>2, <1>4, <1>5, CallAll
    <2> QED
      BY <2>1, <2>2
  <1>6. CASE Call(t, <<<<"release", o>>>>) /\ UNCHANGED <<held, mapped>>
    BY <1>1, <1>2, <1>4, <1>6, CallAll
  <1> QED
    BY <1>3, <1>5, <1>6

(* What CreateNew does to the object it makes.                               *)
Creates(t, l, fl, o) ==
    /\ state[o] = "unborn" /\ Shaped' /\ \A k, p : ~Has(t, k, p)
    /\ Puts(t, "none", NoObject, {<<"insert", o>>})
    /\ state' = [state EXCEPT ![o] = "live"]
    /\ location' = [location EXCEPT ![o] = l]
    /\ flags' = [flags EXCEPT ![o] = {"orphan"} \cup (fl \ {"mapped"})]
    /\ referCount' = Add(referCount, o, 1)

(* CreateNew: the call stays well-formed, and the steps it puts in the place *)
(* of its own.                                                               *)
LEMMA CreateNewPuts ==
    ASSUME Typed, Shaped, NEW t \in Threads, NEW l \in Locations \cup {Anonymous},
           NEW fl \in CreateFlags,
           CreateNew(t, l, fl)
    PROVE  \E o \in Objects : Creates(t, l, fl, o)
  <1>1. PICK o : o = CHOOSE q \in Unborn : TRUE
    OBVIOUS
  <1>2. o \in Unborn
    BY <1>1 DEF CreateNew
  <1>3. o \in Objects /\ state[o] = "unborn"
    BY <1>2 DEF Unborn
  <1>4. /\ Call(t, <<<<"insert", o>>>>)
        /\ state' = [state EXCEPT ![o] = "live"]
        /\ location' = [location EXCEPT ![o] = l]
        /\ flags' = [flags EXCEPT ![o] = {"orphan"} \cup (fl \ {"mapped"})]
        /\ referCount' = Add(referCount, o, 1)
    BY <1>1 DEF CreateNew
  <1>5. WellFormed(<<<<"insert", o>>>>) /\ StepsOf(<<<<"insert", o>>>>) = {<<"insert", o>>}
    BY <1>3, OneFormed, LabelsAre, StepsOfOne
  <1> QED
    BY <1>3, <1>4, <1>5, CallAll DEF Creates

(* InsertExisting: the call stays well-formed, and the steps it puts in the  *)
(* place of its own.                                                         *)
LEMMA InsertExistingPuts ==
    ASSUME Typed, Shaped, NEW t \in Threads, NEW o \in Objects, InsertExisting(t, o)
    PROVE  /\ resourceMap[location[o]] \in Objects /\ location[o] \in Locations /\ Shaped'
           /\ Puts(t, "insert", o, (IF "mapped" \in request[t]
               THEN {<<"map", resourceMap[location[o]]>>} ELSE {})
                                   \cup {<<"release", o>>})
  <1>1. PICK e : e = resourceMap[location[o]]
    OBVIOUS
  <1>2. e \in Objects /\ location[o] \in Locations
    BY <1>1 DEF InsertExisting, Typed, TypeOK
  <1>3. At(t, "insert", o) /\ Then(t, UseExist(t, e) \o <<<<"release", o>>>>)
    BY <1>1 DEF InsertExisting
  <1>4. /\ WellFormed(<<<<"release", o>>>>) /\ WellFormed(<<<<"map", e>>, <<"release", o>>>>)
        /\ <<<<"release", o>>>> \in Seq(Pairs) /\ <<"release", o>> \in Pairs
            /\ <<"map", e>> \in Pairs
        /\ StepsOf(<<<<"release", o>>>>) = {<<"release", o>>}
        /\ StepsOf(<<<<"map", e>>, <<"release", o>>>>) = {<<"map", e>>, <<"release", o>>}
    BY <1>2, OneFormed, TwoFormed, LabelsAre, PairsAre, StepsOfOne, StepsOfTwo
  <1>5. CASE "mapped" \in request[t]
    <2>1. UseExist(t, e) \o <<<<"release", o>>>> = <<<<"map", e>>, <<"release", o>>>>
      BY <1>4, <1>5, PairIsCons DEF UseExist
    <2>2. Then(t, <<<<"map", e>>, <<"release", o>>>>)
      BY <1>3, <2>1
    <2>3. /\ <<<<"map", e>>, <<"release", o>>>> \in Seq(Pairs)
          /\ WellFormed(<<<<"map", e>>, <<"release", o>>>>)
      BY <1>4
    <2>4. Shaped' /\ Puts(t, "insert", o, StepsOf(<<<<"map", e>>, <<"release", o>>>>))
      BY <2>2, <2>3, <1>3, ThenAll
    <2>5. StepsOf(<<<<"map", e>>, <<"release", o>>>>) = {<<"map", e>>} \cup {<<"release", o>>}
      BY <1>4
    <2> QED
      BY <2>4, <2>5, <1>1, <1>2, <1>5
  <1>6. CASE "mapped" \notin request[t]
    <2>1. UseExist(t, e) \o <<<<"release", o>>>> = <<<<"release", o>>>>
      BY <1>4, <1>6, ConcatEmptySeq DEF UseExist
    <2>2. Then(t, <<<<"release", o>>>>)
      BY <1>3, <2>1
    <2>3. <<<<"release", o>>>> \in Seq(Pairs) /\ WellFormed(<<<<"release", o>>>>)
      BY <1>4
    <2>4. Shaped' /\ Puts(t, "insert", o, StepsOf(<<<<"release", o>>>>))
      BY <2>2, <2>3, <1>3, ThenAll
    <2>5. StepsOf(<<<<"release", o>>>>) = {} \cup {<<"release", o>>}
      BY <1>4
    <2> QED
      BY <2>4, <2>5, <1>1, <1>2, <1>6
  <1> QED
    BY <1>5, <1>6

(* The steps of UseNew: a Map, the upload and the UnMap of a new object, by  *)
(* the flags of CreateResource.                                              *)
StepsNew(fl, o) ==
    {x \in {<<"map", o>>, <<"upload", o>>, <<"unmap", o>>} :
        IF "manual" \in fl THEN "mapped" \in fl /\ x = <<"map", o>>
                           ELSE "mapped" \in fl => x # <<"unmap", o>>}

(* Insert: the call stays well-formed, and the steps it puts in the place of *)
(* its own.                                                                  *)
LEMMA InsertPuts ==
    ASSUME Typed, Shaped, NEW t \in Threads, NEW o \in Objects, Insert(t, o)
    PROVE  Shaped' /\ Puts(t, "insert", o, StepsNew(request[t], o))
  <1>1. PICK fl : fl = request[t]
    OBVIOUS
  <1>2. At(t, "insert", o) /\ Then(t, UseNew(fl, o))
    BY <1>1 DEF Insert
  <1> DEFINE M == <<"map", o>>  U == <<"upload", o>>  N == <<"unmap", o>>
  <1>3. M \in Pairs /\ U \in Pairs /\ N \in Pairs
    BY PairsAre, LabelsAre
  <1>4. WellFormed(<<>>) /\ WellFormed(<<M>>) /\ WellFormed(<<M, U>>) /\ WellFormed(<<M, U, N>>)
    BY OneFormed, TwoFormed, NoneFormed, LabelsAre
  <1>5. M # U /\ M # N /\ U # N
    OBVIOUS
  <1> HIDE DEF M, U, N
  <1>6. /\ <<>> \in Seq(Pairs) /\ <<M>> \in Seq(Pairs) /\ <<M, U>> \in Seq(Pairs)
           /\ <<M, U, N>> \in Seq(Pairs)
    BY <1>3
  <1>7. /\ StepsOf(<<>>) = {} /\ StepsOf(<<M>>) = {M} /\ StepsOf(<<M, U>>) = {M, U}
        /\ StepsOf(<<M, U, N>>) = {M, U, N}
    BY StepsOfNone, StepsOfOne, StepsOfTwo, StepsOfThree
  <1>8. <<M, U>> \o <<N>> = <<M, U, N>> /\ <<M, U>> \o <<>> = <<M, U>>
    BY <1>3, <1>6, TripleIsCons, ConcatEmptySeq
  <1>9. UseNew(fl, o) = IF "manual" \in fl
                        THEN IF "mapped" \in fl THEN <<M>> ELSE <<>>
                        ELSE <<M, U>> \o (IF "mapped" \in fl THEN <<>> ELSE <<N>>)
    BY DEF UseNew, M, U, N
  <1>10. StepsNew(fl, o) = {x \in {M, U, N} : IF "manual" \in fl THEN "mapped" \in fl /\ x = M
                                                 ELSE "mapped" \in fl => x # N}
    BY DEF StepsNew, M, U, N
  <1>11. WellFormed(UseNew(fl, o)) /\ UseNew(fl, o) \in Seq(Pairs)
         /\ StepsOf(UseNew(fl, o)) = StepsNew(fl, o)
    <2>1. CASE "manual" \in fl /\ "mapped" \in fl
      <3>1. UseNew(fl, o) = <<M>>
        BY <2>1, <1>9
      <3>2. StepsNew(fl, o) = {M}
        BY <2>1, <1>10
      <3> QED
        BY <3>1, <3>2, <1>4, <1>6, <1>7
    <2>2. CASE "manual" \in fl /\ "mapped" \notin fl
      <3>1. UseNew(fl, o) = <<>>
        BY <2>2, <1>9
      <3>2. StepsNew(fl, o) = {}
        BY <2>2, <1>10
      <3> QED
        BY <3>1, <3>2, <1>4, <1>6, <1>7
    <2>3. CASE "manual" \notin fl /\ "mapped" \in fl
      <3>1. UseNew(fl, o) = <<M, U>>
        BY <2>3, <1>8, <1>9
      <3>2. StepsNew(fl, o) = {M, U}
        BY <2>3, <1>5, <1>10
      <3> QED
        BY <3>1, <3>2, <1>4, <1>6, <1>7
    <2>4. CASE "manual" \notin fl /\ "mapped" \notin fl
      <3>1. UseNew(fl, o) = <<M, U, N>>
        BY <2>4, <1>8, <1>9
      <3>2. StepsNew(fl, o) = {M, U, N}
        BY <2>4, <1>5, <1>10
      <3> QED
        BY <3>1, <3>2, <1>4, <1>6, <1>7
    <2> QED
      BY <2>1, <2>2, <2>3, <2>4
  <1> QED
    BY <1>1, <1>2, <1>11, ThenAll

(* A call of a single step.                                                  *)
LEMMA CallPutsOne ==
    ASSUME Shaped, NEW t \in Threads, NEW o \in Objects, NEW l \in {"map", "unmap", "release"},
           Call(t, <<<<l, o>>>>)
    PROVE  Shaped' /\ Puts(t, "none", NoObject, {<<l, o>>}) /\ \A k, p : ~Has(t, k, p)
  <1>1. WellFormed(<<<<l, o>>>>) /\ StepsOf(<<<<l, o>>>>) = {<<l, o>>}
    BY OneFormed, LabelsAre, StepsOfOne
  <1> QED
    BY <1>1, CallAll

(* What may come behind a step of a map may come behind any other, and so    *)
(* for an object that is let go.                                             *)
LEMMA TailsSame ==
    ASSUME NEW o \in Objects
    PROVE  /\ \A k, l \in MapLabels : Tails(k, o) \subseteq Tails(l, o)
           /\ \A k, l \in LetGoLabels : Tails(k, o) \subseteq Tails(l, o)
  <1>1. \A k, l \in MapLabels : Tails(k, o) = Tails(l, o)
    BY DEF Tails, MapLabels, LetGoLabels
  <1>2. \A k \in LetGoLabels : Tails(k, o) = {<<>>, <<<<"removeAll", NoObject>>>>}
    BY DEF Tails, MapLabels, LetGoLabels
  <1> QED
    BY <1>1, <1>2

(* A step of a map gives way to the next one.                                *)
LEMMA RelabelMap ==
    ASSUME Shaped, NEW t \in Threads, NEW l \in MapLabels, NEW k \in MapLabels, NEW o \in Objects,
           At(t, l, o), Then(t, <<<<k, o>>>>)
    PROVE  Shaped' /\ Puts(t, l, o, {<<k, o>>})
  BY Relabel, TailsSame, LabelsAre

(* A step of an object that is let go gives way to the next one.             *)
LEMMA RelabelLetGo ==
    ASSUME Shaped, NEW t \in Threads, NEW l \in LetGoLabels, NEW k \in LetGoLabels,
           NEW o \in Objects,
           At(t, l, o), Then(t, <<<<k, o>>>>)
    PROVE  Shaped' /\ Puts(t, l, o, {<<k, o>>})
  BY Relabel, TailsSame, LabelsAre

(* MapCount: the call stays well-formed, and the steps it puts in the place  *)
(* of its own.                                                               *)
LEMMA MapCountPuts ==
    ASSUME Shaped, NEW t \in Threads, NEW o \in Objects, MapCount(t, o)
    PROVE  Shaped' /\ Puts(t, "map", o, {<<IF mapCount[o] = 0 THEN "load" ELSE "wait", o>>})
  <1>1. CASE mapCount[o] = 0
    <2>1. At(t, "map", o) /\ Then(t, <<<<"load", o>>>>)
      BY <1>1 DEF MapCount
    <2> QED
      BY <2>1, <1>1, RelabelMap DEF MapLabels
  <1>2. CASE mapCount[o] # 0
    <2>1. At(t, "map", o) /\ Then(t, <<<<"wait", o>>>>)
      BY <1>2 DEF MapCount
    <2> QED
      BY <2>1, <1>2, RelabelMap DEF MapLabels
  <1> QED
    BY <1>1, <1>2

(* MapWait: the call stays well-formed, and the steps it puts in the place   *)
(* of its own.                                                               *)
LEMMA MapWaitPuts ==
    ASSUME Shaped, NEW t \in Threads, NEW o \in Objects, MapWait(t, o)
    PROVE  Shaped' /\ Puts(t, "wait", o, {<<"check", o>>})
  BY RelabelMap DEF MapLabels, MapWait

(* Load: the call stays well-formed, and the steps it puts in the place of   *)
(* its own.                                                                  *)
LEMMA LoadPuts ==
    ASSUME Shaped, NEW t \in Threads, NEW o \in Objects, Load(t, o)
    PROVE  Shaped' /\ Puts(t, "load", o, {<<"loaded", o>>})
  <1>1. At(t, "load", o) /\ Then(t, <<<<"loaded", o>>>>)
    BY DEF Load
  <1> QED
    BY <1>1, RelabelMap DEF MapLabels

(* UnMapCount: the call stays well-formed, and the steps it puts in the      *)
(* place of its own.                                                         *)
LEMMA UnMapCountPuts ==
    ASSUME Shaped, NEW t \in Threads, NEW o \in Objects, UnMapCount(t, o)
    PROVE  Shaped' /\ Puts(t, "unmap", o, IF mapCount[o] = 1
           THEN {<<"unflag", o>>, <<"drop", o>>} ELSE {})
  <1>1. CASE mapCount[o] = 1
    <2>1. At(t, "unmap", o) /\ Then(t, <<<<"unflag", o>>, <<"drop", o>>>>)
      BY <1>1 DEF UnMapCount
    <2>2. WellFormed(<<<<"unflag", o>>, <<"drop", o>>>>)
      BY TwoFormed
    <2>3. <<"unflag", o>> \in Pairs /\ <<"drop", o>> \in Pairs
      BY PairsAre, LabelsAre
    <2>4. <<<<"unflag", o>>, <<"drop", o>>>> \in Seq(Pairs)
      BY <2>3
    <2>5. StepsOf(<<<<"unflag", o>>, <<"drop", o>>>>) = {<<"unflag", o>>, <<"drop", o>>}
      BY StepsOfTwo
    <2> QED
      BY <2>1, <2>2, <2>4, <2>5, <1>1, ThenAll
  <1>2. CASE mapCount[o] # 1
    <2>1. At(t, "unmap", o) /\ Then(t, <<>>)
      BY <1>2 DEF UnMapCount
    <2> QED
      BY <2>1, <1>2, Pop
  <1> QED
    BY <1>1, <1>2

(* Release: the call stays well-formed, and the steps it puts in the place   *)
(* of its own.                                                               *)
LEMMA ReleasePuts ==
    ASSUME Shaped, NEW t \in Threads, NEW o \in Objects, Release(t, o)
    PROVE  Shaped' /\ Puts(t, "release", o, IF referCount[o] = 1 THEN {<<"destroy", o>>} ELSE {})
  <1>1. CASE referCount[o] = 1
    <2>1. At(t, "release", o) /\ Then(t, <<<<"destroy", o>>>>)
      BY <1>1 DEF Release, Count
    <2> QED
      BY <2>1, <1>1, RelabelLetGo DEF LetGoLabels
  <1>2. CASE referCount[o] # 1
    <2>1. At(t, "release", o) /\ Then(t, <<>>)
      BY <1>2 DEF Release, Count
    <2> QED
      BY <2>1, <1>2, Pop
  <1> QED
    BY <1>1, <1>2

(* Destroy: the call stays well-formed, and the steps it puts in the place   *)
(* of its own.                                                               *)
LEMMA DestroyPuts ==
    ASSUME Shaped, NEW t \in Threads, NEW o \in Objects, Destroy(t, o)
    PROVE  Shaped' /\ Puts(t, "destroy", o,
           {<<IF "orphan" \in flags[o] THEN "last" ELSE "remove", o>>})
  <1>1. CASE "orphan" \in flags[o]
    <2>1. At(t, "destroy", o) /\ Then(t, <<<<"last", o>>>>)
      BY <1>1 DEF Destroy, Count
    <2> QED
      BY <2>1, <1>1, RelabelLetGo DEF LetGoLabels
  <1>2. CASE "orphan" \notin flags[o]
    <2>1. At(t, "destroy", o) /\ Then(t, <<<<"remove", o>>>>)
      BY <1>2 DEF Destroy, Count
    <2> QED
      BY <2>1, <1>2, RelabelLetGo DEF LetGoLabels
  <1> QED
    BY <1>1, <1>2

(* Remove: the call stays well-formed, and the steps it puts in the place of *)
(* its own.                                                                  *)
LEMMA RemovePuts ==
    ASSUME Shaped, NEW t \in Threads, NEW o \in Objects, Remove(t, o)
    PROVE  Shaped' /\ Puts(t, "remove", o, IF flags[o] \cap {"orphan", "eternal"} # {}
           THEN {<<"last", o>>}
           ELSE {<<"detach", o>>, <<"relock", o>>, <<"last", o>>})
  <1>1. CASE flags[o] \cap {"orphan", "eternal"} # {}
    <2>1. At(t, "remove", o) /\ Then(t, <<<<"last", o>>>>)
      BY <1>1 DEF Remove
    <2> QED
      BY <2>1, <1>1, RelabelLetGo DEF LetGoLabels
  <1>2. CASE flags[o] \cap {"orphan", "eternal"} = {}
    <2> DEFINE D == <<"detach", o>>  R == <<"relock", o>>  L == <<"last", o>>
               A == <<"removeAll", NoObject>>
    <2>1. At(t, "remove", o) /\ Then(t, <<D, R, L>>)
      BY <1>2 DEF Remove
    <2>2. PICK s \in Seq(Pairs) : todo[t] = <<<<"remove", o>>>> \o s /\ s \in Tails("remove", o)
      BY <2>1, AtIs
    <2>3. <<"remove", o>> \in Pairs /\ D \in Pairs /\ R \in Pairs /\ L \in Pairs /\ A \in Pairs
      BY PairsAre, LabelsAre
    <2>4. s = <<>> \/ s = <<A>>
      BY <2>2 DEF Tails, MapLabels, LetGoLabels
    <2>5. Tail(todo[t]) = s
      BY <2>2, <2>3, ConsIs
    <2>6. <<R, L>> \in Tails("detach", o) /\ <<R, L, A>> \in Tails("detach", o)
          /\ "detach" \in Labels
      BY LabelsAre DEF Tails, MapLabels, LetGoLabels
    <2>7. StepsOf(<<D, R, L>>) = {<<"detach", o>>, <<"relock", o>>, <<"last", o>>}
      BY StepsOfThree
    <2>8. WellFormed(<<<<"detach", o>>>> \o <<R, L>>)
          /\ WellFormed(<<<<"detach", o>>>> \o <<R, L, A>>)
      BY <2>6 DEF WellFormed
    <2>9. D = <<"detach", o>>
      OBVIOUS
    <2> HIDE DEF D, R, L, A
    <2>10. <<D, R, L>> \in Seq(Pairs) /\ <<R, L>> \in Seq(Pairs) /\ <<D>> \in Seq(Pairs)
           /\ <<A>> \in Seq(Pairs)
      BY <2>3
    <2>11. <<D, R, L>> = <<D>> \o <<R, L>> /\ <<R, L>> \o <<A>> = <<R, L, A>>
      BY <2>3, TripleIsCons
    <2>12. <<D, R, L>> \o <<A>> = <<D>> \o <<R, L, A>>
      <3>1. (<<D>> \o <<R, L>>) \o <<A>> = <<D>> \o (<<R, L>> \o <<A>>)
        BY <2>10, ConcatAssociative
      <3> QED
        BY <3>1, <2>11
    <2>13. <<D, R, L>> \o <<>> = <<D>> \o <<R, L>>
      BY <2>10, <2>11, ConcatEmptySeq
    <2>14. WellFormed(<<D, R, L>> \o s)
      BY <2>4, <2>8, <2>9, <2>12, <2>13
    <2>15. todo' = [todo EXCEPT ![t] = <<D, R, L>> \o s]
      BY <2>1, <2>5 DEF Then
    <2>16. Shaped'
      BY <2>14, <2>15, ShapedAfter
    <2>17. Puts(t, "remove", o, StepsOf(<<D, R, L>>))
      BY <2>1, <2>10, ThenPuts
    <2> QED
      BY <1>2, <2>7, <2>16, <2>17
  <1> QED
    BY <1>1, <1>2

(* Uninitialize: the call stays well-formed, and the steps it puts in the    *)
(* place of its own.                                                         *)
LEMMA UninitializePuts ==
    ASSUME Shaped, NEW t \in Threads, Uninitialize(t)
    PROVE  Shaped' /\ Puts(t, "none", NoObject, {<<"removeAll", NoObject>>})
           /\ \A k, p : ~Has(t, k, p)
  <1>1. StepsOf(<<<<"removeAll", NoObject>>>>) = {<<"removeAll", NoObject>>}
    BY StepsOfOne
  <1>2. Call(t, <<<<"removeAll", NoObject>>>>)
    BY DEF Uninitialize
  <1> QED
    BY <1>1, <1>2, NoneFormed, CallAll

(* RemoveAllDetach: the call stays well-formed, and the steps it puts in the *)
(* place of its own.                                                         *)
LEMMA RemoveAllDetachPuts ==
    ASSUME Typed, Shaped, NEW t \in Threads, RemoveAllDetach(t)
    PROVE  At(t, "removeAll", NoObject) /\ Shaped'
           /\ \E o \in removed : o \in Objects /\ Clear(o, {"attached"})
               /\ Puts(t, "removeAll", NoObject, {<<"orphan", o>>})
  <1>1. PICK o \in removed : Clear(o, {"attached"}) /\ Then(t, <<<<"orphan", o>>>>)
    BY DEF RemoveAllDetach
  <1>2. o \in Objects
    BY <1>1 DEF Typed
  <1>3. WellFormed(<<<<"orphan", o>>>>) /\ <<<<"orphan", o>>>> \in Seq(Pairs)
        /\ StepsOf(<<<<"orphan", o>>>>) = {<<"orphan", o>>}
    BY <1>2, OneFormed, LabelsAre, StepsOfOne
  <1>4. At(t, "removeAll", NoObject)
    BY DEF RemoveAllDetach
  <1> QED
    BY <1>1, <1>2, <1>3, <1>4, ThenAll

(* RemoveAllOrphan: the call stays well-formed, and the steps it puts in the *)
(* place of its own.                                                         *)
LEMMA RemoveAllOrphanPuts ==
    ASSUME Shaped, NEW t \in Threads, NEW o \in Objects, RemoveAllOrphan(t, o)
    PROVE  Shaped' /\ Puts(t, "orphan", o, {<<"removeAll", NoObject>>})
  <1>1. StepsOf(<<<<"removeAll", NoObject>>>>) = {<<"removeAll", NoObject>>}
    BY StepsOfOne
  <1>2. At(t, "orphan", o) /\ Then(t, <<<<"removeAll", NoObject>>>>)
    BY DEF RemoveAllOrphan
  <1> QED
    BY <1>1, <1>2, NoneFormed, ThenAll

(* RemoveAllRelease: the call stays well-formed, and the steps it puts in    *)
(* the place of its own.                                                     *)
LEMMA RemoveAllReleasePuts ==
    ASSUME Typed, Shaped, NEW t \in Threads, RemoveAllRelease(t)
    PROVE  At(t, "removeAll", NoObject) /\ Shaped' /\
           \/ externals = {} /\ UNCHANGED externals
               /\ Puts(t, "removeAll", NoObject, {<<"relock", NoObject>>})
           \/ \E o \in externals : o \in Objects /\ externals' = externals \ {o}
                /\ Puts(t, "removeAll", NoObject, {<<"release", o>>, <<"removeAll", NoObject>>})
  <1>1. At(t, "removeAll", NoObject)
    BY DEF RemoveAllRelease
  <1>2. CASE externals = {}
    <2>1. Then(t, <<<<"relock", NoObject>>>>) /\ UNCHANGED externals
      BY <1>2 DEF RemoveAllRelease
    <2>2. StepsOf(<<<<"relock", NoObject>>>>) = {<<"relock", NoObject>>}
      BY StepsOfOne
    <2> QED
      BY <2>1, <2>2, <1>1, <1>2, NoneFormed, ThenAll
  <1>3. CASE externals # {}
    <2>1. PICK o \in externals : externals' = externals \ {o}
               /\ Then(t, <<<<"release", o>>, <<"removeAll", NoObject>>>>)
      BY <1>3 DEF RemoveAllRelease
    <2>2. o \in Objects
      BY <2>1 DEF Typed
    <2>3. WellFormed(<<<<"release", o>>, <<"removeAll", NoObject>>>>)
      BY <2>2, TwoFormed
    <2>4. <<"release", o>> \in Pairs /\ <<"removeAll", NoObject>> \in Pairs
      BY <2>2, PairsAre, LabelsAre
    <2>5. <<<<"release", o>>, <<"removeAll", NoObject>>>> \in Seq(Pairs)
      BY <2>4
    <2>6. StepsOf(<<<<"release", o>>, <<"removeAll", NoObject>>>>)
          = {<<"release", o>>, <<"removeAll", NoObject>>}
      BY StepsOfTwo
    <2>7. Shaped' /\ Puts(t, "removeAll", NoObject,
          StepsOf(<<<<"release", o>>, <<"removeAll", NoObject>>>>))
      BY <2>1, <2>3, <2>5, <1>1, ThenAll
    <2> QED
      BY <2>1, <2>2, <2>6, <2>7, <1>1
  <1> QED
    BY <1>2, <1>3

-----------------------------------------------------------------------------
(* Every step takes a step of its thread and goes on to others               *)

(* t is at the step <<l, o>> and goes on to those of S.                      *)
Takes(t, l, o, S) ==
    /\ Has(t, l, o) /\ \A k, p : Has(t, k, p) => (k = l /\ p = o) \/ Beside(l, o, k, p)
    /\ Puts(t, l, o, S)

(* MapCount: the step it takes and those it goes on to.                      *)
LEMMA MapCountTakes ==
    ASSUME Typed, Shaped, NEW t \in Threads, NEW o \in Objects, MapCount(t, o)
    PROVE  Shaped' /\ Takes(t, "map", o, {<<IF mapCount[o] = 0 THEN "load" ELSE "wait", o>>})
  <1>1. At(t, "map", o)
    BY DEF MapCount
  <1>3. Shaped' /\ Puts(t, "map", o, {<<IF mapCount[o] = 0 THEN "load" ELSE "wait", o>>})
    BY MapCountPuts
  <1> QED
    BY <1>1, <1>3, Only DEF Takes

(* Load: the step it takes and those it goes on to.                          *)
LEMMA LoadTakes ==
    ASSUME Typed, Shaped, NEW t \in Threads, NEW o \in Objects, Load(t, o)
    PROVE  Shaped' /\ Takes(t, "load", o, {<<"loaded", o>>})
  <1>1. At(t, "load", o)
    BY DEF Load
  <1>3. Shaped' /\ Puts(t, "load", o, {<<"loaded", o>>})
    BY LoadPuts
  <1> QED
    BY <1>1, <1>3, Only DEF Takes

(* MapLoaded: the step it takes and those it goes on to.                     *)
LEMMA MapLoadedTakes ==
    ASSUME Typed, Shaped, NEW t \in Threads, NEW o \in Objects, MapLoaded(t, o)
    PROVE  Shaped' /\ Takes(t, "loaded", o, {})
  <1>1. At(t, "loaded", o)
    BY DEF MapLoaded
  <1>2. Then(t, <<>>)
    BY DEF MapLoaded
  <1>3. Shaped' /\ Puts(t, "loaded", o, {})
    BY <1>1, <1>2, Pop
  <1> QED
    BY <1>1, <1>3, Only DEF Takes

(* MapWait: the step it takes and those it goes on to.                       *)
LEMMA MapWaitTakes ==
    ASSUME Typed, Shaped, NEW t \in Threads, NEW o \in Objects, MapWait(t, o)
    PROVE  Shaped' /\ Takes(t, "wait", o, {<<"check", o>>})
  <1>1. At(t, "wait", o)
    BY DEF MapWait
  <1>3. Shaped' /\ Puts(t, "wait", o, {<<"check", o>>})
    BY MapWaitPuts
  <1> QED
    BY <1>1, <1>3, Only DEF Takes

(* MapCheck: the step it takes and those it goes on to.                      *)
LEMMA MapCheckTakes ==
    ASSUME Typed, Shaped, NEW t \in Threads, NEW o \in Objects, MapCheck(t, o)
    PROVE  Shaped' /\ Takes(t, "check", o, {})
  <1>1. At(t, "check", o)
    BY DEF MapCheck
  <1>2. Then(t, <<>>)
    BY DEF MapCheck
  <1>3. Shaped' /\ Puts(t, "check", o, {})
    BY <1>1, <1>2, Pop
  <1> QED
    BY <1>1, <1>3, Only DEF Takes

(* Upload: the step it takes and those it goes on to.                        *)
LEMMA UploadTakes ==
    ASSUME Typed, Shaped, NEW t \in Threads, NEW o \in Objects, Upload(t, o)
    PROVE  Shaped' /\ Takes(t, "upload", o, {})
  <1>1. At(t, "upload", o)
    BY DEF Upload
  <1>2. Then(t, <<>>)
    BY DEF Upload
  <1>3. Shaped' /\ Puts(t, "upload", o, {})
    BY <1>1, <1>2, Pop
  <1> QED
    BY <1>1, <1>3, Only DEF Takes

(* UnMapCount: the step it takes and those it goes on to.                    *)
LEMMA UnMapCountTakes ==
    ASSUME Typed, Shaped, NEW t \in Threads, NEW o \in Objects, UnMapCount(t, o)
    PROVE  Shaped' /\ Takes(t, "unmap", o, IF mapCount[o] = 1
           THEN {<<"unflag", o>>, <<"drop", o>>} ELSE {})
  <1>1. At(t, "unmap", o)
    BY DEF UnMapCount
  <1>3. Shaped' /\ Puts(t, "unmap", o, IF mapCount[o] = 1 THEN {<<"unflag", o>>, <<"drop", o>>}
        ELSE {})
    BY UnMapCountPuts
  <1> QED
    BY <1>1, <1>3, Only DEF Takes

(* UnMapFlag: the step it takes and those it goes on to.                     *)
LEMMA UnMapFlagTakes ==
    ASSUME Typed, Shaped, NEW t \in Threads, NEW o \in Objects, UnMapFlag(t, o)
    PROVE  Shaped' /\ Takes(t, "unflag", o, {})
  <1>1. At(t, "unflag", o)
    BY DEF UnMapFlag
  <1>2. Then(t, <<>>)
    BY DEF UnMapFlag
  <1>3. Shaped' /\ Puts(t, "unflag", o, {})
    BY <1>1, <1>2, Pop
  <1> QED
    BY <1>1, <1>3, Only DEF Takes

(* DropData: the step it takes and those it goes on to.                      *)
LEMMA DropDataTakes ==
    ASSUME Typed, Shaped, NEW t \in Threads, NEW o \in Objects, DropData(t, o)
    PROVE  Shaped' /\ Takes(t, "drop", o, {})
  <1>1. At(t, "drop", o)
    BY DEF DropData
  <1>2. Then(t, <<>>)
    BY DEF DropData
  <1>3. Shaped' /\ Puts(t, "drop", o, {})
    BY <1>1, <1>2, Pop
  <1> QED
    BY <1>1, <1>3, Only DEF Takes

(* Release: the step it takes and those it goes on to.                       *)
LEMMA ReleaseTakes ==
    ASSUME Typed, Shaped, NEW t \in Threads, NEW o \in Objects, Release(t, o)
    PROVE  Shaped' /\ Takes(t, "release", o, IF referCount[o] = 1 THEN {<<"destroy", o>>} ELSE {})
  <1>1. At(t, "release", o)
    BY DEF Release
  <1>3. Shaped' /\ Puts(t, "release", o, IF referCount[o] = 1 THEN {<<"destroy", o>>} ELSE {})
    BY ReleasePuts
  <1> QED
    BY <1>1, <1>3, Only DEF Takes

(* Destroy: the step it takes and those it goes on to.                       *)
LEMMA DestroyTakes ==
    ASSUME Typed, Shaped, NEW t \in Threads, NEW o \in Objects, Destroy(t, o)
    PROVE  Shaped' /\ Takes(t, "destroy", o,
           {<<IF "orphan" \in flags[o] THEN "last" ELSE "remove", o>>})
  <1>1. At(t, "destroy", o)
    BY DEF Destroy
  <1>3. Shaped' /\ Puts(t, "destroy", o,
        {<<IF "orphan" \in flags[o] THEN "last" ELSE "remove", o>>})
    BY DestroyPuts
  <1> QED
    BY <1>1, <1>3, Only DEF Takes

(* Remove: the step it takes and those it goes on to.                        *)
LEMMA RemoveTakes ==
    ASSUME Typed, Shaped, NEW t \in Threads, NEW o \in Objects, Remove(t, o)
    PROVE  Shaped' /\ Takes(t, "remove", o, IF flags[o] \cap {"orphan", "eternal"} # {}
           THEN {<<"last", o>>}
                                ELSE {<<"detach", o>>, <<"relock", o>>, <<"last", o>>})
  <1>1. At(t, "remove", o)
    BY DEF Remove
  <1>3. Shaped' /\ Puts(t, "remove", o, IF flags[o] \cap {"orphan", "eternal"} # {}
        THEN {<<"last", o>>}
                                ELSE {<<"detach", o>>, <<"relock", o>>, <<"last", o>>})
    BY RemovePuts
  <1> QED
    BY <1>1, <1>3, Only DEF Takes

(* Detach: the step it takes and those it goes on to.                        *)
LEMMA DetachTakes ==
    ASSUME Typed, Shaped, NEW t \in Threads, NEW o \in Objects, Detach(t, o)
    PROVE  Shaped' /\ Takes(t, "detach", o, {})
  <1>1. At(t, "detach", o)
    BY DEF Detach
  <1>2. Then(t, <<>>)
    BY DEF Detach
  <1>3. Shaped' /\ Puts(t, "detach", o, {})
    BY <1>1, <1>2, Pop
  <1> QED
    BY <1>1, <1>3, Only DEF Takes

(* Last: the step it takes and those it goes on to.                          *)
LEMMA LastTakes ==
    ASSUME Typed, Shaped, NEW t \in Threads, NEW o \in Objects, Last(t, o)
    PROVE  Shaped' /\ Takes(t, "last", o, {})
  <1>1. At(t, "last", o)
    BY DEF Last
  <1>2. Then(t, <<>>)
    BY DEF Last, Count
  <1>3. Shaped' /\ Puts(t, "last", o, {})
    BY <1>1, <1>2, Pop
  <1> QED
    BY <1>1, <1>3, Only DEF Takes

(* InsertExisting: the step it takes and those it goes on to.                *)
LEMMA InsertExistingTakes ==
    ASSUME Typed, Shaped, NEW t \in Threads, NEW o \in Objects, InsertExisting(t, o)
    PROVE  Shaped' /\ Takes(t, "insert", o,
           (IF "mapped" \in request[t] THEN {<<"map", resourceMap[location[o]]>>} ELSE {})
                                \cup {<<"release", o>>})
  <1>1. At(t, "insert", o)
    BY DEF InsertExisting
  <1>3. Shaped' /\ Puts(t, "insert", o,
        (IF "mapped" \in request[t] THEN {<<"map", resourceMap[location[o]]>>} ELSE {})
                                \cup {<<"release", o>>})
    BY InsertExistingPuts
  <1> QED
    BY <1>1, <1>3, Only DEF Takes

(* Insert: the step it takes and those it goes on to.                        *)
LEMMA InsertTakes ==
    ASSUME Typed, Shaped, NEW t \in Threads, NEW o \in Objects, Insert(t, o)
    PROVE  Shaped' /\ Takes(t, "insert", o, StepsNew(request[t], o))
  <1>1. At(t, "insert", o)
    BY DEF Insert
  <1>3. Shaped' /\ Puts(t, "insert", o, StepsNew(request[t], o))
    BY InsertPuts
  <1> QED
    BY <1>1, <1>3, Only DEF Takes

(* RemoveAllOrphan: the step it takes and those it goes on to.               *)
LEMMA RemoveAllOrphanTakes ==
    ASSUME Typed, Shaped, NEW t \in Threads, NEW o \in Objects, RemoveAllOrphan(t, o)
    PROVE  Shaped' /\ Takes(t, "orphan", o, {<<"removeAll", NoObject>>})
  <1>1. At(t, "orphan", o)
    BY DEF RemoveAllOrphan
  <1>3. Shaped' /\ Puts(t, "orphan", o, {<<"removeAll", NoObject>>})
    BY RemoveAllOrphanPuts
  <1> QED
    BY <1>1, <1>3, Only DEF Takes

(* Relock: the step it takes and those it goes on to.                        *)
LEMMA RelockTakes ==
    ASSUME Typed, Shaped, NEW t \in Threads, NEW o \in Objects \cup {NoObject}, Relock(t, o)
    PROVE  Shaped' /\ Takes(t, "relock", o, {})
  <1>1. At(t, "relock", o) /\ Then(t, <<>>)
    BY DEF Relock
  <1>3. Shaped' /\ Puts(t, "relock", o, {})
    BY <1>1, Pop
  <1> QED
    BY <1>1, <1>3, Only DEF Takes

(* RemoveAllDetach: the step it takes and those it goes on to.               *)
LEMMA RemoveAllDetachTakes ==
    ASSUME Typed, Shaped, NEW t \in Threads, RemoveAllDetach(t)
    PROVE  /\ Shaped'
           /\ \E o \in removed : o \in Objects /\ Clear(o, {"attached"})
                /\ Takes(t, "removeAll", NoObject, {<<"orphan", o>>})
  <1>1. At(t, "removeAll", NoObject) /\ Shaped'
    BY RemoveAllDetachPuts
  <1>2. PICK o \in removed : o \in Objects /\ Clear(o, {"attached"})
             /\ Puts(t, "removeAll", NoObject, {<<"orphan", o>>})
    BY RemoveAllDetachPuts
  <1>3. Takes(t, "removeAll", NoObject, {<<"orphan", o>>})
    BY <1>1, <1>2, Only DEF Takes
  <1> QED
    BY <1>1, <1>2, <1>3

(* RemoveAllRelease: the step it takes and those it goes on to.              *)
LEMMA RemoveAllReleaseTakes ==
    ASSUME Typed, Shaped, NEW t \in Threads, RemoveAllRelease(t)
    PROVE  Shaped' /\
           \/ externals = {} /\ UNCHANGED externals
               /\ Takes(t, "removeAll", NoObject, {<<"relock", NoObject>>})
           \/ \E o \in externals : o \in Objects /\ externals' = externals \ {o}
                /\ Takes(t, "removeAll", NoObject, {<<"release", o>>, <<"removeAll", NoObject>>})
  <1>1. At(t, "removeAll", NoObject) /\ Shaped'
    BY RemoveAllReleasePuts
  <1>2. CASE externals = {} /\ UNCHANGED externals
             /\ Puts(t, "removeAll", NoObject, {<<"relock", NoObject>>})
    <2>1. Takes(t, "removeAll", NoObject, {<<"relock", NoObject>>})
      BY <1>1, <1>2, Only DEF Takes
    <2> QED
      BY <1>1, <1>2, <2>1
  <1>3. ASSUME NEW o \in externals, o \in Objects, externals' = externals \ {o},
               Puts(t, "removeAll", NoObject, {<<"release", o>>, <<"removeAll", NoObject>>})
        PROVE  Takes(t, "removeAll", NoObject, {<<"release", o>>, <<"removeAll", NoObject>>})
    BY <1>1, <1>3, Only DEF Takes
  <1> QED
    BY <1>1, <1>2, <1>3, RemoveAllReleasePuts

(* t begins a call, gives something back, or does its next step.             *)
Moves(t) == Calls(t) \/ GivesBack(t) \/ Step(t)

-----------------------------------------------------------------------------
(* Types *)
(* UnMapCall keeps the types.                                                *)
LEMMA UnMapCallTyped ==
    ASSUME Typed, NEW t \in Threads, NEW o \in Objects, UnMapCall(t, o)
    PROVE  Typed'
  BY DEF Typed, TypeOK, UnMapCall, Add, LoadExist, object, closing

(* ReleaseCall keeps the types.                                              *)
LEMMA ReleaseCallTyped ==
    ASSUME Typed, NEW t \in Threads, NEW o \in Objects, ReleaseCall(t, o)
    PROVE  Typed'
  BY DEF Typed, TypeOK, ReleaseCall, Add, LoadExist, object, closing

(* MapCount keeps the types.                                                 *)
LEMMA MapCountTyped ==
    ASSUME Typed, NEW t \in Threads, NEW o \in Objects, MapCount(t, o)
    PROVE  Typed'
  BY DEF Typed, TypeOK, MapCount, Add, LoadExist, object, client, closing

(* MapLoaded keeps the types.                                                *)
LEMMA MapLoadedTyped ==
    ASSUME Typed, NEW t \in Threads, NEW o \in Objects, MapLoaded(t, o)
    PROVE  Typed'
  BY DEF Typed, TypeOK, MapLoaded, Add, Raise, LoadExist, MapReturns, object, closing

(* MapWait keeps the types.                                                  *)
LEMMA MapWaitTyped ==
    ASSUME Typed, NEW t \in Threads, NEW o \in Objects, MapWait(t, o)
    PROVE  Typed'
  BY DEF Typed, TypeOK, MapWait, Add, LoadExist, object, client, closing

(* MapCheck keeps the types.                                                 *)
LEMMA MapCheckTyped ==
    ASSUME Typed, NEW t \in Threads, NEW o \in Objects, MapCheck(t, o)
    PROVE  Typed'
  BY DEF Typed, TypeOK, MapCheck, Add, LoadExist, MapReturns, object, closing

(* UnMapCount keeps the types.                                               *)
LEMMA UnMapCountTyped ==
    ASSUME Typed, NEW t \in Threads, NEW o \in Objects, UnMapCount(t, o)
    PROVE  Typed'
  BY DEF Typed, TypeOK, UnMapCount, Add, LoadExist, object, client, closing

(* UnMapFlag keeps the types.                                                *)
LEMMA UnMapFlagTyped ==
    ASSUME Typed, NEW t \in Threads, NEW o \in Objects, UnMapFlag(t, o)
    PROVE  Typed'
  BY DEF Typed, TypeOK, UnMapFlag, Add, Clear, LoadExist, object, client, closing

(* DropData keeps the types.                                                 *)
LEMMA DropDataTyped ==
    ASSUME Typed, NEW t \in Threads, NEW o \in Objects, DropData(t, o)
    PROVE  Typed'
  BY DEF Typed, TypeOK, DropData, Add, LoadExist, object, client, closing

(* Release keeps the types.                                                  *)
LEMMA ReleaseTyped ==
    ASSUME Typed, NEW t \in Threads, NEW o \in Objects, Release(t, o)
    PROVE  Typed'
  BY DEF Typed, TypeOK, Release, Add, Count, LoadExist, object, client, closing

(* Destroy keeps the types.                                                  *)
LEMMA DestroyTyped ==
    ASSUME Typed, NEW t \in Threads, NEW o \in Objects, Destroy(t, o)
    PROVE  Typed'
  BY DEF Typed, TypeOK, Destroy, Add, Count, LoadExist, object, client, closing

(* Remove keeps the types.                                                   *)
LEMMA RemoveTyped ==
    ASSUME Typed, NEW t \in Threads, NEW o \in Objects, Remove(t, o)
    PROVE  Typed'
  BY DEF Typed, TypeOK, Remove, Add, Raise, LoadExist, object, client, closing

(* Detach keeps the types.                                                   *)
LEMMA DetachTyped ==
    ASSUME Typed, NEW t \in Threads, NEW o \in Objects, Detach(t, o)
    PROVE  Typed'
  BY DEF Typed, TypeOK, Detach, Add, Clear, LoadExist, object, client, closing

(* Last keeps the types.                                                     *)
LEMMA LastTyped ==
    ASSUME Typed, NEW t \in Threads, NEW o \in Objects, Last(t, o)
    PROVE  Typed'
  BY DEF Typed, TypeOK, Last, Add, Count, LoadExist, object, client, closing

(* InsertExisting keeps the types.                                           *)
LEMMA InsertExistingTyped ==
    ASSUME Typed, NEW t \in Threads, NEW o \in Objects, InsertExisting(t, o)
    PROVE  Typed'
  BY DEF Typed, TypeOK, InsertExisting, Add, Obtain, LoadExist, object, closing

(* Insert keeps the types.                                                   *)
LEMMA InsertTyped ==
    ASSUME Typed, NEW t \in Threads, NEW o \in Objects, Insert(t, o)
    PROVE  Typed'
  BY DEF Typed, TypeOK, Insert, Add, Raise, Obtain, LoadExist, object, closing

(* RemoveAllOrphan keeps the types.                                          *)
LEMMA RemoveAllOrphanTyped ==
    ASSUME Typed, NEW t \in Threads, NEW o \in Objects, RemoveAllOrphan(t, o)
    PROVE  Typed'
  BY DEF Typed, TypeOK, RemoveAllOrphan, Add, Raise, LoadExist, object, client

(* MapCall keeps the types.                                                  *)
LEMMA MapCallTyped ==
    ASSUME Typed, NEW t \in Threads, NEW o \in Objects, MapCall(t, o)
    PROVE  Typed'
  <1>1. MaxCalls \in Nat
    BY ResourceAssumption
  <1> QED
    BY <1>1 DEF Typed, TypeOK, MapCall, object, client, closing

(* Load keeps the types.                                                     *)
LEMMA LoadTyped ==
    ASSUME Typed, NEW t \in Threads, NEW o \in Objects, Load(t, o)
    PROVE  Typed'
  <1>1. \E result \in BOOLEAN : ok' = [ok EXCEPT ![t] = result]
    BY DEF Load
  <1>2. UNCHANGED data \/ \E result \in BOOLEAN : data' = [data EXCEPT ![o] = result]
    BY DEF Load
  <1>3. UNCHANGED flags \/ Raise(o, {"modified"})
    BY DEF Load
  <1>4. ok' \in [Threads -> BOOLEAN] /\ data' \in [Objects -> BOOLEAN]
    BY <1>1, <1>2 DEF Typed, TypeOK
  <1>5. UNCHANGED <<resourceMap, writer, state, location, referCount, mapCount, request, held,
                   mapped, good, closing, calls, revived, overlapped>>
    BY DEF Load
  <1> QED
    BY <1>3, <1>4, <1>5 DEF Typed, TypeOK, Raise, closing

(* Upload keeps the types.                                                   *)
LEMMA UploadTyped ==
    ASSUME Typed, NEW t \in Threads, NEW o \in Objects, Upload(t, o)
    PROVE  Typed'
  <1>1. UNCHANGED data \/ data' = [data EXCEPT ![o] = @ /\ mapCount[o] # 0]
    BY DEF Upload
  <1>2. (data[o] /\ mapCount[o] # 0) \in BOOLEAN
    OBVIOUS
  <1>3. data' \in [Objects -> BOOLEAN]
    BY <1>1, <1>2 DEF Typed, TypeOK
  <1>4. UNCHANGED flags \/ Clear(o, {"modified"})
    BY DEF Upload
  <1>5. UNCHANGED <<resourceMap, writer, state, location, referCount, mapCount, client,
                   closing, calls, revived, overlapped>>
    BY DEF Upload
  <1> QED
    BY <1>3, <1>4, <1>5 DEF Typed, TypeOK, Clear, closing, client

(* CreateExisting keeps the types.                                           *)
LEMMA CreateExistingTyped ==
    ASSUME Typed, Shaped, NEW t \in Threads, NEW l \in Locations,
           NEW fl \in CreateFlags, CreateExisting(t, l, fl)
    PROVE  Typed'
  <1>1. fl \subseteq {"eternal", "manual", "mapped"} /\ MaxCalls \in Nat
    BY ResourceAssumption
  <1>2. resourceMap[l] \in Objects /\ (UNCHANGED <<held, mapped>> \/ Obtain(t, resourceMap[l], fl))
    BY CreateExistingPuts
  <1>3. /\ LoadExist(resourceMap[l]) /\ request' = [request EXCEPT ![t] = fl]
           /\ calls' = calls + 1 /\ calls < MaxCalls
        /\ UNCHANGED <<resourceMap, writer, state, location, flags, mapCount, data,
                   ok, good, closing, overlapped>>
    BY DEF CreateExisting
  <1>4. held' \in [Threads -> SUBSET Objects] /\ mapped' \in [Threads -> SUBSET Objects]
    BY <1>2 DEF Typed, Obtain
  <1>5. referCount' \in [Objects -> Int] /\ revived' \subseteq Objects
    BY <1>2, <1>3 DEF Typed, TypeOK, LoadExist, Add
  <1>6. request' \in [Threads -> SUBSET {"eternal", "manual", "mapped"}]
    BY <1>1, <1>3 DEF Typed
  <1>7. calls' \in 0 .. MaxCalls
    BY <1>1, <1>3 DEF Typed, TypeOK
  <1> QED
    BY <1>3, <1>4, <1>5, <1>6, <1>7 DEF Typed, TypeOK, closing

(* CreateNew keeps the types.                                                *)
LEMMA CreateNewTyped ==
    ASSUME Typed, Shaped, NEW t \in Threads, NEW l \in Locations \cup {Anonymous},
           NEW fl \in CreateFlags,
           CreateNew(t, l, fl)
    PROVE  Typed'
  <1>1. fl \subseteq {"eternal", "manual", "mapped"} /\ MaxCalls \in Nat
    BY ResourceAssumption
  <1>2. PICK o \in Objects : Creates(t, l, fl, o)
    BY CreateNewPuts
  <1>3. /\ UNCHANGED <<resourceMap, writer, mapCount, data, ok, held, mapped, good, closing,
           revived, overlapped>>
        /\ calls' = calls + 1 /\ calls < MaxCalls /\ request' = [request EXCEPT ![t] = fl]
    BY DEF CreateNew
  <1> QED
    BY <1>1, <1>2, <1>3 DEF Typed, TypeOK, Add, closing, Creates

(* Relock keeps the types.                                                   *)
LEMMA RelockTyped ==
    ASSUME Typed, NEW t \in Threads, NEW o, Relock(t, o)
    PROVE  Typed'
  BY DEF Typed, TypeOK, Relock, object, client, closing

(* Uninitialize keeps the types.                                             *)
LEMMA UninitializeTyped ==
    ASSUME Typed, NEW t \in Threads, Uninitialize(t)
    PROVE  Typed'
  BY DEF Typed, TypeOK, Uninitialize, object, client

(* RemoveAllDetach keeps the types.                                          *)
LEMMA RemoveAllDetachTyped ==
    ASSUME Typed, NEW t \in Threads, RemoveAllDetach(t)
    PROVE  Typed'
  BY DEF Typed, TypeOK, RemoveAllDetach, Clear, client, closing

(* RemoveAllRelease keeps the types.                                         *)
LEMMA RemoveAllReleaseTyped ==
    ASSUME Typed, NEW t \in Threads, RemoveAllRelease(t)
    PROVE  Typed'
  BY DEF Typed, TypeOK, RemoveAllRelease, object, client

-----------------------------------------------------------------------------
(* Who works on an object holds it                                           *)

(* Who inserts an object is the only one to know it.                         *)
LEMMA InsertExistingFacts ==
    ASSUME Typed, Shaped, Fresh, NEW t \in Threads, NEW o \in Objects, InsertExisting(t, o)
    PROVE  /\ location[o] \in Locations /\ resourceMap[location[o]] \in Objects
           /\ resourceMap[location[o]] # o /\ resourceMap[location[o]] \notin held[t]
           /\ \A u \in Threads : o \notin held[u]
  <1>1. location[o] \in Locations /\ resourceMap[location[o]] \in Objects
    BY InsertExistingPuts
  <1>2. Has(t, "insert", o)
    BY InsertExistingTakes DEF Takes
  <1> QED
    BY <1>1, <1>2 DEF Fresh, NewFor, InMap

(* Nobody holds an object that is being inserted.                            *)
LEMMA InsertFacts ==
    ASSUME Typed, Shaped, Fresh, NEW t \in Threads, NEW o \in Objects, Insert(t, o)
    PROVE  \A u \in Threads : o \notin held[u]
  <1>2. Has(t, "insert", o)
    BY InsertTakes DEF Takes
  <1> QED
    BY <1>2 DEF Fresh, NewFor

(* Who works on an object goes on to hold it: only UnMapCall and ReleaseCall *)
(* give a map or a reference back, and not under a step of the same call.    *)
LEMMA WorkingKept ==
    ASSUME Typed, Shaped, Working, Fresh, NEW t \in Threads, Moves(t)
    PROVE  Working'
  <1>CreateExisting. ASSUME NEW l \in Locations,
                            NEW fl \in CreateFlags, CreateExisting(t, l, fl) PROVE Working'
    <2>1. /\ resourceMap[l] \in Objects /\ \A k, p : ~Has(t, k, p)
          /\ \/ Obtain(t, resourceMap[l], fl)
                /\ Puts(t, "none", NoObject, IF "mapped" \in fl THEN {<<"map", resourceMap[l]>>}
                    ELSE {})
             \/ UNCHANGED <<held, mapped>> /\ Puts(t, "none", NoObject,
                 {<<"release", resourceMap[l]>>})
      BY <1>CreateExisting, CreateExistingPuts
    <2>2. CASE UNCHANGED <<held, mapped>>
               /\ Puts(t, "none", NoObject, {<<"release", resourceMap[l]>>})
      BY <1>CreateExisting, <2>1, <2>2 DEF Typed, Working, Takes, Puts, Beside,
         MapLabels, WorkLabels, LetGoLabels, CreateExisting, Add, Obtain, LoadExist,
         object, closing
    <2>3. CASE Obtain(t, resourceMap[l], fl) /\ "mapped" \in fl
               /\ Puts(t, "none", NoObject, {<<"map", resourceMap[l]>>})
      BY <1>CreateExisting, <2>1, <2>3 DEF Typed, Working, Takes, Puts, Beside,
         MapLabels, WorkLabels, LetGoLabels, CreateExisting, Add, Obtain, LoadExist,
         object, closing
    <2>4. CASE Obtain(t, resourceMap[l], fl) /\ "mapped" \notin fl /\ Puts(t, "none", NoObject, {})
      BY <1>CreateExisting, <2>1, <2>4 DEF Typed, Working, Takes, Puts, Beside,
         MapLabels, WorkLabels, LetGoLabels, CreateExisting, Add, Obtain, LoadExist,
         object, closing
    <2> QED
      BY <2>1, <2>2, <2>3, <2>4
  <1>CreateNew. ASSUME NEW l \in Locations \cup {Anonymous},
                       NEW fl \in CreateFlags, CreateNew(t, l, fl) PROVE Working'
    <2>1. PICK o \in Objects : Creates(t, l, fl, o)
      BY <1>CreateNew, CreateNewPuts
    <2>2. UNCHANGED <<resourceMap, writer, mapCount, data, ok, held, mapped, good, closing,
          revived, overlapped>>
      BY <1>CreateNew DEF CreateNew
    <2>3. fl \subseteq {"eternal", "manual", "mapped"}
      BY ResourceAssumption
    <2> QED
      BY <2>1, <2>2, <2>3 DEF Typed, Working, Takes, Puts, Beside, MapLabels,
         WorkLabels, LetGoLabels, Creates, Add, closing
  <1>InsertExisting. ASSUME NEW o \in Objects, InsertExisting(t, o) PROVE Working'
    <2>a. /\ resourceMap[location[o]] \in Objects /\ location[o] \in Locations
          /\ resourceMap[location[o]] # o /\ resourceMap[location[o]] \notin held[t]
      BY <1>InsertExisting, InsertExistingFacts
    <2>1. CASE "mapped" \in request[t]
      <3>1. Takes(t, "insert", o, {<<"map", resourceMap[location[o]]>>, <<"release", o>>})
        BY <1>InsertExisting, <2>1, InsertExistingTakes
      <3> QED
        BY <1>InsertExisting, <2>1, <3>1, <2>a DEF Typed, Working, Takes, Puts, Beside,
           MapLabels, WorkLabels, LetGoLabels, InsertExisting, Add, Obtain, LoadExist,
           object, closing
    <2>2. CASE "mapped" \notin request[t]
      <3>1. Takes(t, "insert", o, {<<"release", o>>})
        BY <1>InsertExisting, <2>2, InsertExistingTakes
      <3> QED
        BY <1>InsertExisting, <2>2, <3>1, <2>a DEF Typed, Working, Takes, Puts, Beside,
           MapLabels, WorkLabels, LetGoLabels, InsertExisting, Add, Obtain, LoadExist,
           object, closing
    <2> QED
      BY <2>1, <2>2
  <1>Insert. ASSUME NEW o \in Objects, Insert(t, o) PROVE Working'
    <2>a. \A u \in Threads : o \notin held[u]
      BY <1>Insert, InsertFacts
    <2>1. CASE "manual" \in request[t] /\ "mapped" \in request[t]
      <3>1. StepsNew(request[t], o) = {<<"map", o>>}
        BY <2>1 DEF StepsNew
      <3>2. Takes(t, "insert", o, {<<"map", o>>})
        BY <1>Insert, <3>1, InsertTakes
      <3> QED
        BY <1>Insert, <2>1, <3>2, <2>a DEF Typed, Working, Takes, Puts, Beside,
           MapLabels, WorkLabels, LetGoLabels, Insert, Add, Raise, Obtain, closing
    <2>2. CASE "manual" \in request[t] /\ "mapped" \notin request[t]
      <3>1. StepsNew(request[t], o) = {}
        BY <2>2 DEF StepsNew
      <3>2. Takes(t, "insert", o, {})
        BY <1>Insert, <3>1, InsertTakes
      <3> QED
        BY <1>Insert, <2>2, <3>2, <2>a DEF Typed, Working, Takes, Puts, Beside,
           MapLabels, WorkLabels, LetGoLabels, Insert, Add, Raise, Obtain, closing
    <2>3. CASE "manual" \notin request[t] /\ "mapped" \in request[t]
      <3>1. StepsNew(request[t], o) = {<<"map", o>>, <<"upload", o>>}
        BY <2>3 DEF StepsNew
      <3>2. Takes(t, "insert", o, {<<"map", o>>, <<"upload", o>>})
        BY <1>Insert, <3>1, InsertTakes
      <3> QED
        BY <1>Insert, <2>3, <3>2, <2>a DEF Typed, Working, Takes, Puts, Beside,
           MapLabels, WorkLabels, LetGoLabels, Insert, Add, Raise, Obtain, closing
    <2>4. CASE "manual" \notin request[t] /\ "mapped" \notin request[t]
      <3>1. StepsNew(request[t], o) = {<<"map", o>>, <<"upload", o>>, <<"unmap", o>>}
        BY <2>4 DEF StepsNew
      <3>2. Takes(t, "insert", o, {<<"map", o>>, <<"upload", o>>, <<"unmap", o>>})
        BY <1>Insert, <3>1, InsertTakes
      <3> QED
        BY <1>Insert, <2>4, <3>2, <2>a DEF Typed, Working, Takes, Puts, Beside,
           MapLabels, WorkLabels, LetGoLabels, Insert, Add, Raise, Obtain, closing
    <2> QED
      BY <2>1, <2>2, <2>3, <2>4
  <1>MapCount. ASSUME NEW o \in Objects, MapCount(t, o) PROVE Working'
    <2>1. CASE mapCount[o] = 0
      <3>1. Takes(t, "map", o, {<<"load", o>>})
        BY <1>MapCount, <2>1, MapCountTakes
      <3> QED
        BY <1>MapCount, <2>1, <3>1 DEF Typed, Working, Takes, Puts, Beside, MapLabels,
           WorkLabels, LetGoLabels, MapCount, Add, client, closing
    <2>2. CASE mapCount[o] # 0
      <3>1. Takes(t, "map", o, {<<"wait", o>>})
        BY <1>MapCount, <2>2, MapCountTakes
      <3> QED
        BY <1>MapCount, <2>2, <3>1 DEF Typed, Working, Takes, Puts, Beside, MapLabels,
           WorkLabels, LetGoLabels, MapCount, Add, client, closing
    <2> QED
      BY <2>1, <2>2
  <1>Load. ASSUME NEW o \in Objects, Load(t, o) PROVE Working'
    <2>1. Takes(t, "load", o, {<<"loaded", o>>})
      BY <1>Load, LoadTakes
    <2> QED
      BY <1>Load, <2>1 DEF Typed, Working, Takes, Puts, Beside, MapLabels, WorkLabels,
         LetGoLabels, Load, Raise, closing
  <1>MapLoaded. ASSUME NEW o \in Objects, MapLoaded(t, o) PROVE Working'
    <2>1. Takes(t, "loaded", o, {})
      BY <1>MapLoaded, MapLoadedTakes
    <2> QED
      BY <1>MapLoaded, <2>1 DEF Typed, Working, Takes, Puts, Beside, MapLabels,
         WorkLabels, LetGoLabels, MapLoaded, Raise, MapReturns, closing
  <1>MapWait. ASSUME NEW o \in Objects, MapWait(t, o) PROVE Working'
    <2>1. Takes(t, "wait", o, {<<"check", o>>})
      BY <1>MapWait, MapWaitTakes
    <2> QED
      BY <1>MapWait, <2>1 DEF Typed, Working, Takes, Puts, Beside, MapLabels,
         WorkLabels, LetGoLabels, MapWait, object, client, closing
  <1>MapCheck. ASSUME NEW o \in Objects, MapCheck(t, o) PROVE Working'
    <2>1. Takes(t, "check", o, {})
      BY <1>MapCheck, MapCheckTakes
    <2> QED
      BY SMTT(30), <1>MapCheck, <2>1 DEF Typed, Working, Takes, Puts, Beside, MapLabels,
         WorkLabels, LetGoLabels, MapCheck, MapReturns, object, closing
  <1>Upload. ASSUME NEW o \in Objects, Upload(t, o) PROVE Working'
    <2>1. Takes(t, "upload", o, {})
      BY <1>Upload, UploadTakes
    <2> QED
      BY <1>Upload, <2>1 DEF Typed, Working, Takes, Puts, Beside, MapLabels, WorkLabels,
         LetGoLabels, Upload, Clear, object, client, closing
  <1>UnMapCount. ASSUME NEW o \in Objects, UnMapCount(t, o) PROVE Working'
    <2>1. CASE mapCount[o] = 1
      <3>1. Takes(t, "unmap", o, {<<"unflag", o>>, <<"drop", o>>})
        BY <1>UnMapCount, <2>1, UnMapCountTakes
      <3> QED
        BY <1>UnMapCount, <2>1, <3>1 DEF Typed, Working, Takes, Puts, Beside, MapLabels,
           WorkLabels, LetGoLabels, UnMapCount, Add, client, closing
    <2>2. CASE mapCount[o] # 1
      <3>1. Takes(t, "unmap", o, {})
        BY <1>UnMapCount, <2>2, UnMapCountTakes
      <3> QED
        BY <1>UnMapCount, <2>2, <3>1 DEF Typed, Working, Takes, Puts, Beside, MapLabels,
           WorkLabels, LetGoLabels, UnMapCount, Add, client, closing
    <2> QED
      BY <2>1, <2>2
  <1>UnMapFlag. ASSUME NEW o \in Objects, UnMapFlag(t, o) PROVE Working'
    <2>1. Takes(t, "unflag", o, {})
      BY <1>UnMapFlag, UnMapFlagTakes
    <2> QED
      BY <1>UnMapFlag, <2>1 DEF Typed, Working, Takes, Puts, Beside, MapLabels,
         WorkLabels, LetGoLabels, UnMapFlag, Clear, object, client, closing
  <1>DropData. ASSUME NEW o \in Objects, DropData(t, o) PROVE Working'
    <2>1. Takes(t, "drop", o, {})
      BY <1>DropData, DropDataTakes
    <2> QED
      BY <1>DropData, <2>1 DEF Typed, Working, Takes, Puts, Beside, MapLabels,
         WorkLabels, LetGoLabels, DropData, client, closing
  <1>Release. ASSUME NEW o \in Objects, Release(t, o) PROVE Working'
    <2>1. CASE referCount[o] = 1
      <3>1. Takes(t, "release", o, {<<"destroy", o>>})
        BY <1>Release, <2>1, ReleaseTakes
      <3> QED
        BY <1>Release, <2>1, <3>1 DEF Typed, Working, Takes, Puts, Beside, MapLabels,
           WorkLabels, LetGoLabels, Release, Add, Count, client, closing
    <2>2. CASE referCount[o] # 1
      <3>1. Takes(t, "release", o, {})
        BY <1>Release, <2>2, ReleaseTakes
      <3> QED
        BY <1>Release, <2>2, <3>1 DEF Typed, Working, Takes, Puts, Beside, MapLabels,
           WorkLabels, LetGoLabels, Release, Add, Count, client, closing
    <2> QED
      BY <2>1, <2>2
  <1>Destroy. ASSUME NEW o \in Objects, Destroy(t, o) PROVE Working'
    <2>1. CASE "orphan" \in flags[o]
      <3>1. Takes(t, "destroy", o, {<<"last", o>>})
        BY <1>Destroy, <2>1, DestroyTakes
      <3> QED
        BY <1>Destroy, <2>1, <3>1 DEF Typed, Working, Takes, Puts, Beside, MapLabels,
           WorkLabels, LetGoLabels, Destroy, Add, Count, client, closing
    <2>2. CASE "orphan" \notin flags[o]
      <3>1. Takes(t, "destroy", o, {<<"remove", o>>})
        BY <1>Destroy, <2>2, DestroyTakes
      <3> QED
        BY <1>Destroy, <2>2, <3>1 DEF Typed, Working, Takes, Puts, Beside, MapLabels,
           WorkLabels, LetGoLabels, Destroy, Add, Count, client, closing
    <2> QED
      BY <2>1, <2>2
  <1>Remove. ASSUME NEW o \in Objects, Remove(t, o) PROVE Working'
    <2>1. CASE flags[o] \cap {"orphan", "eternal"} # {}
      <3>1. Takes(t, "remove", o, {<<"last", o>>})
        BY <1>Remove, <2>1, RemoveTakes
      <3> QED
        BY <1>Remove, <2>1, <3>1 DEF Typed, Working, Takes, Puts, Beside, MapLabels,
           WorkLabels, LetGoLabels, Remove, Raise, client, closing
    <2>2. CASE flags[o] \cap {"orphan", "eternal"} = {}
      <3>1. Takes(t, "remove", o, {<<"detach", o>>, <<"relock", o>>, <<"last", o>>})
        BY <1>Remove, <2>2, RemoveTakes
      <3> QED
        BY SMTT(30), <1>Remove, <2>2, <3>1 DEF Typed, Working, Takes, Puts, Beside,
           MapLabels, WorkLabels, LetGoLabels, Remove, Raise, client, closing
    <2> QED
      BY <2>1, <2>2
  <1>Detach. ASSUME NEW o \in Objects, Detach(t, o) PROVE Working'
    <2>1. Takes(t, "detach", o, {})
      BY <1>Detach, DetachTakes
    <2> QED
      BY <1>Detach, <2>1 DEF Typed, Working, Takes, Puts, Beside, MapLabels, WorkLabels,
         LetGoLabels, Detach, Clear, object, client, closing
  <1>Last. ASSUME NEW o \in Objects, Last(t, o) PROVE Working'
    <2>1. Takes(t, "last", o, {})
      BY <1>Last, LastTakes
    <2> QED
      BY <1>Last, <2>1 DEF Typed, Working, Takes, Puts, Beside, MapLabels, WorkLabels,
         LetGoLabels, Last, Add, Count, client, closing
  <1>RemoveAllOrphan. ASSUME NEW o \in Objects, RemoveAllOrphan(t, o) PROVE Working'
    <2>1. Takes(t, "orphan", o, {<<"removeAll", NoObject>>})
      BY <1>RemoveAllOrphan, RemoveAllOrphanTakes
    <2> QED
      BY <1>RemoveAllOrphan, <2>1 DEF Typed, Working, Takes, Puts, Beside, MapLabels,
         WorkLabels, LetGoLabels, RemoveAllOrphan, Raise, client
  <1>MapCall. ASSUME NEW o \in Objects, MapCall(t, o) PROVE Working'
    <2>1. Puts(t, "none", NoObject, {<<"map", o>>}) /\ \A k, p : ~Has(t, k, p)
      BY <1>MapCall, CallPutsOne DEF MapCall
    <2> QED
      BY <1>MapCall, <2>1 DEF Typed, Working, Takes, Puts, Beside, MapLabels,
         WorkLabels, LetGoLabels, MapCall, object, closing
  <1>UnMapCall. ASSUME NEW o \in Objects, UnMapCall(t, o) PROVE Working'
    <2>1. Puts(t, "none", NoObject, {<<"unmap", o>>}) /\ \A k, p : ~Has(t, k, p)
      BY <1>UnMapCall, CallPutsOne DEF UnMapCall
    <2> QED
      BY <1>UnMapCall, <2>1 DEF Typed, Working, Takes, Puts, Beside, MapLabels,
         WorkLabels, LetGoLabels, UnMapCall, object, closing
  <1>ReleaseCall. ASSUME NEW o \in Objects, ReleaseCall(t, o) PROVE Working'
    <2>1. Puts(t, "none", NoObject, {<<"release", o>>}) /\ \A k, p : ~Has(t, k, p)
      BY <1>ReleaseCall, CallPutsOne DEF ReleaseCall
    <2> QED
      BY <1>ReleaseCall, <2>1 DEF Typed, Working, Takes, Puts, Beside, MapLabels,
         WorkLabels, LetGoLabels, ReleaseCall, object, closing
  <1>Relock. ASSUME NEW o \in Objects \cup {NoObject}, Relock(t, o) PROVE Working'
    <2>1. Takes(t, "relock", o, {})
      BY <1>Relock, RelockTakes
    <2> QED
      BY <1>Relock, <2>1 DEF Typed, Working, Takes, Puts, Beside, MapLabels, WorkLabels,
         LetGoLabels, Relock, object, client, closing
  <1>Uninitialize. CASE Uninitialize(t)
    <2>1. Puts(t, "none", NoObject, {<<"removeAll", NoObject>>}) /\ \A k, p : ~Has(t, k, p)
      BY <1>Uninitialize, UninitializePuts
    <2> QED
      BY <1>Uninitialize, <2>1 DEF Typed, Working, Takes, Puts, Beside, MapLabels,
         WorkLabels, LetGoLabels, Uninitialize, object, client
  <1>RemoveAllDetach. CASE RemoveAllDetach(t)
    <2>1. PICK o \in removed : o \in Objects /\ Clear(o, {"attached"})
               /\ Takes(t, "removeAll", NoObject, {<<"orphan", o>>})
      BY <1>RemoveAllDetach, RemoveAllDetachTakes
    <2>2. UNCHANGED <<resourceMap, writer, state, location, referCount, mapCount, data, client,
                   closing, calls, revived, overlapped>>
      BY <1>RemoveAllDetach DEF RemoveAllDetach
    <2> QED
      BY <2>1, <2>2 DEF Typed, Working, Takes, Puts, Beside, MapLabels, WorkLabels,
         LetGoLabels, Clear, client, closing
  <1>RemoveAllRelease. CASE RemoveAllRelease(t)
    <2>1. /\ removed = {} /\ writer' = NoThread
          /\ UNCHANGED <<resourceMap, object, client, removed, closed, calls, revived, overlapped>>
      BY <1>RemoveAllRelease DEF RemoveAllRelease
    <2>2. CASE externals = {} /\ UNCHANGED externals
               /\ Takes(t, "removeAll", NoObject, {<<"relock", NoObject>>})
      BY <2>1, <2>2 DEF Typed, Working, Takes, Puts, Beside, MapLabels, WorkLabels,
         LetGoLabels, object, client
    <2>3. ASSUME NEW o \in externals, o \in Objects, externals' = externals \ {o},
                 Takes(t, "removeAll", NoObject, {<<"release", o>>, <<"removeAll", NoObject>>})
          PROVE  Working'
      BY <2>1, <2>3 DEF Typed, Working, Takes, Puts, Beside, MapLabels, WorkLabels,
         LetGoLabels, object, client
    <2> QED
      BY <1>RemoveAllRelease, <2>2, <2>3, RemoveAllReleaseTakes
  <1> QED
    BY <1>CreateExisting, <1>CreateNew, <1>InsertExisting, <1>Insert, <1>MapCount,
       <1>Load, <1>MapLoaded, <1>MapWait, <1>MapCheck, <1>Upload, <1>UnMapCount,
       <1>UnMapFlag, <1>DropData, <1>Release, <1>Destroy, <1>Remove, <1>Detach, <1>Last,
       <1>RemoveAllOrphan, <1>MapCall, <1>UnMapCall, <1>ReleaseCall, <1>Relock,
       <1>Uninitialize, <1>RemoveAllDetach, <1>RemoveAllRelease DEF Moves, Calls,
       GivesBack, Step

-----------------------------------------------------------------------------
(* Objects not made yet; Uninitialize                                        *)

(* The values for none are none.                                             *)
LEMMA NoObjectIsNone == NoObject \notin Objects /\ NoThread \notin Threads
    /\ Anonymous \notin Locations
  BY ResourceAssumption

(* What the map names after a step that changes it: at most the object       *)
(* inserted, ...                                                             *)
LEMMA InsertMaps ==
    ASSUME Typed, NEW t \in Threads, NEW o \in Objects, Insert(t, o)
    PROVE  \A p : InMap(p)' => InMap(p) \/ p = o
  BY DEF Insert, InMap, Typed, TypeOK, Raise

(* ... nothing new after a removal, ...                                      *)
LEMMA RemoveMaps ==
    ASSUME Typed, NEW t \in Threads, NEW o \in Objects, Remove(t, o)
    PROVE  \A p \in Objects : InMap(p)' => InMap(p)
  BY NoObjectIsNone DEF Remove, InMap, Typed, TypeOK, Raise

(* ... and nothing at all after Uninitialize, which has taken out what was   *)
(* there.                                                                    *)
LEMMA UninitializeMaps ==
    ASSUME Typed, NEW t \in Threads, Uninitialize(t)
    PROVE  /\ \A p \in Objects : ~InMap(p)'
           /\ \A p : p \in removed' => p \in Objects /\ InMap(p)
           /\ \A p \in Objects : InMap(p) => p \in removed'
  BY NoObjectIsNone DEF Uninitialize, InMap, Typed, TypeOK

(* Nobody comes to know of an object that has not been made.                 *)
LEMMA UnbornsKept ==
    ASSUME Typed, Shaped, Working, Closing, Unborns, NEW t \in Threads, Moves(t)
    PROVE  Unborns'
  <1>CreateExisting. ASSUME NEW l \in Locations,
                            NEW fl \in CreateFlags, CreateExisting(t, l, fl) PROVE Unborns'
    <2>1. /\ resourceMap[l] \in Objects /\ \A k, p : ~Has(t, k, p)
          /\ \/ Obtain(t, resourceMap[l], fl)
                /\ Puts(t, "none", NoObject, IF "mapped" \in fl THEN {<<"map", resourceMap[l]>>}
                    ELSE {})
             \/ UNCHANGED <<held, mapped>> /\ Puts(t, "none", NoObject,
                 {<<"release", resourceMap[l]>>})
      BY <1>CreateExisting, CreateExistingPuts
    <2>2. CASE UNCHANGED <<held, mapped>>
               /\ Puts(t, "none", NoObject, {<<"release", resourceMap[l]>>})
      BY <1>CreateExisting, <2>1, <2>2 DEF Typed, Working, Unborns, Mentions, Labels,
         InMap, Takes, Puts, Beside, MapLabels, WorkLabels, LetGoLabels, CreateExisting,
         Add, Obtain, LoadExist, object, closing
    <2>3. CASE Obtain(t, resourceMap[l], fl) /\ "mapped" \in fl
               /\ Puts(t, "none", NoObject, {<<"map", resourceMap[l]>>})
      BY <1>CreateExisting, <2>1, <2>3 DEF Typed, Working, Unborns, Mentions, Labels,
         InMap, Takes, Puts, Beside, MapLabels, WorkLabels, LetGoLabels, CreateExisting,
         Add, Obtain, LoadExist, object, closing
    <2>4. CASE Obtain(t, resourceMap[l], fl) /\ "mapped" \notin fl /\ Puts(t, "none", NoObject, {})
      BY <1>CreateExisting, <2>1, <2>4 DEF Typed, Working, Unborns, Mentions, Labels,
         InMap, Takes, Puts, Beside, MapLabels, WorkLabels, LetGoLabels, CreateExisting,
         Add, Obtain, LoadExist, object, closing
    <2> QED
      BY <2>1, <2>2, <2>3, <2>4
  <1>CreateNew. ASSUME NEW l \in Locations \cup {Anonymous},
                       NEW fl \in CreateFlags, CreateNew(t, l, fl) PROVE Unborns'
    <2>1. PICK o \in Objects : Creates(t, l, fl, o)
      BY <1>CreateNew, CreateNewPuts
    <2>2. UNCHANGED <<resourceMap, writer, mapCount, data, ok, held, mapped, good, closing,
          revived, overlapped>>
      BY <1>CreateNew DEF CreateNew
    <2>3. ASSUME NEW p \in Objects, state'[p] = "unborn"
          PROVE  p # o /\ state[p] = "unborn" /\ UNCHANGED <<referCount[p], flags[p]>>
      BY <2>1, <2>3 DEF Typed, TypeOK, Creates, Add
    <2>4. ASSUME NEW p \in Objects, p # o, NEW u \in Threads
          PROVE  Mentions(u, p)' => Mentions(u, p)
      BY <2>1, <2>4 DEF Creates, Puts, Mentions
    <2> QED
      BY <2>2, <2>3, <2>4 DEF Unborns, InMap, closing
  <1>InsertExisting. ASSUME NEW o \in Objects, InsertExisting(t, o) PROVE Unborns'
    <2>1. CASE "mapped" \in request[t]
      <3>1. Takes(t, "insert", o, {<<"map", resourceMap[location[o]]>>, <<"release", o>>})
        BY <1>InsertExisting, <2>1, InsertExistingTakes
      <3> QED
        BY <1>InsertExisting, <2>1, <3>1 DEF Typed, Working, Unborns, Mentions, Labels,
           InMap, Takes, Puts, Beside, MapLabels, WorkLabels, LetGoLabels,
           InsertExisting, Add, Obtain, LoadExist, object, closing
    <2>2. CASE "mapped" \notin request[t]
      <3>1. Takes(t, "insert", o, {<<"release", o>>})
        BY <1>InsertExisting, <2>2, InsertExistingTakes
      <3> QED
        BY <1>InsertExisting, <2>2, <3>1 DEF Typed, Working, Unborns, Mentions, Labels,
           InMap, Takes, Puts, Beside, MapLabels, WorkLabels, LetGoLabels,
           InsertExisting, Add, Obtain, LoadExist, object, closing
    <2> QED
      BY <2>1, <2>2
  <1>Insert. ASSUME NEW o \in Objects, Insert(t, o) PROVE Unborns'
    <2>a. \A p : InMap(p)' => InMap(p) \/ p = o
      BY <1>Insert, InsertMaps
    <2>b. state[o] # "unborn"
      BY <1>Insert, InsertTakes DEF Unborns, Takes, Mentions, Labels
    <2>c. /\ \A p \in Objects : p # o => referCount'[p] = referCount[p] /\ flags'[p] = flags[p]
          /\ \A u \in Threads, p \in Objects : p # o /\ p \in held'[u] => p \in held[u]
      BY <1>Insert DEF Insert, Add, Raise, Obtain, Typed, TypeOK
    <2>d. UNCHANGED <<state, mapCount, removed, externals, revived, overlapped>>
      BY <1>Insert DEF Insert, closing
    <2>1. CASE "manual" \in request[t] /\ "mapped" \in request[t]
      <3>1. StepsNew(request[t], o) = {<<"map", o>>}
        BY <2>1 DEF StepsNew
      <3>2. Takes(t, "insert", o, {<<"map", o>>})
        BY <1>Insert, <3>1, InsertTakes
      <3> QED
        BY <2>1, <3>2, <2>a, <2>b, <2>c, <2>d DEF Typed, Unborns, Mentions, Labels,
           Takes, Puts, Beside, MapLabels, WorkLabels, LetGoLabels
    <2>2. CASE "manual" \in request[t] /\ "mapped" \notin request[t]
      <3>1. StepsNew(request[t], o) = {}
        BY <2>2 DEF StepsNew
      <3>2. Takes(t, "insert", o, {})
        BY <1>Insert, <3>1, InsertTakes
      <3> QED
        BY <2>2, <3>2, <2>a, <2>b, <2>c, <2>d DEF Typed, Unborns, Mentions, Labels,
           Takes, Puts, Beside, MapLabels, WorkLabels, LetGoLabels
    <2>3. CASE "manual" \notin request[t] /\ "mapped" \in request[t]
      <3>1. StepsNew(request[t], o) = {<<"map", o>>, <<"upload", o>>}
        BY <2>3 DEF StepsNew
      <3>2. Takes(t, "insert", o, {<<"map", o>>, <<"upload", o>>})
        BY <1>Insert, <3>1, InsertTakes
      <3> QED
        BY <2>3, <3>2, <2>a, <2>b, <2>c, <2>d DEF Typed, Unborns, Mentions, Labels,
           Takes, Puts, Beside, MapLabels, WorkLabels, LetGoLabels
    <2>4. CASE "manual" \notin request[t] /\ "mapped" \notin request[t]
      <3>1. StepsNew(request[t], o) = {<<"map", o>>, <<"upload", o>>, <<"unmap", o>>}
        BY <2>4 DEF StepsNew
      <3>2. Takes(t, "insert", o, {<<"map", o>>, <<"upload", o>>, <<"unmap", o>>})
        BY <1>Insert, <3>1, InsertTakes
      <3> QED
        BY <2>4, <3>2, <2>a, <2>b, <2>c, <2>d DEF Typed, Unborns, Mentions, Labels,
           Takes, Puts, Beside, MapLabels, WorkLabels, LetGoLabels
    <2> QED
      BY <2>1, <2>2, <2>3, <2>4
  <1>MapCount. ASSUME NEW o \in Objects, MapCount(t, o) PROVE Unborns'
    <2>1. CASE mapCount[o] = 0
      <3>1. Takes(t, "map", o, {<<"load", o>>})
        BY <1>MapCount, <2>1, MapCountTakes
      <3> QED
        BY <1>MapCount, <2>1, <3>1 DEF Typed, Working, Unborns, Mentions, Labels, InMap,
           Takes, Puts, Beside, MapLabels, WorkLabels, LetGoLabels, MapCount, Add,
           client, closing
    <2>2. CASE mapCount[o] # 0
      <3>1. Takes(t, "map", o, {<<"wait", o>>})
        BY <1>MapCount, <2>2, MapCountTakes
      <3> QED
        BY <1>MapCount, <2>2, <3>1 DEF Typed, Working, Unborns, Mentions, Labels, InMap,
           Takes, Puts, Beside, MapLabels, WorkLabels, LetGoLabels, MapCount, Add,
           client, closing
    <2> QED
      BY <2>1, <2>2
  <1>Load. ASSUME NEW o \in Objects, Load(t, o) PROVE Unborns'
    <2>1. Takes(t, "load", o, {<<"loaded", o>>})
      BY <1>Load, LoadTakes
    <2> QED
      BY <1>Load, <2>1 DEF Typed, Working, Unborns, Mentions, Labels, InMap, Takes,
         Puts, Beside, MapLabels, WorkLabels, LetGoLabels, Load, Raise, closing
  <1>MapLoaded. ASSUME NEW o \in Objects, MapLoaded(t, o) PROVE Unborns'
    <2>1. Takes(t, "loaded", o, {})
      BY <1>MapLoaded, MapLoadedTakes
    <2> QED
      BY <1>MapLoaded, <2>1 DEF Typed, Working, Unborns, Mentions, Labels, InMap, Takes,
         Puts, Beside, MapLabels, WorkLabels, LetGoLabels, MapLoaded, Raise, MapReturns,
         closing
  <1>MapWait. ASSUME NEW o \in Objects, MapWait(t, o) PROVE Unborns'
    <2>1. Takes(t, "wait", o, {<<"check", o>>})
      BY <1>MapWait, MapWaitTakes
    <2> QED
      BY <1>MapWait, <2>1 DEF Typed, Working, Unborns, Mentions, Labels, InMap, Takes,
         Puts, Beside, MapLabels, WorkLabels, LetGoLabels, MapWait, object, client,
         closing
  <1>MapCheck. ASSUME NEW o \in Objects, MapCheck(t, o) PROVE Unborns'
    <2>1. Takes(t, "check", o, {})
      BY <1>MapCheck, MapCheckTakes
    <2> QED
      BY <1>MapCheck, <2>1 DEF Typed, Working, Unborns, Mentions, Labels, InMap, Takes,
         Puts, Beside, MapLabels, WorkLabels, LetGoLabels, MapCheck, MapReturns, object,
         closing
  <1>Upload. ASSUME NEW o \in Objects, Upload(t, o) PROVE Unborns'
    <2>1. Takes(t, "upload", o, {})
      BY <1>Upload, UploadTakes
    <2> QED
      BY <1>Upload, <2>1 DEF Typed, Working, Unborns, Mentions, Labels, InMap, Takes,
         Puts, Beside, MapLabels, WorkLabels, LetGoLabels, Upload, Clear, object,
         client, closing
  <1>UnMapCount. ASSUME NEW o \in Objects, UnMapCount(t, o) PROVE Unborns'
    <2>1. CASE mapCount[o] = 1
      <3>1. Takes(t, "unmap", o, {<<"unflag", o>>, <<"drop", o>>})
        BY <1>UnMapCount, <2>1, UnMapCountTakes
      <3> QED
        BY <1>UnMapCount, <2>1, <3>1 DEF Typed, Working, Unborns, Mentions, Labels,
           InMap, Takes, Puts, Beside, MapLabels, WorkLabels, LetGoLabels, UnMapCount,
           Add, client, closing
    <2>2. CASE mapCount[o] # 1
      <3>1. Takes(t, "unmap", o, {})
        BY <1>UnMapCount, <2>2, UnMapCountTakes
      <3> QED
        BY <1>UnMapCount, <2>2, <3>1 DEF Typed, Working, Unborns, Mentions, Labels,
           InMap, Takes, Puts, Beside, MapLabels, WorkLabels, LetGoLabels, UnMapCount,
           Add, client, closing
    <2> QED
      BY <2>1, <2>2
  <1>UnMapFlag. ASSUME NEW o \in Objects, UnMapFlag(t, o) PROVE Unborns'
    <2>1. Takes(t, "unflag", o, {})
      BY <1>UnMapFlag, UnMapFlagTakes
    <2> QED
      BY <1>UnMapFlag, <2>1 DEF Typed, Working, Unborns, Mentions, Labels, InMap, Takes,
         Puts, Beside, MapLabels, WorkLabels, LetGoLabels, UnMapFlag, Clear, object,
         client, closing
  <1>DropData. ASSUME NEW o \in Objects, DropData(t, o) PROVE Unborns'
    <2>1. Takes(t, "drop", o, {})
      BY <1>DropData, DropDataTakes
    <2> QED
      BY <1>DropData, <2>1 DEF Typed, Working, Unborns, Mentions, Labels, InMap, Takes,
         Puts, Beside, MapLabels, WorkLabels, LetGoLabels, DropData, client, closing
  <1>Release. ASSUME NEW o \in Objects, Release(t, o) PROVE Unborns'
    <2>1. CASE referCount[o] = 1
      <3>1. Takes(t, "release", o, {<<"destroy", o>>})
        BY <1>Release, <2>1, ReleaseTakes
      <3> QED
        BY <1>Release, <2>1, <3>1 DEF Typed, Working, Unborns, Mentions, Labels, InMap,
           Takes, Puts, Beside, MapLabels, WorkLabels, LetGoLabels, Release, Add, Count,
           client, closing
    <2>2. CASE referCount[o] # 1
      <3>1. Takes(t, "release", o, {})
        BY <1>Release, <2>2, ReleaseTakes
      <3> QED
        BY <1>Release, <2>2, <3>1 DEF Typed, Working, Unborns, Mentions, Labels, InMap,
           Takes, Puts, Beside, MapLabels, WorkLabels, LetGoLabels, Release, Add, Count,
           client, closing
    <2> QED
      BY <2>1, <2>2
  <1>Destroy. ASSUME NEW o \in Objects, Destroy(t, o) PROVE Unborns'
    <2>1. CASE "orphan" \in flags[o]
      <3>1. Takes(t, "destroy", o, {<<"last", o>>})
        BY <1>Destroy, <2>1, DestroyTakes
      <3> QED
        BY <1>Destroy, <2>1, <3>1 DEF Typed, Working, Unborns, Mentions, Labels, InMap,
           Takes, Puts, Beside, MapLabels, WorkLabels, LetGoLabels, Destroy, Add, Count,
           client, closing
    <2>2. CASE "orphan" \notin flags[o]
      <3>1. Takes(t, "destroy", o, {<<"remove", o>>})
        BY <1>Destroy, <2>2, DestroyTakes
      <3> QED
        BY <1>Destroy, <2>2, <3>1 DEF Typed, Working, Unborns, Mentions, Labels, InMap,
           Takes, Puts, Beside, MapLabels, WorkLabels, LetGoLabels, Destroy, Add, Count,
           client, closing
    <2> QED
      BY <2>1, <2>2
  <1>Remove. ASSUME NEW o \in Objects, Remove(t, o) PROVE Unborns'
    <2>a. \A p \in Objects : InMap(p)' => InMap(p)
      BY <1>Remove, RemoveMaps
    <2>1. CASE flags[o] \cap {"orphan", "eternal"} # {}
      <3>1. Takes(t, "remove", o, {<<"last", o>>})
        BY <1>Remove, <2>1, RemoveTakes
      <3> QED
        BY <1>Remove, <2>1, <3>1, <2>a DEF Typed, Unborns, Mentions, Labels, Takes,
           Puts, Beside, MapLabels, WorkLabels, LetGoLabels, Remove, Raise, client,
           closing
    <2>2. CASE flags[o] \cap {"orphan", "eternal"} = {}
      <3>1. Takes(t, "remove", o, {<<"detach", o>>, <<"relock", o>>, <<"last", o>>})
        BY <1>Remove, <2>2, RemoveTakes
      <3> QED
        BY <1>Remove, <2>2, <3>1, <2>a DEF Typed, Unborns, Mentions, Labels, Takes,
           Puts, Beside, MapLabels, WorkLabels, LetGoLabels, Remove, Raise, client,
           closing
    <2> QED
      BY <2>1, <2>2
  <1>Detach. ASSUME NEW o \in Objects, Detach(t, o) PROVE Unborns'
    <2>1. Takes(t, "detach", o, {})
      BY <1>Detach, DetachTakes
    <2> QED
      BY <1>Detach, <2>1 DEF Typed, Working, Unborns, Mentions, Labels, InMap, Takes,
         Puts, Beside, MapLabels, WorkLabels, LetGoLabels, Detach, Clear, object,
         client, closing
  <1>Last. ASSUME NEW o \in Objects, Last(t, o) PROVE Unborns'
    <2>1. Takes(t, "last", o, {})
      BY <1>Last, LastTakes
    <2> QED
      BY <1>Last, <2>1 DEF Typed, Working, Unborns, Mentions, Labels, InMap, Takes,
         Puts, Beside, MapLabels, WorkLabels, LetGoLabels, Last, Add, Count, client,
         closing
  <1>RemoveAllOrphan. ASSUME NEW o \in Objects, RemoveAllOrphan(t, o) PROVE Unborns'
    <2>1. Takes(t, "orphan", o, {<<"removeAll", NoObject>>})
      BY <1>RemoveAllOrphan, RemoveAllOrphanTakes
    <2> QED
      BY <1>RemoveAllOrphan, <2>1 DEF Typed, Working, Unborns, Mentions, Labels, InMap,
         Takes, Puts, Beside, MapLabels, WorkLabels, LetGoLabels, RemoveAllOrphan,
         Raise, client
  <1>MapCall. ASSUME NEW o \in Objects, MapCall(t, o) PROVE Unborns'
    <2>1. Puts(t, "none", NoObject, {<<"map", o>>}) /\ \A k, p : ~Has(t, k, p)
      BY <1>MapCall, CallPutsOne DEF MapCall
    <2> QED
      BY <1>MapCall, <2>1 DEF Typed, Working, Unborns, Mentions, Labels, InMap, Takes,
         Puts, Beside, MapLabels, WorkLabels, LetGoLabels, MapCall, object, closing
  <1>UnMapCall. ASSUME NEW o \in Objects, UnMapCall(t, o) PROVE Unborns'
    <2>1. Puts(t, "none", NoObject, {<<"unmap", o>>}) /\ \A k, p : ~Has(t, k, p)
      BY <1>UnMapCall, CallPutsOne DEF UnMapCall
    <2> QED
      BY <1>UnMapCall, <2>1 DEF Typed, Working, Unborns, Mentions, Labels, InMap, Takes,
         Puts, Beside, MapLabels, WorkLabels, LetGoLabels, UnMapCall, object, closing
  <1>ReleaseCall. ASSUME NEW o \in Objects, ReleaseCall(t, o) PROVE Unborns'
    <2>1. Puts(t, "none", NoObject, {<<"release", o>>}) /\ \A k, p : ~Has(t, k, p)
      BY <1>ReleaseCall, CallPutsOne DEF ReleaseCall
    <2> QED
      BY <1>ReleaseCall, <2>1 DEF Typed, Working, Unborns, Mentions, Labels, InMap,
         Takes, Puts, Beside, MapLabels, WorkLabels, LetGoLabels, ReleaseCall, object,
         closing
  <1>Relock. ASSUME NEW o \in Objects \cup {NoObject}, Relock(t, o) PROVE Unborns'
    <2>1. Takes(t, "relock", o, {})
      BY <1>Relock, RelockTakes
    <2> QED
      BY <1>Relock, <2>1 DEF Typed, Working, Unborns, Mentions, Labels, InMap, Takes,
         Puts, Beside, MapLabels, WorkLabels, LetGoLabels, Relock, object, client,
         closing
  <1>Uninitialize. CASE Uninitialize(t)
    <2>1. Puts(t, "none", NoObject, {<<"removeAll", NoObject>>}) /\ \A k, p : ~Has(t, k, p)
      BY <1>Uninitialize, UninitializePuts
    <2>a. \A p \in Objects : ~InMap(p)' /\ (p \in removed' => InMap(p))
      BY <1>Uninitialize, UninitializeMaps
    <2> QED
      BY <1>Uninitialize, <2>1, <2>a, NoObjectIsNone DEF Typed, Unborns, Mentions,
         Labels, Takes, Puts, Beside, MapLabels, WorkLabels, LetGoLabels, Uninitialize,
         object, client
  <1>RemoveAllDetach. CASE RemoveAllDetach(t)
    <2>1. PICK o \in removed : o \in Objects /\ Clear(o, {"attached"})
               /\ Takes(t, "removeAll", NoObject, {<<"orphan", o>>})
      BY <1>RemoveAllDetach, RemoveAllDetachTakes
    <2>2. UNCHANGED <<resourceMap, writer, state, location, referCount, mapCount, data, client,
                   closing, calls, revived, overlapped>>
      BY <1>RemoveAllDetach DEF RemoveAllDetach
    <2> QED
      BY <2>1, <2>2 DEF Typed, Working, Unborns, Mentions, Labels, InMap, Takes, Puts,
         Beside, MapLabels, WorkLabels, LetGoLabels, Clear, client, closing
  <1>RemoveAllRelease. CASE RemoveAllRelease(t)
    <2>1. /\ removed = {} /\ writer' = NoThread
          /\ UNCHANGED <<resourceMap, object, client, removed, closed, calls, revived, overlapped>>
      BY <1>RemoveAllRelease DEF RemoveAllRelease
    <2>2. CASE externals = {} /\ UNCHANGED externals
               /\ Takes(t, "removeAll", NoObject, {<<"relock", NoObject>>})
      BY <2>1, <2>2, NoObjectIsNone DEF Typed, Working, Unborns, Mentions, Labels,
         InMap, Takes, Puts, Beside, MapLabels, WorkLabels, LetGoLabels, object, client
    <2>3. ASSUME NEW o \in externals, o \in Objects, externals' = externals \ {o},
                 Takes(t, "removeAll", NoObject, {<<"release", o>>, <<"removeAll", NoObject>>})
          PROVE  Unborns'
      BY <2>1, <2>3, NoObjectIsNone DEF Typed, Working, Unborns, Mentions, Labels,
         InMap, Takes, Puts, Beside, MapLabels, WorkLabels, LetGoLabels, object, client
    <2> QED
      BY <1>RemoveAllRelease, <2>2, <2>3, RemoveAllReleaseTakes
  <1> QED
    BY <1>CreateExisting, <1>CreateNew, <1>InsertExisting, <1>Insert, <1>MapCount,
       <1>Load, <1>MapLoaded, <1>MapWait, <1>MapCheck, <1>Upload, <1>UnMapCount,
       <1>UnMapFlag, <1>DropData, <1>Release, <1>Destroy, <1>Remove, <1>Detach, <1>Last,
       <1>RemoveAllOrphan, <1>MapCall, <1>UnMapCall, <1>ReleaseCall, <1>Relock,
       <1>Uninitialize, <1>RemoveAllDetach, <1>RemoveAllRelease DEF Moves, Calls,
       GivesBack, Step

(* What Uninitialize has taken from the map stays alive and attached until   *)
(* it comes to it, since no other thread finds it.                           *)
LEMMA ClosingKept ==
    ASSUME Typed, Shaped, Working, Closing, Unborns, Fresh, Named, Leaving,
           NEW t \in Threads, Moves(t)
    PROVE  Closing'
  <1>CreateExisting. ASSUME NEW l \in Locations,
                            NEW fl \in CreateFlags, CreateExisting(t, l, fl) PROVE Closing'
    <2>1. /\ resourceMap[l] \in Objects /\ \A k, p : ~Has(t, k, p)
          /\ \/ Obtain(t, resourceMap[l], fl)
                /\ Puts(t, "none", NoObject, IF "mapped" \in fl THEN {<<"map", resourceMap[l]>>}
                    ELSE {})
             \/ UNCHANGED <<held, mapped>> /\ Puts(t, "none", NoObject,
                 {<<"release", resourceMap[l]>>})
      BY <1>CreateExisting, CreateExistingPuts
    <2>2. CASE UNCHANGED <<held, mapped>>
               /\ Puts(t, "none", NoObject, {<<"release", resourceMap[l]>>})
      BY <1>CreateExisting, <2>1, <2>2 DEF Typed, Closing, Unborns, Mentions, Labels,
         InMap, Takes, Puts, Beside, MapLabels, WorkLabels, LetGoLabels, CreateExisting,
         Add, Obtain, LoadExist, object, closing
    <2>3. CASE Obtain(t, resourceMap[l], fl) /\ "mapped" \in fl
               /\ Puts(t, "none", NoObject, {<<"map", resourceMap[l]>>})
      BY <1>CreateExisting, <2>1, <2>3 DEF Typed, Closing, Unborns, Mentions, Labels,
         InMap, Takes, Puts, Beside, MapLabels, WorkLabels, LetGoLabels, CreateExisting,
         Add, Obtain, LoadExist, object, closing
    <2>4. CASE Obtain(t, resourceMap[l], fl) /\ "mapped" \notin fl /\ Puts(t, "none", NoObject, {})
      BY <1>CreateExisting, <2>1, <2>4 DEF Typed, Closing, Unborns, Mentions, Labels,
         InMap, Takes, Puts, Beside, MapLabels, WorkLabels, LetGoLabels, CreateExisting,
         Add, Obtain, LoadExist, object, closing
    <2> QED
      BY <2>1, <2>2, <2>3, <2>4
  <1>CreateNew. ASSUME NEW l \in Locations \cup {Anonymous},
                       NEW fl \in CreateFlags, CreateNew(t, l, fl) PROVE Closing'
    <2>1. PICK o \in Objects : Creates(t, l, fl, o)
      BY <1>CreateNew, CreateNewPuts
    <2>2. UNCHANGED <<resourceMap, writer, mapCount, data, ok, held, mapped, good, closing,
          revived, overlapped>>
      BY <1>CreateNew DEF CreateNew
    <2>3. fl \subseteq {"eternal", "manual", "mapped"}
      BY ResourceAssumption
    <2> QED
      BY <2>1, <2>2, <2>3 DEF Typed, Closing, Unborns, Mentions, Labels, InMap, Takes,
         Puts, Beside, MapLabels, WorkLabels, LetGoLabels, Creates, Add, closing
  <1>InsertExisting. ASSUME NEW o \in Objects, InsertExisting(t, o) PROVE Closing'
    <2>1. CASE "mapped" \in request[t]
      <3>1. Takes(t, "insert", o, {<<"map", resourceMap[location[o]]>>, <<"release", o>>})
        BY <1>InsertExisting, <2>1, InsertExistingTakes
      <3> QED
        BY <1>InsertExisting, <2>1, <3>1 DEF Typed, Closing, Unborns, Mentions, Labels,
           InMap, Takes, Puts, Beside, MapLabels, WorkLabels, LetGoLabels,
           InsertExisting, Add, Obtain, LoadExist, object, closing
    <2>2. CASE "mapped" \notin request[t]
      <3>1. Takes(t, "insert", o, {<<"release", o>>})
        BY <1>InsertExisting, <2>2, InsertExistingTakes
      <3> QED
        BY <1>InsertExisting, <2>2, <3>1 DEF Typed, Closing, Unborns, Mentions, Labels,
           InMap, Takes, Puts, Beside, MapLabels, WorkLabels, LetGoLabels,
           InsertExisting, Add, Obtain, LoadExist, object, closing
    <2> QED
      BY <2>1, <2>2
  <1>Insert. ASSUME NEW o \in Objects, Insert(t, o) PROVE Closing'
    <2>a. \A p : InMap(p)' => InMap(p) \/ p = o
      BY <1>Insert, InsertMaps
    <2>b. /\ o \notin removed /\ o \notin externals
          /\ \A u \in Threads : u # t => ~Mentions(u, o)
      BY <1>Insert, InsertTakes DEF Fresh, NewFor, Takes
    <2>1. CASE "manual" \in request[t] /\ "mapped" \in request[t]
      <3>1. StepsNew(request[t], o) = {<<"map", o>>}
        BY <2>1 DEF StepsNew
      <3>2. Takes(t, "insert", o, {<<"map", o>>})
        BY <1>Insert, <3>1, InsertTakes
      <3> QED
        BY <1>Insert, <2>1, <3>2, <2>a, <2>b DEF Typed, Closing, Mentions, Labels,
           Takes, Puts, Beside, MapLabels, WorkLabels, LetGoLabels, Insert, Add, Raise,
           Obtain, closing
    <2>2. CASE "manual" \in request[t] /\ "mapped" \notin request[t]
      <3>1. StepsNew(request[t], o) = {}
        BY <2>2 DEF StepsNew
      <3>2. Takes(t, "insert", o, {})
        BY <1>Insert, <3>1, InsertTakes
      <3> QED
        BY <1>Insert, <2>2, <3>2, <2>a, <2>b DEF Typed, Closing, Mentions, Labels,
           Takes, Puts, Beside, MapLabels, WorkLabels, LetGoLabels, Insert, Add, Raise,
           Obtain, closing
    <2>3. CASE "manual" \notin request[t] /\ "mapped" \in request[t]
      <3>1. StepsNew(request[t], o) = {<<"map", o>>, <<"upload", o>>}
        BY <2>3 DEF StepsNew
      <3>2. Takes(t, "insert", o, {<<"map", o>>, <<"upload", o>>})
        BY <1>Insert, <3>1, InsertTakes
      <3> QED
        BY <1>Insert, <2>3, <3>2, <2>a, <2>b DEF Typed, Closing, Mentions, Labels,
           Takes, Puts, Beside, MapLabels, WorkLabels, LetGoLabels, Insert, Add, Raise,
           Obtain, closing
    <2>4. CASE "manual" \notin request[t] /\ "mapped" \notin request[t]
      <3>1. StepsNew(request[t], o) = {<<"map", o>>, <<"upload", o>>, <<"unmap", o>>}
        BY <2>4 DEF StepsNew
      <3>2. Takes(t, "insert", o, {<<"map", o>>, <<"upload", o>>, <<"unmap", o>>})
        BY <1>Insert, <3>1, InsertTakes
      <3> QED
        BY <1>Insert, <2>4, <3>2, <2>a, <2>b DEF Typed, Closing, Mentions, Labels,
           Takes, Puts, Beside, MapLabels, WorkLabels, LetGoLabels, Insert, Add, Raise,
           Obtain, closing
    <2> QED
      BY <2>1, <2>2, <2>3, <2>4
  <1>MapCount. ASSUME NEW o \in Objects, MapCount(t, o) PROVE Closing'
    <2>1. CASE mapCount[o] = 0
      <3>1. Takes(t, "map", o, {<<"load", o>>})
        BY <1>MapCount, <2>1, MapCountTakes
      <3> QED
        BY <1>MapCount, <2>1, <3>1 DEF Typed, Closing, Unborns, Mentions, Labels, InMap,
           Takes, Puts, Beside, MapLabels, WorkLabels, LetGoLabels, MapCount, Add,
           client, closing
    <2>2. CASE mapCount[o] # 0
      <3>1. Takes(t, "map", o, {<<"wait", o>>})
        BY <1>MapCount, <2>2, MapCountTakes
      <3> QED
        BY <1>MapCount, <2>2, <3>1 DEF Typed, Closing, Unborns, Mentions, Labels, InMap,
           Takes, Puts, Beside, MapLabels, WorkLabels, LetGoLabels, MapCount, Add,
           client, closing
    <2> QED
      BY <2>1, <2>2
  <1>Load. ASSUME NEW o \in Objects, Load(t, o) PROVE Closing'
    <2>1. Takes(t, "load", o, {<<"loaded", o>>})
      BY <1>Load, LoadTakes
    <2> QED
      BY <1>Load, <2>1 DEF Typed, Closing, Unborns, Mentions, Labels, InMap, Takes,
         Puts, Beside, MapLabels, WorkLabels, LetGoLabels, Load, Raise, closing
  <1>MapLoaded. ASSUME NEW o \in Objects, MapLoaded(t, o) PROVE Closing'
    <2>1. Takes(t, "loaded", o, {})
      BY <1>MapLoaded, MapLoadedTakes
    <2> QED
      BY <1>MapLoaded, <2>1 DEF Typed, Closing, Unborns, Mentions, Labels, InMap, Takes,
         Puts, Beside, MapLabels, WorkLabels, LetGoLabels, MapLoaded, Raise, MapReturns,
         closing
  <1>MapWait. ASSUME NEW o \in Objects, MapWait(t, o) PROVE Closing'
    <2>1. Takes(t, "wait", o, {<<"check", o>>})
      BY <1>MapWait, MapWaitTakes
    <2> QED
      BY <1>MapWait, <2>1 DEF Typed, Closing, Unborns, Mentions, Labels, InMap, Takes,
         Puts, Beside, MapLabels, WorkLabels, LetGoLabels, MapWait, object, client,
         closing
  <1>MapCheck. ASSUME NEW o \in Objects, MapCheck(t, o) PROVE Closing'
    <2>1. Takes(t, "check", o, {})
      BY <1>MapCheck, MapCheckTakes
    <2> QED
      BY <1>MapCheck, <2>1 DEF Typed, Closing, Unborns, Mentions, Labels, InMap, Takes,
         Puts, Beside, MapLabels, WorkLabels, LetGoLabels, MapCheck, MapReturns, object,
         closing
  <1>Upload. ASSUME NEW o \in Objects, Upload(t, o) PROVE Closing'
    <2>1. Takes(t, "upload", o, {})
      BY <1>Upload, UploadTakes
    <2> QED
      BY <1>Upload, <2>1 DEF Typed, Closing, Unborns, Mentions, Labels, InMap, Takes,
         Puts, Beside, MapLabels, WorkLabels, LetGoLabels, Upload, Clear, object,
         client, closing
  <1>UnMapCount. ASSUME NEW o \in Objects, UnMapCount(t, o) PROVE Closing'
    <2>1. CASE mapCount[o] = 1
      <3>1. Takes(t, "unmap", o, {<<"unflag", o>>, <<"drop", o>>})
        BY <1>UnMapCount, <2>1, UnMapCountTakes
      <3> QED
        BY <1>UnMapCount, <2>1, <3>1 DEF Typed, Closing, Unborns, Mentions, Labels,
           InMap, Takes, Puts, Beside, MapLabels, WorkLabels, LetGoLabels, UnMapCount,
           Add, client, closing
    <2>2. CASE mapCount[o] # 1
      <3>1. Takes(t, "unmap", o, {})
        BY <1>UnMapCount, <2>2, UnMapCountTakes
      <3> QED
        BY <1>UnMapCount, <2>2, <3>1 DEF Typed, Closing, Unborns, Mentions, Labels,
           InMap, Takes, Puts, Beside, MapLabels, WorkLabels, LetGoLabels, UnMapCount,
           Add, client, closing
    <2> QED
      BY <2>1, <2>2
  <1>UnMapFlag. ASSUME NEW o \in Objects, UnMapFlag(t, o) PROVE Closing'
    <2>1. Takes(t, "unflag", o, {})
      BY <1>UnMapFlag, UnMapFlagTakes
    <2> QED
      BY <1>UnMapFlag, <2>1 DEF Typed, Closing, Unborns, Mentions, Labels, InMap, Takes,
         Puts, Beside, MapLabels, WorkLabels, LetGoLabels, UnMapFlag, Clear, object,
         client, closing
  <1>DropData. ASSUME NEW o \in Objects, DropData(t, o) PROVE Closing'
    <2>1. Takes(t, "drop", o, {})
      BY <1>DropData, DropDataTakes
    <2> QED
      BY <1>DropData, <2>1 DEF Typed, Closing, Unborns, Mentions, Labels, InMap, Takes,
         Puts, Beside, MapLabels, WorkLabels, LetGoLabels, DropData, client, closing
  <1>Release. ASSUME NEW o \in Objects, Release(t, o) PROVE Closing'
    <2>1. CASE referCount[o] = 1
      <3>1. Takes(t, "release", o, {<<"destroy", o>>})
        BY <1>Release, <2>1, ReleaseTakes
      <3> QED
        BY <1>Release, <2>1, <3>1 DEF Typed, Closing, Unborns, Mentions, Labels, InMap,
           Takes, Puts, Beside, MapLabels, WorkLabels, LetGoLabels, Release, Add, Count,
           client, closing
    <2>2. CASE referCount[o] # 1
      <3>1. Takes(t, "release", o, {})
        BY <1>Release, <2>2, ReleaseTakes
      <3> QED
        BY <1>Release, <2>2, <3>1 DEF Typed, Closing, Unborns, Mentions, Labels, InMap,
           Takes, Puts, Beside, MapLabels, WorkLabels, LetGoLabels, Release, Add, Count,
           client, closing
    <2> QED
      BY <2>1, <2>2
  <1>Destroy. ASSUME NEW o \in Objects, Destroy(t, o) PROVE Closing'
    <2>1. CASE "orphan" \in flags[o]
      <3>1. Takes(t, "destroy", o, {<<"last", o>>})
        BY <1>Destroy, <2>1, DestroyTakes
      <3> QED
        BY <1>Destroy, <2>1, <3>1 DEF Typed, Closing, Unborns, Mentions, Labels, InMap,
           Takes, Puts, Beside, MapLabels, WorkLabels, LetGoLabels, Destroy, Add, Count,
           client, closing
    <2>2. CASE "orphan" \notin flags[o]
      <3>1. Takes(t, "destroy", o, {<<"remove", o>>})
        BY <1>Destroy, <2>2, DestroyTakes
      <3> QED
        BY <1>Destroy, <2>2, <3>1 DEF Typed, Closing, Unborns, Mentions, Labels, InMap,
           Takes, Puts, Beside, MapLabels, WorkLabels, LetGoLabels, Destroy, Add, Count,
           client, closing
    <2> QED
      BY <2>1, <2>2
  <1>Remove. ASSUME NEW o \in Objects, Remove(t, o) PROVE Closing'
    <2>a. \A p \in Objects : InMap(p)' => InMap(p)
      BY <1>Remove, RemoveMaps
    <2>b. writer = NoThread
      BY <1>Remove DEF Remove
    <2>1. CASE flags[o] \cap {"orphan", "eternal"} # {}
      <3>1. Takes(t, "remove", o, {<<"last", o>>})
        BY <1>Remove, <2>1, RemoveTakes
      <3> QED
        BY <1>Remove, <2>1, <3>1, <2>a, <2>b, NoObjectIsNone DEF Typed, Closing,
           Mentions, Labels, Takes, Puts, Beside, MapLabels, WorkLabels, LetGoLabels,
           Remove, Raise, client, closing
    <2>2. CASE flags[o] \cap {"orphan", "eternal"} = {}
      <3>1. Takes(t, "remove", o, {<<"detach", o>>, <<"relock", o>>, <<"last", o>>})
        BY <1>Remove, <2>2, RemoveTakes
      <3> QED
        BY SMTT(30), <1>Remove, <2>2, <3>1, <2>a, <2>b, NoObjectIsNone DEF Typed,
           Closing, Mentions, Labels, Takes, Puts, Beside, MapLabels, WorkLabels,
           LetGoLabels, Remove, Raise, client, closing
    <2> QED
      BY <2>1, <2>2
  <1>Detach. ASSUME NEW o \in Objects, Detach(t, o) PROVE Closing'
    <2>1. Takes(t, "detach", o, {})
      BY <1>Detach, DetachTakes
    <2>a. "orphan" \in flags[o]
      BY <1>Detach, DetachTakes DEF Leaving, Takes
    <2> QED
      BY <1>Detach, <2>1, <2>a DEF Typed, Closing, Unborns, Mentions, Labels, InMap,
         Takes, Puts, Beside, MapLabels, WorkLabels, LetGoLabels, Detach, Clear, object,
         client, closing
  <1>Last. ASSUME NEW o \in Objects, Last(t, o) PROVE Closing'
    <2>1. Takes(t, "last", o, {})
      BY <1>Last, LastTakes
    <2>a. "orphan" \in flags[o]
      BY <1>Last, LastTakes DEF Leaving, Takes
    <2> QED
      BY <1>Last, <2>1, <2>a DEF Typed, Closing, Unborns, Mentions, Labels, InMap,
         Takes, Puts, Beside, MapLabels, WorkLabels, LetGoLabels, Last, Add, Count,
         client, closing
  <1>RemoveAllOrphan. ASSUME NEW o \in Objects, RemoveAllOrphan(t, o) PROVE Closing'
    <2>1. Takes(t, "orphan", o, {<<"removeAll", NoObject>>})
      BY <1>RemoveAllOrphan, RemoveAllOrphanTakes
    <2> QED
      BY <1>RemoveAllOrphan, <2>1 DEF Typed, Closing, Unborns, Mentions, Labels, InMap,
         Takes, Puts, Beside, MapLabels, WorkLabels, LetGoLabels, RemoveAllOrphan,
         Raise, client
  <1>MapCall. ASSUME NEW o \in Objects, MapCall(t, o) PROVE Closing'
    <2>1. Puts(t, "none", NoObject, {<<"map", o>>}) /\ \A k, p : ~Has(t, k, p)
      BY <1>MapCall, CallPutsOne DEF MapCall
    <2> QED
      BY <1>MapCall, <2>1 DEF Typed, Closing, Unborns, Mentions, Labels, InMap, Takes,
         Puts, Beside, MapLabels, WorkLabels, LetGoLabels, MapCall, object, closing
  <1>UnMapCall. ASSUME NEW o \in Objects, UnMapCall(t, o) PROVE Closing'
    <2>1. Puts(t, "none", NoObject, {<<"unmap", o>>}) /\ \A k, p : ~Has(t, k, p)
      BY <1>UnMapCall, CallPutsOne DEF UnMapCall
    <2> QED
      BY <1>UnMapCall, <2>1 DEF Typed, Closing, Unborns, Mentions, Labels, InMap, Takes,
         Puts, Beside, MapLabels, WorkLabels, LetGoLabels, UnMapCall, object, closing
  <1>ReleaseCall. ASSUME NEW o \in Objects, ReleaseCall(t, o) PROVE Closing'
    <2>1. Puts(t, "none", NoObject, {<<"release", o>>}) /\ \A k, p : ~Has(t, k, p)
      BY <1>ReleaseCall, CallPutsOne DEF ReleaseCall
    <2> QED
      BY <1>ReleaseCall, <2>1 DEF Typed, Closing, Unborns, Mentions, Labels, InMap,
         Takes, Puts, Beside, MapLabels, WorkLabels, LetGoLabels, ReleaseCall, object,
         closing
  <1>Relock. ASSUME NEW o \in Objects \cup {NoObject}, Relock(t, o) PROVE Closing'
    <2>1. Takes(t, "relock", o, {})
      BY <1>Relock, RelockTakes
    <2> QED
      BY <1>Relock, <2>1 DEF Typed, Closing, Unborns, Mentions, Labels, InMap, Takes,
         Puts, Beside, MapLabels, WorkLabels, LetGoLabels, Relock, object, client,
         closing
  <1>Uninitialize. CASE Uninitialize(t)
    <2>1. Puts(t, "none", NoObject, {<<"removeAll", NoObject>>}) /\ \A k, p : ~Has(t, k, p)
      BY <1>Uninitialize, UninitializePuts
    <2>2. /\ \A p \in Objects : ~InMap(p)'
          /\ \A p : p \in removed' => p \in Objects /\ InMap(p)
      BY <1>Uninitialize, UninitializeMaps
    <2>3. /\ t = Closer /\ ~closed /\ closed' /\ writer' = Closer
          /\ UNCHANGED <<state, location, flags, externals>>
      BY <1>Uninitialize DEF Uninitialize, object
    <2>4. removed = {} /\ externals = {}
      BY <2>3 DEF Closing
    <2>5. \A p \in removed' : /\ state[p] = "live" /\ location[p] \in Locations
                              /\ "orphan" \notin flags[p] /\ "attached" \in flags[p]
      BY <2>2, NoObjectIsNone DEF Named, InMap
    <2>6. \A u \in Threads, p \in Objects : ~Has(u, "orphan", p)'
      BY <2>1, <2>4 DEF Closing, Puts
    <2>7. Has(t, "removeAll", NoObject)' /\ \A u \in Threads : Has(u, "removeAll", NoObject)'
          => u = Closer
      BY <2>1, <2>3 DEF Closing, Puts
    <2> QED
      BY <2>2, <2>3, <2>4, <2>5, <2>6, <2>7 DEF Closing
  <1>RemoveAllDetach. CASE RemoveAllDetach(t)
    <2>1. PICK o \in removed : o \in Objects /\ Clear(o, {"attached"})
               /\ Takes(t, "removeAll", NoObject, {<<"orphan", o>>})
      BY <1>RemoveAllDetach, RemoveAllDetachTakes
    <2>2. UNCHANGED <<resourceMap, writer, state, location, referCount, mapCount, data, client,
                   closing, calls, revived, overlapped>>
      BY <1>RemoveAllDetach DEF RemoveAllDetach
    <2> QED
      BY <2>1, <2>2 DEF Typed, Closing, Unborns, Mentions, Labels, InMap, Takes, Puts,
         Beside, MapLabels, WorkLabels, LetGoLabels, Clear, client, closing
  <1>RemoveAllRelease. CASE RemoveAllRelease(t)
    <2>1. /\ removed = {} /\ writer' = NoThread
          /\ UNCHANGED <<resourceMap, object, client, removed, closed, calls, revived, overlapped>>
      BY <1>RemoveAllRelease DEF RemoveAllRelease
    <2>2. CASE externals = {} /\ UNCHANGED externals
               /\ Takes(t, "removeAll", NoObject, {<<"relock", NoObject>>})
      BY <2>1, <2>2 DEF Typed, Closing, Unborns, Mentions, Labels, InMap, Takes, Puts,
         Beside, MapLabels, WorkLabels, LetGoLabels, object, client
    <2>3. ASSUME NEW o \in externals, o \in Objects, externals' = externals \ {o},
                 Takes(t, "removeAll", NoObject, {<<"release", o>>, <<"removeAll", NoObject>>})
          PROVE  Closing'
      BY <2>1, <2>3 DEF Typed, Closing, Unborns, Mentions, Labels, InMap, Takes, Puts,
         Beside, MapLabels, WorkLabels, LetGoLabels, object, client
    <2> QED
      BY <1>RemoveAllRelease, <2>2, <2>3, RemoveAllReleaseTakes
  <1> QED
    BY <1>CreateExisting, <1>CreateNew, <1>InsertExisting, <1>Insert, <1>MapCount,
       <1>Load, <1>MapLoaded, <1>MapWait, <1>MapCheck, <1>Upload, <1>UnMapCount,
       <1>UnMapFlag, <1>DropData, <1>Release, <1>Destroy, <1>Remove, <1>Detach, <1>Last,
       <1>RemoveAllOrphan, <1>MapCall, <1>UnMapCall, <1>ReleaseCall, <1>Relock,
       <1>Uninitialize, <1>RemoveAllDetach, <1>RemoveAllRelease DEF Moves, Calls,
       GivesBack, Step

-----------------------------------------------------------------------------
(* New objects; what the map names                                           *)

(* The flags that say where an object is stay as they are.                   *)
SamePlace == \A p \in Objects : \A f \in {"orphan", "attached", "eternal"} : f \in flags'[p]
    <=> f \in flags[p]

(* Steps that work on maps leave alone where an object is.                   *)
LEMMA SamePlaces ==
    ASSUME Typed, NEW t \in Threads, NEW o \in Objects,
           Load(t, o) \/ MapLoaded(t, o) \/ Upload(t, o) \/ UnMapFlag(t, o)
    PROVE  SamePlace
  <1>1. CASE UNCHANGED flags
    BY <1>1 DEF SamePlace
  <1>2. CASE Load(t, o)
    <2>1. UNCHANGED flags \/ Raise(o, {"modified"})
      BY <1>2 DEF Load
    <2> QED
      BY <2>1, <1>1 DEF SamePlace, Raise, Typed
  <1>3. CASE MapLoaded(t, o)
    BY <1>3 DEF SamePlace, MapLoaded, Raise, Typed
  <1>4. CASE Upload(t, o)
    <2>1. UNCHANGED flags \/ Clear(o, {"modified"})
      BY <1>4 DEF Upload
    <2> QED
      BY <2>1, <1>1 DEF SamePlace, Clear, Typed
  <1>5. CASE UnMapFlag(t, o)
    BY <1>5 DEF SamePlace, UnMapFlag, Clear, Typed
  <1> QED
    BY <1>2, <1>3, <1>4, <1>5

(* An insertion, in detail                                                   *)
LEMMA InsertIs ==
    ASSUME Typed, Shaped, Fresh, NEW t \in Threads, NEW o \in Objects, Insert(t, o)
    PROVE  /\ NewFor(t, o)
           /\ \A p \in Objects : p # o => referCount'[p] = referCount[p] /\ flags'[p] = flags[p]
           /\ \A u \in Threads, p \in Objects : p # o => (p \in held'[u] <=> p \in held[u])
           /\ \A u \in Threads : o \in held'[u] <=> u = t
           /\ UNCHANGED <<state, location, mapCount, removed, externals, revived, overlapped,
               writer>>
           /\ "attached" \in flags'[o]
           /\ IF location[o] \in Locations
              THEN /\ writer = NoThread /\ resourceMap[location[o]] = NoObject
                   /\ \A l \in Locations : resourceMap'[l] = IF l = location[o] THEN o
                       ELSE resourceMap[l]
                   /\ "orphan" \notin flags'[o]
              ELSE UNCHANGED resourceMap /\ "orphan" \in flags'[o]
           /\ \A f \in {"eternal", "mapped", "invalid", "modified"} : f \in flags'[o]
               <=> f \in flags[o]
  <1>1. NewFor(t, o)
    BY InsertTakes DEF Takes, Fresh
  <1>2. \A p \in Objects : p # o => referCount'[p] = referCount[p] /\ flags'[p] = flags[p]
    BY DEF Insert, Add, Raise, Typed, TypeOK
  <1>3. /\ \A u \in Threads, p \in Objects : p # o => (p \in held'[u] <=> p \in held[u])
        /\ o \in held'[t] /\ \A u \in Threads : u # t => held'[u] = held[u]
    BY DEF Insert, Obtain, Typed
  <1>4. UNCHANGED <<state, location, mapCount, removed, externals, revived, overlapped, writer>>
    BY DEF Insert, closing
  <1>5. CASE location[o] \in Locations
    <2>1. /\ writer = NoThread /\ resourceMap[location[o]] = NoObject
          /\ resourceMap' = [resourceMap EXCEPT ![location[o]] = o]
          /\ flags' = [flags EXCEPT ![o] = (@ \ {"orphan"}) \cup {"attached"}]
      BY <1>5 DEF Insert
    <2>2. /\ "attached" \in flags'[o] /\ "orphan" \notin flags'[o]
          /\ \A f \in {"eternal", "mapped", "invalid", "modified"} : f \in flags'[o]
              <=> f \in flags[o]
      BY <2>1 DEF Typed
    <2>3. \A l \in Locations : resourceMap'[l] = IF l = location[o] THEN o ELSE resourceMap[l]
      BY <2>1 DEF Typed, TypeOK
    <2> QED
      BY <1>1, <1>2, <1>3, <1>4, <1>5, <2>1, <2>2, <2>3 DEF NewFor
  <1>6. CASE location[o] \notin Locations
    <2>1. Raise(o, {"attached"}) /\ UNCHANGED resourceMap
      BY <1>6 DEF Insert
    <2>2. /\ "attached" \in flags'[o] /\ ("orphan" \in flags[o] => "orphan" \in flags'[o])
          /\ \A f \in {"eternal", "mapped", "invalid", "modified"} : f \in flags'[o]
              <=> f \in flags[o]
      BY <2>1 DEF Typed, Raise
    <2> QED
      BY <1>1, <1>2, <1>3, <1>4, <1>6, <2>1, <2>2 DEF NewFor
  <1> QED
    BY <1>5, <1>6

(* A removal that takes place, in detail                                     *)
LEMMA RemoveIs ==
    ASSUME Typed, Shaped, Closing, Unborns, Named, NEW t \in Threads,
           NEW o \in Objects, Remove(t, o),
           flags[o] \cap {"orphan", "eternal"} = {}
    PROVE  /\ writer = NoThread /\ removed = {} /\ "eternal" \notin flags[o]
           /\ location[o] \in Locations /\ resourceMap[location[o]] = o
           /\ \A l \in Locations : resourceMap'[l] = IF l = location[o] THEN NoObject
               ELSE resourceMap[l]
           /\ "orphan" \notin flags[o] /\ flags'[o] = flags[o] \cup {"orphan"}
           /\ \A p \in Objects : p # o => flags'[p] = flags[p]
           /\ UNCHANGED <<writer, state, location, referCount, mapCount, held, mapped, good,
               removed, externals,
                          revived, overlapped>>
  <1>1. writer = NoThread /\ "orphan" \notin flags[o] /\ "eternal" \notin flags[o]
    BY DEF Remove
  <1>2. removed = {}
    BY <1>1, NoObjectIsNone DEF Closing
  <1>3. state[o] # "unborn"
    BY RemoveTakes DEF Takes, Unborns, Mentions, Labels, LetGoLabels
  <1>4. location[o] \in Locations /\ resourceMap[location[o]] = o
    BY <1>1, <1>2, <1>3 DEF Named
  <1>5. Raise(o, {"orphan"}) /\ resourceMap' = [resourceMap EXCEPT ![location[o]] = NoObject]
    BY DEF Remove
  <1>6. flags'[o] = flags[o] \cup {"orphan"} /\ \A p \in Objects : p # o => flags'[p] = flags[p]
    BY <1>5 DEF Raise, Typed
  <1>7. \A l \in Locations : resourceMap'[l] = IF l = location[o] THEN NoObject ELSE resourceMap[l]
    BY <1>5 DEF Typed, TypeOK
  <1>8. UNCHANGED <<writer, state, location, referCount, mapCount, held, mapped, good, removed,
        externals,
                    revived, overlapped>>
    BY DEF Remove, client, closing
  <1> QED
    BY <1>1, <1>2, <1>4, <1>6, <1>7, <1>8

(* An object stays new until its maker inserts it: no other thread has a way *)
(* to it.                                                                    *)
LEMMA FreshKept ==
    ASSUME Typed, Shaped, Working, Closing, Unborns, Fresh, Named, NEW t \in Threads, Moves(t)
    PROVE  Fresh'
  <1>CreateExisting. ASSUME NEW l \in Locations,
                            NEW fl \in CreateFlags, CreateExisting(t, l, fl) PROVE Fresh'
    <2>1. /\ resourceMap[l] \in Objects /\ \A k, p : ~Has(t, k, p)
          /\ \/ Obtain(t, resourceMap[l], fl)
                /\ Puts(t, "none", NoObject, IF "mapped" \in fl THEN {<<"map", resourceMap[l]>>}
                    ELSE {})
             \/ UNCHANGED <<held, mapped>> /\ Puts(t, "none", NoObject,
                 {<<"release", resourceMap[l]>>})
      BY <1>CreateExisting, CreateExistingPuts
    <2>2. CASE UNCHANGED <<held, mapped>>
               /\ Puts(t, "none", NoObject, {<<"release", resourceMap[l]>>})
      BY <1>CreateExisting, <2>1, <2>2 DEF Typed, Working, Fresh, NewFor, Unborns,
         Mentions, Labels, InMap, Takes, Puts, Beside, MapLabels, WorkLabels,
         LetGoLabels, CreateExisting, Add, Obtain, LoadExist, object, closing
    <2>3. CASE Obtain(t, resourceMap[l], fl) /\ "mapped" \in fl
               /\ Puts(t, "none", NoObject, {<<"map", resourceMap[l]>>})
      BY <1>CreateExisting, <2>1, <2>3 DEF Typed, Working, Fresh, NewFor, Unborns,
         Mentions, Labels, InMap, Takes, Puts, Beside, MapLabels, WorkLabels,
         LetGoLabels, CreateExisting, Add, Obtain, LoadExist, object, closing
    <2>4. CASE Obtain(t, resourceMap[l], fl) /\ "mapped" \notin fl /\ Puts(t, "none", NoObject, {})
      BY <1>CreateExisting, <2>1, <2>4 DEF Typed, Working, Fresh, NewFor, Unborns,
         Mentions, Labels, InMap, Takes, Puts, Beside, MapLabels, WorkLabels,
         LetGoLabels, CreateExisting, Add, Obtain, LoadExist, object, closing
    <2> QED
      BY <2>1, <2>2, <2>3, <2>4
  <1>CreateNew. ASSUME NEW l \in Locations \cup {Anonymous},
                       NEW fl \in CreateFlags, CreateNew(t, l, fl) PROVE Fresh'
    <2>1. PICK o \in Objects : Creates(t, l, fl, o)
      BY <1>CreateNew, CreateNewPuts
    <2>2. /\ l \in Locations => resourceMap[l] = NoObject
          /\ UNCHANGED <<resourceMap, writer, mapCount, data, ok, held, mapped, good, closing,
              revived, overlapped>>
      BY <1>CreateNew DEF CreateNew
    <2>3. fl \subseteq {"eternal", "manual", "mapped"}
      BY ResourceAssumption
    <2>4. /\ state'[o] = "live" /\ location'[o] = l /\ referCount'[o] = referCount[o] + 1
          /\ flags'[o] = {"orphan"} \cup (fl \ {"mapped"})
          /\ \A p \in Objects : p # o => UNCHANGED <<state[p], location[p], referCount[p],
              flags[p]>>
      BY <2>1 DEF Creates, Add, Typed, TypeOK
    <2>5. \A u \in Threads : \A k, p : Has(u, k, p)' <=> Has(u, k, p)
          \/ (u = t /\ k = "insert" /\ p = o)
      BY <2>1 DEF Creates, Puts
    <2>6. state[o] = "unborn"
      BY <2>1 DEF Creates
    <2>7. NewFor(t, o)'
      <3>1. /\ referCount[o] = 0 /\ mapCount[o] = 0 /\ ~InMap(o) /\ o \notin removed
               /\ o \notin externals
            /\ o \notin revived /\ \A u \in Threads : ~Mentions(u, o) /\ o \notin held[u]
        BY <2>6 DEF Unborns
      <3>2. \A u \in Threads : u # t => ~Mentions(u, o)'
        BY <3>1, <2>5 DEF Mentions
      <3>3. l \in Locations => resourceMap[l] \notin held[t]
        BY <2>2, NoObjectIsNone DEF Typed
      <3>4. "attached" \notin flags'[o] /\ "mapped" \notin flags'[o] /\ "invalid" \notin flags'[o]
            /\ "orphan" \in flags'[o]
        BY <2>3, <2>4
      <3> QED
        BY <2>2, <2>4, <3>1, <3>2, <3>3, <3>4 DEF NewFor, InMap, closing
    <2>8. ASSUME NEW u \in Threads, NEW p \in Objects, p # o, Has(u, "insert", p)
          PROVE  NewFor(u, p)'
      <3>1. NewFor(u, p)
        BY <2>8 DEF Fresh
      <3>2. \A v \in Threads : v # u => ~Mentions(v, p)'
        BY <2>5, <2>8, <3>1 DEF Mentions, NewFor
      <3> QED
        BY <2>2, <2>4, <2>8, <3>1, <3>2 DEF NewFor, InMap, closing
    <2>9. ~Has(t, "insert", o) /\ \A u \in Threads : ~Has(u, "insert", o)
      BY <2>6 DEF Unborns, Mentions, Labels
    <2> QED
      BY <2>5, <2>7, <2>8, <2>9 DEF Fresh
  <1>InsertExisting. ASSUME NEW o \in Objects, InsertExisting(t, o) PROVE Fresh'
    <2>1. CASE "mapped" \in request[t]
      <3>1. Takes(t, "insert", o, {<<"map", resourceMap[location[o]]>>, <<"release", o>>})
        BY <1>InsertExisting, <2>1, InsertExistingTakes
      <3> QED
        BY <1>InsertExisting, <2>1, <3>1 DEF Typed, Working, Fresh, NewFor, Unborns,
           Mentions, Labels, InMap, Takes, Puts, Beside, MapLabels, WorkLabels,
           LetGoLabels, InsertExisting, Add, Obtain, LoadExist, object, closing
    <2>2. CASE "mapped" \notin request[t]
      <3>1. Takes(t, "insert", o, {<<"release", o>>})
        BY <1>InsertExisting, <2>2, InsertExistingTakes
      <3> QED
        BY <1>InsertExisting, <2>2, <3>1 DEF Typed, Working, Fresh, NewFor, Unborns,
           Mentions, Labels, InMap, Takes, Puts, Beside, MapLabels, WorkLabels,
           LetGoLabels, InsertExisting, Add, Obtain, LoadExist, object, closing
    <2> QED
      BY <2>1, <2>2
  <1>Insert. ASSUME NEW o \in Objects, Insert(t, o) PROVE Fresh'
    <2>1. Takes(t, "insert", o, StepsNew(request[t], o))
      BY <1>Insert, InsertTakes
    <2>2. \A k, p : <<k, p>> \in StepsNew(request[t], o) => k # "insert" /\ p = o
      BY DEF StepsNew
    <2>3. ASSUME NEW u \in Threads, NEW p \in Objects, Has(u, "insert", p)'
          PROVE  NewFor(u, p)'
      <3>1. Has(u, "insert", p) /\ ~(u = t /\ p = o)
        BY <2>1, <2>2, <2>3 DEF Takes, Puts
      <3>2. NewFor(u, p) /\ NewFor(t, o)
        BY <3>1, <1>Insert, InsertIs DEF Fresh
      <3>3. u # t
        BY <3>1, <2>1 DEF Takes, Beside, MapLabels, LetGoLabels
      <3>4. p # o
        BY <3>1, <3>2, <3>3 DEF NewFor, Mentions, Labels
      <3>5. \A v \in Threads : Mentions(v, p)' => Mentions(v, p)
        BY <3>4, <2>1, <2>2 DEF Takes, Puts, Mentions
      <3>6. \A q : InMap(q)' => InMap(q) \/ q = o
        BY <1>Insert, InsertMaps
      <3>7. location[p] \in Locations => resourceMap'[location[p]] \in {resourceMap[location[p]], o}
        BY <1>Insert, InsertIs
      <3>8. o \notin held[u] /\ held'[u] = held[u]
        BY <1>Insert, <3>2, <3>3 DEF NewFor, Insert, Obtain, Typed
      <3>9. /\ referCount'[p] = referCount[p] /\ flags'[p] = flags[p]
            /\ \A v \in Threads : p \in held'[v] <=> p \in held[v]
            /\ UNCHANGED <<state, location, mapCount, removed, externals, revived>>
        BY <1>Insert, <3>4, InsertIs
      <3> QED
        BY <3>2, <3>4, <3>5, <3>6, <3>7, <3>8, <3>9 DEF NewFor
    <2> QED
      BY <2>3 DEF Fresh
  <1>MapCount. ASSUME NEW o \in Objects, MapCount(t, o) PROVE Fresh'
    <2>1. CASE mapCount[o] = 0
      <3>1. Takes(t, "map", o, {<<"load", o>>})
        BY <1>MapCount, <2>1, MapCountTakes
      <3> QED
        BY <1>MapCount, <2>1, <3>1 DEF Typed, Working, Fresh, NewFor, Unborns, Mentions,
           Labels, InMap, Takes, Puts, Beside, MapLabels, WorkLabels, LetGoLabels,
           MapCount, Add, client, closing
    <2>2. CASE mapCount[o] # 0
      <3>1. Takes(t, "map", o, {<<"wait", o>>})
        BY <1>MapCount, <2>2, MapCountTakes
      <3> QED
        BY <1>MapCount, <2>2, <3>1 DEF Typed, Working, Fresh, NewFor, Unborns, Mentions,
           Labels, InMap, Takes, Puts, Beside, MapLabels, WorkLabels, LetGoLabels,
           MapCount, Add, client, closing
    <2> QED
      BY <2>1, <2>2
  <1>Load. ASSUME NEW o \in Objects, Load(t, o) PROVE Fresh'
    <2>1. Takes(t, "load", o, {<<"loaded", o>>})
      BY <1>Load, LoadTakes
    <2> QED
      BY <1>Load, <2>1 DEF Typed, Working, Fresh, NewFor, Unborns, Mentions, Labels,
         InMap, Takes, Puts, Beside, MapLabels, WorkLabels, LetGoLabels, Load, Raise,
         closing
  <1>MapLoaded. ASSUME NEW o \in Objects, MapLoaded(t, o) PROVE Fresh'
    <2>1. Takes(t, "loaded", o, {})
      BY <1>MapLoaded, MapLoadedTakes
    <2> QED
      BY <1>MapLoaded, <2>1 DEF Typed, Working, Fresh, NewFor, Unborns, Mentions,
         Labels, InMap, Takes, Puts, Beside, MapLabels, WorkLabels, LetGoLabels,
         MapLoaded, Raise, MapReturns, closing
  <1>MapWait. ASSUME NEW o \in Objects, MapWait(t, o) PROVE Fresh'
    <2>1. Takes(t, "wait", o, {<<"check", o>>})
      BY <1>MapWait, MapWaitTakes
    <2> QED
      BY <1>MapWait, <2>1 DEF Typed, Working, Fresh, NewFor, Unborns, Mentions, Labels,
         InMap, Takes, Puts, Beside, MapLabels, WorkLabels, LetGoLabels, MapWait,
         object, client, closing
  <1>MapCheck. ASSUME NEW o \in Objects, MapCheck(t, o) PROVE Fresh'
    <2>1. Takes(t, "check", o, {})
      BY <1>MapCheck, MapCheckTakes
    <2> QED
      BY <1>MapCheck, <2>1 DEF Typed, Working, Fresh, NewFor, Unborns, Mentions, Labels,
         InMap, Takes, Puts, Beside, MapLabels, WorkLabels, LetGoLabels, MapCheck,
         MapReturns, object, closing
  <1>Upload. ASSUME NEW o \in Objects, Upload(t, o) PROVE Fresh'
    <2>1. Takes(t, "upload", o, {})
      BY <1>Upload, UploadTakes
    <2> QED
      BY <1>Upload, <2>1 DEF Typed, Working, Fresh, NewFor, Unborns, Mentions, Labels,
         InMap, Takes, Puts, Beside, MapLabels, WorkLabels, LetGoLabels, Upload, Clear,
         object, client, closing
  <1>UnMapCount. ASSUME NEW o \in Objects, UnMapCount(t, o) PROVE Fresh'
    <2>1. CASE mapCount[o] = 1
      <3>1. Takes(t, "unmap", o, {<<"unflag", o>>, <<"drop", o>>})
        BY <1>UnMapCount, <2>1, UnMapCountTakes
      <3> QED
        BY <1>UnMapCount, <2>1, <3>1 DEF Typed, Working, Fresh, NewFor, Unborns,
           Mentions, Labels, InMap, Takes, Puts, Beside, MapLabels, WorkLabels,
           LetGoLabels, UnMapCount, Add, client, closing
    <2>2. CASE mapCount[o] # 1
      <3>1. Takes(t, "unmap", o, {})
        BY <1>UnMapCount, <2>2, UnMapCountTakes
      <3> QED
        BY <1>UnMapCount, <2>2, <3>1 DEF Typed, Working, Fresh, NewFor, Unborns,
           Mentions, Labels, InMap, Takes, Puts, Beside, MapLabels, WorkLabels,
           LetGoLabels, UnMapCount, Add, client, closing
    <2> QED
      BY <2>1, <2>2
  <1>UnMapFlag. ASSUME NEW o \in Objects, UnMapFlag(t, o) PROVE Fresh'
    <2>1. Takes(t, "unflag", o, {})
      BY <1>UnMapFlag, UnMapFlagTakes
    <2> QED
      BY <1>UnMapFlag, <2>1 DEF Typed, Working, Fresh, NewFor, Unborns, Mentions,
         Labels, InMap, Takes, Puts, Beside, MapLabels, WorkLabels, LetGoLabels,
         UnMapFlag, Clear, object, client, closing
  <1>DropData. ASSUME NEW o \in Objects, DropData(t, o) PROVE Fresh'
    <2>1. Takes(t, "drop", o, {})
      BY <1>DropData, DropDataTakes
    <2> QED
      BY <1>DropData, <2>1 DEF Typed, Working, Fresh, NewFor, Unborns, Mentions, Labels,
         InMap, Takes, Puts, Beside, MapLabels, WorkLabels, LetGoLabels, DropData,
         client, closing
  <1>Release. ASSUME NEW o \in Objects, Release(t, o) PROVE Fresh'
    <2>1. CASE referCount[o] = 1
      <3>1. Takes(t, "release", o, {<<"destroy", o>>})
        BY <1>Release, <2>1, ReleaseTakes
      <3> QED
        BY <1>Release, <2>1, <3>1 DEF Typed, Working, Fresh, NewFor, Unborns, Mentions,
           Labels, InMap, Takes, Puts, Beside, MapLabels, WorkLabels, LetGoLabels,
           Release, Add, Count, client, closing
    <2>2. CASE referCount[o] # 1
      <3>1. Takes(t, "release", o, {})
        BY <1>Release, <2>2, ReleaseTakes
      <3> QED
        BY <1>Release, <2>2, <3>1 DEF Typed, Working, Fresh, NewFor, Unborns, Mentions,
           Labels, InMap, Takes, Puts, Beside, MapLabels, WorkLabels, LetGoLabels,
           Release, Add, Count, client, closing
    <2> QED
      BY <2>1, <2>2
  <1>Destroy. ASSUME NEW o \in Objects, Destroy(t, o) PROVE Fresh'
    <2>1. CASE "orphan" \in flags[o]
      <3>1. Takes(t, "destroy", o, {<<"last", o>>})
        BY <1>Destroy, <2>1, DestroyTakes
      <3> QED
        BY <1>Destroy, <2>1, <3>1 DEF Typed, Working, Fresh, NewFor, Unborns, Mentions,
           Labels, InMap, Takes, Puts, Beside, MapLabels, WorkLabels, LetGoLabels,
           Destroy, Add, Count, client, closing
    <2>2. CASE "orphan" \notin flags[o]
      <3>1. Takes(t, "destroy", o, {<<"remove", o>>})
        BY <1>Destroy, <2>2, DestroyTakes
      <3> QED
        BY <1>Destroy, <2>2, <3>1 DEF Typed, Working, Fresh, NewFor, Unborns, Mentions,
           Labels, InMap, Takes, Puts, Beside, MapLabels, WorkLabels, LetGoLabels,
           Destroy, Add, Count, client, closing
    <2> QED
      BY <2>1, <2>2
  <1>Remove. ASSUME NEW o \in Objects, Remove(t, o) PROVE Fresh'
    <2>1. CASE flags[o] \cap {"orphan", "eternal"} # {}
      <3>1. Takes(t, "remove", o, {<<"last", o>>})
        BY <1>Remove, <2>1, RemoveTakes
      <3>2. UNCHANGED <<resourceMap, flags, writer, object, held, removed, externals, revived>>
        BY <1>Remove, <2>1 DEF Remove, client, closing, object
      <3> QED
        BY <3>1, <3>2 DEF Fresh, NewFor, InMap, Mentions, Labels, object, Takes, Puts,
           Beside, MapLabels, WorkLabels, LetGoLabels
    <2>2. CASE flags[o] \cap {"orphan", "eternal"} = {}
      <3>1. Takes(t, "remove", o, {<<"detach", o>>, <<"relock", o>>, <<"last", o>>})
        BY <1>Remove, <2>2, RemoveTakes
      <3>2. ASSUME NEW u \in Threads, NEW p \in Objects, Has(u, "insert", p)'
            PROVE  NewFor(u, p)'
        <4>1. Has(u, "insert", p) /\ NewFor(u, p)
          BY <3>1, <3>2 DEF Takes, Puts, Fresh
        <4>2. p # o
          BY <4>1, <3>1 DEF NewFor, Takes, Beside, Mentions, Labels, MapLabels,
             LetGoLabels
        <4>3. \A v \in Threads : Mentions(v, p)' => Mentions(v, p)
          BY <4>2, <3>1 DEF Takes, Puts, Mentions
        <4>4. \A q \in Objects : InMap(q)' => InMap(q)
          BY <1>Remove, RemoveMaps
        <4>5. location[p] \in Locations => resourceMap'[location[p]]
              \in {resourceMap[location[p]], NoObject}
          BY <1>Remove, <2>2, RemoveIs
        <4>6. NoObject \notin held[u]
          BY NoObjectIsNone DEF Typed
        <4>7. /\ flags'[p] = flags[p]
              /\ UNCHANGED <<state, location, referCount, mapCount, held, removed, externals,
                  revived>>
          BY <1>Remove, <2>2, <4>2, RemoveIs
        <4> QED
          BY <4>1, <4>3, <4>4, <4>5, <4>6, <4>7 DEF NewFor
      <3> QED
        BY <3>2 DEF Fresh
    <2> QED
      BY <2>1, <2>2
  <1>Detach. ASSUME NEW o \in Objects, Detach(t, o) PROVE Fresh'
    <2>1. Takes(t, "detach", o, {})
      BY <1>Detach, DetachTakes
    <2> QED
      BY <1>Detach, <2>1 DEF Typed, Working, Fresh, NewFor, Unborns, Mentions, Labels,
         InMap, Takes, Puts, Beside, MapLabels, WorkLabels, LetGoLabels, Detach, Clear,
         object, client, closing
  <1>Last. ASSUME NEW o \in Objects, Last(t, o) PROVE Fresh'
    <2>1. Takes(t, "last", o, {})
      BY <1>Last, LastTakes
    <2> QED
      BY <1>Last, <2>1 DEF Typed, Working, Fresh, NewFor, Unborns, Mentions, Labels,
         InMap, Takes, Puts, Beside, MapLabels, WorkLabels, LetGoLabels, Last, Add,
         Count, client, closing
  <1>RemoveAllOrphan. ASSUME NEW o \in Objects, RemoveAllOrphan(t, o) PROVE Fresh'
    <2>1. Takes(t, "orphan", o, {<<"removeAll", NoObject>>})
      BY <1>RemoveAllOrphan, RemoveAllOrphanTakes
    <2> QED
      BY <1>RemoveAllOrphan, <2>1 DEF Typed, Working, Fresh, NewFor, Unborns, Mentions,
         Labels, InMap, Takes, Puts, Beside, MapLabels, WorkLabels, LetGoLabels,
         RemoveAllOrphan, Raise, client
  <1>MapCall. ASSUME NEW o \in Objects, MapCall(t, o) PROVE Fresh'
    <2>1. Puts(t, "none", NoObject, {<<"map", o>>}) /\ \A k, p : ~Has(t, k, p)
      BY <1>MapCall, CallPutsOne DEF MapCall
    <2> QED
      BY <1>MapCall, <2>1 DEF Typed, Working, Fresh, NewFor, Unborns, Mentions, Labels,
         InMap, Takes, Puts, Beside, MapLabels, WorkLabels, LetGoLabels, MapCall,
         object, closing
  <1>UnMapCall. ASSUME NEW o \in Objects, UnMapCall(t, o) PROVE Fresh'
    <2>1. Puts(t, "none", NoObject, {<<"unmap", o>>}) /\ \A k, p : ~Has(t, k, p)
      BY <1>UnMapCall, CallPutsOne DEF UnMapCall
    <2> QED
      BY <1>UnMapCall, <2>1 DEF Typed, Working, Fresh, NewFor, Unborns, Mentions,
         Labels, InMap, Takes, Puts, Beside, MapLabels, WorkLabels, LetGoLabels,
         UnMapCall, object, closing
  <1>ReleaseCall. ASSUME NEW o \in Objects, ReleaseCall(t, o) PROVE Fresh'
    <2>1. Puts(t, "none", NoObject, {<<"release", o>>}) /\ \A k, p : ~Has(t, k, p)
      BY <1>ReleaseCall, CallPutsOne DEF ReleaseCall
    <2> QED
      BY <1>ReleaseCall, <2>1 DEF Typed, Working, Fresh, NewFor, Unborns, Mentions,
         Labels, InMap, Takes, Puts, Beside, MapLabels, WorkLabels, LetGoLabels,
         ReleaseCall, object, closing
  <1>Relock. ASSUME NEW o \in Objects \cup {NoObject}, Relock(t, o) PROVE Fresh'
    <2>1. Takes(t, "relock", o, {})
      BY <1>Relock, RelockTakes
    <2> QED
      BY <1>Relock, <2>1 DEF Typed, Working, Fresh, NewFor, Unborns, Mentions, Labels,
         InMap, Takes, Puts, Beside, MapLabels, WorkLabels, LetGoLabels, Relock, object,
         client, closing
  <1>Uninitialize. CASE Uninitialize(t)
    <2>1. Puts(t, "none", NoObject, {<<"removeAll", NoObject>>}) /\ \A k, p : ~Has(t, k, p)
      BY <1>Uninitialize, UninitializePuts
    <2>a. \A p \in Objects : ~InMap(p)' /\ (p \in removed' => InMap(p))
      BY <1>Uninitialize, UninitializeMaps
    <2> QED
      BY <1>Uninitialize, <2>1, <2>a, NoObjectIsNone DEF Typed, Working, Fresh, NewFor,
         Unborns, Mentions, Labels, InMap, Takes, Puts, Beside, MapLabels, WorkLabels,
         LetGoLabels, Uninitialize, object, client
  <1>RemoveAllDetach. CASE RemoveAllDetach(t)
    <2>1. PICK o \in removed : o \in Objects /\ Clear(o, {"attached"})
               /\ Takes(t, "removeAll", NoObject, {<<"orphan", o>>})
      BY <1>RemoveAllDetach, RemoveAllDetachTakes
    <2>2. UNCHANGED <<resourceMap, writer, state, location, referCount, mapCount, data, client,
                   closing, calls, revived, overlapped>>
      BY <1>RemoveAllDetach DEF RemoveAllDetach
    <2> QED
      BY <2>1, <2>2 DEF Typed, Working, Fresh, NewFor, Unborns, Mentions, Labels, InMap,
         Takes, Puts, Beside, MapLabels, WorkLabels, LetGoLabels, Clear, client, closing
  <1>RemoveAllRelease. CASE RemoveAllRelease(t)
    <2>1. /\ removed = {} /\ writer' = NoThread
          /\ UNCHANGED <<resourceMap, object, client, removed, closed, calls, revived, overlapped>>
      BY <1>RemoveAllRelease DEF RemoveAllRelease
    <2>2. CASE externals = {} /\ UNCHANGED externals
               /\ Takes(t, "removeAll", NoObject, {<<"relock", NoObject>>})
      BY <2>1, <2>2, NoObjectIsNone DEF Typed, Working, Fresh, NewFor, Unborns,
         Mentions, Labels, InMap, Takes, Puts, Beside, MapLabels, WorkLabels,
         LetGoLabels, object, client
    <2>3. ASSUME NEW o \in externals, o \in Objects, externals' = externals \ {o},
                 Takes(t, "removeAll", NoObject, {<<"release", o>>, <<"removeAll", NoObject>>})
          PROVE  Fresh'
      BY <2>1, <2>3, NoObjectIsNone DEF Typed, Working, Fresh, NewFor, Unborns,
         Mentions, Labels, InMap, Takes, Puts, Beside, MapLabels, WorkLabels,
         LetGoLabels, object, client
    <2> QED
      BY <1>RemoveAllRelease, <2>2, <2>3, RemoveAllReleaseTakes
  <1> QED
    BY <1>CreateExisting, <1>CreateNew, <1>InsertExisting, <1>Insert, <1>MapCount,
       <1>Load, <1>MapLoaded, <1>MapWait, <1>MapCheck, <1>Upload, <1>UnMapCount,
       <1>UnMapFlag, <1>DropData, <1>Release, <1>Destroy, <1>Remove, <1>Detach, <1>Last,
       <1>RemoveAllOrphan, <1>MapCall, <1>UnMapCall, <1>ReleaseCall, <1>Relock,
       <1>Uninitialize, <1>RemoveAllDetach, <1>RemoveAllRelease DEF Moves, Calls,
       GivesBack, Step

(* Steps that change neither the map nor the flags leave Named alone, ...    *)
LEMMA NamedFrame ==
    ASSUME Named, UNCHANGED <<state, location, resourceMap, removed, flags>>
    PROVE  Named'
  BY DEF Named

(* ... and the others keep it: who enters an object in the map attaches it   *)
(* and clears its orphan flag in the same stretch, and who takes it out sets *)
(* the flag.                                                                 *)
LEMMA NamedKept ==
    ASSUME Typed, Shaped, Working, Closing, Unborns, Fresh, Named, Leaving,
           NEW t \in Threads, Moves(t)
    PROVE  Named'
  <1>CreateExisting. ASSUME NEW l \in Locations,
                            NEW fl \in CreateFlags, CreateExisting(t, l, fl) PROVE Named'
    <2>1. UNCHANGED <<state, location, resourceMap, removed, flags>>
      BY <1>CreateExisting DEF CreateExisting, closing
    <2> QED
      BY <2>1, NamedFrame
  <1>CreateNew. ASSUME NEW l \in Locations \cup {Anonymous},
                       NEW fl \in CreateFlags, CreateNew(t, l, fl) PROVE Named'
    <2>1. PICK o \in Objects : Creates(t, l, fl, o)
      BY <1>CreateNew, CreateNewPuts
    <2>2. UNCHANGED <<resourceMap, removed>>
      BY <1>CreateNew DEF CreateNew, closing
    <2>3. /\ "orphan" \in flags'[o]
          /\ \A p \in Objects : p # o => UNCHANGED <<state[p], location[p], flags[p]>>
      BY <2>1 DEF Creates, Typed, TypeOK
    <2>4. ~InMap(o)
      BY <2>1 DEF Creates, Unborns
    <2>5. \A k \in Locations : resourceMap[k] # NoObject => resourceMap[k] \in Objects
          /\ resourceMap[k] # o
      BY <2>4 DEF InMap, Typed, TypeOK
    <2> QED
      BY <2>2, <2>3, <2>5 DEF Named
  <1>InsertExisting. ASSUME NEW o \in Objects, InsertExisting(t, o) PROVE Named'
    <2>1. UNCHANGED <<state, location, resourceMap, removed, flags>>
      BY <1>InsertExisting DEF InsertExisting, closing
    <2> QED
      BY <2>1, NamedFrame
  <1>Insert. ASSUME NEW o \in Objects, Insert(t, o) PROVE Named'
    <2>1. /\ state[o] = "live" /\ "orphan" \in flags[o] /\ ~InMap(o)
      BY <1>Insert, InsertIs DEF NewFor
    <2>2. /\ \A p \in Objects : p # o => flags'[p] = flags[p]
          /\ UNCHANGED <<state, location, removed>> /\ "attached" \in flags'[o]
      BY <1>Insert, InsertIs
    <2>3. \A k \in Locations : resourceMap[k] # o
          /\ (resourceMap[k] # NoObject => resourceMap[k] \in Objects)
      BY <2>1 DEF InMap, Typed, TypeOK
    <2>4. CASE location[o] \in Locations
      <3>1. /\ resourceMap[location[o]] = NoObject /\ "orphan" \notin flags'[o]
            /\ \A k \in Locations : resourceMap'[k] = IF k = location[o] THEN o ELSE resourceMap[k]
        BY <1>Insert, <2>4, InsertIs
      <3> QED
        BY <2>1, <2>2, <2>3, <2>4, <3>1, NoObjectIsNone DEF Named
    <2>5. CASE location[o] \notin Locations
      <3>1. UNCHANGED resourceMap /\ "orphan" \in flags'[o]
        BY <1>Insert, <2>5, InsertIs
      <3> QED
        BY <2>1, <2>2, <2>3, <3>1 DEF Named
    <2> QED
      BY <2>4, <2>5
  <1>MapCount. ASSUME NEW o \in Objects, MapCount(t, o) PROVE Named'
    <2>1. UNCHANGED <<state, location, resourceMap, removed, flags>>
      BY <1>MapCount DEF MapCount, closing, object
    <2> QED
      BY <2>1, NamedFrame
  <1>Load. ASSUME NEW o \in Objects, Load(t, o) PROVE Named'
    <2>1. SamePlace /\ UNCHANGED <<state, location, resourceMap, removed, externals>>
      BY <1>Load, SamePlaces DEF Load, closing
    <2>2. \A l \in Locations : resourceMap[l] \in Objects \cup {NoObject}
      BY DEF Typed, TypeOK
    <2> QED
      BY <2>1, <2>2 DEF Named, SamePlace
  <1>MapLoaded. ASSUME NEW o \in Objects, MapLoaded(t, o) PROVE Named'
    <2>1. SamePlace /\ UNCHANGED <<state, location, resourceMap, removed, externals>>
      BY <1>MapLoaded, SamePlaces DEF MapLoaded, closing
    <2>2. \A l \in Locations : resourceMap[l] \in Objects \cup {NoObject}
      BY DEF Typed, TypeOK
    <2> QED
      BY <2>1, <2>2 DEF Named, SamePlace
  <1>MapWait. ASSUME NEW o \in Objects, MapWait(t, o) PROVE Named'
    <2>1. UNCHANGED <<state, location, resourceMap, removed, flags>>
      BY <1>MapWait DEF MapWait, closing, object
    <2> QED
      BY <2>1, NamedFrame
  <1>MapCheck. ASSUME NEW o \in Objects, MapCheck(t, o) PROVE Named'
    <2>1. UNCHANGED <<state, location, resourceMap, removed, flags>>
      BY <1>MapCheck DEF MapCheck, closing, object
    <2> QED
      BY <2>1, NamedFrame
  <1>Upload. ASSUME NEW o \in Objects, Upload(t, o) PROVE Named'
    <2>1. SamePlace /\ UNCHANGED <<state, location, resourceMap, removed, externals>>
      BY <1>Upload, SamePlaces DEF Upload, closing
    <2>2. \A l \in Locations : resourceMap[l] \in Objects \cup {NoObject}
      BY DEF Typed, TypeOK
    <2> QED
      BY <2>1, <2>2 DEF Named, SamePlace
  <1>UnMapCount. ASSUME NEW o \in Objects, UnMapCount(t, o) PROVE Named'
    <2>1. UNCHANGED <<state, location, resourceMap, removed, flags>>
      BY <1>UnMapCount DEF UnMapCount, closing, object
    <2> QED
      BY <2>1, NamedFrame
  <1>UnMapFlag. ASSUME NEW o \in Objects, UnMapFlag(t, o) PROVE Named'
    <2>1. SamePlace /\ UNCHANGED <<state, location, resourceMap, removed, externals>>
      BY <1>UnMapFlag, SamePlaces DEF UnMapFlag, closing
    <2>2. \A l \in Locations : resourceMap[l] \in Objects \cup {NoObject}
      BY DEF Typed, TypeOK
    <2> QED
      BY <2>1, <2>2 DEF Named, SamePlace
  <1>DropData. ASSUME NEW o \in Objects, DropData(t, o) PROVE Named'
    <2>1. UNCHANGED <<state, location, resourceMap, removed, flags>>
      BY <1>DropData DEF DropData, closing, object
    <2> QED
      BY <2>1, NamedFrame
  <1>Release. ASSUME NEW o \in Objects, Release(t, o) PROVE Named'
    <2>1. UNCHANGED <<state, location, resourceMap, removed, flags>>
      BY <1>Release DEF Release, closing, object, Count
    <2> QED
      BY <2>1, NamedFrame
  <1>Destroy. ASSUME NEW o \in Objects, Destroy(t, o) PROVE Named'
    <2>1. UNCHANGED <<state, location, resourceMap, removed, flags>>
      BY <1>Destroy DEF Destroy, closing, object, Count
    <2> QED
      BY <2>1, NamedFrame
  <1>Remove. ASSUME NEW o \in Objects, Remove(t, o) PROVE Named'
    <2>1. CASE flags[o] \cap {"orphan", "eternal"} # {}
      <3>1. UNCHANGED <<state, location, resourceMap, removed, flags>>
        BY <1>Remove, <2>1 DEF Remove, closing
      <3> QED
        BY <3>1, NamedFrame
    <2>2. CASE flags[o] \cap {"orphan", "eternal"} = {}
      <3>1. /\ location[o] \in Locations /\ resourceMap[location[o]] = o
            /\ \A l \in Locations : resourceMap'[l] = IF l = location[o] THEN NoObject
                ELSE resourceMap[l]
            /\ "orphan" \in flags'[o] /\ \A p \in Objects : p # o => flags'[p] = flags[p]
            /\ UNCHANGED <<state, location, removed>>
        BY <1>Remove, <2>2, RemoveIs
      <3>2. \A l \in Locations : resourceMap[l] \in Objects \cup {NoObject}
        BY DEF Typed, TypeOK
      <3> QED
        BY <3>1, <3>2 DEF Named
    <2> QED
      BY <2>1, <2>2
  <1>Detach. ASSUME NEW o \in Objects, Detach(t, o) PROVE Named'
    <2>1. "orphan" \in flags[o] /\ flags' = [flags EXCEPT ![o] = @ \ {"attached"}]
          /\ UNCHANGED <<state, location, resourceMap, removed>>
      BY <1>Detach, DetachTakes DEF Leaving, Takes, Detach, Clear, closing
    <2>2. \A p \in Objects : ("orphan" \in flags'[p] <=> "orphan" \in flags[p])
          /\ (p # o => flags'[p] = flags[p])
      BY <2>1 DEF Typed
    <2>3. \A l \in Locations : resourceMap[l] \in Objects \cup {NoObject}
      BY DEF Typed, TypeOK
    <2> QED
      BY <2>1, <2>2, <2>3 DEF Named
  <1>Last. ASSUME NEW o \in Objects, Last(t, o) PROVE Named'
    <2>1. "orphan" \in flags[o] /\ UNCHANGED <<flags, location, resourceMap, removed>>
      BY <1>Last, LastTakes DEF Leaving, Takes, Last, Count, closing
    <2>2. state'[o] \in {state[o], "deleted"} /\ \A p \in Objects : p # o => state'[p] = state[p]
      BY <1>Last DEF Last, Typed, TypeOK
    <2>3. \A l \in Locations : resourceMap[l] \in Objects \cup {NoObject}
      BY DEF Typed, TypeOK
    <2> QED
      BY <2>1, <2>2, <2>3 DEF Named
  <1>RemoveAllOrphan. ASSUME NEW o \in Objects, RemoveAllOrphan(t, o) PROVE Named'
    <2>1. o \in removed
      BY <1>RemoveAllOrphan, RemoveAllOrphanTakes DEF Closing, Takes
    <2>2. \A l \in Locations : resourceMap[l] # o
          /\ (resourceMap[l] # NoObject => resourceMap[l] \in Objects)
      BY <2>1 DEF Closing, InMap, Typed, TypeOK
    <2>3. /\ UNCHANGED <<state, location, resourceMap>> /\ removed' = removed \ {o}
          /\ "orphan" \in flags'[o] /\ \A p \in Objects : p # o => flags'[p] = flags[p]
      BY <1>RemoveAllOrphan DEF RemoveAllOrphan, Raise, Typed
    <2> QED
      BY <2>2, <2>3 DEF Named
  <1>MapCall. ASSUME NEW o \in Objects, MapCall(t, o) PROVE Named'
    <2>1. UNCHANGED <<state, location, resourceMap, removed, flags>>
      BY <1>MapCall DEF MapCall, closing, object
    <2> QED
      BY <2>1, NamedFrame
  <1>UnMapCall. ASSUME NEW o \in Objects, UnMapCall(t, o) PROVE Named'
    <2>1. UNCHANGED <<state, location, resourceMap, removed, flags>>
      BY <1>UnMapCall DEF UnMapCall, closing, object
    <2> QED
      BY <2>1, NamedFrame
  <1>ReleaseCall. ASSUME NEW o \in Objects, ReleaseCall(t, o) PROVE Named'
    <2>1. UNCHANGED <<state, location, resourceMap, removed, flags>>
      BY <1>ReleaseCall DEF ReleaseCall, closing, object
    <2> QED
      BY <2>1, NamedFrame
  <1>Relock. ASSUME NEW o \in Objects \cup {NoObject}, Relock(t, o) PROVE Named'
    <2>1. UNCHANGED <<state, location, resourceMap, removed, flags>>
      BY <1>Relock DEF Relock, closing, object
    <2> QED
      BY <2>1, NamedFrame
  <1>Uninitialize. CASE Uninitialize(t)
    <2>1. /\ \A p \in Objects : InMap(p) => p \in removed'
          /\ \A l \in Locations : resourceMap'[l] = NoObject
          /\ UNCHANGED <<state, location, flags>> /\ ~closed
      BY <1>Uninitialize, UninitializeMaps DEF Uninitialize, object
    <2>2. removed = {}
      BY <2>1 DEF Closing
    <2> QED
      BY <2>1, <2>2 DEF Named, InMap
  <1>RemoveAllDetach. CASE RemoveAllDetach(t)
    <2>1. PICK o \in removed : o \in Objects /\ Clear(o, {"attached"})
      BY <1>RemoveAllDetach, RemoveAllDetachTakes
    <2>2. UNCHANGED <<resourceMap, state, location, removed>>
      BY <1>RemoveAllDetach DEF RemoveAllDetach, closing
    <2>3. \A p \in Objects : ("orphan" \in flags'[p] <=> "orphan" \in flags[p])
          /\ (p # o => flags'[p] = flags[p])
      BY <2>1 DEF Typed, Clear
    <2>4. \A l \in Locations : resourceMap[l] # o
          /\ (resourceMap[l] # NoObject => resourceMap[l] \in Objects)
      BY <2>1 DEF Closing, InMap, Typed, TypeOK
    <2> QED
      BY <2>2, <2>3, <2>4 DEF Named
  <1>RemoveAllRelease. CASE RemoveAllRelease(t)
    <2>1. UNCHANGED <<state, location, resourceMap, removed, flags>>
      BY <1>RemoveAllRelease DEF RemoveAllRelease, object
    <2> QED
      BY <2>1, NamedFrame
  <1> QED
    BY <1>CreateExisting, <1>CreateNew, <1>InsertExisting, <1>Insert, <1>MapCount,
       <1>Load, <1>MapLoaded, <1>MapWait, <1>MapCheck, <1>Upload, <1>UnMapCount,
       <1>UnMapFlag, <1>DropData, <1>Release, <1>Destroy, <1>Remove, <1>Detach, <1>Last,
       <1>RemoveAllOrphan, <1>MapCall, <1>UnMapCall, <1>ReleaseCall, <1>Relock,
       <1>Uninitialize, <1>RemoveAllDetach, <1>RemoveAllRelease DEF Moves, Calls,
       GivesBack, Step

-----------------------------------------------------------------------------
(* The counted references                                                    *)

(* The threads that are counted                                              *)
LEMMA Counting ==
    ASSUME NEW S \in SUBSET Threads
    PROVE  /\ IsFiniteSet(S) /\ Cardinality(S) \in Nat /\ (Cardinality(S) = 0 <=> S = {})
           /\ \A t \in S : Cardinality(S \ {t}) = Cardinality(S) - 1
           /\ \A t \in Threads \ S : Cardinality(S \cup {t}) = Cardinality(S) + 1
  <1>1. IsFiniteSet(S)
    BY ResourceAssumption, FS_Subset
  <1>2. Cardinality(S) \in Nat /\ (Cardinality(S) = 0 <=> S = {})
    BY <1>1, FS_CardinalityType, FS_EmptySet
  <1>3. \A t \in S : Cardinality(S \ {t}) = Cardinality(S) - 1
    BY <1>1, FS_RemoveElement
  <1>4. \A t \in Threads \ S : Cardinality(S \cup {t}) = Cardinality(S) + 1
    BY <1>1, FS_AddElement
  <1> QED
    BY <1>1, <1>2, <1>3, <1>4

(* A set of threads that differs only in t has one more or one less, as t is *)
(* in it before and after.                                                   *)
LEMMA CountChange ==
    ASSUME NEW S \in SUBSET Threads, NEW R \in SUBSET Threads, NEW t \in Threads,
           \A u \in Threads : u # t => (u \in R <=> u \in S)
    PROVE  Cardinality(R) = Cardinality(S) + (IF t \in R THEN 1 ELSE 0) - (IF t \in S THEN 1 ELSE 0)
  <1>1. Cardinality(S) \in Nat /\ Cardinality(R) \in Nat
    BY Counting
  <1>2. CASE t \in R /\ t \in S
    <2>1. R = S
      BY <1>2
    <2> QED
      BY <2>1, <1>1, <1>2
  <1>3. CASE t \in R /\ t \notin S
    <2>1. R = S \cup {t}
      BY <1>3
    <2> QED
      BY <2>1, <1>1, <1>3, Counting
  <1>4. CASE t \notin R /\ t \in S
    <2>1. R = S \ {t}
      BY <1>4
    <2> QED
      BY <2>1, <1>1, <1>4, Counting
  <1>5. CASE t \notin R /\ t \notin S
    <2>1. R = S
      BY <1>5
    <2> QED
      BY <2>1, <1>1, <1>5
  <1> QED
    BY <1>2, <1>3, <1>4, <1>5

(* Two threads that are in a set count for two, and one for one.             *)
LEMMA TwoCount ==
    ASSUME NEW S \in SUBSET Threads, NEW t \in S
    PROVE  Cardinality(S) \in Nat /\ Cardinality(S) >= 1 /\ \A u \in S : u # t
           => Cardinality(S) >= 2
  <1>1. Cardinality(S) \in Nat /\ Cardinality(S) # 0
    BY Counting
  <1>2. ASSUME NEW u \in S, u # t PROVE Cardinality(S) >= 2
    <2>1. Cardinality(S \ {t}) = Cardinality(S) - 1
      BY Counting
    <2>2. Cardinality(S \ {t}) \in Nat /\ Cardinality(S \ {t}) # 0
      BY <1>2, Counting
    <2> QED
      BY <2>1, <2>2, <1>1
  <1> QED
    BY <1>1, <1>2

(* A reference is counted.                                                   *)
LEMMA Referred ==
    ASSUME Typed, References, NEW o \in Objects
    PROVE  /\ \A t \in Threads : Owes(t, o) \/ o \in held[t] => referCount[o] >= 1
           /\ \A t \in Threads : Owes(t, o) /\ Kept(o) => referCount[o] >= 2
           /\ \A t, u \in Threads : Owes(t, o) /\ Owes(u, o) /\ t # u => referCount[o] >= 2
           /\ Kept(o) => referCount[o] >= 1
           /\ referCount[o] \in Nat
           /\ referCount[o] # 0 => Kept(o) \/ \E t \in Threads : Owes(t, o) \/ o \in held[t]
  <1> DEFINE H == {t \in Threads : o \in held[t]}  W == {t \in Threads : Owes(t, o)}
  <1>1. referCount[o] = Cardinality(H) + Cardinality(W) + (IF Kept(o) THEN 1 ELSE 0)
    BY DEF References, Holders, Owers, Marked
  <1>2. H \in SUBSET Threads /\ W \in SUBSET Threads
    OBVIOUS
  <1>3. \A t \in Threads : (Owes(t, o) => t \in W) /\ (o \in held[t] => t \in H)
    OBVIOUS
  <1>7. (W # {} \/ H # {}) => \E t \in Threads : Owes(t, o) \/ o \in held[t]
    OBVIOUS
  <1> HIDE DEF H, W
  <1>4. Cardinality(H) \in Nat /\ Cardinality(W) \in Nat
        /\ (Cardinality(H) = 0 <=> H = {}) /\ (Cardinality(W) = 0 <=> W = {})
    BY <1>2, Counting
  <1>5. \A t \in W : Cardinality(W) >= 1 /\ \A u \in W : u # t => Cardinality(W) >= 2
    BY <1>2, TwoCount
  <1>6. \A t \in H : Cardinality(H) >= 1
    BY <1>2, TwoCount
  <1>a. ASSUME NEW t \in Threads, Owes(t, o) \/ o \in held[t] PROVE referCount[o] >= 1
    BY <1>a, <1>1, <1>3, <1>4, <1>5, <1>6
  <1>b. ASSUME NEW t \in Threads, Owes(t, o), Kept(o) PROVE referCount[o] >= 2
    BY <1>b, <1>1, <1>3, <1>4, <1>5
  <1>c. ASSUME NEW t \in Threads, NEW u \in Threads, Owes(t, o), Owes(u, o), t # u
        PROVE referCount[o] >= 2
    <2>1. t \in W /\ u \in W
      BY <1>c, <1>3
    <2>2. Cardinality(W) >= 2
      BY <2>1, <1>c, <1>5
    <2> QED
      BY <2>2, <1>1, <1>4
  <1>d. Kept(o) => referCount[o] >= 1
    BY <1>1, <1>4
  <1>e. referCount[o] \in Nat
    BY <1>1, <1>4
  <1>f. referCount[o] # 0 => Kept(o) \/ W # {} \/ H # {}
    BY <1>1, <1>4
  <1> QED
    BY <1>a, <1>b, <1>c, <1>d, <1>e, <1>f, <1>7

(* The references to o change by what t has and owes of it, and by what is   *)
(* kept.                                                                     *)
LEMMA ReferencesChange ==
    ASSUME Typed, References, NEW t \in Threads, NEW o \in Objects,
           \A p \in Objects : p # o => referCount'[p] = referCount[p] /\ (Kept(p)' <=> Kept(p)),
           \A u \in Threads, p \in Objects : p # o \/ u # t =>
                (p \in held'[u] <=> p \in held[u]) /\ (Owes(u, p)' <=> Owes(u, p)),
           referCount'[o] = referCount[o]
                + (IF o \in held'[t] THEN 1 ELSE 0) - (IF o \in held[t] THEN 1 ELSE 0)
                + (IF Owes(t, o)' THEN 1 ELSE 0) - (IF Owes(t, o) THEN 1 ELSE 0)
                + (IF Kept(o)' THEN 1 ELSE 0) - (IF Kept(o) THEN 1 ELSE 0)
    PROVE  References'
  <1> SUFFICES ASSUME NEW p \in Objects
               PROVE  referCount'[p] = Cardinality(Holders(p)') + Cardinality(Owers(p)')
                                         + (IF Kept(p)' THEN 1 ELSE 0)
    BY DEF References, Marked
  <1>1. referCount[p] = Cardinality(Holders(p)) + Cardinality(Owers(p)) + (IF Kept(p) THEN 1 ELSE 0)
    BY DEF References, Marked
  <1>2. /\ Holders(p) \in SUBSET Threads /\ Owers(p) \in SUBSET Threads
        /\ Holders(p)' \in SUBSET Threads /\ Owers(p)' \in SUBSET Threads
    BY DEF Holders, Owers
  <1>3. \A u \in Threads : /\ u \in Holders(p)' <=> p \in held'[u]
                           /\ u \in Holders(p) <=> p \in held[u]
                           /\ u \in Owers(p)' <=> Owes(u, p)'
                           /\ u \in Owers(p) <=> Owes(u, p)
    BY DEF Holders, Owers
  <1>4. /\ Cardinality(Holders(p)) \in Nat /\ Cardinality(Owers(p)) \in Nat
        /\ Cardinality(Holders(p)') \in Nat /\ Cardinality(Owers(p)') \in Nat
    BY <1>2, Counting
  <1>5. CASE p = o
    <2>1. \A u \in Threads : u # t => (u \in Holders(p)' <=> u \in Holders(p))
          /\ (u \in Owers(p)' <=> u \in Owers(p))
      BY <1>3, <1>5
    <2>2. Cardinality(Holders(p)') = Cardinality(Holders(p)) + (IF t \in Holders(p)' THEN 1 ELSE 0)
                                                             - (IF t \in Holders(p) THEN 1 ELSE 0)
      BY <1>2, <2>1, CountChange
    <2>3. Cardinality(Owers(p)') = Cardinality(Owers(p)) + (IF t \in Owers(p)' THEN 1 ELSE 0)
                                                         - (IF t \in Owers(p) THEN 1 ELSE 0)
      BY <1>2, <2>1, CountChange
    <2> QED
      BY <1>1, <1>3, <1>4, <1>5, <2>2, <2>3
  <1>6. CASE p # o
    <2>1. Holders(p)' = Holders(p) /\ Owers(p)' = Owers(p)
      BY <1>2, <1>3, <1>6
    <2> QED
      BY <2>1, <1>1, <1>4, <1>6
  <1> QED
    BY <1>5, <1>6

(* A step that changes neither counter, nor holders, nor owers, nor what is  *)
(* kept.                                                                     *)
LEMMA ReferencesSame ==
    ASSUME References, UNCHANGED <<held, referCount>>,
           \A p \in Objects : Kept(p)' <=> Kept(p),
           \A u \in Threads, p \in Objects : Owes(u, p)' <=> Owes(u, p)
    PROVE  References'
  <1>1. \A p \in Objects : Holders(p)' = Holders(p) /\ Owers(p)' = Owers(p)
    BY DEF Holders, Owers
  <1> QED
    BY <1>1 DEF References, Marked

(* What is kept is the same when the map, what Uninitialize has taken and    *)
(* the flag are.                                                             *)
LEMMA KeptSame ==
    ASSUME UNCHANGED <<resourceMap, removed, externals>>,
           \A p \in Objects : "eternal" \in flags'[p] <=> "eternal" \in flags[p]
    PROVE  \A p \in Objects : Kept(p)' <=> Kept(p)
  BY DEF Kept, InMap

(* Every step that changes referCount changes by the same what it counts.    *)
(* CreateExisting and LoadExist take the reference of the caller under the   *)
(* lock; Release gives one up and puts the steps of the last one in its      *)
(* place.                                                                    *)
LEMMA ReferencesKept ==
    ASSUME Typed, Shaped, Working, Closing, Unborns, Fresh, Named, Leaving, References,
           NEW t \in Threads, Moves(t)
    PROVE  References'
  <1>CreateExisting. ASSUME NEW l \in Locations,
                            NEW fl \in CreateFlags, CreateExisting(t, l, fl) PROVE References'
    <2>1. PICK o \in Objects : o = resourceMap[l]
      BY <1>CreateExisting, CreateExistingPuts
    <2>2. /\ o \notin held[t] /\ referCount' = [referCount EXCEPT ![o] = @ + 1]
          /\ UNCHANGED <<resourceMap, removed, externals, flags>>
      BY <1>CreateExisting, <2>1 DEF CreateExisting, LoadExist, Add, closing
    <2>3. \A p \in Objects : Kept(p)' <=> Kept(p)
      BY <2>2, KeptSame
    <2>4. referCount'[o] = referCount[o] + 1 /\ \A p \in Objects : p # o
          => referCount'[p] = referCount[p]
      BY <2>2 DEF Typed, TypeOK
    <2>5. /\ \A k, p : ~Has(t, k, p)
          /\ \/ Obtain(t, o, fl) /\ Puts(t, "none", NoObject, IF "mapped" \in fl
                 THEN {<<"map", o>>} ELSE {})
             \/ UNCHANGED <<held, mapped>> /\ Puts(t, "none", NoObject, {<<"release", o>>})
      BY <1>CreateExisting, <2>1, CreateExistingPuts
    <2>6. ~Owes(t, o)
      BY <2>5 DEF Owes
    <2>7. CASE Obtain(t, o, fl) /\ Puts(t, "none", NoObject, IF "mapped" \in fl
               THEN {<<"map", o>>} ELSE {})
      <3>1. \A u \in Threads, p \in Objects : Owes(u, p)' <=> Owes(u, p)
        <4>1. \A u \in Threads : \A k \in OweLabels : \A p : Has(u, k, p)' <=> Has(u, k, p)
          BY <2>5, <2>7 DEF Puts, OweLabels
        <4> QED
          BY <4>1 DEF Owes
      <3>2. /\ o \in held'[t]
            /\ \A u \in Threads, p \in Objects : p # o \/ u # t
                => (p \in held'[u] <=> p \in held[u])
        BY <2>7 DEF Obtain, Typed
      <3> QED
        BY <2>2, <2>3, <2>4, <2>6, <3>1, <3>2, ReferencesChange DEF Typed, TypeOK
    <2>8. CASE UNCHANGED <<held, mapped>> /\ Puts(t, "none", NoObject, {<<"release", o>>})
      <3>1. \A u \in Threads, p \in Objects : Owes(u, p)' <=> Owes(u, p) \/ (u = t /\ p = o)
        <4>1. \A u \in Threads : \A k, p : Has(u, k, p)' <=> Has(u, k, p)
              \/ (u = t /\ k = "release" /\ p = o)
          BY <2>5, <2>8 DEF Puts
        <4> QED
          BY <4>1 DEF Owes, OweLabels
      <3> QED
        BY <2>2, <2>3, <2>4, <2>6, <2>8, <3>1, ReferencesChange DEF Typed, TypeOK
    <2> QED
      BY <2>5, <2>7, <2>8
  <1>CreateNew. ASSUME NEW l \in Locations \cup {Anonymous},
                       NEW fl \in CreateFlags, CreateNew(t, l, fl) PROVE References'
    <2>1. PICK o \in Objects : Creates(t, l, fl, o)
      BY <1>CreateNew, CreateNewPuts
    <2>2. UNCHANGED <<resourceMap, removed, externals, held>>
      BY <1>CreateNew DEF CreateNew, closing
    <2>3. referCount'[o] = referCount[o] + 1
          /\ \A p \in Objects : p # o => referCount'[p] = referCount[p] /\ flags'[p] = flags[p]
      BY <2>1 DEF Creates, Add, Typed, TypeOK
    <2>4. ~InMap(o) /\ o \notin removed /\ o \notin externals
      BY <2>1 DEF Creates, Unborns
    <2>5. /\ \A p \in Objects : p # o => (Kept(p)' <=> Kept(p))
          /\ ~Kept(o) /\ ~Kept(o)'
      BY <2>2, <2>3, <2>4 DEF Kept, InMap
    <2>6. \A u \in Threads : \A k, p : Has(u, k, p)' <=> Has(u, k, p)
          \/ (u = t /\ k = "insert" /\ p = o)
      BY <2>1 DEF Creates, Puts
    <2>7. /\ \A u \in Threads, p \in Objects : Owes(u, p)' <=> Owes(u, p) \/ (u = t /\ p = o)
          /\ ~Owes(t, o)
      BY <2>1, <2>6 DEF Owes, OweLabels, Creates
    <2> QED
      BY <2>2, <2>3, <2>5, <2>7, ReferencesChange DEF Typed, TypeOK
  <1>InsertExisting. ASSUME NEW o \in Objects, InsertExisting(t, o) PROVE References'
    <2>1. PICK e \in Objects : e = resourceMap[location[o]]
      BY <1>InsertExisting, InsertExistingFacts
    <2>2. e # o /\ e \notin held[t]
      BY <1>InsertExisting, <2>1, InsertExistingFacts
    <2>3. /\ referCount' = [referCount EXCEPT ![e] = @ + 1] /\ Obtain(t, e, request[t])
          /\ UNCHANGED <<resourceMap, removed, externals, flags>>
      BY <1>InsertExisting, <2>1 DEF InsertExisting, LoadExist, Add, closing
    <2>4. referCount'[e] = referCount[e] + 1 /\ \A p \in Objects : p # e
          => referCount'[p] = referCount[p]
      BY <2>3 DEF Typed, TypeOK
    <2>5. /\ e \in held'[t]
          /\ \A u \in Threads, p \in Objects : p # e \/ u # t => (p \in held'[u] <=> p \in held[u])
      BY <2>3 DEF Obtain, Typed
    <2>6. Takes(t, "insert", o, (IF "mapped" \in request[t] THEN {<<"map", e>>}
          ELSE {}) \cup {<<"release", o>>})
      BY <1>InsertExisting, <2>1, InsertExistingTakes
    <2>7. \A u \in Threads : \A k, p : k \in OweLabels =>
             (Has(u, k, p)' <=> (Has(u, k, p) /\ ~(u = t /\ k = "insert" /\ p = o))
                 \/ (u = t /\ k = "release" /\ p = o))
      BY <2>6 DEF Takes, Puts, OweLabels
    <2>8. Has(t, "insert", o) /\ \A k, p : Has(t, k, p) => k = "insert" /\ p = o
      BY <2>6 DEF Takes, Beside, MapLabels, LetGoLabels
    <2>9. \A u \in Threads, p \in Objects : Owes(u, p)' <=> Owes(u, p)
      BY <2>7, <2>8 DEF Owes, OweLabels
    <2>10. \A p \in Objects : Kept(p)' <=> Kept(p)
      BY <2>3, KeptSame
    <2> QED
      BY <2>2, <2>4, <2>5, <2>9, <2>10, ReferencesChange DEF Typed, TypeOK
  <1>Insert. ASSUME NEW o \in Objects, Insert(t, o) PROVE References'
    <2>1. NewFor(t, o) /\ Takes(t, "insert", o, StepsNew(request[t], o))
      BY <1>Insert, InsertIs, InsertTakes
    <2>2. /\ \A p \in Objects : p # o => referCount'[p] = referCount[p] /\ flags'[p] = flags[p]
          /\ \A u \in Threads, p \in Objects : p # o => (p \in held'[u] <=> p \in held[u])
          /\ \A u \in Threads : o \in held'[u] <=> u = t
          /\ UNCHANGED <<removed, externals>>
          /\ "eternal" \in flags'[o] <=> "eternal" \in flags[o]
      BY <1>Insert, InsertIs
    <2>3. /\ ~InMap(o) /\ o \notin removed /\ o \notin externals
             /\ \A u \in Threads : o \notin held[u]
      BY <2>1 DEF NewFor
    <2>4. \A k, p : <<k, p>> \in StepsNew(request[t], o) => k \notin OweLabels
      BY DEF StepsNew, OweLabels
    <2>5. Has(t, "insert", o) /\ \A k, p : Has(t, k, p) => k = "insert" /\ p = o
      BY <2>1 DEF Takes, Beside, MapLabels, LetGoLabels
    <2>6. /\ \A u \in Threads, p \in Objects : u # t \/ p # o => (Owes(u, p)' <=> Owes(u, p))
          /\ Owes(t, o) /\ ~Owes(t, o)'
      BY <2>1, <2>4, <2>5 DEF Takes, Puts, Owes, OweLabels
    <2>7. ~Kept(o) /\ \A p \in Objects : p # o => (Kept(p)' <=> Kept(p))
      <3>1. \A p \in Objects : p # o => (InMap(p)' <=> InMap(p))
        BY <1>Insert, InsertIs, NoObjectIsNone DEF InMap
      <3> QED
        BY <2>2, <2>3, <3>1 DEF Kept
    <2>8. referCount'[o] = referCount[o] + IF Kept(o)' THEN 1 ELSE 0
      <3>1. CASE location[o] \in Locations
        <4>1. referCount'[o] = referCount[o] + IF "eternal" \in flags[o] THEN 1 ELSE 0
          BY <1>Insert, <3>1 DEF Insert, Add, Typed, TypeOK
        <4>2. resourceMap'[location[o]] = o
          BY <1>Insert, <3>1, InsertIs
        <4>3. Kept(o)' <=> "eternal" \in flags[o]
          BY <2>2, <2>3, <3>1, <4>2 DEF Kept, InMap
        <4> QED
          BY <4>1, <4>3
      <3>2. CASE location[o] \notin Locations
        <4>1. UNCHANGED <<referCount, resourceMap>>
          BY <1>Insert, <3>2 DEF Insert
        <4>2. ~Kept(o)'
          BY <2>2, <2>3, <4>1 DEF Kept, InMap
        <4> QED
          BY <4>1, <4>2 DEF Typed, TypeOK
      <3> QED
        BY <3>1, <3>2
    <2>e. referCount'[o] = referCount[o]
                + (IF o \in held'[t] THEN 1 ELSE 0) - (IF o \in held[t] THEN 1 ELSE 0)
                + (IF Owes(t, o)' THEN 1 ELSE 0) - (IF Owes(t, o) THEN 1 ELSE 0)
                + (IF Kept(o)' THEN 1 ELSE 0) - (IF Kept(o) THEN 1 ELSE 0)
      BY <2>2, <2>3, <2>6, <2>7, <2>8 DEF Typed, TypeOK
    <2>9. \A p \in Objects : p # o => referCount'[p] = referCount[p] /\ (Kept(p)' <=> Kept(p))
      BY <2>2, <2>7
    <2>10. \A u \in Threads, p \in Objects : p # o \/ u # t =>
                (p \in held'[u] <=> p \in held[u]) /\ (Owes(u, p)' <=> Owes(u, p))
      BY <2>2, <2>3, <2>6
    <2> QED
      BY <2>e, <2>9, <2>10, ReferencesChange
  <1>MapCount. ASSUME NEW o \in Objects, MapCount(t, o) PROVE References'
    <2>2. \A u \in Threads, p \in Objects : Owes(u, p)' <=> Owes(u, p)
      <3>1. CASE mapCount[o] = 0
        <4>1. Takes(t, "map", o, {<<"load", o>>})
          BY <1>MapCount, <3>1, MapCountTakes
        <4> QED
          BY <4>1 DEF Takes, Puts, Beside, Owes, OweLabels, MapLabels, LetGoLabels
      <3>2. CASE mapCount[o] # 0
        <4>1. Takes(t, "map", o, {<<"wait", o>>})
          BY <1>MapCount, <3>2, MapCountTakes
        <4> QED
          BY <4>1 DEF Takes, Puts, Beside, Owes, OweLabels, MapLabels, LetGoLabels
      <3> QED
        BY <3>1, <3>2
    <2>3. UNCHANGED <<held, referCount, resourceMap, removed, externals>>
      BY <1>MapCount DEF MapCount, client, closing, object
    <2>4. \A p \in Objects : "eternal" \in flags'[p] <=> "eternal" \in flags[p]
      BY <1>MapCount DEF MapCount, object
    <2> QED
      BY <2>2, <2>3, <2>4, KeptSame, ReferencesSame
  <1>Load. ASSUME NEW o \in Objects, Load(t, o) PROVE References'
    <2>1. Takes(t, "load", o, {<<"loaded", o>>})
      BY <1>Load, LoadTakes
    <2>2. \A u \in Threads, p \in Objects : Owes(u, p)' <=> Owes(u, p)
      BY <2>1 DEF Takes, Puts, Beside, Owes, OweLabels, MapLabels, LetGoLabels
    <2>3. UNCHANGED <<held, referCount, resourceMap, removed, externals>>
      BY <1>Load DEF Load, client, closing, object
    <2>4. \A p \in Objects : "eternal" \in flags'[p] <=> "eternal" \in flags[p]
      BY <1>Load, SamePlaces DEF Load, object, SamePlace
    <2> QED
      BY <2>2, <2>3, <2>4, KeptSame, ReferencesSame
  <1>MapLoaded. ASSUME NEW o \in Objects, MapLoaded(t, o) PROVE References'
    <2>1. Takes(t, "loaded", o, {})
      BY <1>MapLoaded, MapLoadedTakes
    <2>2. \A u \in Threads, p \in Objects : Owes(u, p)' <=> Owes(u, p)
      BY <2>1 DEF Takes, Puts, Beside, Owes, OweLabels, MapLabels, LetGoLabels
    <2>3. UNCHANGED <<held, referCount, resourceMap, removed, externals>>
      BY <1>MapLoaded DEF MapLoaded, client, closing, object
    <2>4. \A p \in Objects : "eternal" \in flags'[p] <=> "eternal" \in flags[p]
      BY <1>MapLoaded, SamePlaces DEF MapLoaded, object, SamePlace
    <2> QED
      BY <2>2, <2>3, <2>4, KeptSame, ReferencesSame
  <1>MapWait. ASSUME NEW o \in Objects, MapWait(t, o) PROVE References'
    <2>1. Takes(t, "wait", o, {<<"check", o>>})
      BY <1>MapWait, MapWaitTakes
    <2>2. \A u \in Threads, p \in Objects : Owes(u, p)' <=> Owes(u, p)
      BY <2>1 DEF Takes, Puts, Beside, Owes, OweLabels, MapLabels, LetGoLabels
    <2>3. UNCHANGED <<held, referCount, resourceMap, removed, externals>>
      BY <1>MapWait DEF MapWait, client, closing, object
    <2>4. \A p \in Objects : "eternal" \in flags'[p] <=> "eternal" \in flags[p]
      BY <1>MapWait DEF MapWait, object
    <2> QED
      BY <2>2, <2>3, <2>4, KeptSame, ReferencesSame
  <1>MapCheck. ASSUME NEW o \in Objects, MapCheck(t, o) PROVE References'
    <2>1. Takes(t, "check", o, {})
      BY <1>MapCheck, MapCheckTakes
    <2>2. \A u \in Threads, p \in Objects : Owes(u, p)' <=> Owes(u, p)
      BY <2>1 DEF Takes, Puts, Beside, Owes, OweLabels, MapLabels, LetGoLabels
    <2>3. UNCHANGED <<held, referCount, resourceMap, removed, externals>>
      BY <1>MapCheck DEF MapCheck, client, closing, object
    <2>4. \A p \in Objects : "eternal" \in flags'[p] <=> "eternal" \in flags[p]
      BY <1>MapCheck DEF MapCheck, object
    <2> QED
      BY <2>2, <2>3, <2>4, KeptSame, ReferencesSame
  <1>Upload. ASSUME NEW o \in Objects, Upload(t, o) PROVE References'
    <2>1. Takes(t, "upload", o, {})
      BY <1>Upload, UploadTakes
    <2>2. \A u \in Threads, p \in Objects : Owes(u, p)' <=> Owes(u, p)
      BY <2>1 DEF Takes, Puts, Beside, Owes, OweLabels, MapLabels, LetGoLabels
    <2>3. UNCHANGED <<held, referCount, resourceMap, removed, externals>>
      BY <1>Upload DEF Upload, client, closing, object
    <2>4. \A p \in Objects : "eternal" \in flags'[p] <=> "eternal" \in flags[p]
      BY <1>Upload, SamePlaces DEF Upload, object, SamePlace
    <2> QED
      BY <2>2, <2>3, <2>4, KeptSame, ReferencesSame
  <1>UnMapCount. ASSUME NEW o \in Objects, UnMapCount(t, o) PROVE References'
    <2>2. \A u \in Threads, p \in Objects : Owes(u, p)' <=> Owes(u, p)
      <3>1. CASE mapCount[o] = 1
        <4>1. Takes(t, "unmap", o, {<<"unflag", o>>, <<"drop", o>>})
          BY <1>UnMapCount, <3>1, UnMapCountTakes
        <4> QED
          BY <4>1 DEF Takes, Puts, Beside, Owes, OweLabels, MapLabels, LetGoLabels
      <3>2. CASE mapCount[o] # 1
        <4>1. Takes(t, "unmap", o, {})
          BY <1>UnMapCount, <3>2, UnMapCountTakes
        <4> QED
          BY <4>1 DEF Takes, Puts, Beside, Owes, OweLabels, MapLabels, LetGoLabels
      <3> QED
        BY <3>1, <3>2
    <2>3. UNCHANGED <<held, referCount, resourceMap, removed, externals>>
      BY <1>UnMapCount DEF UnMapCount, client, closing, object
    <2>4. \A p \in Objects : "eternal" \in flags'[p] <=> "eternal" \in flags[p]
      BY <1>UnMapCount DEF UnMapCount, object
    <2> QED
      BY <2>2, <2>3, <2>4, KeptSame, ReferencesSame
  <1>UnMapFlag. ASSUME NEW o \in Objects, UnMapFlag(t, o) PROVE References'
    <2>1. Takes(t, "unflag", o, {})
      BY <1>UnMapFlag, UnMapFlagTakes
    <2>2. \A u \in Threads, p \in Objects : Owes(u, p)' <=> Owes(u, p)
      BY <2>1 DEF Takes, Puts, Beside, Owes, OweLabels, MapLabels, LetGoLabels
    <2>3. UNCHANGED <<held, referCount, resourceMap, removed, externals>>
      BY <1>UnMapFlag DEF UnMapFlag, client, closing, object
    <2>4. \A p \in Objects : "eternal" \in flags'[p] <=> "eternal" \in flags[p]
      BY <1>UnMapFlag, SamePlaces DEF UnMapFlag, object, SamePlace
    <2> QED
      BY <2>2, <2>3, <2>4, KeptSame, ReferencesSame
  <1>DropData. ASSUME NEW o \in Objects, DropData(t, o) PROVE References'
    <2>1. Takes(t, "drop", o, {})
      BY <1>DropData, DropDataTakes
    <2>2. \A u \in Threads, p \in Objects : Owes(u, p)' <=> Owes(u, p)
      BY <2>1 DEF Takes, Puts, Beside, Owes, OweLabels, MapLabels, LetGoLabels
    <2>3. UNCHANGED <<held, referCount, resourceMap, removed, externals>>
      BY <1>DropData DEF DropData, client, closing, object
    <2>4. \A p \in Objects : "eternal" \in flags'[p] <=> "eternal" \in flags[p]
      BY <1>DropData DEF DropData, object
    <2> QED
      BY <2>2, <2>3, <2>4, KeptSame, ReferencesSame
  <1>Release. ASSUME NEW o \in Objects, Release(t, o) PROVE References'
    <2>1. referCount'[o] = referCount[o] - 1 /\ \A p \in Objects : p # o
          => referCount'[p] = referCount[p]
      BY <1>Release DEF Release, Count, Add, Typed, TypeOK
    <2>2. UNCHANGED <<held, resourceMap, removed, externals, flags>>
      BY <1>Release DEF Release, Count, client, closing
    <2>3. \A p \in Objects : Kept(p)' <=> Kept(p)
      BY <2>2, KeptSame
    <2>4. /\ \A u \in Threads, p \in Objects : u # t \/ p # o => (Owes(u, p)' <=> Owes(u, p))
          /\ Owes(t, o) /\ ~Owes(t, o)'
      <3>1. CASE referCount[o] = 1
        <4>1. Takes(t, "release", o, {<<"destroy", o>>})
          BY <1>Release, <3>1, ReleaseTakes
        <4> QED
          BY <4>1 DEF Takes, Puts, Beside, Owes, OweLabels, MapLabels, LetGoLabels
      <3>2. CASE referCount[o] # 1
        <4>1. Takes(t, "release", o, {})
          BY <1>Release, <3>2, ReleaseTakes
        <4> QED
          BY <4>1 DEF Takes, Puts, Beside, Owes, OweLabels, MapLabels, LetGoLabels
      <3> QED
        BY <3>1, <3>2
    <2> QED
      BY <2>1, <2>2, <2>3, <2>4, ReferencesChange DEF Typed, TypeOK
  <1>Destroy. ASSUME NEW o \in Objects, Destroy(t, o) PROVE References'
    <2>1. referCount'[o] = referCount[o] + 1 /\ \A p \in Objects : p # o
          => referCount'[p] = referCount[p]
      BY <1>Destroy DEF Destroy, Count, Add, Typed, TypeOK
    <2>2. UNCHANGED <<held, resourceMap, removed, externals, flags>>
      BY <1>Destroy DEF Destroy, Count, client, closing
    <2>3. \A p \in Objects : Kept(p)' <=> Kept(p)
      BY <2>2, KeptSame
    <2>4. /\ \A u \in Threads, p \in Objects : u # t \/ p # o => (Owes(u, p)' <=> Owes(u, p))
          /\ ~Owes(t, o) /\ Owes(t, o)'
      <3>1. CASE "orphan" \in flags[o]
        <4>1. Takes(t, "destroy", o, {<<"last", o>>})
          BY <1>Destroy, <3>1, DestroyTakes
        <4> QED
          BY <4>1 DEF Takes, Puts, Beside, Owes, OweLabels, MapLabels, LetGoLabels
      <3>2. CASE "orphan" \notin flags[o]
        <4>1. Takes(t, "destroy", o, {<<"remove", o>>})
          BY <1>Destroy, <3>2, DestroyTakes
        <4> QED
          BY <4>1 DEF Takes, Puts, Beside, Owes, OweLabels, MapLabels, LetGoLabels
      <3> QED
        BY <3>1, <3>2
    <2> QED
      BY <2>1, <2>2, <2>3, <2>4, ReferencesChange DEF Typed, TypeOK
  <1>Remove. ASSUME NEW o \in Objects, Remove(t, o) PROVE References'
    <2>1. \A u \in Threads, p \in Objects : Owes(u, p)' <=> Owes(u, p)
      <3>1. CASE flags[o] \cap {"orphan", "eternal"} # {}
        <4>1. Takes(t, "remove", o, {<<"last", o>>})
          BY <1>Remove, <3>1, RemoveTakes
        <4> QED
          BY <4>1 DEF Takes, Puts, Beside, Owes, OweLabels, MapLabels, LetGoLabels
      <3>2. CASE flags[o] \cap {"orphan", "eternal"} = {}
        <4>1. Takes(t, "remove", o, {<<"detach", o>>, <<"relock", o>>, <<"last", o>>})
          BY <1>Remove, <3>2, RemoveTakes
        <4> QED
          BY <4>1 DEF Takes, Puts, Beside, Owes, OweLabels, MapLabels, LetGoLabels
      <3> QED
        BY <3>1, <3>2
    <2>2. \A p \in Objects : Kept(p)' <=> Kept(p)
      <3>1. CASE flags[o] \cap {"orphan", "eternal"} # {}
        <4>1. UNCHANGED <<resourceMap, removed, externals, flags>>
          BY <1>Remove, <3>1 DEF Remove, closing
        <4> QED
          BY <4>1, KeptSame
      <3>2. CASE flags[o] \cap {"orphan", "eternal"} = {}
        <4>1. /\ "eternal" \notin flags[o] /\ location[o] \in Locations
                 /\ resourceMap[location[o]] = o
              /\ \A l \in Locations : resourceMap'[l] = IF l = location[o] THEN NoObject
                  ELSE resourceMap[l]
              /\ flags'[o] = flags[o] \cup {"orphan"} /\ \A p \in Objects : p # o
                  => flags'[p] = flags[p]
              /\ UNCHANGED <<removed, externals>>
          BY <1>Remove, <3>2, RemoveIs
        <4>2. \A p \in Objects : p # o => (InMap(p)' <=> InMap(p))
          BY <4>1, NoObjectIsNone DEF InMap
        <4> QED
          BY <4>1, <4>2 DEF Kept
      <3> QED
        BY <3>1, <3>2
    <2>3. UNCHANGED <<held, referCount>>
      BY <1>Remove DEF Remove, client
    <2> QED
      BY <2>1, <2>2, <2>3, ReferencesSame
  <1>Detach. ASSUME NEW o \in Objects, Detach(t, o) PROVE References'
    <2>1. Takes(t, "detach", o, {})
      BY <1>Detach, DetachTakes
    <2>2. \A u \in Threads, p \in Objects : Owes(u, p)' <=> Owes(u, p)
      BY <2>1 DEF Takes, Puts, Beside, Owes, OweLabels, MapLabels, LetGoLabels
    <2>3. UNCHANGED <<held, referCount, resourceMap, removed, externals>>
      BY <1>Detach DEF Detach, client, closing, object
    <2>4. \A p \in Objects : "eternal" \in flags'[p] <=> "eternal" \in flags[p]
      BY <1>Detach DEF Detach, object, Clear, Typed
    <2> QED
      BY <2>2, <2>3, <2>4, KeptSame, ReferencesSame
  <1>Last. ASSUME NEW o \in Objects, Last(t, o) PROVE References'
    <2>1. referCount'[o] = referCount[o] - 1 /\ \A p \in Objects : p # o
          => referCount'[p] = referCount[p]
      BY <1>Last DEF Last, Count, Add, Typed, TypeOK
    <2>2. UNCHANGED <<held, resourceMap, removed, externals, flags>>
      BY <1>Last DEF Last, Count, client, closing
    <2>3. \A p \in Objects : Kept(p)' <=> Kept(p)
      BY <2>2, KeptSame
    <2>4. /\ \A u \in Threads, p \in Objects : u # t \/ p # o => (Owes(u, p)' <=> Owes(u, p))
          /\ Owes(t, o) /\ ~Owes(t, o)'
      <3>1. Takes(t, "last", o, {})
        BY <1>Last, LastTakes
      <3> QED
        BY <3>1 DEF Takes, Puts, Beside, Owes, OweLabels, MapLabels, LetGoLabels
    <2> QED
      BY <2>1, <2>2, <2>3, <2>4, ReferencesChange DEF Typed, TypeOK
  <1>RemoveAllOrphan. ASSUME NEW o \in Objects, RemoveAllOrphan(t, o) PROVE References'
    <2>1. Takes(t, "orphan", o, {<<"removeAll", NoObject>>})
      BY <1>RemoveAllOrphan, RemoveAllOrphanTakes
    <2>2. \A u \in Threads, p \in Objects : Owes(u, p)' <=> Owes(u, p)
      BY <2>1 DEF Takes, Puts, Beside, Owes, OweLabels, MapLabels, LetGoLabels
    <2>3. o \in removed
      BY <2>1 DEF Closing, Takes
    <2>4. /\ UNCHANGED <<held, referCount, resourceMap>> /\ removed' = removed \ {o}
          /\ externals' = IF "eternal" \in flags[o] THEN externals \cup {o} ELSE externals
      BY <1>RemoveAllOrphan DEF RemoveAllOrphan, client
    <2>5. \A p \in Objects : "eternal" \in flags'[p] <=> "eternal" \in flags[p]
      BY <1>RemoveAllOrphan DEF RemoveAllOrphan, Raise, Typed
    <2>6. \A p \in Objects : Kept(p)' <=> Kept(p)
      BY <2>3, <2>4, <2>5 DEF Kept, InMap, Closing
    <2> QED
      BY <2>2, <2>4, <2>6, ReferencesSame
  <1>MapCall. ASSUME NEW o \in Objects, MapCall(t, o) PROVE References'
    <2>1. Puts(t, "none", NoObject, {<<"map", o>>}) /\ \A k, p : ~Has(t, k, p)
      BY <1>MapCall, CallPutsOne DEF MapCall
    <2>2. \A u \in Threads, p \in Objects : Owes(u, p)' <=> Owes(u, p)
      BY <2>1 DEF Takes, Puts, Beside, Owes, OweLabels, MapLabels, LetGoLabels
    <2>3. UNCHANGED <<held, referCount, resourceMap, removed, externals>>
      BY <1>MapCall DEF MapCall, client, closing, object
    <2>4. \A p \in Objects : "eternal" \in flags'[p] <=> "eternal" \in flags[p]
      BY <1>MapCall DEF MapCall, object
    <2> QED
      BY <2>2, <2>3, <2>4, KeptSame, ReferencesSame
  <1>UnMapCall. ASSUME NEW o \in Objects, UnMapCall(t, o) PROVE References'
    <2>1. Puts(t, "none", NoObject, {<<"unmap", o>>}) /\ \A k, p : ~Has(t, k, p)
      BY <1>UnMapCall, CallPutsOne DEF UnMapCall
    <2>2. \A u \in Threads, p \in Objects : Owes(u, p)' <=> Owes(u, p)
      BY <2>1 DEF Takes, Puts, Beside, Owes, OweLabels, MapLabels, LetGoLabels
    <2>3. UNCHANGED <<held, referCount, resourceMap, removed, externals>>
      BY <1>UnMapCall DEF UnMapCall, client, closing, object
    <2>4. \A p \in Objects : "eternal" \in flags'[p] <=> "eternal" \in flags[p]
      BY <1>UnMapCall DEF UnMapCall, object
    <2> QED
      BY <2>2, <2>3, <2>4, KeptSame, ReferencesSame
  <1>ReleaseCall. ASSUME NEW o \in Objects, ReleaseCall(t, o) PROVE References'
    <2>1. Puts(t, "none", NoObject, {<<"release", o>>}) /\ \A k, p : ~Has(t, k, p)
      BY <1>ReleaseCall, CallPutsOne DEF ReleaseCall
    <2>2. /\ o \in held[t] /\ held' = [held EXCEPT ![t] = @ \ {o}]
          /\ UNCHANGED <<referCount, resourceMap, removed, externals, flags>>
      BY <1>ReleaseCall DEF ReleaseCall, object, closing
    <2>3. \A u \in Threads : \A k, p : Has(u, k, p)' <=> Has(u, k, p)
          \/ (u = t /\ k = "release" /\ p = o)
      BY <2>1 DEF Puts
    <2>4. /\ \A u \in Threads, p \in Objects : Owes(u, p)' <=> Owes(u, p) \/ (u = t /\ p = o)
          /\ ~Owes(t, o)
      BY <2>1, <2>3 DEF Owes, OweLabels
    <2>5. o \notin held'[t] /\ \A u \in Threads, p \in Objects : u # t \/ p # o
          => (p \in held'[u] <=> p \in held[u])
      BY <2>2 DEF Typed
    <2>6. \A p \in Objects : Kept(p)' <=> Kept(p)
      BY <2>2, KeptSame
    <2>e. referCount'[o] = referCount[o]
                + (IF o \in held'[t] THEN 1 ELSE 0) - (IF o \in held[t] THEN 1 ELSE 0)
                + (IF Owes(t, o)' THEN 1 ELSE 0) - (IF Owes(t, o) THEN 1 ELSE 0)
                + (IF Kept(o)' THEN 1 ELSE 0) - (IF Kept(o) THEN 1 ELSE 0)
      BY <2>2, <2>4, <2>5, <2>6 DEF Typed, TypeOK
    <2>7. \A p \in Objects : p # o => referCount'[p] = referCount[p] /\ (Kept(p)' <=> Kept(p))
      BY <2>2, <2>6
    <2>8. \A u \in Threads, p \in Objects : p # o \/ u # t =>
                (p \in held'[u] <=> p \in held[u]) /\ (Owes(u, p)' <=> Owes(u, p))
      BY <2>4, <2>5
    <2> QED
      BY <2>e, <2>7, <2>8, ReferencesChange
  <1>Relock. ASSUME NEW o \in Objects \cup {NoObject}, Relock(t, o) PROVE References'
    <2>1. Takes(t, "relock", o, {})
      BY <1>Relock, RelockTakes
    <2>2. \A u \in Threads, p \in Objects : Owes(u, p)' <=> Owes(u, p)
      BY <2>1 DEF Takes, Puts, Beside, Owes, OweLabels, MapLabels, LetGoLabels
    <2>3. UNCHANGED <<held, referCount, resourceMap, removed, externals>>
      BY <1>Relock DEF Relock, client, closing, object
    <2>4. \A p \in Objects : "eternal" \in flags'[p] <=> "eternal" \in flags[p]
      BY <1>Relock DEF Relock, object
    <2> QED
      BY <2>2, <2>3, <2>4, KeptSame, ReferencesSame
  <1>Uninitialize. CASE Uninitialize(t)
    <2>1. Puts(t, "none", NoObject, {<<"removeAll", NoObject>>}) /\ \A k, p : ~Has(t, k, p)
      BY <1>Uninitialize, UninitializePuts
    <2>2. \A u \in Threads, p \in Objects : Owes(u, p)' <=> Owes(u, p)
      BY <2>1 DEF Takes, Puts, Beside, Owes, OweLabels, MapLabels, LetGoLabels
    <2>3. /\ \A p \in Objects : ~InMap(p)' /\ (p \in removed' <=> InMap(p))
          /\ UNCHANGED <<held, referCount, externals, flags>> /\ ~closed
      BY <1>Uninitialize, UninitializeMaps DEF Uninitialize, object, client
    <2>4. removed = {}
      BY <2>3 DEF Closing
    <2>5. \A p \in Objects : Kept(p)' <=> Kept(p)
      BY <2>3, <2>4 DEF Kept
    <2> QED
      BY <2>2, <2>3, <2>5, ReferencesSame
  <1>RemoveAllDetach. CASE RemoveAllDetach(t)
    <2>1. PICK o \in removed : o \in Objects /\ Clear(o, {"attached"})
               /\ Takes(t, "removeAll", NoObject, {<<"orphan", o>>})
      BY <1>RemoveAllDetach, RemoveAllDetachTakes
    <2>2. \A u \in Threads, p \in Objects : Owes(u, p)' <=> Owes(u, p)
      BY <2>1 DEF Takes, Puts, Beside, Owes, OweLabels, MapLabels, LetGoLabels
    <2>3. UNCHANGED <<held, referCount, resourceMap, removed, externals>>
      BY <1>RemoveAllDetach DEF RemoveAllDetach, client, closing
    <2>4. \A p \in Objects : "eternal" \in flags'[p] <=> "eternal" \in flags[p]
      BY <2>1 DEF Clear, Typed
    <2> QED
      BY <2>2, <2>3, <2>4, KeptSame, ReferencesSame
  <1>RemoveAllRelease. CASE RemoveAllRelease(t)
    <2>1. removed = {} /\ UNCHANGED <<held, referCount, resourceMap, removed, flags>>
      BY <1>RemoveAllRelease DEF RemoveAllRelease, object, client
    <2>2. CASE externals = {} /\ UNCHANGED externals
               /\ Takes(t, "removeAll", NoObject, {<<"relock", NoObject>>})
      <3>1. \A u \in Threads, p \in Objects : Owes(u, p)' <=> Owes(u, p)
        BY <2>2 DEF Takes, Puts, Beside, Owes, OweLabels, MapLabels, LetGoLabels
      <3> QED
        BY <2>1, <2>2, <3>1, KeptSame, ReferencesSame
    <2>3. ASSUME NEW o \in externals, o \in Objects, externals' = externals \ {o},
                 Takes(t, "removeAll", NoObject, {<<"release", o>>, <<"removeAll", NoObject>>})
          PROVE  References'
      <3>1. /\ \A u \in Threads, p \in Objects : Owes(u, p)' <=> Owes(u, p) \/ (u = t /\ p = o)
            /\ ~Owes(t, o)
        BY <2>3 DEF Takes, Puts, Beside, Owes, OweLabels, MapLabels, LetGoLabels
      <3>2. "orphan" \in flags[o]
        BY <2>3 DEF Closing
      <3>3. ~InMap(o)
        BY <3>2, <2>3, NoObjectIsNone DEF Named, InMap
      <3>4. Kept(o) /\ ~Kept(o)' /\ \A p \in Objects : p # o => (Kept(p)' <=> Kept(p))
        BY <2>1, <2>3, <3>3 DEF Kept, InMap
      <3> QED
        BY SMTT(30), <2>1, <2>3, <3>1, <3>4, ReferencesChange DEF Typed, TypeOK
    <2> QED
      BY <1>RemoveAllRelease, <2>2, <2>3, RemoveAllReleaseTakes
  <1> QED
    BY <1>CreateExisting, <1>CreateNew, <1>InsertExisting, <1>Insert, <1>MapCount,
       <1>Load, <1>MapLoaded, <1>MapWait, <1>MapCheck, <1>Upload, <1>UnMapCount,
       <1>UnMapFlag, <1>DropData, <1>Release, <1>Destroy, <1>Remove, <1>Detach, <1>Last,
       <1>RemoveAllOrphan, <1>MapCall, <1>UnMapCall, <1>ReleaseCall, <1>Relock,
       <1>Uninitialize, <1>RemoveAllDetach, <1>RemoveAllRelease DEF Moves, Calls,
       GivesBack, Step

-----------------------------------------------------------------------------
(* Objects on their way out                                                  *)

(* Who lets an object go makes an orphan of it first, and the one thread     *)
(* whose removal took it out of the map is the one to detach it.             *)
LEMMA LeavingKept ==
    ASSUME Typed, Shaped, Working, Closing, Unborns, Fresh, Named, Leaving, References,
           NEW t \in Threads, Moves(t)
    PROVE  Leaving'
  <1>CreateExisting. ASSUME NEW l \in Locations,
                            NEW fl \in CreateFlags, CreateExisting(t, l, fl) PROVE Leaving'
    <2>1. /\ resourceMap[l] \in Objects /\ \A k, p : ~Has(t, k, p)
          /\ \/ Obtain(t, resourceMap[l], fl)
                /\ Puts(t, "none", NoObject, IF "mapped" \in fl THEN {<<"map", resourceMap[l]>>}
                    ELSE {})
             \/ UNCHANGED <<held, mapped>> /\ Puts(t, "none", NoObject,
                 {<<"release", resourceMap[l]>>})
      BY <1>CreateExisting, CreateExistingPuts
    <2>2. CASE UNCHANGED <<held, mapped>>
               /\ Puts(t, "none", NoObject, {<<"release", resourceMap[l]>>})
      BY SMTT(30), <1>CreateExisting, <2>1, <2>2 DEF Typed, Leaving, Takes, Puts,
         Beside, MapLabels, WorkLabels, LetGoLabels, CreateExisting, Add, Obtain,
         LoadExist, object, closing
    <2>3. CASE Obtain(t, resourceMap[l], fl) /\ "mapped" \in fl
               /\ Puts(t, "none", NoObject, {<<"map", resourceMap[l]>>})
      BY SMTT(30), <1>CreateExisting, <2>1, <2>3 DEF Typed, Leaving, Takes, Puts,
         Beside, MapLabels, WorkLabels, LetGoLabels, CreateExisting, Add, Obtain,
         LoadExist, object, closing
    <2>4. CASE Obtain(t, resourceMap[l], fl) /\ "mapped" \notin fl /\ Puts(t, "none", NoObject, {})
      BY <1>CreateExisting, <2>1, <2>4 DEF Typed, Leaving, Takes, Puts, Beside,
         MapLabels, WorkLabels, LetGoLabels, CreateExisting, Add, Obtain, LoadExist,
         object, closing
    <2> QED
      BY <2>1, <2>2, <2>3, <2>4
  <1>CreateNew. ASSUME NEW l \in Locations \cup {Anonymous},
                       NEW fl \in CreateFlags, CreateNew(t, l, fl) PROVE Leaving'
    <2>1. PICK o \in Objects : Creates(t, l, fl, o)
      BY <1>CreateNew, CreateNewPuts
    <2>2. fl \subseteq {"eternal", "manual", "mapped"}
      BY ResourceAssumption
    <2>3. /\ "orphan" \in flags'[o] /\ "attached" \notin flags'[o]
          /\ \A p \in Objects : p # o => flags'[p] = flags[p] /\ location'[p] = location[p]
      BY <2>1, <2>2 DEF Creates, Typed, TypeOK
    <2>4. \A u \in Threads : \A k, p : k # "insert" => (Has(u, k, p)' <=> Has(u, k, p))
      BY <2>1 DEF Creates, Puts
    <2>5. \A u \in Threads : ~Has(u, "detach", o)
      BY <2>1 DEF Creates, Unborns, Mentions, Labels
    <2> QED
      BY <2>3, <2>4, <2>5 DEF Leaving
  <1>InsertExisting. ASSUME NEW o \in Objects, InsertExisting(t, o) PROVE Leaving'
    <2>1. CASE "mapped" \in request[t]
      <3>1. Takes(t, "insert", o, {<<"map", resourceMap[location[o]]>>, <<"release", o>>})
        BY <1>InsertExisting, <2>1, InsertExistingTakes
      <3> QED
        BY <1>InsertExisting, <2>1, <3>1 DEF Typed, Leaving, Takes, Puts, Beside,
           MapLabels, WorkLabels, LetGoLabels, InsertExisting, Add, Obtain, LoadExist,
           object, closing
    <2>2. CASE "mapped" \notin request[t]
      <3>1. Takes(t, "insert", o, {<<"release", o>>})
        BY <1>InsertExisting, <2>2, InsertExistingTakes
      <3> QED
        BY <1>InsertExisting, <2>2, <3>1 DEF Typed, Leaving, Takes, Puts, Beside,
           MapLabels, WorkLabels, LetGoLabels, InsertExisting, Add, Obtain, LoadExist,
           object, closing
    <2> QED
      BY <2>1, <2>2
  <1>Insert. ASSUME NEW o \in Objects, Insert(t, o) PROVE Leaving'
    <2>1. NewFor(t, o) /\ Takes(t, "insert", o, StepsNew(request[t], o))
      BY <1>Insert, InsertIs, InsertTakes
    <2>2. /\ \A p \in Objects : p # o => flags'[p] = flags[p]
          /\ UNCHANGED location
          /\ location[o] \in Locations => "orphan" \notin flags'[o]
      BY <1>Insert, InsertIs
    <2>3. \A k, p : <<k, p>> \in StepsNew(request[t], o) => k \in {"map", "upload", "unmap"}
      BY DEF StepsNew
    <2>4. \A u \in Threads : \A p : \A k
          \in {"last", "detach", "destroy", "remove"} : Has(u, k, p)' <=> Has(u, k, p)
      BY <2>1, <2>3 DEF Takes, Puts
    <2>5. \A u \in Threads : \A k \in {"last", "detach", "destroy", "remove"} : ~Has(u, k, o)
      BY <2>1 DEF NewFor, Mentions, Labels, LetGoLabels, Takes, Beside, MapLabels
    <2> QED
      BY <2>2, <2>4, <2>5 DEF Leaving
  <1>MapCount. ASSUME NEW o \in Objects, MapCount(t, o) PROVE Leaving'
    <2>1. CASE mapCount[o] = 0
      <3>1. Takes(t, "map", o, {<<"load", o>>})
        BY <1>MapCount, <2>1, MapCountTakes
      <3> QED
        BY <1>MapCount, <2>1, <3>1 DEF Typed, Leaving, Takes, Puts, Beside, MapLabels,
           WorkLabels, LetGoLabels, MapCount, Add, client, closing
    <2>2. CASE mapCount[o] # 0
      <3>1. Takes(t, "map", o, {<<"wait", o>>})
        BY <1>MapCount, <2>2, MapCountTakes
      <3> QED
        BY <1>MapCount, <2>2, <3>1 DEF Typed, Leaving, Takes, Puts, Beside, MapLabels,
           WorkLabels, LetGoLabels, MapCount, Add, client, closing
    <2> QED
      BY <2>1, <2>2
  <1>Load. ASSUME NEW o \in Objects, Load(t, o) PROVE Leaving'
    <2>1. Takes(t, "load", o, {<<"loaded", o>>})
      BY <1>Load, LoadTakes
    <2> QED
      BY <1>Load, <2>1 DEF Typed, Leaving, Takes, Puts, Beside, MapLabels, WorkLabels,
         LetGoLabels, Load, Raise, closing
  <1>MapLoaded. ASSUME NEW o \in Objects, MapLoaded(t, o) PROVE Leaving'
    <2>1. Takes(t, "loaded", o, {})
      BY <1>MapLoaded, MapLoadedTakes
    <2> QED
      BY <1>MapLoaded, <2>1 DEF Typed, Leaving, Takes, Puts, Beside, MapLabels,
         WorkLabels, LetGoLabels, MapLoaded, Raise, MapReturns, closing
  <1>MapWait. ASSUME NEW o \in Objects, MapWait(t, o) PROVE Leaving'
    <2>1. Takes(t, "wait", o, {<<"check", o>>})
      BY <1>MapWait, MapWaitTakes
    <2> QED
      BY <1>MapWait, <2>1 DEF Typed, Leaving, Takes, Puts, Beside, MapLabels,
         WorkLabels, LetGoLabels, MapWait, object, client, closing
  <1>MapCheck. ASSUME NEW o \in Objects, MapCheck(t, o) PROVE Leaving'
    <2>1. Takes(t, "check", o, {})
      BY <1>MapCheck, MapCheckTakes
    <2> QED
      BY <1>MapCheck, <2>1 DEF Typed, Leaving, Takes, Puts, Beside, MapLabels,
         WorkLabels, LetGoLabels, MapCheck, MapReturns, object, closing
  <1>Upload. ASSUME NEW o \in Objects, Upload(t, o) PROVE Leaving'
    <2>1. Takes(t, "upload", o, {})
      BY <1>Upload, UploadTakes
    <2> QED
      BY <1>Upload, <2>1 DEF Typed, Leaving, Takes, Puts, Beside, MapLabels, WorkLabels,
         LetGoLabels, Upload, Clear, object, client, closing
  <1>UnMapCount. ASSUME NEW o \in Objects, UnMapCount(t, o) PROVE Leaving'
    <2>1. CASE mapCount[o] = 1
      <3>1. Takes(t, "unmap", o, {<<"unflag", o>>, <<"drop", o>>})
        BY <1>UnMapCount, <2>1, UnMapCountTakes
      <3> QED
        BY <1>UnMapCount, <2>1, <3>1 DEF Typed, Leaving, Takes, Puts, Beside, MapLabels,
           WorkLabels, LetGoLabels, UnMapCount, Add, client, closing
    <2>2. CASE mapCount[o] # 1
      <3>1. Takes(t, "unmap", o, {})
        BY <1>UnMapCount, <2>2, UnMapCountTakes
      <3> QED
        BY <1>UnMapCount, <2>2, <3>1 DEF Typed, Leaving, Takes, Puts, Beside, MapLabels,
           WorkLabels, LetGoLabels, UnMapCount, Add, client, closing
    <2> QED
      BY <2>1, <2>2
  <1>UnMapFlag. ASSUME NEW o \in Objects, UnMapFlag(t, o) PROVE Leaving'
    <2>1. Takes(t, "unflag", o, {})
      BY <1>UnMapFlag, UnMapFlagTakes
    <2> QED
      BY <1>UnMapFlag, <2>1 DEF Typed, Leaving, Takes, Puts, Beside, MapLabels,
         WorkLabels, LetGoLabels, UnMapFlag, Clear, object, client, closing
  <1>DropData. ASSUME NEW o \in Objects, DropData(t, o) PROVE Leaving'
    <2>1. Takes(t, "drop", o, {})
      BY <1>DropData, DropDataTakes
    <2> QED
      BY <1>DropData, <2>1 DEF Typed, Leaving, Takes, Puts, Beside, MapLabels,
         WorkLabels, LetGoLabels, DropData, client, closing
  <1>Release. ASSUME NEW o \in Objects, Release(t, o) PROVE Leaving'
    <2>1. UNCHANGED <<flags, location>>
      BY <1>Release DEF Release, Count
    <2>2. CASE referCount[o] = 1
      <3>1. Takes(t, "release", o, {<<"destroy", o>>})
        BY <1>Release, <2>2, ReleaseTakes
      <3>2. Owes(t, o) /\ state[o] # "unborn"
        BY <3>1 DEF Takes, Owes, OweLabels, Unborns, Mentions, Labels, LetGoLabels
      <3>3. ~Kept(o)
        BY <2>2, <3>2, Referred
      <3>4. "eternal" \in flags[o] => "orphan" \in flags[o]
        BY <3>2, <3>3 DEF Named, Kept, InMap
      <3> QED
        BY <2>1, <3>1, <3>4 DEF Leaving, Takes, Puts
    <2>3. CASE referCount[o] # 1
      <3>1. Takes(t, "release", o, {})
        BY <1>Release, <2>3, ReleaseTakes
      <3> QED
        BY <2>1, <3>1 DEF Leaving, Takes, Puts
    <2> QED
      BY <2>2, <2>3
  <1>Destroy. ASSUME NEW o \in Objects, Destroy(t, o) PROVE Leaving'
    <2>1. CASE "orphan" \in flags[o]
      <3>1. Takes(t, "destroy", o, {<<"last", o>>})
        BY <1>Destroy, <2>1, DestroyTakes
      <3> QED
        BY <1>Destroy, <2>1, <3>1 DEF Typed, Leaving, Takes, Puts, Beside, MapLabels,
           WorkLabels, LetGoLabels, Destroy, Add, Count, client, closing
    <2>2. CASE "orphan" \notin flags[o]
      <3>1. Takes(t, "destroy", o, {<<"remove", o>>})
        BY <1>Destroy, <2>2, DestroyTakes
      <3> QED
        BY <1>Destroy, <2>2, <3>1 DEF Typed, Leaving, Takes, Puts, Beside, MapLabels,
           WorkLabels, LetGoLabels, Destroy, Add, Count, client, closing
    <2> QED
      BY <2>1, <2>2
  <1>Remove. ASSUME NEW o \in Objects, Remove(t, o) PROVE Leaving'
    <2>1. CASE flags[o] \cap {"orphan", "eternal"} # {}
      <3>1. Takes(t, "remove", o, {<<"last", o>>})
        BY <1>Remove, <2>1, RemoveTakes
      <3>2. UNCHANGED <<flags, location>>
        BY <1>Remove, <2>1 DEF Remove
      <3> QED
        BY <2>1, <3>1, <3>2 DEF Leaving, Takes, Puts
    <2>2. CASE flags[o] \cap {"orphan", "eternal"} = {}
      <3>1. Takes(t, "remove", o, {<<"detach", o>>, <<"relock", o>>, <<"last", o>>})
        BY <1>Remove, <2>2, RemoveTakes
      <3>2. /\ location[o] \in Locations /\ resourceMap[location[o]] = o /\ "orphan" \notin flags[o]
            /\ flags'[o] = flags[o] \cup {"orphan"} /\ \A p \in Objects : p # o
                => flags'[p] = flags[p]
            /\ UNCHANGED location
        BY <1>Remove, <2>2, RemoveIs
      <3>3. "attached" \in flags[o]
        BY <3>2, NoObjectIsNone DEF Named
      <3>4. \A u \in Threads : ~Has(u, "detach", o)
        BY <3>2 DEF Leaving
      <3>5. \A u \in Threads : \A p : Has(u, "detach", p)' <=> Has(u, "detach", p)
            \/ (u = t /\ p = o)
        BY <3>1 DEF Takes, Puts
      <3>6. \A u \in Threads : \A p : Has(u, "last", p)' <=> Has(u, "last", p) \/ (u = t /\ p = o)
        BY <3>1 DEF Takes, Puts
      <3>7. \A u \in Threads : \A p :
                (Has(u, "destroy", p)' => Has(u, "destroy", p))
                    /\ (Has(u, "remove", p)' => Has(u, "remove", p))
        BY <3>1 DEF Takes, Puts
      <3>8. \A u, v \in Threads, p \in Objects : Has(u, "detach", p)' /\ Has(v, "detach", p)'
            => u = v
        BY <3>4, <3>5 DEF Leaving
      <3>9. ASSUME NEW p \in Objects, location[p] \in Locations, "orphan" \in flags'[p],
                   "attached" \in flags'[p]
            PROVE  \E u \in Threads : Has(u, "detach", p)'
        BY <3>2, <3>5, <3>9 DEF Leaving
      <3>10. ASSUME NEW u \in Threads, NEW p \in Objects, Has(u, "last", p)' \/ Has(u, "detach", p)'
             PROVE  "orphan" \in flags'[p]
        BY <3>2, <3>5, <3>6, <3>10 DEF Leaving
      <3>11. ASSUME NEW u \in Threads, NEW p \in Objects, Has(u, "detach", p)'
             PROVE "attached" \in flags'[p]
        BY <3>2, <3>3, <3>5, <3>11 DEF Leaving
      <3>12. ASSUME NEW u \in Threads, NEW p \in Objects, Has(u, "destroy", p)'
                    \/ Has(u, "remove", p)',
                    "eternal" \in flags'[p]
             PROVE  "orphan" \in flags'[p]
        <4>1. CASE p = o
          BY <4>1, <3>2
        <4>2. CASE p # o
          <5>1. flags'[p] = flags[p] /\ (Has(u, "destroy", p) \/ Has(u, "remove", p))
            BY <4>2, <3>2, <3>7, <3>12
          <5> QED
            BY <5>1, <3>12 DEF Leaving
        <4> QED
          BY <4>1, <4>2
      <3> QED
        BY <3>2, <3>8, <3>9, <3>10, <3>11, <3>12 DEF Leaving
    <2> QED
      BY <2>1, <2>2
  <1>Detach. ASSUME NEW o \in Objects, Detach(t, o) PROVE Leaving'
    <2>1. Takes(t, "detach", o, {})
      BY <1>Detach, DetachTakes
    <2> QED
      BY <1>Detach, <2>1 DEF Typed, Leaving, Takes, Puts, Beside, MapLabels, WorkLabels,
         LetGoLabels, Detach, Clear, object, client, closing
  <1>Last. ASSUME NEW o \in Objects, Last(t, o) PROVE Leaving'
    <2>1. Takes(t, "last", o, {})
      BY <1>Last, LastTakes
    <2> QED
      BY <1>Last, <2>1 DEF Typed, Leaving, Takes, Puts, Beside, MapLabels, WorkLabels,
         LetGoLabels, Last, Add, Count, client, closing
  <1>RemoveAllOrphan. ASSUME NEW o \in Objects, RemoveAllOrphan(t, o) PROVE Leaving'
    <2>1. Takes(t, "orphan", o, {<<"removeAll", NoObject>>})
      BY <1>RemoveAllOrphan, RemoveAllOrphanTakes
    <2>2. "attached" \notin flags[o]
      BY <2>1 DEF Takes, Closing
    <2>3. /\ flags'[o] = flags[o] \cup {"orphan"} /\ \A p \in Objects : p # o
             => flags'[p] = flags[p]
          /\ UNCHANGED location
      BY <1>RemoveAllOrphan DEF RemoveAllOrphan, Raise, Typed
    <2>4. \A u \in Threads : \A p : \A k
          \in {"last", "detach", "destroy", "remove"} : Has(u, k, p)' <=> Has(u, k, p)
      BY <2>1 DEF Takes, Puts
    <2> QED
      BY <2>2, <2>3, <2>4 DEF Leaving
  <1>MapCall. ASSUME NEW o \in Objects, MapCall(t, o) PROVE Leaving'
    <2>1. Puts(t, "none", NoObject, {<<"map", o>>}) /\ \A k, p : ~Has(t, k, p)
      BY <1>MapCall, CallPutsOne DEF MapCall
    <2> QED
      BY <1>MapCall, <2>1 DEF Typed, Leaving, Takes, Puts, Beside, MapLabels,
         WorkLabels, LetGoLabels, MapCall, object, closing
  <1>UnMapCall. ASSUME NEW o \in Objects, UnMapCall(t, o) PROVE Leaving'
    <2>1. Puts(t, "none", NoObject, {<<"unmap", o>>}) /\ \A k, p : ~Has(t, k, p)
      BY <1>UnMapCall, CallPutsOne DEF UnMapCall
    <2> QED
      BY <1>UnMapCall, <2>1 DEF Typed, Leaving, Takes, Puts, Beside, MapLabels,
         WorkLabels, LetGoLabels, UnMapCall, object, closing
  <1>ReleaseCall. ASSUME NEW o \in Objects, ReleaseCall(t, o) PROVE Leaving'
    <2>1. Puts(t, "none", NoObject, {<<"release", o>>}) /\ \A k, p : ~Has(t, k, p)
      BY <1>ReleaseCall, CallPutsOne DEF ReleaseCall
    <2> QED
      BY <1>ReleaseCall, <2>1 DEF Typed, Leaving, Takes, Puts, Beside, MapLabels,
         WorkLabels, LetGoLabels, ReleaseCall, object, closing
  <1>Relock. ASSUME NEW o \in Objects \cup {NoObject}, Relock(t, o) PROVE Leaving'
    <2>1. Takes(t, "relock", o, {})
      BY <1>Relock, RelockTakes
    <2> QED
      BY <1>Relock, <2>1 DEF Typed, Leaving, Takes, Puts, Beside, MapLabels, WorkLabels,
         LetGoLabels, Relock, object, client, closing
  <1>Uninitialize. CASE Uninitialize(t)
    <2>1. Puts(t, "none", NoObject, {<<"removeAll", NoObject>>}) /\ \A k, p : ~Has(t, k, p)
      BY <1>Uninitialize, UninitializePuts
    <2> QED
      BY <1>Uninitialize, <2>1 DEF Typed, Leaving, Takes, Puts, Beside, MapLabels,
         WorkLabels, LetGoLabels, Uninitialize, object, client
  <1>RemoveAllDetach. CASE RemoveAllDetach(t)
    <2>1. PICK o \in removed : o \in Objects /\ Clear(o, {"attached"})
               /\ Takes(t, "removeAll", NoObject, {<<"orphan", o>>})
      BY <1>RemoveAllDetach, RemoveAllDetachTakes
    <2>2. UNCHANGED location
      BY <1>RemoveAllDetach DEF RemoveAllDetach
    <2>3. /\ flags'[o] = flags[o] \ {"attached"} /\ \A p \in Objects : p # o => flags'[p] = flags[p]
          /\ "orphan" \notin flags[o]
      BY <2>1 DEF Clear, Typed, Closing
    <2>4. \A u \in Threads : \A p : \A k
          \in {"last", "detach", "destroy", "remove"} : Has(u, k, p)' <=> Has(u, k, p)
      BY <2>1 DEF Takes, Puts
    <2>5. \A u \in Threads : ~Has(u, "detach", o)
      BY <2>1, <2>3 DEF Leaving
    <2> QED
      BY <2>1, <2>2, <2>3, <2>4, <2>5 DEF Leaving
  <1>RemoveAllRelease. CASE RemoveAllRelease(t)
    <2>1. UNCHANGED <<flags, location>>
      BY <1>RemoveAllRelease DEF RemoveAllRelease, object
    <2>2. \A u \in Threads : \A p : \A k
          \in {"last", "detach", "destroy", "remove"} : Has(u, k, p)' <=> Has(u, k, p)
      <3>1. CASE Takes(t, "removeAll", NoObject, {<<"relock", NoObject>>})
        BY <3>1 DEF Takes, Puts
      <3>2. ASSUME NEW o \in externals, Takes(t, "removeAll", NoObject,
                   {<<"release", o>>, <<"removeAll", NoObject>>})
            PROVE  \A u \in Threads : \A p : \A k
                   \in {"last", "detach", "destroy", "remove"} : Has(u, k, p)' <=> Has(u, k, p)
        BY <3>2 DEF Takes, Puts
      <3> QED
        BY <1>RemoveAllRelease, <3>1, <3>2, RemoveAllReleaseTakes
    <2> QED
      BY <2>1, <2>2 DEF Leaving
  <1> QED
    BY <1>CreateExisting, <1>CreateNew, <1>InsertExisting, <1>Insert, <1>MapCount,
       <1>Load, <1>MapLoaded, <1>MapWait, <1>MapCheck, <1>Upload, <1>UnMapCount,
       <1>UnMapFlag, <1>DropData, <1>Release, <1>Destroy, <1>Remove, <1>Detach, <1>Last,
       <1>RemoveAllOrphan, <1>MapCall, <1>UnMapCall, <1>ReleaseCall, <1>Relock,
       <1>Uninitialize, <1>RemoveAllDetach, <1>RemoveAllRelease DEF Moves, Calls,
       GivesBack, Step

(* A thread that has a step to do has a first one.                           *)
LEMMA Firsts ==
    ASSUME Shaped, NEW t \in Threads, todo[t] # <<>>
    PROVE  \E l, p : At(t, l, p)
  <1>1. WellFormed(todo[t])
    BY DEF Shaped
  <1>3. CASE \E q \in Objects, k \in Labels : \E s \in Tails(k, q) : todo[t] = <<<<k, q>>>> \o s
    <2>1. PICK q \in Objects, k \in Labels : \E s \in Tails(k, q) : todo[t] = <<<<k, q>>>> \o s
      BY <1>3
    <2>2. PICK s \in Tails(k, q) : todo[t] = <<<<k, q>>>> \o s
      BY <2>1
    <2>3. s \in Seq(Pairs) /\ <<k, q>> \in Pairs
      BY TailsAre, PairsAre, LabelsAre
    <2>4. Head(todo[t]) = <<k, q>>
      BY <2>2, <2>3, ConsIs
    <2> QED
      BY <2>4 DEF At, Idle
  <1>4. CASE todo[t] = <<<<"relock", NoObject>>>> \/ todo[t] = <<<<"removeAll", NoObject>>>>
    <2>1. PICK k \in {"relock", "removeAll"} : todo[t] = <<<<k, NoObject>>>>
      BY <1>4
    <2>2. Head(todo[t]) = <<k, NoObject>>
      BY <2>1
    <2> QED
      BY <2>2 DEF At, Idle
  <1> QED
    BY <1>1, <1>3, <1>4 DEF WellFormed

(* Who has something to do has a first step.                                 *)
LEMMA HasFirst ==
    ASSUME Shaped, NEW t \in Threads, NEW k, NEW q, Has(t, k, q)
    PROVE  \E l, p : At(t, l, p)
  <1>1. todo[t] # <<>>
    BY HasIs, StepsOfNone
  <1> QED
    BY <1>1, Firsts

(* Who detaches an object lets it go afterwards.                             *)
LEMMA DetachedIsOwed ==
    ASSUME Shaped, NEW t \in Threads, NEW o \in Objects, Has(t, "detach", o) \/ Has(t, "relock", o)
    PROVE  Owes(t, o)
  <1>3. PICK l, p : At(t, l, p)
    BY HasFirst
  <1>4. \A k, q : Has(t, k, q) => (k = l /\ q = p) \/ Beside(l, p, k, q)
    BY <1>3, Only
  <1>5. p = o /\ (l = "detach" \/ l = "relock")
    BY <1>4 DEF Beside
  <1>6. PICK s \in Seq(Pairs) : todo[t] = <<<<l, o>>>> \o s /\ s \in Tails(l, o)
    BY <1>3, <1>5, AtIs
  <1>7. <<"last", o>> \in StepsOf(s)
    <2>1. CASE l = "detach"
      <3>1. s = <<<<"relock", o>>, <<"last", o>>>>
            \/ s = <<<<"relock", o>>, <<"last", o>>, <<"removeAll", NoObject>>>>
        BY <1>6, <2>1 DEF Tails, MapLabels, LetGoLabels
      <3>2. StepsOf(<<<<"relock", o>>, <<"last", o>>>>) = {<<"relock", o>>, <<"last", o>>}
        BY StepsOfTwo
      <3>3. StepsOf(<<<<"relock", o>>, <<"last", o>>, <<"removeAll", NoObject>>>>)
            = {<<"relock", o>>, <<"last", o>>, <<"removeAll", NoObject>>}
        BY StepsOfThree
      <3> QED
        BY <3>1, <3>2, <3>3
    <2>2. CASE l = "relock"
      <3>1. s = <<<<"last", o>>>> \/ s = <<<<"last", o>>, <<"removeAll", NoObject>>>>
        BY <1>6, <2>2 DEF Tails, MapLabels, LetGoLabels
      <3>2. StepsOf(<<<<"last", o>>>>) = {<<"last", o>>}
        BY StepsOfOne
      <3>3. StepsOf(<<<<"last", o>>, <<"removeAll", NoObject>>>>)
            = {<<"last", o>>, <<"removeAll", NoObject>>}
        BY StepsOfTwo
      <3> QED
        BY <3>1, <3>2, <3>3
    <2> QED
      BY <1>5, <2>1, <2>2
  <1>8. <<l, o>> \in Pairs
    BY <1>3, <1>5, AtIs
  <1>9. StepsOf(<<<<l, o>>>> \o s) = {<<l, o>>} \cup StepsOf(s)
    BY <1>8, ConsIs
  <1>10. <<"last", o>> \in StepsOf(todo[t])
    BY <1>6, <1>7, <1>9
  <1> QED
    BY <1>10, HasIs DEF Owes, OweLabels

(* An object that has not been brought back lives as long as a reference is  *)
(* counted, and the release that took the last one is the only way to its    *)
(* deletion.                                                                 *)
LEMMA LifeKept ==
    ASSUME Typed, Shaped, Working, Closing, Unborns, Fresh, Named, Leaving, References, Life,
           NEW t \in Threads, Moves(t)
    PROVE  Life'
  <1>CreateExisting. ASSUME NEW l \in Locations,
                            NEW fl \in CreateFlags, CreateExisting(t, l, fl) PROVE Life'
    <2>1. PICK o \in Objects : o = resourceMap[l]
      BY <1>CreateExisting, CreateExistingPuts
    <2>2. /\ referCount'[o] = referCount[o] + 1 /\ \A p \in Objects : p # o
             => referCount'[p] = referCount[p]
          /\ revived' = IF referCount[o] = 0 THEN revived \cup {o} ELSE revived
          /\ UNCHANGED <<state, flags, location>>
      BY <1>CreateExisting, <2>1 DEF CreateExisting, LoadExist, Add, Typed, TypeOK
    <2>3. \A u \in Threads : \A p : Has(u, "destroy", p)' <=> Has(u, "destroy", p)
      BY <1>CreateExisting, CreateExistingPuts DEF Puts
    <2>4. referCount[o] \in Nat
      BY Referred
    <2> QED
      BY <2>2, <2>3, <2>4 DEF Life
  <1>CreateNew. ASSUME NEW l \in Locations \cup {Anonymous},
                       NEW fl \in CreateFlags, CreateNew(t, l, fl) PROVE Life'
    <2>1. PICK o \in Objects : Creates(t, l, fl, o)
      BY <1>CreateNew, CreateNewPuts
    <2>2. fl \subseteq {"eternal", "manual", "mapped"} /\ UNCHANGED revived
      BY <1>CreateNew, ResourceAssumption DEF CreateNew
    <2>3. /\ state'[o] = "live" /\ referCount'[o] = referCount[o] + 1
          /\ \A p \in Objects : p # o => UNCHANGED <<state[p], referCount[p], flags[p],
              location[p]>>
      BY <2>1, <2>2 DEF Creates, Add, Typed, TypeOK
    <2>4. \A u \in Threads : \A p : Has(u, "destroy", p)' <=> Has(u, "destroy", p)
      BY <2>1 DEF Creates, Puts
    <2>5. referCount[o] = 0 /\ \A u \in Threads : ~Has(u, "destroy", o)
      BY <2>1 DEF Creates, Unborns, Mentions, Labels, LetGoLabels
    <2> QED
      BY <2>2, <2>3, <2>4, <2>5 DEF Life
  <1>InsertExisting. ASSUME NEW o \in Objects, InsertExisting(t, o) PROVE Life'
    <2>1. PICK e \in Objects : e = resourceMap[location[o]]
      BY <1>InsertExisting, InsertExistingFacts
    <2>2. /\ referCount'[e] = referCount[e] + 1 /\ \A p \in Objects : p # e
             => referCount'[p] = referCount[p]
          /\ revived' = IF referCount[e] = 0 THEN revived \cup {e} ELSE revived
          /\ UNCHANGED <<state, flags, location>>
      BY <1>InsertExisting, <2>1 DEF InsertExisting, LoadExist, Add, Typed, TypeOK
    <2>3. \A u \in Threads : \A p : Has(u, "destroy", p)' <=> Has(u, "destroy", p)
      BY <1>InsertExisting, InsertExistingTakes DEF Takes, Puts
    <2>4. referCount[e] \in Nat
      BY Referred
    <2> QED
      BY <2>2, <2>3, <2>4 DEF Life
  <1>Insert. ASSUME NEW o \in Objects, Insert(t, o) PROVE Life'
    <2>1. NewFor(t, o) /\ Takes(t, "insert", o, StepsNew(request[t], o))
      BY <1>Insert, InsertIs, InsertTakes
    <2>2. /\ \A p \in Objects : p # o => flags'[p] = flags[p] /\ referCount'[p] = referCount[p]
          /\ UNCHANGED <<state, location, revived>>
      BY <1>Insert, InsertIs
    <2>3. referCount'[o] \in {referCount[o], referCount[o] + 1}
      BY <1>Insert DEF Insert, Add, Typed, TypeOK
    <2>4. \A k, p : <<k, p>> \in StepsNew(request[t], o) => k \in {"map", "upload", "unmap"}
      BY DEF StepsNew
    <2>a. \A p : <<"destroy", p>> \notin StepsNew(request[t], o)
      BY <2>4
    <2>5. \A u \in Threads : \A p : Has(u, "destroy", p)' <=> Has(u, "destroy", p)
      BY <2>1, <2>a DEF Takes, Puts
    <2>6. \A u \in Threads : ~Has(u, "destroy", o)
      BY <2>1 DEF NewFor, Mentions, Labels, LetGoLabels, Takes, Beside, MapLabels
    <2>7. state[o] = "live" /\ referCount[o] = 1
      BY <2>1 DEF NewFor
    <2> QED
      BY <2>2, <2>3, <2>5, <2>6, <2>7 DEF Life
  <1>MapCount. ASSUME NEW o \in Objects, MapCount(t, o) PROVE Life'
    <2>1. CASE mapCount[o] = 0
      <3>1. Takes(t, "map", o, {<<"load", o>>})
        BY <1>MapCount, <2>1, MapCountTakes
      <3> QED
        BY <1>MapCount, <2>1, <3>1 DEF Typed, Life, Takes, Puts, Beside, MapLabels,
           WorkLabels, LetGoLabels, MapCount, Add, client, closing
    <2>2. CASE mapCount[o] # 0
      <3>1. Takes(t, "map", o, {<<"wait", o>>})
        BY <1>MapCount, <2>2, MapCountTakes
      <3> QED
        BY <1>MapCount, <2>2, <3>1 DEF Typed, Life, Takes, Puts, Beside, MapLabels,
           WorkLabels, LetGoLabels, MapCount, Add, client, closing
    <2> QED
      BY <2>1, <2>2
  <1>Load. ASSUME NEW o \in Objects, Load(t, o) PROVE Life'
    <2>1. Takes(t, "load", o, {<<"loaded", o>>})
      BY <1>Load, LoadTakes
    <2> QED
      BY <1>Load, <2>1 DEF Typed, Life, Takes, Puts, Beside, MapLabels, WorkLabels,
         LetGoLabels, Load, Raise, closing
  <1>MapLoaded. ASSUME NEW o \in Objects, MapLoaded(t, o) PROVE Life'
    <2>1. Takes(t, "loaded", o, {})
      BY <1>MapLoaded, MapLoadedTakes
    <2> QED
      BY <1>MapLoaded, <2>1 DEF Typed, Life, Takes, Puts, Beside, MapLabels, WorkLabels,
         LetGoLabels, MapLoaded, Raise, MapReturns, closing
  <1>MapWait. ASSUME NEW o \in Objects, MapWait(t, o) PROVE Life'
    <2>1. Takes(t, "wait", o, {<<"check", o>>})
      BY <1>MapWait, MapWaitTakes
    <2> QED
      BY <1>MapWait, <2>1 DEF Typed, Life, Takes, Puts, Beside, MapLabels, WorkLabels,
         LetGoLabels, MapWait, object, client, closing
  <1>MapCheck. ASSUME NEW o \in Objects, MapCheck(t, o) PROVE Life'
    <2>1. Takes(t, "check", o, {})
      BY <1>MapCheck, MapCheckTakes
    <2> QED
      BY <1>MapCheck, <2>1 DEF Typed, Life, Takes, Puts, Beside, MapLabels, WorkLabels,
         LetGoLabels, MapCheck, MapReturns, object, closing
  <1>Upload. ASSUME NEW o \in Objects, Upload(t, o) PROVE Life'
    <2>1. Takes(t, "upload", o, {})
      BY <1>Upload, UploadTakes
    <2> QED
      BY <1>Upload, <2>1 DEF Typed, Life, Takes, Puts, Beside, MapLabels, WorkLabels,
         LetGoLabels, Upload, Clear, object, client, closing
  <1>UnMapCount. ASSUME NEW o \in Objects, UnMapCount(t, o) PROVE Life'
    <2>1. CASE mapCount[o] = 1
      <3>1. Takes(t, "unmap", o, {<<"unflag", o>>, <<"drop", o>>})
        BY <1>UnMapCount, <2>1, UnMapCountTakes
      <3> QED
        BY <1>UnMapCount, <2>1, <3>1 DEF Typed, Life, Takes, Puts, Beside, MapLabels,
           WorkLabels, LetGoLabels, UnMapCount, Add, client, closing
    <2>2. CASE mapCount[o] # 1
      <3>1. Takes(t, "unmap", o, {})
        BY <1>UnMapCount, <2>2, UnMapCountTakes
      <3> QED
        BY <1>UnMapCount, <2>2, <3>1 DEF Typed, Life, Takes, Puts, Beside, MapLabels,
           WorkLabels, LetGoLabels, UnMapCount, Add, client, closing
    <2> QED
      BY <2>1, <2>2
  <1>UnMapFlag. ASSUME NEW o \in Objects, UnMapFlag(t, o) PROVE Life'
    <2>1. Takes(t, "unflag", o, {})
      BY <1>UnMapFlag, UnMapFlagTakes
    <2> QED
      BY <1>UnMapFlag, <2>1 DEF Typed, Life, Takes, Puts, Beside, MapLabels, WorkLabels,
         LetGoLabels, UnMapFlag, Clear, object, client, closing
  <1>DropData. ASSUME NEW o \in Objects, DropData(t, o) PROVE Life'
    <2>1. Takes(t, "drop", o, {})
      BY <1>DropData, DropDataTakes
    <2> QED
      BY <1>DropData, <2>1 DEF Typed, Life, Takes, Puts, Beside, MapLabels, WorkLabels,
         LetGoLabels, DropData, client, closing
  <1>Release. ASSUME NEW o \in Objects, Release(t, o) PROVE Life'
    <2>1. /\ referCount'[o] = referCount[o] - 1 /\ \A p \in Objects : p # o
             => referCount'[p] = referCount[p]
          /\ UNCHANGED <<flags, location, state, revived>>
      BY <1>Release DEF Release, Count, Add, Typed, TypeOK
    <2>2. referCount[o] \in Nat
      BY Referred
    <2>3. CASE referCount[o] = 1
      <3>1. Takes(t, "release", o, {<<"destroy", o>>})
        BY <1>Release, <2>3, ReleaseTakes
      <3>2. \A u \in Threads : \A p : Has(u, "destroy", p)' <=> Has(u, "destroy", p)
            \/ (u = t /\ p = o)
        BY <3>1 DEF Takes, Puts
      <3> QED
        BY <2>1, <2>3, <3>2 DEF Life
    <2>4. CASE referCount[o] # 1
      <3>1. Takes(t, "release", o, {})
        BY <1>Release, <2>4, ReleaseTakes
      <3>2. \A u \in Threads : \A p : Has(u, "destroy", p)' <=> Has(u, "destroy", p)
        BY <3>1 DEF Takes, Puts
      <3>3. referCount[o] >= 1
        BY <3>1, Referred DEF Takes, Owes, OweLabels
      <3> QED
        BY <2>1, <2>2, <2>4, <3>2, <3>3 DEF Life
    <2> QED
      BY <2>3, <2>4
  <1>Destroy. ASSUME NEW o \in Objects, Destroy(t, o) PROVE Life'
    <2>1. /\ referCount'[o] = referCount[o] + 1 /\ \A p \in Objects : p # o
             => referCount'[p] = referCount[p]
          /\ UNCHANGED <<flags, location, state, revived>>
      BY <1>Destroy DEF Destroy, Count, Add, Typed, TypeOK
    <2>2. referCount[o] \in Nat
      BY Referred
    <2>3. /\ Has(t, "destroy", o)
          /\ \A u \in Threads : \A p : Has(u, "destroy", p)' <=> Has(u, "destroy", p)
              /\ ~(u = t /\ p = o)
      BY <1>Destroy, DestroyTakes DEF Takes, Puts
    <2> QED
      BY <2>1, <2>2, <2>3 DEF Life
  <1>Remove. ASSUME NEW o \in Objects, Remove(t, o) PROVE Life'
    <2>1. CASE flags[o] \cap {"orphan", "eternal"} # {}
      <3>1. Takes(t, "remove", o, {<<"last", o>>})
        BY <1>Remove, <2>1, RemoveTakes
      <3> QED
        BY <1>Remove, <2>1, <3>1 DEF Typed, Life, Takes, Puts, Beside, MapLabels,
           WorkLabels, LetGoLabels, Remove, Raise, client, closing
    <2>2. CASE flags[o] \cap {"orphan", "eternal"} = {}
      <3>1. Takes(t, "remove", o, {<<"detach", o>>, <<"relock", o>>, <<"last", o>>})
        BY <1>Remove, <2>2, RemoveTakes
      <3> QED
        BY <1>Remove, <2>2, <3>1 DEF Typed, Life, Takes, Puts, Beside, MapLabels,
           WorkLabels, LetGoLabels, Remove, Raise, client, closing
    <2> QED
      BY <2>1, <2>2
  <1>Detach. ASSUME NEW o \in Objects, Detach(t, o) PROVE Life'
    <2>1. Takes(t, "detach", o, {})
      BY <1>Detach, DetachTakes
    <2> QED
      BY <1>Detach, <2>1 DEF Typed, Life, Takes, Puts, Beside, MapLabels, WorkLabels,
         LetGoLabels, Detach, Clear, object, client, closing
  <1>Last. ASSUME NEW o \in Objects, Last(t, o) PROVE Life'
    <2>1. Takes(t, "last", o, {})
      BY <1>Last, LastTakes
    <2>2. /\ referCount'[o] = referCount[o] - 1 /\ \A p \in Objects : p # o
             => referCount'[p] = referCount[p]
          /\ UNCHANGED <<flags, location, revived>>
          /\ state'[o] = (IF referCount[o] = 1 THEN "deleted" ELSE state[o])
          /\ \A p \in Objects : p # o => state'[p] = state[p]
      BY <1>Last DEF Last, Count, Add, Typed, TypeOK
    <2>3. \A u \in Threads : \A p : Has(u, "destroy", p)' <=> Has(u, "destroy", p)
      BY <2>1 DEF Takes, Puts
    <2>4. Owes(t, o) /\ ~Has(t, "detach", o) /\ "orphan" \in flags[o]
      BY <2>1 DEF Takes, Owes, OweLabels, Beside, MapLabels, Leaving
    <2>5. referCount[o] >= 1 /\ referCount[o] \in Nat
      BY <2>4, Referred
    <2>6. referCount[o] = 1 /\ location[o] \in Locations => "attached" \notin flags[o]
      <3> SUFFICES ASSUME referCount[o] = 1, location[o] \in Locations, "attached" \in flags[o]
          PROVE FALSE
        OBVIOUS
      <3>1. PICK u \in Threads : Has(u, "detach", o)
        BY <2>4 DEF Leaving
      <3>2. Owes(u, o)
        BY <3>1, DetachedIsOwed
      <3> QED
        BY <2>4, <3>1, <3>2, Referred
    <2> QED
      BY <2>2, <2>3, <2>5, <2>6 DEF Life
  <1>RemoveAllOrphan. ASSUME NEW o \in Objects, RemoveAllOrphan(t, o) PROVE Life'
    <2>1. Takes(t, "orphan", o, {<<"removeAll", NoObject>>})
      BY <1>RemoveAllOrphan, RemoveAllOrphanTakes
    <2> QED
      BY <1>RemoveAllOrphan, <2>1 DEF Typed, Life, Takes, Puts, Beside, MapLabels,
         WorkLabels, LetGoLabels, RemoveAllOrphan, Raise, client
  <1>MapCall. ASSUME NEW o \in Objects, MapCall(t, o) PROVE Life'
    <2>1. Puts(t, "none", NoObject, {<<"map", o>>}) /\ \A k, p : ~Has(t, k, p)
      BY <1>MapCall, CallPutsOne DEF MapCall
    <2> QED
      BY <1>MapCall, <2>1 DEF Typed, Life, Takes, Puts, Beside, MapLabels, WorkLabels,
         LetGoLabels, MapCall, object, closing
  <1>UnMapCall. ASSUME NEW o \in Objects, UnMapCall(t, o) PROVE Life'
    <2>1. Puts(t, "none", NoObject, {<<"unmap", o>>}) /\ \A k, p : ~Has(t, k, p)
      BY <1>UnMapCall, CallPutsOne DEF UnMapCall
    <2> QED
      BY <1>UnMapCall, <2>1 DEF Typed, Life, Takes, Puts, Beside, MapLabels, WorkLabels,
         LetGoLabels, UnMapCall, object, closing
  <1>ReleaseCall. ASSUME NEW o \in Objects, ReleaseCall(t, o) PROVE Life'
    <2>1. Puts(t, "none", NoObject, {<<"release", o>>}) /\ \A k, p : ~Has(t, k, p)
      BY <1>ReleaseCall, CallPutsOne DEF ReleaseCall
    <2> QED
      BY <1>ReleaseCall, <2>1 DEF Typed, Life, Takes, Puts, Beside, MapLabels,
         WorkLabels, LetGoLabels, ReleaseCall, object, closing
  <1>Relock. ASSUME NEW o \in Objects \cup {NoObject}, Relock(t, o) PROVE Life'
    <2>1. Takes(t, "relock", o, {})
      BY <1>Relock, RelockTakes
    <2> QED
      BY <1>Relock, <2>1 DEF Typed, Life, Takes, Puts, Beside, MapLabels, WorkLabels,
         LetGoLabels, Relock, object, client, closing
  <1>Uninitialize. CASE Uninitialize(t)
    <2>1. Puts(t, "none", NoObject, {<<"removeAll", NoObject>>}) /\ \A k, p : ~Has(t, k, p)
      BY <1>Uninitialize, UninitializePuts
    <2> QED
      BY <1>Uninitialize, <2>1 DEF Typed, Life, Takes, Puts, Beside, MapLabels,
         WorkLabels, LetGoLabels, Uninitialize, object, client
  <1>RemoveAllDetach. CASE RemoveAllDetach(t)
    <2>1. PICK o \in removed : o \in Objects /\ Clear(o, {"attached"})
               /\ Takes(t, "removeAll", NoObject, {<<"orphan", o>>})
      BY <1>RemoveAllDetach, RemoveAllDetachTakes
    <2>2. UNCHANGED <<resourceMap, writer, state, location, referCount, mapCount, data, client,
                   closing, calls, revived, overlapped>>
      BY <1>RemoveAllDetach DEF RemoveAllDetach
    <2> QED
      BY <2>1, <2>2 DEF Typed, Life, Takes, Puts, Beside, MapLabels, WorkLabels,
         LetGoLabels, Clear, client, closing
  <1>RemoveAllRelease. CASE RemoveAllRelease(t)
    <2>1. /\ removed = {} /\ writer' = NoThread
          /\ UNCHANGED <<resourceMap, object, client, removed, closed, calls, revived, overlapped>>
      BY <1>RemoveAllRelease DEF RemoveAllRelease
    <2>2. CASE externals = {} /\ UNCHANGED externals
               /\ Takes(t, "removeAll", NoObject, {<<"relock", NoObject>>})
      BY <2>1, <2>2 DEF Typed, Life, Takes, Puts, Beside, MapLabels, WorkLabels,
         LetGoLabels, object, client
    <2>3. ASSUME NEW o \in externals, o \in Objects, externals' = externals \ {o},
                 Takes(t, "removeAll", NoObject, {<<"release", o>>, <<"removeAll", NoObject>>})
          PROVE  Life'
      BY <2>1, <2>3 DEF Typed, Life, Takes, Puts, Beside, MapLabels, WorkLabels,
         LetGoLabels, object, client
    <2> QED
      BY <1>RemoveAllRelease, <2>2, <2>3, RemoveAllReleaseTakes
  <1> QED
    BY <1>CreateExisting, <1>CreateNew, <1>InsertExisting, <1>Insert, <1>MapCount,
       <1>Load, <1>MapLoaded, <1>MapWait, <1>MapCheck, <1>Upload, <1>UnMapCount,
       <1>UnMapFlag, <1>DropData, <1>Release, <1>Destroy, <1>Remove, <1>Detach, <1>Last,
       <1>RemoveAllOrphan, <1>MapCall, <1>UnMapCall, <1>ReleaseCall, <1>Relock,
       <1>Uninitialize, <1>RemoveAllDetach, <1>RemoveAllRelease DEF Moves, Calls,
       GivesBack, Step

-----------------------------------------------------------------------------
(* What the steps do to maps                                                 *)

(* A step of a thread behind which others may not come is its first one.     *)
LEMMA ComesFirst ==
    ASSUME Shaped, NEW t \in Threads, NEW k
           \in MapLabels \cup {"insert", "orphan", "unflag", "detach"}, NEW o,
           Has(t, k, o)
    PROVE  At(t, k, o)
  <1>1. PICK l, p : At(t, l, p)
    BY HasFirst
  <1>2. (k = l /\ o = p) \/ Beside(l, p, k, o)
    BY <1>1, Only
  <1>3. CASE k = "detach" \/ k \in MapLabels \cup {"insert", "orphan", "unflag"}
    BY <1>1, <1>2, <1>3 DEF Beside, MapLabels
  <1> QED
    BY <1>3

(* Who loads an object, waits for it or looks at it is counted in mapCount.  *)
LEMMA LaterMaps ==
    ASSUME Shaped, Working, NEW t \in Threads, NEW k \in MapLabels \ {"map"},
           NEW o \in Objects, Has(t, k, o)
    PROVE  Maps(t, o)
  <1>1. At(t, k, o)
    BY ComesFirst
  <1>2. ~Has(t, "map", o)
    <2>1. Has(t, "map", o) => ("map" = k /\ o = o) \/ Beside(k, o, "map", o)
      BY <1>1, Only
    <2> QED
      BY <2>1 DEF Beside, MapLabels
  <1>3. o \in mapped[t] \/ Has(t, "unmap", o)
    BY DEF Working
  <1> QED
    BY <1>2, <1>3 DEF Maps

(* Who has an object mapped is counted: mapCount is not zero, ...            *)
LEMMA MapsCount ==
    ASSUME MapCounts, NEW t \in Threads, NEW o \in Objects, Maps(t, o)
    PROVE  mapCount[o] \in Nat /\ mapCount[o] >= 1
  <1>1. Mappers(o) \in SUBSET Threads /\ t \in Mappers(o)
    BY DEF Mappers
  <1>2. Cardinality(Mappers(o)) \in Nat /\ Cardinality(Mappers(o)) >= 1
    BY <1>1, TwoCount
  <1> QED
    BY <1>2 DEF MapCounts

(* ... and it never is negative.                                             *)
LEMMA MapCountIsNat ==
    ASSUME MapCounts, NEW o \in Objects PROVE mapCount[o] \in Nat
  <1>1. Mappers(o) \in SUBSET Threads
    BY DEF Mappers
  <1> QED
    BY <1>1, Counting DEF MapCounts

(* mapCount follows the threads that have an object mapped.                  *)
LEMMA MapCountsChange ==
    ASSUME Typed, MapCounts, NEW t \in Threads, NEW o \in Objects,
           \A p \in Objects : p # o => mapCount'[p] = mapCount[p],
           \A u \in Threads, p \in Objects : p # o \/ u # t => (Maps(u, p)' <=> Maps(u, p)),
           mapCount'[o] = mapCount[o] + (IF Maps(t, o)' THEN 1 ELSE 0) - (IF Maps(t, o) THEN 1
               ELSE 0)
    PROVE  MapCounts'
  <1> SUFFICES ASSUME NEW p \in Objects PROVE mapCount'[p] = Cardinality(Mappers(p)')
    BY DEF MapCounts
  <1>1. mapCount[p] = Cardinality(Mappers(p))
    BY DEF MapCounts
  <1>2. Mappers(p) \in SUBSET Threads /\ Mappers(p)' \in SUBSET Threads
    BY DEF Mappers
  <1>3. \A u \in Threads : (u \in Mappers(p)' <=> Maps(u, p)') /\ (u \in Mappers(p) <=> Maps(u, p))
    BY DEF Mappers
  <1>4. Cardinality(Mappers(p)) \in Nat /\ Cardinality(Mappers(p)') \in Nat
    BY <1>2, Counting
  <1>5. CASE p = o
    <2>1. \A u \in Threads : u # t => (u \in Mappers(p)' <=> u \in Mappers(p))
      BY <1>3, <1>5
    <2>2. Cardinality(Mappers(p)') = Cardinality(Mappers(p)) + (IF t \in Mappers(p)' THEN 1 ELSE 0)
                                                             - (IF t \in Mappers(p) THEN 1 ELSE 0)
      BY <1>2, <2>1, CountChange
    <2> QED
      BY <1>1, <1>3, <1>4, <1>5, <2>2
  <1>6. CASE p # o
    <2>1. Mappers(p)' = Mappers(p)
      BY <1>2, <1>3, <1>6
    <2> QED
      BY <2>1, <1>1, <1>6
  <1> QED
    BY <1>5, <1>6

(* A step after which the same threads are counted, and mapCount is the      *)
(* same.                                                                     *)
LEMMA MapCountsSame ==
    ASSUME MapCounts, UNCHANGED mapCount, \A u \in Threads, p \in Objects : Maps(u, p)'
           <=> Maps(u, p)
    PROVE  MapCounts'
  <1>1. \A p \in Objects : Mappers(p)' = Mappers(p)
    BY DEF Mappers
  <1> QED
    BY <1>1 DEF MapCounts

-----------------------------------------------------------------------------
(* Steps that have nothing to do with maps                                   *)
SameWork == \A u \in Threads : \A p : \A k \in WorkLabels : Has(u, k, p)' <=> Has(u, k, p)
(* No mark of a map is changed.                                              *)
SameMarks ==
    /\ UNCHANGED <<mapCount, data, ok, good, overlapped>>
    /\ \A p \in Objects : \A f \in {"mapped", "invalid", "modified"} : f \in flags'[p]
        <=> f \in flags[p]
(* A step that leaves alone all work, all marks and who has what mapped.     *)
Quiet == SameWork /\ SameMarks /\ UNCHANGED mapped

(* A step that takes and puts none of the work labels leaves all work as it  *)
(* is.                                                                       *)
LEMMA PutsQuiet ==
    ASSUME NEW t \in Threads, NEW l, l \notin WorkLabels, NEW o, NEW S,
           \A k, p : <<k, p>> \in S => k \notin WorkLabels, Puts(t, l, o, S)
    PROVE  SameWork
  <1> SUFFICES ASSUME NEW u \in Threads, NEW p, NEW k \in WorkLabels
      PROVE Has(u, k, p)' <=> Has(u, k, p)
    BY DEF SameWork
  <1>1. <<k, p>> \notin S /\ k # l
    OBVIOUS
  <1> QED
    BY <1>1 DEF Puts

(* ReleaseCall has nothing to do with maps.                                  *)
LEMMA ReleaseCallQuiet ==
    ASSUME Typed, Shaped, NEW t \in Threads, NEW o \in Objects, ReleaseCall(t, o)
    PROVE  Quiet
  <1>1. Puts(t, "none", NoObject, {<<"release", o>>})
    BY CallPutsOne DEF ReleaseCall
  <1>2. SameWork
    BY <1>1, PutsQuiet DEF WorkLabels, MapLabels
  <1>3. UNCHANGED <<mapCount, data, ok, good, overlapped, mapped>>
    BY DEF ReleaseCall, Count, client, object
  <1>4. \A p \in Objects : \A f \in {"mapped", "invalid", "modified"} : f \in flags'[p]
        <=> f \in flags[p]
    BY DEF ReleaseCall, object, Typed
  <1> QED
    BY <1>2, <1>3, <1>4 DEF Quiet, SameMarks

(* Release has nothing to do with maps.                                      *)
LEMMA ReleaseQuiet ==
    ASSUME Typed, Shaped, NEW t \in Threads, NEW o \in Objects, Release(t, o)
    PROVE  Quiet
  <1>5. ASSUME referCount[o] = 1 PROVE SameWork
    <2>1. Puts(t, "release", o, {<<"destroy", o>>})
      BY <1>5, ReleaseTakes DEF Takes
    <2>2. \A k, p : <<k, p>> \in {<<"destroy", o>>} => k \notin WorkLabels
      BY DEF WorkLabels, MapLabels
    <2>3. "release" \notin WorkLabels
      BY DEF WorkLabels, MapLabels
    <2> QED
      BY <2>1, <2>2, <2>3, PutsQuiet
  <1>6. ASSUME referCount[o] # 1 PROVE SameWork
    <2>1. Puts(t, "release", o, {})
      BY <1>6, ReleaseTakes DEF Takes
    <2>2. \A k, p : <<k, p>> \in {} => k \notin WorkLabels
      BY DEF WorkLabels, MapLabels
    <2>3. "release" \notin WorkLabels
      BY DEF WorkLabels, MapLabels
    <2> QED
      BY <2>1, <2>2, <2>3, PutsQuiet
  <1>2. SameWork
    BY <1>5, <1>6
  <1>3. UNCHANGED <<mapCount, data, ok, good, overlapped, mapped>>
    BY DEF Release, Count, client, object
  <1>4. \A p \in Objects : \A f \in {"mapped", "invalid", "modified"} : f \in flags'[p]
        <=> f \in flags[p]
    BY DEF Release, Count, Typed
  <1> QED
    BY <1>2, <1>3, <1>4 DEF Quiet, SameMarks

(* Destroy has nothing to do with maps.                                      *)
LEMMA DestroyQuiet ==
    ASSUME Typed, Shaped, NEW t \in Threads, NEW o \in Objects, Destroy(t, o)
    PROVE  Quiet
  <1>5. ASSUME "orphan" \in flags[o] PROVE SameWork
    <2>1. Puts(t, "destroy", o, {<<"last", o>>})
      BY <1>5, DestroyTakes DEF Takes
    <2>2. \A k, p : <<k, p>> \in {<<"last", o>>} => k \notin WorkLabels
      BY DEF WorkLabels, MapLabels
    <2>3. "destroy" \notin WorkLabels
      BY DEF WorkLabels, MapLabels
    <2> QED
      BY <2>1, <2>2, <2>3, PutsQuiet
  <1>6. ASSUME "orphan" \notin flags[o] PROVE SameWork
    <2>1. Puts(t, "destroy", o, {<<"remove", o>>})
      BY <1>6, DestroyTakes DEF Takes
    <2>2. \A k, p : <<k, p>> \in {<<"remove", o>>} => k \notin WorkLabels
      BY DEF WorkLabels, MapLabels
    <2>3. "destroy" \notin WorkLabels
      BY DEF WorkLabels, MapLabels
    <2> QED
      BY <2>1, <2>2, <2>3, PutsQuiet
  <1>2. SameWork
    BY <1>5, <1>6
  <1>3. UNCHANGED <<mapCount, data, ok, good, overlapped, mapped>>
    BY DEF Destroy, Count, client, object
  <1>4. \A p \in Objects : \A f \in {"mapped", "invalid", "modified"} : f \in flags'[p]
        <=> f \in flags[p]
    BY DEF Destroy, Count, Typed
  <1> QED
    BY <1>2, <1>3, <1>4 DEF Quiet, SameMarks

(* Remove has nothing to do with maps.                                       *)
LEMMA RemoveQuiet ==
    ASSUME Typed, Shaped, NEW t \in Threads, NEW o \in Objects, Remove(t, o)
    PROVE  Quiet
  <1>5. ASSUME flags[o] \cap {"orphan", "eternal"} # {} PROVE SameWork
    <2>1. Puts(t, "remove", o, {<<"last", o>>})
      BY <1>5, RemoveTakes DEF Takes
    <2>2. \A k, p : <<k, p>> \in {<<"last", o>>} => k \notin WorkLabels
      BY DEF WorkLabels, MapLabels
    <2>3. "remove" \notin WorkLabels
      BY DEF WorkLabels, MapLabels
    <2> QED
      BY <2>1, <2>2, <2>3, PutsQuiet
  <1>6. ASSUME flags[o] \cap {"orphan", "eternal"} = {} PROVE SameWork
    <2>1. Puts(t, "remove", o, {<<"detach", o>>, <<"relock", o>>, <<"last", o>>})
      BY <1>6, RemoveTakes DEF Takes
    <2>2. \A k, p : <<k, p>> \in {<<"detach", o>>, <<"relock", o>>, <<"last", o>>}
          => k \notin WorkLabels
      BY DEF WorkLabels, MapLabels
    <2>3. "remove" \notin WorkLabels
      BY DEF WorkLabels, MapLabels
    <2> QED
      BY <2>1, <2>2, <2>3, PutsQuiet
  <1>2. SameWork
    BY <1>5, <1>6
  <1>3. UNCHANGED <<mapCount, data, ok, good, overlapped, mapped>>
    BY DEF Remove, Count, client, object
  <1>4. \A p \in Objects : \A f \in {"mapped", "invalid", "modified"} : f \in flags'[p]
        <=> f \in flags[p]
    BY DEF Remove, Raise, Typed
  <1> QED
    BY <1>2, <1>3, <1>4 DEF Quiet, SameMarks

(* Detach has nothing to do with maps.                                       *)
LEMMA DetachQuiet ==
    ASSUME Typed, Shaped, NEW t \in Threads, NEW o \in Objects, Detach(t, o)
    PROVE  Quiet
  <1>1. Puts(t, "detach", o, {})
    BY DetachTakes DEF Takes
  <1>2. SameWork
    BY <1>1, PutsQuiet DEF WorkLabels, MapLabels
  <1>3. UNCHANGED <<mapCount, data, ok, good, overlapped, mapped>>
    BY DEF Detach, Count, client, object
  <1>4. \A p \in Objects : \A f \in {"mapped", "invalid", "modified"} : f \in flags'[p]
        <=> f \in flags[p]
    BY DEF Detach, Clear, Typed
  <1> QED
    BY <1>2, <1>3, <1>4 DEF Quiet, SameMarks

(* Last has nothing to do with maps.                                         *)
LEMMA LastQuiet ==
    ASSUME Typed, Shaped, NEW t \in Threads, NEW o \in Objects, Last(t, o)
    PROVE  Quiet
  <1>1. Puts(t, "last", o, {})
    BY LastTakes DEF Takes
  <1>2. SameWork
    BY <1>1, PutsQuiet DEF WorkLabels, MapLabels
  <1>3. UNCHANGED <<mapCount, data, ok, good, overlapped, mapped>>
    BY DEF Last, Count, client, object
  <1>4. \A p \in Objects : \A f \in {"mapped", "invalid", "modified"} : f \in flags'[p]
        <=> f \in flags[p]
    BY DEF Last, Count, Typed
  <1> QED
    BY <1>2, <1>3, <1>4 DEF Quiet, SameMarks

(* Relock has nothing to do with maps.                                       *)
LEMMA RelockQuiet ==
    ASSUME Typed, Shaped, NEW t \in Threads, NEW o \in Objects \cup {NoObject}, Relock(t, o)
    PROVE  Quiet
  <1>1. Puts(t, "relock", o, {})
    BY RelockTakes DEF Takes
  <1>2. SameWork
    BY <1>1, PutsQuiet DEF WorkLabels, MapLabels
  <1>3. UNCHANGED <<mapCount, data, ok, good, overlapped, mapped>>
    BY DEF Relock, Count, client, object
  <1>4. \A p \in Objects : \A f \in {"mapped", "invalid", "modified"} : f \in flags'[p]
        <=> f \in flags[p]
    BY DEF Relock, object, Typed
  <1> QED
    BY <1>2, <1>3, <1>4 DEF Quiet, SameMarks

(* RemoveAllOrphan has nothing to do with maps.                              *)
LEMMA RemoveAllOrphanQuiet ==
    ASSUME Typed, Shaped, NEW t \in Threads, NEW o \in Objects, RemoveAllOrphan(t, o)
    PROVE  Quiet
  <1>1. Puts(t, "orphan", o, {<<"removeAll", NoObject>>})
    BY RemoveAllOrphanTakes DEF Takes
  <1>2. SameWork
    BY <1>1, PutsQuiet DEF WorkLabels, MapLabels
  <1>3. UNCHANGED <<mapCount, data, ok, good, overlapped, mapped>>
    BY DEF RemoveAllOrphan, Count, client, object
  <1>4. \A p \in Objects : \A f \in {"mapped", "invalid", "modified"} : f \in flags'[p]
        <=> f \in flags[p]
    BY DEF RemoveAllOrphan, Raise, Typed
  <1> QED
    BY <1>2, <1>3, <1>4 DEF Quiet, SameMarks

(* Uninitialize has nothing to do with maps.                                 *)
LEMMA UninitializeQuiet ==
    ASSUME Typed, Shaped, NEW t \in Threads, Uninitialize(t)
    PROVE  Quiet
  <1>1. Puts(t, "none", NoObject, {<<"removeAll", NoObject>>})
    BY UninitializePuts
  <1>2. SameWork
    BY <1>1, PutsQuiet DEF WorkLabels, MapLabels
  <1> QED
    BY <1>2 DEF Uninitialize, object, client, Quiet, SameMarks

(* RemoveAllDetach has nothing to do with maps.                              *)
LEMMA RemoveAllDetachQuiet ==
    ASSUME Typed, Shaped, NEW t \in Threads, RemoveAllDetach(t)
    PROVE  Quiet
  <1>1. PICK o \in removed : o \in Objects /\ Clear(o, {"attached"})
             /\ Takes(t, "removeAll", NoObject, {<<"orphan", o>>})
    BY RemoveAllDetachTakes
  <1>2. SameWork
    BY <1>1, PutsQuiet DEF Takes, WorkLabels, MapLabels
  <1>3. UNCHANGED <<mapCount, data, ok, good, overlapped, mapped>>
    BY DEF RemoveAllDetach, client
  <1>4. \A p \in Objects : \A f \in {"mapped", "invalid", "modified"} : f \in flags'[p]
        <=> f \in flags[p]
    BY <1>1 DEF Clear, Typed
  <1> QED
    BY <1>2, <1>3, <1>4 DEF Quiet, SameMarks

(* RemoveAllRelease has nothing to do with maps.                             *)
LEMMA RemoveAllReleaseQuiet ==
    ASSUME Typed, Shaped, NEW t \in Threads, RemoveAllRelease(t)
    PROVE  Quiet
  <1>1. ASSUME Takes(t, "removeAll", NoObject, {<<"relock", NoObject>>}) PROVE SameWork
    BY <1>1, PutsQuiet DEF Takes, WorkLabels, MapLabels
  <1>2. ASSUME NEW o, Takes(t, "removeAll", NoObject,
               {<<"release", o>>, <<"removeAll", NoObject>>}) PROVE SameWork
    <2>1. \A k, p : <<k, p>> \in {<<"release", o>>, <<"removeAll", NoObject>>}
          => k \notin WorkLabels
      BY DEF WorkLabels, MapLabels
    <2>2. "removeAll" \notin WorkLabels
      BY DEF WorkLabels, MapLabels
    <2> QED
      BY <1>2, <2>1, <2>2, PutsQuiet DEF Takes
  <1>3. SameWork
    BY <1>1, <1>2, RemoveAllReleaseTakes
  <1> QED
    BY <1>3 DEF RemoveAllRelease, object, client, Quiet, SameMarks

(* CreateNew has nothing to do with maps.                                    *)
LEMMA CreateNewQuiet ==
    ASSUME Typed, Shaped, Unborns, NEW t \in Threads, NEW l \in Locations \cup {Anonymous},
           NEW fl \in CreateFlags,
           CreateNew(t, l, fl)
    PROVE  Quiet
  <1>1. PICK o \in Objects : Creates(t, l, fl, o)
    BY CreateNewPuts
  <1>2. SameWork
    BY <1>1, PutsQuiet DEF Creates, WorkLabels, MapLabels
  <1>3. fl \subseteq {"eternal", "manual", "mapped"} /\ flags[o] = {}
    BY <1>1, ResourceAssumption DEF Creates, Unborns
  <1>4. \A p \in Objects : \A f \in {"mapped", "invalid", "modified"} : f \in flags'[p]
        <=> f \in flags[p]
    BY <1>1, <1>3 DEF Creates, Typed
  <1> QED
    BY <1>2, <1>4 DEF CreateNew, Quiet, SameMarks

-----------------------------------------------------------------------------
(* t is given e, with the steps K of a Map, an upload and an UnMap to do.    *)
Obtains(t, e, K) ==
    /\ SameMarks
    /\ e \notin mapped[t] /\ \A k \in WorkLabels : \A p : ~Has(t, k, p)
    /\ K \in SUBSET {"map", "upload", "unmap"} /\ (K # {} => "map" \in K)
    /\ \A u \in Threads : \A p : \A k \in WorkLabels :
            Has(u, k, p)' <=> Has(u, k, p) \/ (u = t /\ p = e /\ k \in K)
    /\ \A u \in Threads, p \in Objects :
            p \in mapped'[u] <=> p \in mapped[u] \/ (u = t /\ p = e /\ e \in mapped'[t])
    /\ e \in mapped'[t] => "map" \in K
    /\ "upload" \in K => "mapped" \notin flags[e]
        /\ \A u \in Threads : \A k \in WorkLabels : ~Has(u, k, e)

(* MapCall gives the caller an object, with what it has to do with it.       *)
LEMMA MapCallObtains ==
    ASSUME Typed, Shaped, NEW t \in Threads, NEW o \in Objects, MapCall(t, o)
    PROVE  Obtains(t, o, {"map"})
  <1>1. Puts(t, "none", NoObject, {<<"map", o>>}) /\ \A k, p : ~Has(t, k, p)
    BY CallPutsOne DEF MapCall
  <1>2. \A u \in Threads : \A p : \A k \in WorkLabels : Has(u, k, p)' <=> Has(u, k, p)
        \/ (u = t /\ p = o /\ k \in {"map"})
    BY <1>1 DEF Puts
  <1>3. SameMarks
    BY DEF SameMarks, MapCall, object
  <1>4. /\ o \notin mapped[t]
        /\ \A u \in Threads, p \in Objects : p \in mapped'[u] <=> p \in mapped[u]
            \/ (u = t /\ p = o)
    BY DEF MapCall, Typed
  <1> QED
    BY <1>1, <1>2, <1>3, <1>4 DEF Obtains

(* CreateExisting gives the caller an object, with what it has to do with    *)
(* it.                                                                       *)
LEMMA CreateExistingObtains ==
    ASSUME Typed, Shaped, Working, NEW t \in Threads, NEW l \in Locations,
           NEW fl \in CreateFlags, CreateExisting(t, l, fl)
    PROVE  \E e \in Objects, K \in SUBSET {"map", "upload", "unmap"} : Obtains(t, e, K)
  <1>1. PICK o \in Objects : o = resourceMap[l]
    BY CreateExistingPuts
  <1>2. /\ \A k, p : ~Has(t, k, p)
        /\ \/ Obtain(t, o, fl) /\ Puts(t, "none", NoObject, IF "mapped" \in fl
               THEN {<<"map", o>>} ELSE {})
           \/ UNCHANGED <<held, mapped>> /\ Puts(t, "none", NoObject, {<<"release", o>>})
    BY <1>1, CreateExistingPuts
  <1>3. SameMarks
    BY DEF SameMarks, CreateExisting
  <1>4. o \notin mapped[t]
    BY <1>1 DEF CreateExisting, Working
  <1>5. CASE Obtain(t, o, fl) /\ "mapped" \in fl /\ Puts(t, "none", NoObject, {<<"map", o>>})
    <2>1. \A u \in Threads : \A p : \A k \in WorkLabels : Has(u, k, p)' <=> Has(u, k, p)
          \/ (u = t /\ p = o /\ k \in {"map"})
      BY <1>2, <1>5 DEF Puts
    <2>2. \A u \in Threads, p \in Objects : p \in mapped'[u] <=> p \in mapped[u] \/ (u = t /\ p = o)
      BY <1>5 DEF Obtain, Typed
    <2>3. Obtains(t, o, {"map"})
      BY <1>2, <1>3, <1>4, <2>1, <2>2 DEF Obtains
    <2> QED
      BY <2>3
  <1>6. ASSUME UNCHANGED mapped, NEW S, \A k, p : <<k, p>> \in S
               => k = "release", Puts(t, "none", NoObject, S)
        PROVE  Obtains(t, o, {})
    <2>1. "release" \notin WorkLabels /\ "none" \notin WorkLabels
      BY DEF WorkLabels, MapLabels
    <2>2. \A k, p : <<k, p>> \in S => k \notin WorkLabels
      BY <1>6, <2>1
    <2>3. SameWork
      BY <1>6, <2>1, <2>2, PutsQuiet
    <2> QED
      BY <1>2, <1>3, <1>4, <1>6, <2>3 DEF Obtains, SameWork
  <1>7. CASE Obtain(t, o, fl) /\ "mapped" \notin fl /\ Puts(t, "none", NoObject, {})
    <2>1. UNCHANGED mapped
      BY <1>7 DEF Obtain, Typed
    <2> QED
      BY <1>6, <1>7, <2>1
  <1>8. CASE UNCHANGED <<held, mapped>> /\ Puts(t, "none", NoObject, {<<"release", o>>})
    <2>1. \A k, p : <<k, p>> \in {<<"release", o>>} => k = "release"
      OBVIOUS
    <2> QED
      BY <1>6, <1>8, <2>1
  <1> QED
    BY <1>2, <1>5, <1>7, <1>8

(* InsertExisting gives the caller an object, with what it has to do with    *)
(* it.                                                                       *)
LEMMA InsertExistingObtains ==
    ASSUME Typed, Shaped, Working, Fresh, NEW t \in Threads, NEW o \in Objects, InsertExisting(t, o)
    PROVE  \E e \in Objects, K \in SUBSET {"map", "upload", "unmap"} : Obtains(t, e, K)
  <1>1. PICK e \in Objects : e = resourceMap[location[o]]
    BY InsertExistingFacts
  <1>2. e \notin mapped[t]
    BY <1>1, InsertExistingFacts DEF Working
  <1>3. Takes(t, "insert", o, (IF "mapped" \in request[t] THEN {<<"map", e>>}
        ELSE {}) \cup {<<"release", o>>})
    BY <1>1, InsertExistingTakes
  <1>4. \A k \in WorkLabels : \A p : ~Has(t, k, p)
    BY <1>3 DEF Takes, Beside, MapLabels, WorkLabels, LetGoLabels
  <1>5. SameMarks
    BY DEF SameMarks, InsertExisting
  <1>6. Obtain(t, e, request[t])
    BY <1>1 DEF InsertExisting
  <1>7. CASE "mapped" \in request[t]
    <2>1. Puts(t, "insert", o, {<<"map", e>>, <<"release", o>>})
      BY <1>3, <1>7 DEF Takes
    <2>2. \A u \in Threads : \A p : \A k \in WorkLabels : Has(u, k, p)' <=> Has(u, k, p)
          \/ (u = t /\ p = e /\ k \in {"map"})
      <3>1. "release" \notin WorkLabels /\ "insert" \notin WorkLabels /\ "map" \in WorkLabels
        BY DEF WorkLabels, MapLabels
      <3> QED
        BY <2>1, <3>1 DEF Puts
    <2>3. \A u \in Threads, p \in Objects : p \in mapped'[u] <=> p \in mapped[u] \/ (u = t /\ p = e)
      BY <1>6, <1>7 DEF Obtain, Typed
    <2>4. Obtains(t, e, {"map"})
      BY <1>2, <1>4, <1>5, <2>2, <2>3 DEF Obtains
    <2> QED
      BY <2>4
  <1>8. CASE "mapped" \notin request[t]
    <2>1. Puts(t, "insert", o, {<<"release", o>>})
      BY <1>3, <1>8 DEF Takes
    <2>2. SameWork
      BY <2>1, PutsQuiet DEF WorkLabels, MapLabels
    <2>3. UNCHANGED mapped
      BY <1>6, <1>8 DEF Obtain, Typed
    <2>4. Obtains(t, e, {})
      BY <1>2, <1>4, <1>5, <2>2, <2>3 DEF Obtains, SameWork
    <2> QED
      BY <2>4
  <1> QED
    BY <1>7, <1>8

(* Insert gives the caller an object, with what it has to do with it.        *)
LEMMA InsertObtains ==
    ASSUME Typed, Shaped, Working, Fresh, NEW t \in Threads, NEW o \in Objects, Insert(t, o)
    PROVE  \E e \in Objects, K \in SUBSET {"map", "upload", "unmap"} : Obtains(t, e, K)
  <1>1. NewFor(t, o) /\ Takes(t, "insert", o, StepsNew(request[t], o))
    BY InsertIs, InsertTakes
  <1>2. SameMarks
    <2>1. \A f \in {"mapped", "invalid", "modified"} : f \in flags'[o] <=> f \in flags[o]
      BY InsertIs
    <2>2. \A p \in Objects : p # o => flags'[p] = flags[p]
      BY InsertIs
    <2>3. UNCHANGED <<mapCount, data, ok, good, overlapped>>
      BY DEF Insert
    <2> QED
      BY <2>1, <2>2, <2>3 DEF SameMarks
  <1>3. \A k \in WorkLabels : \A p : ~Has(t, k, p)
    BY <1>1 DEF Takes, Beside, MapLabels, WorkLabels, LetGoLabels
  <1>4. \A u \in Threads : u # t => ~Mentions(u, o)
    BY <1>1 DEF NewFor
  <1>5. o \notin mapped[t] /\ "mapped" \notin flags[o]
    BY <1>1 DEF NewFor, Working
  <1>6. \A u \in Threads : \A k \in WorkLabels : ~Has(u, k, o)
    BY <1>3, <1>4 DEF Mentions, Labels
  <1>7. Obtain(t, o, request[t])
    BY DEF Insert
  <1>8. ASSUME NEW K \in SUBSET {"map", "upload", "unmap"}, K # {}
               => "map" \in K, "mapped" \in request[t] => "map" \in K,
               \A k, p : <<k, p>> \in StepsNew(request[t], o) <=> k \in K /\ p = o
        PROVE  Obtains(t, o, K)
    <2>1. \A u \in Threads : \A p : \A k \in WorkLabels : Has(u, k, p)' <=> Has(u, k, p)
          \/ (u = t /\ p = o /\ k \in K)
      <3>1. "insert" \notin WorkLabels
        BY DEF WorkLabels, MapLabels
      <3> QED
        BY <1>1, <1>8, <3>1 DEF Takes, Puts
    <2>2. \A u \in Threads, p \in Objects :
             p \in mapped'[u] <=> p \in mapped[u] \/ (u = t /\ p = o /\ "mapped" \in request[t])
      BY <1>7 DEF Obtain, Typed
    <2> QED
      BY <1>2, <1>3, <1>5, <1>6, <1>8, <2>1, <2>2 DEF Obtains
  <1>9. CASE "manual" \in request[t] /\ "mapped" \in request[t]
    <2>1. \A k, p : <<k, p>> \in StepsNew(request[t], o) <=> k \in {"map"} /\ p = o
      BY <1>9 DEF StepsNew
    <2>2. Obtains(t, o, {"map"})
      BY <1>8, <2>1
    <2> QED
      BY <2>2
  <1>10. CASE "manual" \in request[t] /\ "mapped" \notin request[t]
    <2>1. \A k, p : <<k, p>> \in StepsNew(request[t], o) <=> k \in {} /\ p = o
      BY <1>10 DEF StepsNew
    <2>2. Obtains(t, o, {})
      BY <1>8, <1>10, <2>1
    <2> QED
      BY <2>2
  <1>11. CASE "manual" \notin request[t] /\ "mapped" \in request[t]
    <2>1. \A k, p : <<k, p>> \in StepsNew(request[t], o) <=> k \in {"map", "upload"} /\ p = o
      BY <1>11 DEF StepsNew
    <2>2. Obtains(t, o, {"map", "upload"})
      BY <1>8, <2>1
    <2> QED
      BY <2>2
  <1>12. CASE "manual" \notin request[t] /\ "mapped" \notin request[t]
    <2>1. \A k, p : <<k, p>> \in StepsNew(request[t], o) <=> k \in {"map", "upload", "unmap"}
          /\ p = o
      BY <1>12 DEF StepsNew
    <2>2. Obtains(t, o, {"map", "upload", "unmap"})
      BY <1>8, <2>1
    <2> QED
      BY <2>2
  <1> QED
    BY <1>9, <1>10, <1>11, <1>12

-----------------------------------------------------------------------------
(* The steps that work on a map                                              *)
Works(t, o) ==
    \/ MapCount(t, o) \/ Load(t, o) \/ MapLoaded(t, o) \/ MapWait(t, o) \/ MapCheck(t, o)
    \/ Upload(t, o) \/ UnMapCall(t, o) \/ UnMapCount(t, o) \/ UnMapFlag(t, o) \/ DropData(t, o)

(* A thread moves by a step that works on a map, by one that obtains an      *)
(* object, or by one that has nothing to do with maps.                       *)
LEMMA MovesAre ==
    ASSUME Typed, Shaped, Working, Unborns, Fresh, NEW t \in Threads, Moves(t)
    PROVE  \/ Quiet
           \/ \E e \in Objects, K \in SUBSET {"map", "upload", "unmap"} : Obtains(t, e, K)
           \/ \E o \in Objects : Works(t, o)
  <1>1. CASE Calls(t)
    <2>1. ASSUME NEW o \in Objects, MapCall(t, o)
          PROVE  \E e \in Objects, K \in SUBSET {"map", "upload", "unmap"} : Obtains(t, e, K)
      <3>1. Obtains(t, o, {"map"})
        BY <2>1, MapCallObtains
      <3> QED
        BY <3>1
    <2> QED
      BY <1>1, <2>1, CreateExistingObtains, CreateNewQuiet, UninitializeQuiet DEF Calls
  <1>2. CASE GivesBack(t)
    BY <1>2, ReleaseCallQuiet DEF GivesBack, Works
  <1>3. CASE Step(t)
    BY <1>3, InsertExistingObtains, InsertObtains, ReleaseQuiet, DestroyQuiet,
       RemoveQuiet, DetachQuiet, LastQuiet,
       RelockQuiet, RemoveAllOrphanQuiet, RemoveAllDetachQuiet, RemoveAllReleaseQuiet DEF Step,
           Works
  <1> QED
    BY <1>1, <1>2, <1>3 DEF Moves

-----------------------------------------------------------------------------
(* The counted maps                                                          *)

(* mapCount counts the threads that have the object mapped or still have to  *)
(* unmap it, once their Map has counted.                                     *)
LEMMA MapCountsKept ==
    ASSUME Typed, Shaped, Working, Unborns, Fresh, MapCounts, NEW t \in Threads, Moves(t)
    PROVE  MapCounts'
  <1>1. ASSUME Quiet PROVE MapCounts'
    <2>1. \A u \in Threads, p \in Objects : Maps(u, p)' <=> Maps(u, p)
      <3>1. "map" \in WorkLabels /\ "unmap" \in WorkLabels
        BY DEF WorkLabels, MapLabels
      <3> QED
        BY <1>1, <3>1 DEF Quiet, SameWork, Maps
    <2> QED
      BY <1>1, <2>1, MapCountsSame DEF Quiet, SameMarks
  <1>2. ASSUME NEW e \in Objects, NEW K \in SUBSET {"map", "upload", "unmap"}, Obtains(t, e, K)
        PROVE  MapCounts'
    <2>1. ASSUME NEW u \in Threads, NEW p \in Objects PROVE Maps(u, p)' <=> Maps(u, p)
      <3>1. "map" \in WorkLabels /\ "unmap" \in WorkLabels
        BY DEF WorkLabels, MapLabels
      <3>2. CASE u = t /\ p = e
        BY <1>2, <3>1, <3>2 DEF Obtains, Maps
      <3>3. CASE ~(u = t /\ p = e)
        BY <1>2, <3>1, <3>3 DEF Obtains, Maps
      <3> QED
        BY <3>2, <3>3
    <2> QED
      BY <1>2, <2>1, MapCountsSame DEF Obtains, SameMarks
  <1>Load. ASSUME NEW o \in Objects, Load(t, o) PROVE MapCounts'
    <2>1. Takes(t, "load", o, {<<"loaded", o>>})
      BY <1>Load, LoadTakes
    <2>2. UNCHANGED <<mapCount, mapped>>
      BY <1>Load DEF Load, client, object
    <2>3. \A u \in Threads, p \in Objects : Maps(u, p)' <=> Maps(u, p)
      BY <2>1, <2>2 DEF Takes, Puts, Maps
    <2> QED
      BY <2>2, <2>3, MapCountsSame
  <1>MapLoaded. ASSUME NEW o \in Objects, MapLoaded(t, o) PROVE MapCounts'
    <2>1. Takes(t, "loaded", o, {})
      BY <1>MapLoaded, MapLoadedTakes
    <2>2. UNCHANGED <<mapCount, mapped>>
      BY <1>MapLoaded DEF MapLoaded, client, object
    <2>3. \A u \in Threads, p \in Objects : Maps(u, p)' <=> Maps(u, p)
      BY <2>1, <2>2 DEF Takes, Puts, Maps
    <2> QED
      BY <2>2, <2>3, MapCountsSame
  <1>MapWait. ASSUME NEW o \in Objects, MapWait(t, o) PROVE MapCounts'
    <2>1. Takes(t, "wait", o, {<<"check", o>>})
      BY <1>MapWait, MapWaitTakes
    <2>2. UNCHANGED <<mapCount, mapped>>
      BY <1>MapWait DEF MapWait, client, object
    <2>3. \A u \in Threads, p \in Objects : Maps(u, p)' <=> Maps(u, p)
      BY <2>1, <2>2 DEF Takes, Puts, Maps
    <2> QED
      BY <2>2, <2>3, MapCountsSame
  <1>MapCheck. ASSUME NEW o \in Objects, MapCheck(t, o) PROVE MapCounts'
    <2>1. Takes(t, "check", o, {})
      BY <1>MapCheck, MapCheckTakes
    <2>2. UNCHANGED <<mapCount, mapped>>
      BY <1>MapCheck DEF MapCheck, client, object
    <2>3. \A u \in Threads, p \in Objects : Maps(u, p)' <=> Maps(u, p)
      BY <2>1, <2>2 DEF Takes, Puts, Maps
    <2> QED
      BY <2>2, <2>3, MapCountsSame
  <1>Upload. ASSUME NEW o \in Objects, Upload(t, o) PROVE MapCounts'
    <2>1. Takes(t, "upload", o, {})
      BY <1>Upload, UploadTakes
    <2>2. UNCHANGED <<mapCount, mapped>>
      BY <1>Upload DEF Upload, client, object
    <2>3. \A u \in Threads, p \in Objects : Maps(u, p)' <=> Maps(u, p)
      BY <2>1, <2>2 DEF Takes, Puts, Maps
    <2> QED
      BY <2>2, <2>3, MapCountsSame
  <1>UnMapFlag. ASSUME NEW o \in Objects, UnMapFlag(t, o) PROVE MapCounts'
    <2>1. Takes(t, "unflag", o, {})
      BY <1>UnMapFlag, UnMapFlagTakes
    <2>2. UNCHANGED <<mapCount, mapped>>
      BY <1>UnMapFlag DEF UnMapFlag, client, object
    <2>3. \A u \in Threads, p \in Objects : Maps(u, p)' <=> Maps(u, p)
      BY <2>1, <2>2 DEF Takes, Puts, Maps
    <2> QED
      BY <2>2, <2>3, MapCountsSame
  <1>DropData. ASSUME NEW o \in Objects, DropData(t, o) PROVE MapCounts'
    <2>1. Takes(t, "drop", o, {})
      BY <1>DropData, DropDataTakes
    <2>2. UNCHANGED <<mapCount, mapped>>
      BY <1>DropData DEF DropData, client, object
    <2>3. \A u \in Threads, p \in Objects : Maps(u, p)' <=> Maps(u, p)
      BY <2>1, <2>2 DEF Takes, Puts, Maps
    <2> QED
      BY <2>2, <2>3, MapCountsSame
  <1>MapCount. ASSUME NEW o \in Objects, MapCount(t, o) PROVE MapCounts'
    <2>1. Takes(t, "map", o, {<<IF mapCount[o] = 0 THEN "load" ELSE "wait", o>>})
      BY <1>MapCount, MapCountTakes
    <2>2. /\ UNCHANGED mapped /\ mapCount'[o] = mapCount[o] + 1
          /\ \A p \in Objects : p # o => mapCount'[p] = mapCount[p]
      BY <1>MapCount DEF MapCount, client, Add, Typed, TypeOK
    <2>3. \A u \in Threads : \A p : /\ Has(u, "unmap", p)' <=> Has(u, "unmap", p)
                                    /\ Has(u, "map", p)' <=> Has(u, "map", p) /\ ~(u = t /\ p = o)
      BY <2>1 DEF Takes, Puts
    <2>4. \A u \in Threads, p \in Objects : p # o \/ u # t => (Maps(u, p)' <=> Maps(u, p))
      BY <2>2, <2>3 DEF Maps
    <2>5. Has(t, "map", o)
      BY <2>1 DEF Takes
    <2>6. ~Maps(t, o) /\ Maps(t, o)'
      BY <2>2, <2>3, <2>5 DEF Maps, Working, MapLabels
    <2> QED
      BY <2>2, <2>4, <2>6, MapCountsChange DEF Typed, TypeOK
  <1>UnMapCall. ASSUME NEW o \in Objects, UnMapCall(t, o) PROVE MapCounts'
    <2>1. Puts(t, "none", NoObject, {<<"unmap", o>>}) /\ \A k, p : ~Has(t, k, p)
      BY <1>UnMapCall, CallPutsOne DEF UnMapCall
    <2>2. /\ UNCHANGED mapCount /\ o \in mapped[t]
          /\ \A u \in Threads, p \in Objects : p \in mapped'[u] <=> p \in mapped[u]
              /\ ~(u = t /\ p = o)
      BY <1>UnMapCall DEF UnMapCall, object, Typed
    <2>3. \A u \in Threads : \A p : /\ Has(u, "map", p)' <=> Has(u, "map", p)
                                    /\ Has(u, "unmap", p)' <=> Has(u, "unmap", p)
                                        \/ (u = t /\ p = o)
      BY <2>1 DEF Puts
    <2>4. \A u \in Threads, p \in Objects : Maps(u, p)' <=> Maps(u, p)
      BY <2>1, <2>2, <2>3 DEF Maps
    <2> QED
      BY <2>2, <2>4, MapCountsSame
  <1>UnMapCount. ASSUME NEW o \in Objects, UnMapCount(t, o) PROVE MapCounts'
    <2>1. PICK S : Takes(t, "unmap", o, S) /\ \A k, p : <<k, p>> \in S => k \in {"unflag", "drop"}
      <3>1. CASE mapCount[o] = 1
        <4>1. Takes(t, "unmap", o, {<<"unflag", o>>, <<"drop", o>>})
          BY <1>UnMapCount, <3>1, UnMapCountTakes
        <4>2. \A k, p : <<k, p>> \in {<<"unflag", o>>, <<"drop", o>>} => k \in {"unflag", "drop"}
          OBVIOUS
        <4> QED
          BY <4>1, <4>2
      <3>2. CASE mapCount[o] # 1
        <4>1. Takes(t, "unmap", o, {})
          BY <1>UnMapCount, <3>2, UnMapCountTakes
        <4> QED
          BY <4>1
      <3> QED
        BY <3>1, <3>2
    <2>2. /\ UNCHANGED mapped /\ mapCount'[o] = mapCount[o] - 1
          /\ \A p \in Objects : p # o => mapCount'[p] = mapCount[p]
      BY <1>UnMapCount DEF UnMapCount, client, Add, Typed, TypeOK
    <2>a. \A p : <<"map", p>> \notin S /\ <<"unmap", p>> \notin S
      BY <2>1
    <2>3. \A u \in Threads : \A p : /\ Has(u, "map", p)' <=> Has(u, "map", p)
                                    /\ Has(u, "unmap", p)' <=> Has(u, "unmap", p)
                                        /\ ~(u = t /\ p = o)
      BY <2>1, <2>a DEF Takes, Puts
    <2>4. \A u \in Threads, p \in Objects : p # o \/ u # t => (Maps(u, p)' <=> Maps(u, p))
      BY <2>2, <2>3 DEF Maps
    <2>5. Has(t, "unmap", o) /\ ~Has(t, "map", o)
      BY <2>1 DEF Takes, Beside, MapLabels, LetGoLabels
    <2>6. Maps(t, o) /\ ~Maps(t, o)'
      BY <2>2, <2>3, <2>5 DEF Maps, Working
    <2> QED
      BY <2>2, <2>4, <2>6, MapCountsChange DEF Typed, TypeOK
  <1> QED
    BY <1>1, <1>2, <1>MapCount, <1>Load, <1>MapLoaded, <1>MapWait, <1>MapCheck,
       <1>Upload, <1>UnMapCall,
       <1>UnMapCount, <1>UnMapFlag, <1>DropData, MovesAre DEF Works

-----------------------------------------------------------------------------
(* The steps the invariants of a map speak of                                *)
FlagLabels == {"load", "loaded", "check", "unflag"}

(* They are among the labels of work, and a Map, an upload and an UnMap that *)
(* are to come are not among them.                                           *)
LEMMA FlagLabelsAre == FlagLabels \subseteq WorkLabels
    /\ {"map", "upload", "unmap"} \cap FlagLabels = {}
  BY DEF FlagLabels, WorkLabels, MapLabels

-----------------------------------------------------------------------------
(* The flag RESOURCE_MAPPED                                                  *)

(* Nothing that FlagsTell speaks of changes.                                 *)
LEMMA TellsSame ==
    ASSUME NEW p \in Objects, FlagsTell(p), mapCount'[p] = mapCount[p], data'[p] = data[p],
           \A f \in {"mapped", "invalid"} : f \in flags'[p] <=> f \in flags[p],
           \A u \in Threads : p \in good'[u] => p \in good[u],
           \A u \in Threads : \A k \in FlagLabels : Has(u, k, p)' <=> Has(u, k, p),
           \A u \in Threads : Has(u, "loaded", p) => ok'[u] = ok[u]
    PROVE  FlagsTell(p)'
  <1>1. \A u \in Threads : /\ Has(u, "load", p)' <=> Has(u, "load", p)
                           /\ Has(u, "loaded", p)' <=> Has(u, "loaded", p)
                           /\ Has(u, "check", p)' <=> Has(u, "check", p)
                           /\ Has(u, "unflag", p)' <=> Has(u, "unflag", p)
    BY DEF FlagLabels
  <1>2. \A u \in Threads : Loading(u, p)' <=> Loading(u, p)
    BY <1>1 DEF Loading
  <1> QED
    BY <1>1, <1>2 DEF FlagsTell

(* MapCount keeps what the flag RESOURCE_MAPPED tells.                       *)
LEMMA MapCountFlagged ==
    ASSUME Typed, Shaped, Working, MapCounts, Flagged, NEW t \in Threads,
           NEW o \in Objects, MapCount(t, o)
    PROVE  Flagged'
  <1> SUFFICES ASSUME NEW p \in Objects \ overlapped' PROVE FlagsTell(p)'
    BY DEF Flagged
  <1>1. Takes(t, "map", o, {<<IF mapCount[o] = 0 THEN "load" ELSE "wait", o>>})
    BY MapCountTakes
  <1>2. /\ UNCHANGED <<flags, data, ok, good>>
        /\ mapCount'[o] = mapCount[o] + 1 /\ \A q \in Objects : q # o => mapCount'[q] = mapCount[q]
        /\ overlapped \subseteq overlapped'
        /\ mapCount[o] = 0 /\ (\E u \in Threads : At(u, "unflag", o)) => o \in overlapped'
    BY DEF MapCount, client, Add, Typed, TypeOK
  <1>3. p \in Objects \ overlapped /\ FlagsTell(p)
    BY <1>2 DEF Flagged
  <1>4. CASE p # o
    <2>1. \A u \in Threads : \A k \in FlagLabels : Has(u, k, p)' <=> Has(u, k, p)
      BY <1>1, <1>4 DEF Takes, Puts
    <2>2. \A u \in Threads : Has(u, "loaded", p) => ok'[u] = ok[u]
      BY <1>1, <1>2, <1>4 DEF Takes, Beside, MapLabels
    <2> QED
      BY <1>2, <1>3, <1>4, <2>1, <2>2, TellsSame
  <1>5. CASE p = o
    <2>1. mapCount[o] \in Nat
      BY MapCountIsNat
    <2>2. \A u \in Threads : ~Has(u, "unflag", o)
      <3> SUFFICES ASSUME NEW u \in Threads, Has(u, "unflag", o) PROVE FALSE
        OBVIOUS
      <3>1. mapCount[o] = 0
        BY <1>3, <1>5 DEF FlagsTell
      <3>2. At(u, "unflag", o)
        BY ComesFirst
      <3> QED
        BY <1>2, <1>5, <3>1, <3>2
    <2>3. CASE mapCount[o] = 0
      <3>1. Takes(t, "map", o, {<<"load", o>>})
        BY <1>1, <2>3
      <3>2. "mapped" \notin flags[o]
        BY <1>3, <1>5, <2>2, <2>3 DEF FlagsTell
      <3>3. \A u \in Threads : ~Maps(u, o)
        BY <2>3, MapsCount
      <3>4. \A u \in Threads : ~Has(u, "load", o) /\ ~Has(u, "loaded", o) /\ ~Has(u, "check", o)
        BY <3>3, LaterMaps DEF MapLabels
      <3>5. \A u \in Threads : /\ Has(u, "load", o)' <=> u = t
                               /\ ~Has(u, "loaded", o)' /\ ~Has(u, "check", o)'
                                   /\ ~Has(u, "unflag", o)'
        BY <2>2, <3>1, <3>4 DEF Takes, Puts
      <3>6. \A u \in Threads : o \notin good[u]
        BY <1>3, <1>5, <3>2 DEF FlagsTell
      <3> QED
        BY <1>2, <1>5, <3>2, <3>5, <3>6 DEF FlagsTell, Loading
    <2>4. CASE mapCount[o] # 0
      <3>1. Takes(t, "map", o, {<<"wait", o>>})
        BY <1>1, <2>4
      <3>2. \A u \in Threads : \A k \in FlagLabels : Has(u, k, o)' <=> Has(u, k, o)
        BY <3>1 DEF Takes, Puts, FlagLabels
      <3>3. mapCount'[o] # 0
        BY <1>2, <2>1
      <3>4. \A u \in Threads : /\ Has(u, "load", o)' <=> Has(u, "load", o)
                               /\ Has(u, "loaded", o)' <=> Has(u, "loaded", o)
                               /\ Has(u, "check", o)' <=> Has(u, "check", o)
                               /\ Has(u, "unflag", o)' <=> Has(u, "unflag", o)
        BY <3>2 DEF FlagLabels
      <3> QED
        BY <1>2, <1>3, <1>5, <2>2, <2>4, <3>3, <3>4 DEF FlagsTell, Loading
    <2> QED
      BY <2>3, <2>4
  <1> QED
    BY <1>4, <1>5

(* Load keeps what the flag RESOURCE_MAPPED tells.                           *)
LEMMA LoadFlagged ==
    ASSUME Typed, Shaped, Working, MapCounts, Flagged, NEW t \in Threads,
           NEW o \in Objects, Load(t, o)
    PROVE  Flagged'
  <1> SUFFICES ASSUME NEW p \in Objects \ overlapped' PROVE FlagsTell(p)'
    BY DEF Flagged
  <1>1. Takes(t, "load", o, {<<"loaded", o>>})
    BY LoadTakes
  <1>2. /\ UNCHANGED <<mapCount, good, overlapped>>
        /\ ok'[t] => data'[o]
        /\ \A u \in Threads : u # t => ok'[u] = ok[u]
        /\ \A q \in Objects : q # o => data'[q] = data[q] /\ flags'[q] = flags[q]
        /\ \A f \in {"mapped", "invalid"} : f \in flags'[o] <=> f \in flags[o]
    BY DEF Load, Raise, Typed, TypeOK
  <1>3. p \in Objects \ overlapped /\ FlagsTell(p)
    BY <1>2 DEF Flagged
  <1>4. CASE p # o
    <2>1. \A u \in Threads : \A k \in FlagLabels : Has(u, k, p)' <=> Has(u, k, p)
      BY <1>1, <1>4 DEF Takes, Puts
    <2>2. \A u \in Threads : Has(u, "loaded", p) => ok'[u] = ok[u]
      BY <1>1, <1>2, <1>4 DEF Takes, Beside, MapLabels
    <2> QED
      BY <1>2, <1>3, <1>4, <2>1, <2>2, TellsSame
  <1>5. CASE p = o
    <2>1. Has(t, "load", o) /\ ~Has(t, "loaded", o)
      BY <1>1 DEF Takes, Beside, MapLabels
    <2>2. "mapped" \notin flags[o] /\ \A u \in Threads : u # t => ~Has(u, "load", o)
          /\ ~Has(u, "loaded", o)
      BY <1>3, <1>5, <2>1 DEF FlagsTell, Loading
    <2>3. \A u \in Threads : /\ ~Has(u, "load", o)' /\ (Has(u, "loaded", o)' <=> u = t)
                             /\ (Has(u, "check", o)' <=> Has(u, "check", o))
                             /\ (Has(u, "unflag", o)' <=> Has(u, "unflag", o))
      BY <1>1, <2>1, <2>2 DEF Takes, Puts
    <2> QED
      BY <1>2, <1>3, <1>5, <2>2, <2>3 DEF FlagsTell, Loading
  <1> QED
    BY <1>4, <1>5

(* MapLoaded keeps what the flag RESOURCE_MAPPED tells.                      *)
LEMMA MapLoadedFlagged ==
    ASSUME Typed, Shaped, Working, MapCounts, Flagged, NEW t \in Threads,
           NEW o \in Objects, MapLoaded(t, o)
    PROVE  Flagged'
  <1> SUFFICES ASSUME NEW p \in Objects \ overlapped' PROVE FlagsTell(p)'
    BY DEF Flagged
  <1>1. Takes(t, "loaded", o, {})
    BY MapLoadedTakes
  <1>2. /\ UNCHANGED <<mapCount, data, ok, overlapped>>
        /\ \A u \in Threads, q \in Objects : q \in good'[u] => q \in good[u]
            \/ (u = t /\ q = o /\ ok[t])
        /\ \A q \in Objects : q # o => flags'[q] = flags[q]
        /\ "mapped" \in flags'[o] /\ ("invalid" \notin flags'[o] => ok[t])
    BY DEF MapLoaded, MapReturns, Raise, Typed, TypeOK
  <1>3. p \in Objects \ overlapped /\ FlagsTell(p)
    BY <1>2 DEF Flagged
  <1>4. CASE p # o
    <2>1. \A u \in Threads : \A k \in FlagLabels : Has(u, k, p)' <=> Has(u, k, p)
      BY <1>1, <1>4 DEF Takes, Puts
    <2>2. \A u \in Threads : Has(u, "loaded", p) => ok'[u] = ok[u]
      BY <1>1, <1>2, <1>4 DEF Takes, Beside, MapLabels
    <2> QED
      BY <1>2, <1>3, <1>4, <2>1, <2>2, TellsSame
  <1>5. CASE p = o
    <2>1. Has(t, "loaded", o) /\ ~Has(t, "load", o)
      BY <1>1 DEF Takes, Beside, MapLabels
    <2>2. "mapped" \notin flags[o] /\ \A u \in Threads : u # t => ~Has(u, "load", o)
          /\ ~Has(u, "loaded", o)
      BY <1>3, <1>5, <2>1 DEF FlagsTell, Loading
    <2>3. \A u \in Threads : /\ ~Has(u, "load", o)' /\ ~Has(u, "loaded", o)'
                             /\ (Has(u, "check", o)' <=> Has(u, "check", o))
                             /\ (Has(u, "unflag", o)' <=> Has(u, "unflag", o))
      BY <1>1, <2>1, <2>2 DEF Takes, Puts
    <2>4. mapCount[o] # 0
      BY <2>1, LaterMaps, MapsCount DEF MapLabels
    <2>5. ok[t] => data[o]
      BY <1>3, <1>5, <2>1 DEF FlagsTell
    <2>6. \A u \in Threads : o \in good'[u] => data[o]
      BY <1>2, <1>3, <1>5, <2>5 DEF FlagsTell
    <2> QED
      BY <1>2, <1>3, <1>5, <2>3, <2>4, <2>5, <2>6 DEF FlagsTell, Loading
  <1> QED
    BY <1>4, <1>5

(* MapWait keeps what the flag RESOURCE_MAPPED tells.                        *)
LEMMA MapWaitFlagged ==
    ASSUME Typed, Shaped, Working, MapCounts, Flagged, NEW t \in Threads,
           NEW o \in Objects, MapWait(t, o)
    PROVE  Flagged'
  <1> SUFFICES ASSUME NEW p \in Objects \ overlapped' PROVE FlagsTell(p)'
    BY DEF Flagged
  <1>1. Takes(t, "wait", o, {<<"check", o>>})
    BY MapWaitTakes
  <1>2. UNCHANGED <<flags, mapCount, data, ok, good, overlapped>> /\ "mapped" \in flags[o]
    BY DEF MapWait, object, client
  <1>3. p \in Objects \ overlapped /\ FlagsTell(p)
    BY <1>2 DEF Flagged
  <1>4. CASE p # o
    <2>1. \A u \in Threads : \A k \in FlagLabels : Has(u, k, p)' <=> Has(u, k, p)
      BY <1>1, <1>4 DEF Takes, Puts
    <2>2. \A u \in Threads : Has(u, "loaded", p) => ok'[u] = ok[u]
      BY <1>1, <1>2, <1>4 DEF Takes, Beside, MapLabels
    <2> QED
      BY <1>2, <1>3, <1>4, <2>1, <2>2, TellsSame
  <1>5. CASE p = o
    <2>1. \A u \in Threads : /\ (Has(u, "load", o)' <=> Has(u, "load", o))
                                /\ (Has(u, "loaded", o)' <=> Has(u, "loaded", o))
                             /\ (Has(u, "unflag", o)' <=> Has(u, "unflag", o))
      BY <1>1 DEF Takes, Puts
    <2> QED
      BY <1>2, <1>3, <1>5, <2>1 DEF FlagsTell, Loading
  <1> QED
    BY <1>4, <1>5

(* MapCheck keeps what the flag RESOURCE_MAPPED tells.                       *)
LEMMA MapCheckFlagged ==
    ASSUME Typed, Shaped, Working, MapCounts, Flagged, NEW t \in Threads,
           NEW o \in Objects, MapCheck(t, o)
    PROVE  Flagged'
  <1> SUFFICES ASSUME NEW p \in Objects \ overlapped' PROVE FlagsTell(p)'
    BY DEF Flagged
  <1>1. Takes(t, "check", o, {})
    BY MapCheckTakes
  <1>2. /\ UNCHANGED <<flags, mapCount, data, overlapped>>
        /\ \A u \in Threads : u # t => ok'[u] = ok[u]
        /\ \A u \in Threads, q \in Objects :
              q \in good'[u] => q \in good[u] \/ (u = t /\ q = o /\ "invalid" \notin flags[o])
    BY DEF MapCheck, MapReturns, object, Typed, TypeOK
  <1>3. p \in Objects \ overlapped /\ FlagsTell(p)
    BY <1>2 DEF Flagged
  <1>4. CASE p # o
    <2>1. \A u \in Threads : \A k \in FlagLabels : Has(u, k, p)' <=> Has(u, k, p)
      BY <1>1, <1>4 DEF Takes, Puts
    <2>2. \A u \in Threads : Has(u, "loaded", p) => ok'[u] = ok[u]
      BY <1>1, <1>2, <1>4 DEF Takes, Beside, MapLabels
    <2> QED
      BY <1>2, <1>3, <1>4, <2>1, <2>2, TellsSame
  <1>5. CASE p = o
    <2>1. Has(t, "check", o) /\ ~Has(t, "loaded", o)
      BY <1>1 DEF Takes, Beside, MapLabels
    <2>2. \A u \in Threads : /\ (Has(u, "load", o)' <=> Has(u, "load", o))
                                /\ (Has(u, "loaded", o)' <=> Has(u, "loaded", o))
                             /\ (Has(u, "unflag", o)' <=> Has(u, "unflag", o))
                                 /\ (Has(u, "check", o)' => Has(u, "check", o))
      BY <1>1 DEF Takes, Puts
    <2>3. mapCount[o] # 0 /\ "mapped" \in flags[o]
      BY <1>3, <1>5, <2>1, LaterMaps, MapsCount DEF MapLabels, FlagsTell
    <2>4. \A u \in Threads : o \in good'[u] => data[o]
      BY <1>2, <1>3, <1>5, <2>3 DEF FlagsTell
    <2>5. \A u \in Threads : Has(u, "loaded", o)' => Has(u, "loaded", o) /\ ok'[u] = ok[u]
      BY <1>2, <2>1, <2>2
    <2> QED
      BY <1>2, <1>3, <1>5, <2>2, <2>3, <2>4, <2>5 DEF FlagsTell, Loading
  <1> QED
    BY <1>4, <1>5

(* Upload keeps what the flag RESOURCE_MAPPED tells.                         *)
LEMMA UploadFlagged ==
    ASSUME Typed, Shaped, Working, MapCounts, Flagged, NEW t \in Threads,
           NEW o \in Objects, Upload(t, o)
    PROVE  Flagged'
  <1> SUFFICES ASSUME NEW p \in Objects \ overlapped' PROVE FlagsTell(p)'
    BY DEF Flagged
  <1>1. Takes(t, "upload", o, {})
    BY UploadTakes
  <1>2. /\ UNCHANGED <<mapCount, ok, good, overlapped>>
        /\ \A q \in Objects : q # o => data'[q] = data[q]
        /\ mapCount[o] # 0 => data'[o] = data[o]
        /\ \A q \in Objects : \A f \in {"mapped", "invalid"} : f \in flags'[q] <=> f \in flags[q]
    <2>1. UNCHANGED <<mapCount, ok, good, overlapped>>
      BY DEF Upload, client
    <2>2. CASE ok[t]
      <3>1. Clear(o, {"modified"}) /\ data' = [data EXCEPT ![o] = @ /\ mapCount[o] # 0]
        BY <2>2 DEF Upload
      <3>2. \A q \in Objects : \A f \in {"mapped", "invalid"} : f \in flags'[q] <=> f \in flags[q]
        BY <3>1 DEF Clear, Typed
      <3>3. data'[o] = (data[o] /\ mapCount[o] # 0) /\ \A q \in Objects : q # o
            => data'[q] = data[q]
        BY <3>1 DEF Typed, TypeOK
      <3>4. data[o] \in BOOLEAN
        BY DEF Typed, TypeOK
      <3> QED
        BY <2>1, <3>2, <3>3, <3>4
    <2>3. CASE ~ok[t]
      BY <2>1, <2>3 DEF Upload
    <2> QED
      BY <2>2, <2>3
  <1>3. p \in Objects \ overlapped /\ FlagsTell(p)
    BY <1>2 DEF Flagged
  <1>4. CASE p # o
    <2>1. \A u \in Threads : \A k \in FlagLabels : Has(u, k, p)' <=> Has(u, k, p)
      BY <1>1, <1>4 DEF Takes, Puts
    <2>2. \A u \in Threads : Has(u, "loaded", p) => ok'[u] = ok[u]
      BY <1>1, <1>2, <1>4 DEF Takes, Beside, MapLabels
    <2> QED
      BY <1>2, <1>3, <1>4, <2>1, <2>2, TellsSame
  <1>5. CASE p = o
    <2>1. \A u \in Threads : \A k \in FlagLabels : Has(u, k, o)' <=> Has(u, k, o)
      BY <1>1 DEF Takes, Puts, FlagLabels
    <2>2. CASE mapCount[o] # 0
      BY <1>2, <1>3, <1>5, <2>1, <2>2, TellsSame
    <2>3. CASE mapCount[o] = 0
      <3>1. \A u \in Threads : ~Maps(u, o)
        BY <2>3, MapsCount
      <3>2. \A u \in Threads : ~Has(u, "load", o) /\ ~Has(u, "loaded", o) /\ ~Has(u, "check", o)
        BY <3>1, LaterMaps DEF MapLabels
      <3>3. \A u \in Threads : o \notin good[u]
        BY <3>1 DEF Maps, Working, MapLabels
      <3>4. \A u \in Threads : /\ ~Has(u, "load", o)' /\ ~Has(u, "loaded", o)'
                                  /\ ~Has(u, "check", o)'
                               /\ (Has(u, "unflag", o)' <=> Has(u, "unflag", o))
        BY <2>1, <3>2 DEF FlagLabels
      <3> QED
        BY <1>2, <1>3, <1>5, <2>3, <3>3, <3>4 DEF FlagsTell, Loading
    <2> QED
      BY <2>2, <2>3
  <1> QED
    BY <1>4, <1>5

(* DropData keeps what the flag RESOURCE_MAPPED tells.                       *)
LEMMA DropDataFlagged ==
    ASSUME Typed, Shaped, Working, MapCounts, Flagged, NEW t \in Threads,
           NEW o \in Objects, DropData(t, o)
    PROVE  Flagged'
  <1> SUFFICES ASSUME NEW p \in Objects \ overlapped' PROVE FlagsTell(p)'
    BY DEF Flagged
  <1>1. Takes(t, "drop", o, {})
    BY DropDataTakes
  <1>2. /\ UNCHANGED <<mapCount, ok, good, overlapped>>
        /\ \A q \in Objects : q # o => data'[q] = data[q]
        /\ mapCount[o] # 0 => data'[o] = data[o]
        /\ \A q \in Objects : \A f \in {"mapped", "invalid"} : f \in flags'[q] <=> f \in flags[q]
    BY DEF DropData, client, Typed, TypeOK
  <1>3. p \in Objects \ overlapped /\ FlagsTell(p)
    BY <1>2 DEF Flagged
  <1>4. CASE p # o
    <2>1. \A u \in Threads : \A k \in FlagLabels : Has(u, k, p)' <=> Has(u, k, p)
      BY <1>1, <1>4 DEF Takes, Puts
    <2>2. \A u \in Threads : Has(u, "loaded", p) => ok'[u] = ok[u]
      BY <1>1, <1>2, <1>4 DEF Takes, Beside, MapLabels
    <2> QED
      BY <1>2, <1>3, <1>4, <2>1, <2>2, TellsSame
  <1>5. CASE p = o
    <2>1. \A u \in Threads : \A k \in FlagLabels : Has(u, k, o)' <=> Has(u, k, o)
      BY <1>1 DEF Takes, Puts, FlagLabels
    <2>2. CASE mapCount[o] # 0
      BY <1>2, <1>3, <1>5, <2>1, <2>2, TellsSame
    <2>3. CASE mapCount[o] = 0
      <3>1. \A u \in Threads : ~Maps(u, o)
        BY <2>3, MapsCount
      <3>2. \A u \in Threads : ~Has(u, "load", o) /\ ~Has(u, "loaded", o) /\ ~Has(u, "check", o)
        BY <3>1, LaterMaps DEF MapLabels
      <3>3. \A u \in Threads : o \notin good[u]
        BY <3>1 DEF Maps, Working, MapLabels
      <3>4. \A u \in Threads : /\ ~Has(u, "load", o)' /\ ~Has(u, "loaded", o)'
                                  /\ ~Has(u, "check", o)'
                               /\ (Has(u, "unflag", o)' <=> Has(u, "unflag", o))
        BY <2>1, <3>2 DEF FlagLabels
      <3> QED
        BY <1>2, <1>3, <1>5, <2>3, <3>3, <3>4 DEF FlagsTell, Loading
    <2> QED
      BY <2>2, <2>3
  <1> QED
    BY <1>4, <1>5

(* UnMapCall keeps what the flag RESOURCE_MAPPED tells.                      *)
LEMMA UnMapCallFlagged ==
    ASSUME Typed, Shaped, Working, MapCounts, Flagged, NEW t \in Threads,
           NEW o \in Objects, UnMapCall(t, o)
    PROVE  Flagged'
  <1> SUFFICES ASSUME NEW p \in Objects \ overlapped' PROVE FlagsTell(p)'
    BY DEF Flagged
  <1>1. Puts(t, "none", NoObject, {<<"unmap", o>>})
    BY CallPutsOne DEF UnMapCall
  <1>2. /\ UNCHANGED <<flags, mapCount, data, ok, overlapped>>
        /\ \A u \in Threads, q \in Objects : q \in good'[u] => q \in good[u]
    BY DEF UnMapCall, object, Typed
  <1>3. p \in Objects \ overlapped /\ FlagsTell(p)
    BY <1>2 DEF Flagged
  <1>4. \A u \in Threads : \A k \in FlagLabels : Has(u, k, p)' <=> Has(u, k, p)
    BY <1>1, FlagLabelsAre DEF Puts, FlagLabels
  <1> QED
    BY <1>2, <1>3, <1>4, TellsSame

(* UnMapCount keeps what the flag RESOURCE_MAPPED tells.                     *)
LEMMA UnMapCountFlagged ==
    ASSUME Typed, Shaped, Working, MapCounts, Flagged, NEW t \in Threads,
           NEW o \in Objects, UnMapCount(t, o)
    PROVE  Flagged'
  <1> SUFFICES ASSUME NEW p \in Objects \ overlapped' PROVE FlagsTell(p)'
    BY DEF Flagged
  <1>1. Takes(t, "unmap", o, IF mapCount[o] = 1 THEN {<<"unflag", o>>, <<"drop", o>>} ELSE {})
    BY UnMapCountTakes
  <1>2. /\ UNCHANGED <<flags, data, ok, good, overlapped>>
        /\ mapCount'[o] = mapCount[o] - 1 /\ \A q \in Objects : q # o => mapCount'[q] = mapCount[q]
    BY DEF UnMapCount, client, Add, Typed, TypeOK
  <1>3. p \in Objects \ overlapped /\ FlagsTell(p)
    BY <1>2 DEF Flagged
  <1>4. CASE p # o
    <2>1. \A u \in Threads : \A k \in FlagLabels : Has(u, k, p)' <=> Has(u, k, p)
      <3>1. CASE mapCount[o] = 1
        <4>1. Takes(t, "unmap", o, {<<"unflag", o>>, <<"drop", o>>})
          BY <1>1, <3>1
        <4> QED
          BY <4>1, <1>4 DEF Takes, Puts
      <3>2. CASE mapCount[o] # 1
        <4>1. Takes(t, "unmap", o, {})
          BY <1>1, <3>2
        <4> QED
          BY <4>1, <1>4 DEF Takes, Puts
      <3> QED
        BY <3>1, <3>2
    <2> QED
      BY <1>2, <1>3, <1>4, <2>1, TellsSame
  <1>5. CASE p = o
    <2>1. Has(t, "unmap", o) /\ ~Has(t, "map", o)
      BY <1>1 DEF Takes, Beside, MapLabels, LetGoLabels
    <2>2. mapCount[o] \in Nat /\ mapCount[o] >= 1
      BY <2>1, MapsCount DEF Maps
    <2>3. \A u \in Threads : ~Has(u, "unflag", o)
      BY <1>3, <1>5, <2>2 DEF FlagsTell
    <2>4. CASE mapCount[o] = 1
      <3>1. Takes(t, "unmap", o, {<<"unflag", o>>, <<"drop", o>>})
        BY <1>1, <2>4
      <3>2. \A u \in Threads : /\ (Has(u, "load", o)' <=> Has(u, "load", o))
                                  /\ (Has(u, "loaded", o)' <=> Has(u, "loaded", o))
                               /\ (Has(u, "check", o)' <=> Has(u, "check", o))
                                   /\ (Has(u, "unflag", o)' <=> u = t)
        BY <2>3, <3>1 DEF Takes, Puts
      <3>3. mapCount'[o] = 0
        BY <1>2, <2>4
      <3> QED
        BY <1>2, <1>3, <1>5, <3>2, <3>3 DEF FlagsTell, Loading
    <2>5. CASE mapCount[o] # 1
      <3>1. Takes(t, "unmap", o, {})
        BY <1>1, <2>5
      <3>2. \A u \in Threads : /\ (Has(u, "load", o)' <=> Has(u, "load", o))
                                  /\ (Has(u, "loaded", o)' <=> Has(u, "loaded", o))
                               /\ (Has(u, "check", o)' <=> Has(u, "check", o))
                                   /\ ~Has(u, "unflag", o)'
        BY <2>3, <3>1 DEF Takes, Puts
      <3>3. mapCount'[o] # 0 /\ mapCount[o] # 0
        BY <1>2, <2>2, <2>5
      <3> QED
        BY <1>2, <1>3, <1>5, <3>2, <3>3 DEF FlagsTell, Loading
    <2> QED
      BY <2>4, <2>5
  <1> QED
    BY <1>4, <1>5

(* UnMapFlag keeps what the flag RESOURCE_MAPPED tells.                      *)
LEMMA UnMapFlagFlagged ==
    ASSUME Typed, Shaped, Working, MapCounts, Flagged, NEW t \in Threads,
           NEW o \in Objects, UnMapFlag(t, o)
    PROVE  Flagged'
  <1> SUFFICES ASSUME NEW p \in Objects \ overlapped' PROVE FlagsTell(p)'
    BY DEF Flagged
  <1>1. Takes(t, "unflag", o, {})
    BY UnMapFlagTakes
  <1>2. /\ UNCHANGED <<mapCount, data, ok, good, overlapped>>
        /\ \A q \in Objects : q # o => flags'[q] = flags[q]
        /\ "mapped" \notin flags'[o]
    BY DEF UnMapFlag, Clear, client, Typed
  <1>3. p \in Objects \ overlapped /\ FlagsTell(p)
    BY <1>2 DEF Flagged
  <1>4. CASE p # o
    <2>1. \A u \in Threads : \A k \in FlagLabels : Has(u, k, p)' <=> Has(u, k, p)
      BY <1>1, <1>4 DEF Takes, Puts
    <2>2. \A u \in Threads : Has(u, "loaded", p) => ok'[u] = ok[u]
      BY <1>1, <1>2, <1>4 DEF Takes, Beside, MapLabels
    <2> QED
      BY <1>2, <1>3, <1>4, <2>1, <2>2, TellsSame
  <1>5. CASE p = o
    <2>1. Has(t, "unflag", o)
      BY <1>1 DEF Takes
    <2>2. mapCount[o] = 0
      BY <1>3, <1>5, <2>1 DEF FlagsTell
    <2>3. \A u \in Threads : ~Maps(u, o)
      BY <2>2, MapsCount
    <2>4. \A u \in Threads : ~Has(u, "load", o) /\ ~Has(u, "loaded", o) /\ ~Has(u, "check", o)
      BY <2>3, LaterMaps DEF MapLabels
    <2>5. \A u \in Threads : o \notin good[u]
      BY <2>3 DEF Maps, Working, MapLabels
    <2>6. \A u \in Threads : ~Has(u, "load", o)' /\ ~Has(u, "loaded", o)' /\ ~Has(u, "check", o)'
      BY <1>1, <2>4 DEF Takes, Puts
    <2> QED
      BY <1>2, <1>5, <2>2, <2>5, <2>6 DEF FlagsTell, Loading
  <1> QED
    BY <1>4, <1>5

(* The flag RESOURCE_MAPPED of an object tells whether its data is there, as *)
(* long as no Map has come between the two halves of an UnMap.               *)
LEMMA FlaggedKept ==
    ASSUME Typed, Shaped, Working, Unborns, Fresh, MapCounts, Flagged, NEW t \in Threads, Moves(t)
    PROVE  Flagged'
  <1>1. ASSUME SameMarks, \A u \in Threads : \A p : \A k \in FlagLabels : Has(u, k, p)'
               <=> Has(u, k, p)
        PROVE  Flagged'
    <2> SUFFICES ASSUME NEW p \in Objects \ overlapped' PROVE FlagsTell(p)'
      BY DEF Flagged
    <2>1. FlagsTell(p)
      BY <1>1 DEF SameMarks, Flagged
    <2> QED
      BY <1>1, <2>1, TellsSame DEF SameMarks
  <1>2. CASE Quiet
    BY <1>1, <1>2, FlagLabelsAre DEF Quiet, SameWork
  <1>3. ASSUME NEW e \in Objects, NEW K \in SUBSET {"map", "upload", "unmap"}, Obtains(t, e, K)
        PROVE  Flagged'
    <2>1. \A u \in Threads : \A p : \A k \in FlagLabels : Has(u, k, p)' <=> Has(u, k, p)
      <3>1. \A k \in FlagLabels : k \in WorkLabels /\ k \notin K
        BY FlagLabelsAre
      <3> QED
        BY <1>3, <3>1 DEF Obtains
    <2> QED
      BY <1>1, <1>3, <2>1 DEF Obtains
  <1>4. ASSUME NEW o \in Objects, Works(t, o) PROVE Flagged'
    BY <1>4, MapCountFlagged, LoadFlagged, MapLoadedFlagged, MapWaitFlagged,
       MapCheckFlagged, UploadFlagged,
       UnMapCallFlagged, UnMapCountFlagged, UnMapFlagFlagged, DropDataFlagged DEF Works
  <1> QED
    BY <1>2, <1>3, <1>4, MovesAre

-----------------------------------------------------------------------------
(* The flag RESOURCE_MODIFIED                                                *)

(* The steps the invariant of an upload speaks of.                           *)
UploadLabels == MapLabels \cup {"upload"}

(* They are among the labels of work.                                        *)
LEMMA UploadLabelsAre == UploadLabels \subseteq WorkLabels
  BY DEF UploadLabels, WorkLabels

(* Nothing that UploadsTell speaks of changes.                               *)
LEMMA UploadsSame ==
    ASSUME NEW p \in Objects, UploadsTell(p),
           \A f \in {"mapped", "invalid", "modified"} : f \in flags'[p] <=> f \in flags[p],
           \A u \in Threads : \A k \in UploadLabels : Has(u, k, p)' <=> Has(u, k, p),
           \A u \in Threads : Has(u, "loaded", p) \/ Has(u, "upload", p) => ok'[u] = ok[u]
    PROVE  UploadsTell(p)'
  <1>1. /\ \A u \in Threads : \A k \in MapLabels : Has(u, k, p)' <=> Has(u, k, p)
        /\ \A u \in Threads : /\ Has(u, "upload", p)' <=> Has(u, "upload", p)
                              /\ Has(u, "loaded", p)' <=> Has(u, "loaded", p)
                              /\ Has(u, "check", p)' <=> Has(u, "check", p)
    BY DEF UploadLabels, MapLabels
  <1>2. \A u \in Threads : (\A k \in MapLabels : ~Has(u, k, p)')
        <=> (\A k \in MapLabels : ~Has(u, k, p))
    BY <1>1
  <1> QED
    BY <1>1, <1>2 DEF UploadsTell

(* MapCount keeps what RESOURCE_MODIFIED tells the uploader.                 *)
LEMMA MapCountUploads ==
    ASSUME Typed, Shaped, Working, Modified, NEW t \in Threads, NEW o \in Objects, MapCount(t, o)
    PROVE  Modified'
  <1> SUFFICES ASSUME NEW p \in Objects PROVE UploadsTell(p)'
    BY DEF Modified
  <1>1. Takes(t, "map", o, {<<IF mapCount[o] = 0 THEN "load" ELSE "wait", o>>})
    BY MapCountTakes
  <1>2. UNCHANGED <<flags, ok>>
    BY DEF MapCount, client
  <1>3. UploadsTell(p)
    BY DEF Modified
  <1>4. CASE p # o
    <2>1. \A u \in Threads : \A k \in UploadLabels : Has(u, k, p)' <=> Has(u, k, p)
      BY <1>1, <1>4 DEF Takes, Puts
    <2>2. \A u \in Threads : Has(u, "loaded", p) \/ Has(u, "upload", p) => ok'[u] = ok[u]
      BY <1>1, <1>2, <1>4 DEF Takes, Beside, MapLabels
    <2> QED
      BY <1>2, <1>3, <1>4, <2>1, <2>2, UploadsSame
  <1>5. CASE p = o
    <2>1. Has(t, "map", o) /\ \A k \in MapLabels : Has(t, k, o) => k = "map"
      BY <1>1 DEF Takes, Beside, MapLabels
    <2>2. \A u \in Threads : /\ (Has(u, "upload", o)' <=> Has(u, "upload", o))
                             /\ (Has(u, "loaded", o)' <=> Has(u, "loaded", o))
                             /\ (Has(u, "check", o)' <=> Has(u, "check", o))
      BY <1>1 DEF Takes, Puts
    <2>3. \A u \in Threads : u # t => \A k \in MapLabels : Has(u, k, o)' <=> Has(u, k, o)
      BY <1>1 DEF Takes, Puts
    <2>4. \E k \in MapLabels : Has(t, k, o)'
      <3>1. Has(t, "load", o)' \/ Has(t, "wait", o)'
        <4>1. CASE mapCount[o] = 0
          <5>1. Takes(t, "map", o, {<<"load", o>>})
            BY <1>1, <4>1
          <5> QED
            BY <5>1 DEF Takes, Puts
        <4>2. CASE mapCount[o] # 0
          <5>1. Takes(t, "map", o, {<<"wait", o>>})
            BY <1>1, <4>2
          <5> QED
            BY <5>1 DEF Takes, Puts
        <4> QED
          BY <4>1, <4>2
      <3> QED
        BY <3>1 DEF MapLabels
    <2>5. \A u \in Threads : (\A k \in MapLabels : ~Has(u, k, o)')
          => (\A k \in MapLabels : ~Has(u, k, o))
      BY <2>3, <2>4
    <2> QED
      BY <1>2, <1>3, <1>5, <2>2, <2>5 DEF UploadsTell
  <1> QED
    BY <1>4, <1>5

(* Load keeps what RESOURCE_MODIFIED tells the uploader.                     *)
LEMMA LoadUploads ==
    ASSUME Typed, Shaped, Working, Modified, NEW t \in Threads, NEW o \in Objects, Load(t, o)
    PROVE  Modified'
  <1> SUFFICES ASSUME NEW p \in Objects PROVE UploadsTell(p)'
    BY DEF Modified
  <1>1. Takes(t, "load", o, {<<"loaded", o>>})
    BY LoadTakes
  <1>2. /\ \A u \in Threads : u # t => ok'[u] = ok[u]
        /\ \A q \in Objects : q # o => flags'[q] = flags[q]
        /\ \A f \in {"mapped", "invalid"} : f \in flags'[o] <=> f \in flags[o]
        /\ (~ok'[t] /\ flags'[o] = flags[o]) \/ "modified" \in flags'[o]
    BY DEF Load, Raise, Typed, TypeOK
  <1>3. UploadsTell(p)
    BY DEF Modified
  <1>4. CASE p # o
    <2>1. \A u \in Threads : \A k \in UploadLabels : Has(u, k, p)' <=> Has(u, k, p)
      BY <1>1, <1>4 DEF Takes, Puts
    <2>2. \A u \in Threads : Has(u, "loaded", p) \/ Has(u, "upload", p) => ok'[u] = ok[u]
      BY <1>1, <1>2, <1>4 DEF Takes, Beside, MapLabels
    <2> QED
      BY <1>2, <1>3, <1>4, <2>1, <2>2, UploadsSame
  <1>5. CASE p = o
    <2>1. \A u \in Threads : /\ (Has(u, "upload", o)' <=> Has(u, "upload", o))
                             /\ (Has(u, "loaded", o)' <=> Has(u, "loaded", o) \/ u = t)
                             /\ (Has(u, "check", o)' <=> Has(u, "check", o))
      BY <1>1 DEF Takes, Puts
    <2>2. CASE "modified" \in flags'[o]
      BY <1>3, <1>5, <2>1, <2>2 DEF UploadsTell
    <2>3. CASE ~ok'[t] /\ flags'[o] = flags[o]
      <3>1. Has(t, "loaded", o)'
        BY <2>1
      <3>2. \A u \in Threads : u # t => \A k \in MapLabels : Has(u, k, o)' <=> Has(u, k, o)
        BY <1>1 DEF Takes, Puts
      <3>3. \A u \in Threads : (\A k \in MapLabels : ~Has(u, k, o)') /\ ok'[u] =>
                               (\A k \in MapLabels : ~Has(u, k, o)) /\ ok[u]
        BY <1>2, <2>3, <3>2
      <3> QED
        BY <1>2, <1>3, <1>5, <2>1, <2>3, <3>3 DEF UploadsTell
    <2> QED
      BY <1>2, <2>2, <2>3
  <1> QED
    BY <1>4, <1>5

(* MapLoaded keeps what RESOURCE_MODIFIED tells the uploader.                *)
LEMMA MapLoadedUploads ==
    ASSUME Typed, Shaped, Working, Modified, NEW t \in Threads, NEW o \in Objects, MapLoaded(t, o)
    PROVE  Modified'
  <1> SUFFICES ASSUME NEW p \in Objects PROVE UploadsTell(p)'
    BY DEF Modified
  <1>1. Takes(t, "loaded", o, {})
    BY MapLoadedTakes
  <1>2. /\ UNCHANGED ok /\ \A q \in Objects : q # o => flags'[q] = flags[q]
        /\ \A f \in {"modified", "invalid"} : f \in flags[o] => f \in flags'[o]
        /\ "modified" \in flags'[o] => "modified" \in flags[o]
        /\ ~ok[t] => "invalid" \in flags'[o]
    <2>1. ok' = ok
      BY DEF MapLoaded, MapReturns, Typed, TypeOK
    <2> QED
      BY <2>1 DEF MapLoaded, Raise, Typed
  <1>3. UploadsTell(p)
    BY DEF Modified
  <1>4. CASE p # o
    <2>1. \A u \in Threads : \A k \in UploadLabels : Has(u, k, p)' <=> Has(u, k, p)
      BY <1>1, <1>4 DEF Takes, Puts
    <2>2. \A u \in Threads : Has(u, "loaded", p) \/ Has(u, "upload", p) => ok'[u] = ok[u]
      BY <1>1, <1>2, <1>4 DEF Takes, Beside, MapLabels
    <2> QED
      BY <1>2, <1>3, <1>4, <2>1, <2>2, UploadsSame
  <1>5. CASE p = o
    <2>1. Has(t, "loaded", o) /\ \A k \in MapLabels : Has(t, k, o) => k = "loaded"
      BY <1>1 DEF Takes, Beside, MapLabels
    <2>2. \A u \in Threads : /\ (Has(u, "upload", o)' <=> Has(u, "upload", o))
                             /\ (Has(u, "loaded", o)' <=> Has(u, "loaded", o) /\ u # t)
                             /\ (Has(u, "check", o)' <=> Has(u, "check", o))
      BY <1>1 DEF Takes, Puts
    <2>3. \A u \in Threads : u # t => \A k \in MapLabels : Has(u, k, o)' <=> Has(u, k, o)
      BY <1>1 DEF Takes, Puts
    <2>4. ASSUME NEW u \in Threads, Has(u, "upload", o)
          PROVE "invalid" \notin flags'[o] => "modified" \in flags'[o]
      BY <1>2, <1>3, <1>5, <2>1, <2>4 DEF UploadsTell
    <2>5. ASSUME NEW u \in Threads, Has(u, "upload", o), \A k \in MapLabels : ~Has(u, k, o)', ok[u]
          PROVE  "modified" \in flags'[o]
      <3>1. CASE u = t
        BY <1>2, <1>3, <1>5, <2>1, <2>5, <3>1 DEF UploadsTell
      <3>2. CASE u # t
        BY <1>2, <1>3, <1>5, <2>3, <2>5, <3>2 DEF UploadsTell
      <3> QED
        BY <3>1, <3>2
    <2> QED
      BY <1>2, <1>3, <1>5, <2>2, <2>4, <2>5 DEF UploadsTell
  <1> QED
    BY <1>4, <1>5

(* MapWait keeps what RESOURCE_MODIFIED tells the uploader.                  *)
LEMMA MapWaitUploads ==
    ASSUME Typed, Shaped, Working, Modified, NEW t \in Threads, NEW o \in Objects, MapWait(t, o)
    PROVE  Modified'
  <1> SUFFICES ASSUME NEW p \in Objects PROVE UploadsTell(p)'
    BY DEF Modified
  <1>1. Takes(t, "wait", o, {<<"check", o>>})
    BY MapWaitTakes
  <1>2. UNCHANGED <<flags, ok>> /\ "mapped" \in flags[o]
    BY DEF MapWait, object, client
  <1>3. UploadsTell(p)
    BY DEF Modified
  <1>4. CASE p # o
    <2>1. \A u \in Threads : \A k \in UploadLabels : Has(u, k, p)' <=> Has(u, k, p)
      BY <1>1, <1>4 DEF Takes, Puts
    <2>2. \A u \in Threads : Has(u, "loaded", p) \/ Has(u, "upload", p) => ok'[u] = ok[u]
      BY <1>1, <1>2, <1>4 DEF Takes, Beside, MapLabels
    <2> QED
      BY <1>2, <1>3, <1>4, <2>1, <2>2, UploadsSame
  <1>5. CASE p = o
    <2>1. \A u \in Threads : /\ (Has(u, "upload", o)' <=> Has(u, "upload", o))
                             /\ (Has(u, "loaded", o)' <=> Has(u, "loaded", o))
      BY <1>1 DEF Takes, Puts
    <2>2. \A u \in Threads : u # t => \A k \in MapLabels : Has(u, k, o)' <=> Has(u, k, o)
      BY <1>1 DEF Takes, Puts
    <2>3. Has(t, "check", o)' /\ "check" \in MapLabels
      BY <1>1 DEF Takes, Puts, MapLabels
    <2>4. \A u \in Threads : (\A k \in MapLabels : ~Has(u, k, o)')
          => (\A k \in MapLabels : ~Has(u, k, o))
      BY <2>2, <2>3
    <2> QED
      BY <1>2, <1>3, <1>5, <2>1, <2>4 DEF UploadsTell
  <1> QED
    BY <1>4, <1>5

(* MapCheck keeps what RESOURCE_MODIFIED tells the uploader.                 *)
LEMMA MapCheckUploads ==
    ASSUME Typed, Shaped, Working, Modified, NEW t \in Threads, NEW o \in Objects, MapCheck(t, o)
    PROVE  Modified'
  <1> SUFFICES ASSUME NEW p \in Objects PROVE UploadsTell(p)'
    BY DEF Modified
  <1>1. Takes(t, "check", o, {})
    BY MapCheckTakes
  <1>2. /\ UNCHANGED flags /\ \A u \in Threads : u # t => ok'[u] = ok[u]
        /\ ok'[t] => "invalid" \notin flags[o]
    BY DEF MapCheck, MapReturns, object, Typed, TypeOK
  <1>3. UploadsTell(p)
    BY DEF Modified
  <1>4. CASE p # o
    <2>1. \A u \in Threads : \A k \in UploadLabels : Has(u, k, p)' <=> Has(u, k, p)
      BY <1>1, <1>4 DEF Takes, Puts
    <2>2. \A u \in Threads : Has(u, "loaded", p) \/ Has(u, "upload", p) => ok'[u] = ok[u]
      BY <1>1, <1>2, <1>4 DEF Takes, Beside, MapLabels
    <2> QED
      BY <1>2, <1>3, <1>4, <2>1, <2>2, UploadsSame
  <1>5. CASE p = o
    <2>1. Has(t, "check", o) /\ ~Has(t, "loaded", o)
      BY <1>1 DEF Takes, Beside, MapLabels
    <2>2. \A u \in Threads : /\ (Has(u, "upload", o)' <=> Has(u, "upload", o))
                             /\ (Has(u, "loaded", o)' <=> Has(u, "loaded", o))
                             /\ (Has(u, "check", o)' => Has(u, "check", o))
      BY <1>1 DEF Takes, Puts
    <2>3. \A u \in Threads : u # t => \A k \in MapLabels : Has(u, k, o)' <=> Has(u, k, o)
      BY <1>1 DEF Takes, Puts
    <2>4. ASSUME NEW u \in Threads, Has(u, "upload", o), \A k \in MapLabels : ~Has(u, k, o)', ok'[u]
          PROVE  "modified" \in flags[o]
      <3>1. CASE u = t
        BY <1>2, <1>3, <1>5, <2>1, <2>4, <3>1 DEF UploadsTell
      <3>2. CASE u # t
        BY <1>2, <1>3, <1>5, <2>3, <2>4, <3>2 DEF UploadsTell
      <3> QED
        BY <3>1, <3>2
    <2>5. \A u \in Threads : Has(u, "loaded", o)' => ok'[u] = ok[u]
      BY <1>2, <2>1, <2>2
    <2> QED
      BY <1>2, <1>3, <1>5, <2>2, <2>4, <2>5 DEF UploadsTell
  <1> QED
    BY <1>4, <1>5

(* Upload keeps what RESOURCE_MODIFIED tells the uploader.                   *)
LEMMA UploadUploads ==
    ASSUME Typed, Shaped, Working, Modified, NEW t \in Threads, NEW o \in Objects, Upload(t, o)
    PROVE  Modified'
  <1> SUFFICES ASSUME NEW p \in Objects PROVE UploadsTell(p)'
    BY DEF Modified
  <1>1. Takes(t, "upload", o, {})
    BY UploadTakes
  <1>2. UNCHANGED ok /\ \A q \in Objects : q # o => flags'[q] = flags[q]
    BY DEF Upload, Clear, client, Typed
  <1>3. UploadsTell(p)
    BY DEF Modified
  <1>4. CASE p # o
    <2>1. \A u \in Threads : \A k \in UploadLabels : Has(u, k, p)' <=> Has(u, k, p)
      BY <1>1, <1>4 DEF Takes, Puts
    <2>2. \A u \in Threads : Has(u, "loaded", p) \/ Has(u, "upload", p) => ok'[u] = ok[u]
      BY <1>1, <1>2, <1>4 DEF Takes, Beside, MapLabels
    <2> QED
      BY <1>2, <1>3, <1>4, <2>1, <2>2, UploadsSame
  <1>5. CASE p = o
    <2>1. Has(t, "upload", o)
      BY <1>1 DEF Takes
    <2>2. \A u \in Threads : Has(u, "upload", o) => u = t
      BY <1>3, <1>5, <2>1 DEF UploadsTell
    <2>3. \A u \in Threads : ~Has(u, "upload", o)'
      BY <1>1, <2>2 DEF Takes, Puts
    <2> QED
      BY <1>5, <2>3 DEF UploadsTell
  <1> QED
    BY <1>4, <1>5

(* UnMapCall keeps what RESOURCE_MODIFIED tells the uploader.                *)
LEMMA UnMapCallUploads ==
    ASSUME Typed, Shaped, Working, Modified, NEW t \in Threads, NEW o \in Objects, UnMapCall(t, o)
    PROVE  Modified'
  <1> SUFFICES ASSUME NEW p \in Objects PROVE UploadsTell(p)'
    BY DEF Modified
  <1>1. Puts(t, "none", NoObject, {<<"unmap", o>>})
    BY CallPutsOne DEF UnMapCall
  <1>2. UNCHANGED <<flags, ok>>
    BY DEF UnMapCall, object
  <1>3. UploadsTell(p)
    BY DEF Modified
  <1>4. \A u \in Threads : \A k \in UploadLabels : Has(u, k, p)' <=> Has(u, k, p)
    BY <1>1 DEF Puts, UploadLabels, MapLabels
  <1> QED
    BY <1>2, <1>3, <1>4, UploadsSame

(* UnMapCount keeps what RESOURCE_MODIFIED tells the uploader.               *)
LEMMA UnMapCountUploads ==
    ASSUME Typed, Shaped, Working, Modified, NEW t \in Threads, NEW o \in Objects, UnMapCount(t, o)
    PROVE  Modified'
  <1> SUFFICES ASSUME NEW p \in Objects PROVE UploadsTell(p)'
    BY DEF Modified
  <1>1. \A u \in Threads : \A k \in UploadLabels : Has(u, k, p)' <=> Has(u, k, p)
    <2>1. CASE mapCount[o] = 1
      <3>1. Takes(t, "unmap", o, {<<"unflag", o>>, <<"drop", o>>})
        BY <2>1, UnMapCountTakes
      <3> QED
        BY <3>1 DEF Takes, Puts, UploadLabels, MapLabels
    <2>2. CASE mapCount[o] # 1
      <3>1. Takes(t, "unmap", o, {})
        BY <2>2, UnMapCountTakes
      <3> QED
        BY <3>1 DEF Takes, Puts, UploadLabels, MapLabels
    <2> QED
      BY <2>1, <2>2
  <1>2. UNCHANGED <<flags, ok>>
    BY DEF UnMapCount, client
  <1>3. UploadsTell(p)
    BY DEF Modified
  <1> QED
    BY <1>1, <1>2, <1>3, UploadsSame

(* DropData keeps what RESOURCE_MODIFIED tells the uploader.                 *)
LEMMA DropDataUploads ==
    ASSUME Typed, Shaped, Working, Modified, NEW t \in Threads, NEW o \in Objects, DropData(t, o)
    PROVE  Modified'
  <1> SUFFICES ASSUME NEW p \in Objects PROVE UploadsTell(p)'
    BY DEF Modified
  <1>1. \A u \in Threads : \A k \in UploadLabels : Has(u, k, p)' <=> Has(u, k, p)
    BY DropDataTakes DEF Takes, Puts, UploadLabels, MapLabels
  <1>2. UNCHANGED <<flags, ok>>
    BY DEF DropData, client
  <1>3. UploadsTell(p)
    BY DEF Modified
  <1> QED
    BY <1>1, <1>2, <1>3, UploadsSame

(* UnMapFlag keeps what RESOURCE_MODIFIED tells the uploader.                *)
LEMMA UnMapFlagUploads ==
    ASSUME Typed, Shaped, Working, Modified, NEW t \in Threads, NEW o \in Objects, UnMapFlag(t, o)
    PROVE  Modified'
  <1> SUFFICES ASSUME NEW p \in Objects PROVE UploadsTell(p)'
    BY DEF Modified
  <1>1. Takes(t, "unflag", o, {})
    BY UnMapFlagTakes
  <1>2. /\ UNCHANGED ok /\ \A q \in Objects : q # o => flags'[q] = flags[q]
        /\ "mapped" \notin flags'[o]
        /\ \A f \in {"invalid", "modified"} : f \in flags'[o] <=> f \in flags[o]
    BY DEF UnMapFlag, Clear, client, Typed
  <1>3. UploadsTell(p)
    BY DEF Modified
  <1>4. CASE p # o
    <2>1. \A u \in Threads : \A k \in UploadLabels : Has(u, k, p)' <=> Has(u, k, p)
      BY <1>1, <1>4 DEF Takes, Puts
    <2>2. \A u \in Threads : Has(u, "loaded", p) \/ Has(u, "upload", p) => ok'[u] = ok[u]
      BY <1>1, <1>2, <1>4 DEF Takes, Beside, MapLabels
    <2> QED
      BY <1>2, <1>3, <1>4, <2>1, <2>2, UploadsSame
  <1>5. CASE p = o
    <2>1. /\ \A u \in Threads : \A k \in MapLabels : Has(u, k, o)' <=> Has(u, k, o)
          /\ \A u \in Threads : /\ Has(u, "upload", o)' <=> Has(u, "upload", o)
                                /\ Has(u, "loaded", o)' <=> Has(u, "loaded", o)
                                /\ Has(u, "check", o)' <=> Has(u, "check", o)
      BY <1>1 DEF Takes, Puts, MapLabels
    <2>2. \A u \in Threads : (\A k \in MapLabels : ~Has(u, k, o)')
          <=> (\A k \in MapLabels : ~Has(u, k, o))
      BY <2>1
    <2> QED
      BY <1>2, <1>3, <1>5, <2>1, <2>2 DEF UploadsTell
  <1> QED
    BY <1>4, <1>5

(* What is to be uploaded, by the one thread that has made the object, is    *)
(* marked as modified by the load that went before.                          *)
LEMMA ModifiedKept ==
    ASSUME Typed, Shaped, Working, Unborns, Fresh, Modified, NEW t \in Threads, Moves(t)
    PROVE  Modified'
  <1>1. CASE Quiet
    <2> SUFFICES ASSUME NEW p \in Objects PROVE UploadsTell(p)'
      BY DEF Modified
    <2>1. UploadsTell(p)
      BY DEF Modified
    <2>2. \A u \in Threads : \A k \in UploadLabels : Has(u, k, p)' <=> Has(u, k, p)
      BY <1>1, UploadLabelsAre DEF Quiet, SameWork
    <2> QED
      BY <1>1, <2>1, <2>2, UploadsSame DEF Quiet, SameMarks
  <1>2. ASSUME NEW e \in Objects, NEW K \in SUBSET {"map", "upload", "unmap"}, Obtains(t, e, K)
        PROVE  Modified'
    <2> SUFFICES ASSUME NEW p \in Objects PROVE UploadsTell(p)'
      BY DEF Modified
    <2>1. UploadsTell(p) /\ UNCHANGED ok
      BY <1>2 DEF Modified, Obtains, SameMarks
    <2>2. \A f \in {"mapped", "invalid", "modified"} : f \in flags'[p] <=> f \in flags[p]
      BY <1>2 DEF Obtains, SameMarks
    <2>3. CASE p = e /\ "upload" \in K
      <3>1. "mapped" \notin flags[e] /\ \A u \in Threads : \A k \in WorkLabels : ~Has(u, k, e)
        BY <1>2, <2>3 DEF Obtains
      <3>2. \A u \in Threads : \A k \in WorkLabels : Has(u, k, e)' <=> u = t /\ k \in K
        BY <1>2, <3>1 DEF Obtains
      <3>3. "map" \in K /\ "loaded" \notin K /\ "check" \notin K
        BY <1>2, <2>3 DEF Obtains
      <3>4. \A u \in Threads : /\ Has(u, "upload", e)' <=> u = t
                               /\ Has(t, "map", e)' /\ ~Has(u, "loaded", e)' /\ ~Has(u, "check", e)'
        BY <2>3, <3>2, <3>3 DEF WorkLabels, MapLabels
      <3> QED
        BY <2>2, <2>3, <3>1, <3>4 DEF UploadsTell, MapLabels
    <2>4. CASE p = e /\ "upload" \notin K
      <3>1. \A k \in WorkLabels : ~Has(t, k, e)
        BY <1>2 DEF Obtains
      <3>2. \A u \in Threads : \A k \in WorkLabels : Has(u, k, e)' <=> Has(u, k, e)
            \/ (u = t /\ k \in K)
        BY <1>2 DEF Obtains
      <3>3. \A u \in Threads : /\ Has(u, "upload", e)' <=> Has(u, "upload", e)
                               /\ Has(u, "loaded", e)' <=> Has(u, "loaded", e)
                               /\ Has(u, "check", e)' <=> Has(u, "check", e)
        BY <2>4, <3>2 DEF WorkLabels, MapLabels
      <3>4. \A u \in Threads : Has(u, "upload", e) => u # t
        BY <3>1 DEF WorkLabels
      <3>5. \A u \in Threads : u # t => \A k \in MapLabels : Has(u, k, e)' <=> Has(u, k, e)
        BY <3>2 DEF WorkLabels
      <3> QED
        BY <2>1, <2>2, <2>4, <3>3, <3>4, <3>5 DEF UploadsTell
    <2>5. CASE p # e
      <3>1. \A u \in Threads : \A k \in UploadLabels : Has(u, k, p)' <=> Has(u, k, p)
        BY <1>2, <2>5, UploadLabelsAre DEF Obtains
      <3> QED
        BY <2>1, <2>2, <3>1, UploadsSame
    <2> QED
      BY <2>3, <2>4, <2>5
  <1>3. ASSUME NEW o \in Objects, Works(t, o) PROVE Modified'
    BY <1>3, MapCountUploads, LoadUploads, MapLoadedUploads, MapWaitUploads,
       MapCheckUploads, UploadUploads,
       UnMapCallUploads, UnMapCountUploads, UnMapFlagUploads, DropDataUploads DEF Works
  <1> QED
    BY <1>1, <1>2, <1>3, MovesAre

-----------------------------------------------------------------------------
(* The inductive invariant and the theorems                                  *)

(* The types and the shape of the calls are kept by every step.              *)
LEMMA TypedKept ==
    ASSUME Typed, Shaped, NEW t \in Threads, Moves(t)
    PROVE  Typed' /\ Shaped'
  <1>1. CASE Calls(t)
    <2>1. ASSUME NEW l \in Locations, NEW fl \in CreateFlags, CreateExisting(t, l, fl)
          PROVE Typed' /\ Shaped'
      BY <2>1, CreateExistingTyped, CreateExistingPuts
    <2>2. ASSUME NEW l \in Locations \cup {Anonymous}, NEW fl \in CreateFlags, CreateNew(t, l, fl)
          PROVE  Typed' /\ Shaped'
      BY <2>2, CreateNewTyped, CreateNewPuts DEF Creates
    <2>3. ASSUME NEW o \in Objects, MapCall(t, o) PROVE Typed' /\ Shaped'
      BY <2>3, MapCallTyped, CallPutsOne DEF MapCall
    <2>4. CASE Uninitialize(t)
      BY <2>4, UninitializeTyped, UninitializePuts
    <2> QED
      BY <1>1, <2>1, <2>2, <2>3, <2>4 DEF Calls
  <1>2. CASE GivesBack(t)
    <2>1. ASSUME NEW o \in Objects, UnMapCall(t, o) PROVE Typed' /\ Shaped'
      BY <2>1, UnMapCallTyped, CallPutsOne DEF UnMapCall
    <2>2. ASSUME NEW o \in Objects, ReleaseCall(t, o) PROVE Typed' /\ Shaped'
      BY <2>2, ReleaseCallTyped, CallPutsOne DEF ReleaseCall
    <2> QED
      BY <1>2, <2>1, <2>2 DEF GivesBack
  <1>3. CASE Step(t)
    <2>1. ASSUME NEW o \in Objects, InsertExisting(t, o) PROVE Typed' /\ Shaped'
      BY <2>1, InsertExistingTyped, InsertExistingTakes
    <2>2. ASSUME NEW o \in Objects, Insert(t, o) PROVE Typed' /\ Shaped'
      BY <2>2, InsertTyped, InsertTakes
    <2>3. ASSUME NEW o \in Objects, MapCount(t, o) PROVE Typed' /\ Shaped'
      BY <2>3, MapCountTyped, MapCountTakes
    <2>4. ASSUME NEW o \in Objects, Load(t, o) PROVE Typed' /\ Shaped'
      BY <2>4, LoadTyped, LoadTakes
    <2>5. ASSUME NEW o \in Objects, MapLoaded(t, o) PROVE Typed' /\ Shaped'
      BY <2>5, MapLoadedTyped, MapLoadedTakes
    <2>6. ASSUME NEW o \in Objects, MapWait(t, o) PROVE Typed' /\ Shaped'
      BY <2>6, MapWaitTyped, MapWaitTakes
    <2>7. ASSUME NEW o \in Objects, MapCheck(t, o) PROVE Typed' /\ Shaped'
      BY <2>7, MapCheckTyped, MapCheckTakes
    <2>8. ASSUME NEW o \in Objects, Upload(t, o) PROVE Typed' /\ Shaped'
      BY <2>8, UploadTyped, UploadTakes
    <2>9. ASSUME NEW o \in Objects, UnMapCount(t, o) PROVE Typed' /\ Shaped'
      BY <2>9, UnMapCountTyped, UnMapCountTakes
    <2>10. ASSUME NEW o \in Objects, UnMapFlag(t, o) PROVE Typed' /\ Shaped'
      BY <2>10, UnMapFlagTyped, UnMapFlagTakes
    <2>11. ASSUME NEW o \in Objects, DropData(t, o) PROVE Typed' /\ Shaped'
      BY <2>11, DropDataTyped, DropDataTakes
    <2>12. ASSUME NEW o \in Objects, Release(t, o) PROVE Typed' /\ Shaped'
      BY <2>12, ReleaseTyped, ReleaseTakes
    <2>13. ASSUME NEW o \in Objects, Destroy(t, o) PROVE Typed' /\ Shaped'
      BY <2>13, DestroyTyped, DestroyTakes
    <2>14. ASSUME NEW o \in Objects, Remove(t, o) PROVE Typed' /\ Shaped'
      BY <2>14, RemoveTyped, RemoveTakes
    <2>15. ASSUME NEW o \in Objects, Detach(t, o) PROVE Typed' /\ Shaped'
      BY <2>15, DetachTyped, DetachTakes
    <2>16. ASSUME NEW o \in Objects, Last(t, o) PROVE Typed' /\ Shaped'
      BY <2>16, LastTyped, LastTakes
    <2>17. ASSUME NEW o \in Objects, RemoveAllOrphan(t, o) PROVE Typed' /\ Shaped'
      BY <2>17, RemoveAllOrphanTyped, RemoveAllOrphanTakes
    <2>18. ASSUME NEW o \in Objects \cup {NoObject}, Relock(t, o) PROVE Typed' /\ Shaped'
      BY <2>18, RelockTyped, RelockTakes
    <2>19. CASE RemoveAllDetach(t)
      BY <2>19, RemoveAllDetachTyped, RemoveAllDetachTakes
    <2>20. CASE RemoveAllRelease(t)
      BY <2>20, RemoveAllReleaseTyped, RemoveAllReleaseTakes
    <2> QED
      BY <1>3, <2>1, <2>2, <2>3, <2>4, <2>5, <2>6, <2>7, <2>8, <2>9, <2>10, <2>11,
         <2>12, <2>13, <2>14, <2>15,
         <2>16, <2>17, <2>18, <2>19, <2>20 DEF Step
  <1> QED
    BY <1>1, <1>2, <1>3 DEF Moves

-----------------------------------------------------------------------------
(* The inductive invariant                                                   *)
IInv ==
    /\ Typed /\ Shaped /\ Working /\ Closing /\ Unborns /\ Fresh /\ Named
    /\ References /\ Leaving /\ Life /\ MapCounts /\ Flagged /\ Modified

(* It holds at the start: no object has been made and every thread is idle.  *)
LEMMA IInvInit == Init => IInv
  <1> SUFFICES ASSUME Init PROVE IInv
    OBVIOUS
  <1>1. \A t \in Threads : todo[t] = <<>>
    BY DEF Init
  <1>2. \A t \in Threads : \A k, o : ~Has(t, k, o)
    BY <1>1, HasIs, StepsOfNone
  <1>3. \A o : ~InMap(o) \/ o \notin Objects
    BY NoObjectIsNone DEF Init, InMap
  <1>4. Typed
    <2>1. MaxCalls \in Nat
      BY ResourceAssumption
    <2>2. 0 \in 0 .. MaxCalls
      BY <2>1
    <2>3. TypeOK
      BY <2>2 DEF Init, TypeOK
    <2>4. location \in [Objects -> Locations \cup {Anonymous}]
      BY DEF Init
    <2>5. /\ flags \in [Objects -> SUBSET {"eternal", "manual", "mapped", "orphan", "attached",
             "modified", "invalid"}]
          /\ request \in [Threads -> SUBSET {"eternal", "manual", "mapped"}]
      BY DEF Init
    <2>6. /\ held \in [Threads -> SUBSET Objects]
          /\ mapped \in [Threads -> SUBSET Objects] /\ good \in [Threads -> SUBSET Objects]
      BY DEF Init
    <2>7. /\ removed \subseteq Objects /\ externals \subseteq Objects /\ closed \in BOOLEAN
          /\ revived \subseteq Objects /\ overlapped \subseteq Objects
      BY DEF Init
    <2> QED
      BY <2>3, <2>4, <2>5, <2>6, <2>7 DEF Typed
  <1>5. Shaped
    BY <1>1 DEF Shaped, WellFormed, Init
  <1>6. Working /\ Fresh /\ Closing
    BY <1>2 DEF Init, Working, Fresh, Closing
  <1>7. Unborns
    BY <1>2, <1>3 DEF Init, Unborns, Mentions
  <1>8. Named
    BY <1>3 DEF Init, Named
  <1>9. Leaving /\ Life
    BY <1>2 DEF Init, Leaving, Life
  <1>10. Cardinality({}) = 0
    BY FS_EmptySet
  <1>11. References
    <2> SUFFICES ASSUME NEW o \in Objects
                 PROVE  referCount[o] = Cardinality(Holders(o)) + Cardinality(Owers(o))
                        + Marked(Kept(o))
      BY DEF References
    <2>1. Holders(o) = {} /\ Owers(o) = {}
      BY <1>2 DEF Init, Holders, Owers, Owes
    <2>2. ~Kept(o)
      BY DEF Init, Kept
    <2>3. referCount[o] = 0
      BY DEF Init
    <2> QED
      BY <2>1, <2>2, <2>3, <1>10 DEF Marked
  <1>12. MapCounts
    <2> SUFFICES ASSUME NEW o \in Objects PROVE mapCount[o] = Cardinality(Mappers(o))
      BY DEF MapCounts
    <2>1. Mappers(o) = {}
      BY <1>2 DEF Init, Mappers, Maps
    <2> QED
      BY <2>1, <1>10 DEF Init
  <1>13. Flagged
    BY <1>2 DEF Init, Flagged, FlagsTell, Loading
  <1>14. Modified
    BY <1>2 DEF Modified, UploadsTell
  <1> QED
    BY <1>4, <1>5, <1>6, <1>7, <1>8, <1>9, <1>11, <1>12, <1>13, <1>14 DEF IInv

(* Every step keeps it: the steps of the threads by the lemmas above, part   *)
(* by part.                                                                  *)
LEMMA IInvNext == IInv /\ [Next]_vars => IInv'
  <1> SUFFICES ASSUME IInv, [Next]_vars PROVE IInv'
    OBVIOUS
  <1>1. ASSUME NEW t \in Threads, Moves(t) PROVE IInv'
    <2>1. Typed' /\ Shaped'
      BY <1>1, TypedKept DEF IInv
    <2>2. Working' /\ Fresh'
      BY <1>1, WorkingKept, FreshKept DEF IInv
    <2>3. Closing' /\ Unborns'
      BY <1>1, ClosingKept, UnbornsKept DEF IInv
    <2>4. Named' /\ References'
      BY <1>1, NamedKept, ReferencesKept DEF IInv
    <2>5. Leaving' /\ Life'
      BY <1>1, LeavingKept, LifeKept DEF IInv
    <2>6. MapCounts' /\ Flagged' /\ Modified'
      BY <1>1, MapCountsKept, FlaggedKept, ModifiedKept DEF IInv
    <2> QED
      BY <2>1, <2>2, <2>3, <2>4, <2>5, <2>6 DEF IInv
  <1>2. CASE UNCHANGED vars
    <2>1. UNCHANGED <<resourceMap, writer, state, location, flags, referCount, mapCount, data,
          todo, ok, request, held,
                      mapped, good, removed, externals, closed, calls, revived, overlapped>>
      BY <1>2 DEF vars, object, client, closing
    <2>2. \A t, k, o : Has(t, k, o)' <=> Has(t, k, o)
      BY <2>1 DEF Has
    <2>3. \A o : InMap(o)' <=> InMap(o)
      BY <2>1 DEF InMap
    <2>4. \A t, o : /\ Mentions(t, o)' <=> Mentions(t, o)
                    /\ Owes(t, o)' <=> Owes(t, o)
      BY <2>2 DEF Mentions, Owes
    <2>5. Typed' /\ Shaped'
      BY <2>1 DEF IInv, Typed, TypeOK, Shaped
    <2>6. Working'
      BY <2>1, <2>2 DEF IInv, Working
    <2>7. Closing'
      BY <2>1, <2>2, <2>3 DEF IInv, Closing
    <2>8. Unborns'
      BY <2>1, <2>3, <2>4 DEF IInv, Unborns
    <2>9. Fresh'
      BY <2>1, <2>2, <2>3, <2>4 DEF IInv, Fresh, NewFor
    <2>10. Named'
      BY <2>1 DEF IInv, Named
    <2>11. References'
      <3>1. \A o \in Objects : Kept(o)' <=> Kept(o)
        BY <2>1, <2>3 DEF Kept
      <3> QED
        BY <2>1, <2>4, <3>1, ReferencesSame DEF IInv
    <2>12. Leaving'
      BY <2>1, <2>2 DEF IInv, Leaving
    <2>13. Life'
      BY <2>1, <2>2 DEF IInv, Life
    <2>14. Quiet
      BY <2>1, <2>2 DEF Quiet, SameWork, SameMarks
    <2>15. MapCounts'
      BY <2>1, <2>2, MapCountsSame DEF IInv, Maps
    <2>16. Flagged'
      BY <2>1, <2>2 DEF IInv, Flagged, FlagsTell, Loading
    <2>17. Modified'
      BY <2>1, <2>2 DEF IInv, Modified, UploadsTell
    <2> QED
      BY <2>5, <2>6, <2>7, <2>8, <2>9, <2>10, <2>11, <2>12, <2>13, <2>15, <2>16, <2>17
         DEF IInv
  <1> QED
    BY <1>1, <1>2 DEF Next, Moves

(* So it holds in every state.                                               *)
LEMMA Inductive == Spec => []IInv
  <1> QED
    BY IInvInit, IInvNext, PTL DEF Spec

-----------------------------------------------------------------------------
(* A step of a thread names an object only by a label of an object.          *)
LEMMA NamesMention ==
    ASSUME Shaped, NEW t \in Threads, NEW o \in Objects,
           NEW i \in 1 .. Len(todo[t]), todo[t][i][2] = o
    PROVE  Mentions(t, o)
  <1>1. todo[t][i] \in StepsOf(todo[t])
    BY DEF StepsOf
  <1>2. PICK l, p : At(t, l, p)
    <2>1. todo[t] # <<>>
      BY <1>1, StepsOfNone
    <2> QED
      BY <2>1, Firsts
  <1>3. <<l, p>> \in Pairs /\ (p \in Objects => l \in Labels)
    BY <1>2, AtIs
  <1>4. PICK s \in Seq(Pairs) : todo[t] = <<<<l, p>>>> \o s
    BY <1>2, AtIs
  <1>5. StepsOf(todo[t]) = {<<l, p>>} \cup StepsOf(s)
    <2>1. StepsOf(<<<<l, p>>>> \o s) = {<<l, p>>} \cup StepsOf(s)
      BY <1>3, ConsIs
    <2> QED
      BY <1>4, <2>1
  <1>6. todo[t][i] \in Pairs
    <2>1. \A j \in 1 .. Len(s) : s[j] \in Pairs
      OBVIOUS
    <2>2. \A x \in StepsOf(s) : x \in Pairs
      BY <2>1 DEF StepsOf
    <2>3. todo[t][i] = <<l, p>> \/ todo[t][i] \in StepsOf(s)
      BY <1>1, <1>5
    <2> QED
      BY <1>3, <2>2, <2>3
  <1>7. PICK k \in AllLabels, q \in Objects \cup {NoObject} : todo[t][i] = <<k, q>>
    BY <1>6 DEF Pairs
  <1>8. q = o /\ Has(t, k, o)
    BY <1>1, <1>7, HasIs
  <1>9. (k = l /\ o = p) \/ Beside(l, p, k, o)
    BY <1>2, <1>8, Only
  <1>10. k \in Labels
    BY <1>3, <1>7, <1>9, NoObjectIsNone DEF AllLabels, Beside
  <1> QED
    BY <1>8, <1>10 DEF Mentions

(* What a thread refers to or still works on is alive.                       *)
LEMMA MentionedLives ==
    ASSUME IInv, NEW t \in Threads, NEW o \in Objects \ revived, Mentions(t, o) \/ o \in held[t]
    PROVE  state[o] = "live"
  <1>1. Owes(t, o) \/ o \in held[t] => state[o] = "live"
    <2>1. ASSUME Owes(t, o) \/ o \in held[t] PROVE referCount[o] >= 1 /\ referCount[o] \in Nat
      BY <2>1, Referred DEF IInv
    <2> QED
      BY <2>1 DEF IInv, Life
  <1>2. ASSUME NEW k \in Labels, Has(t, k, o) PROVE state[o] = "live"
    <2>1. CASE k \in WorkLabels
      BY <1>1, <1>2, <2>1 DEF IInv, Working
    <2>2. CASE k \in OweLabels
      BY <1>1, <1>2, <2>2 DEF Owes
    <2>3. CASE k \in {"detach", "relock"}
      BY <1>1, <1>2, <2>3, DetachedIsOwed DEF IInv
    <2>4. CASE k = "destroy"
      BY <1>2, <2>4 DEF IInv, Life
    <2>5. CASE k = "orphan"
      BY <1>2, <2>5 DEF IInv, Closing
    <2> QED
      BY <2>1, <2>2, <2>3, <2>4, <2>5 DEF Labels, LetGoLabels, OweLabels
  <1> QED
    BY <1>1, <1>2 DEF Mentions

(* A raw pointer never dangles: what the map names is alive, and nobody      *)
(* works on an object that has been deleted or refers to it                  *)
(* (ResourceBase.cpp:80-96, ResourceManager.cpp:41-65, 97-136), unless       *)
(* LoadExist has brought it back while it was being destroyed.               *)
THEOREM Dangles == Spec => []NothingDangles
  <1>1. ASSUME IInv PROVE NothingDangles
    <2>1. \A l \in Locations : resourceMap[l] # NoObject =>
            LET o == resourceMap[l]
            IN  state[o] = "live" /\ location[o] = l /\ "orphan" \notin flags[o]
                /\ "attached" \in flags[o]
      BY <1>1 DEF IInv, Named
    <2>2. ASSUME NEW t \in Threads, NEW o \in Objects \ revived,
                 o \in held[t] \/ o \in removed \/ \E i \in 1 .. Len(todo[t]) : todo[t][i][2] = o
          PROVE  state[o] = "live"
      <3>1. CASE o \in held[t]
        BY <1>1, <3>1, MentionedLives
      <3>2. CASE o \in removed
        BY <1>1, <3>2 DEF IInv, Closing
      <3>3. CASE \E i \in 1 .. Len(todo[t]) : todo[t][i][2] = o
        BY <1>1, <3>3, NamesMention, MentionedLives DEF IInv
      <3> QED
        BY <2>2, <3>1, <3>2, <3>3
    <2> QED
      BY <2>1, <2>2 DEF NothingDangles
  <1> QED
    BY <1>1, Inductive, PTL

(* The assertions of the sources hold on every object that has not been      *)
(* brought back: a reference is left to release (Tiny.h:65), the flag is set *)
(* after the wait for it (ResourceBase.cpp:139), what is uploaded has been   *)
(* loaded (ResourceManager.h:92), what is detached is attached (84), and an  *)
(* object is deleted unmapped and an orphan (ResourceBase.cpp:57, 61).       *)
THEOREM Asserted == Spec => []CodeAssertions
  <1>1. ASSUME IInv PROVE CodeAssertions
    <2>1. TypeOK
      BY <1>1 DEF IInv, Typed
    <2>2. ASSUME NEW t \in Threads, NEW o \in Objects \ revived
          PROVE  /\ At(t, "release", o) => referCount[o] > 0
                 /\ At(t, "check", o) /\ o \notin overlapped => "mapped" \in flags[o]
                 /\ At(t, "upload", o) /\ ok[t] => "modified" \in flags[o]
                 /\ At(t, "detach", o) => "attached" \in flags[o]
                 /\ o \in removed /\ ~At(t, "orphan", o) /\ t = writer => "attached" \in flags[o]
      <3>1. ASSUME At(t, "release", o) PROVE referCount[o] > 0
        <4>1. Owes(t, o)
          BY <1>1, <3>1, Only DEF IInv, Owes, OweLabels
        <4>2. referCount[o] >= 1 /\ referCount[o] \in Nat
          BY <1>1, <4>1, Referred DEF IInv
        <4> QED
          BY <4>2
      <3>2. ASSUME At(t, "check", o), o \notin overlapped PROVE "mapped" \in flags[o]
        <4>1. Has(t, "check", o)
          BY <1>1, <3>2, Only DEF IInv
        <4> QED
          BY <1>1, <3>2, <4>1 DEF IInv, Flagged, FlagsTell
      <3>3. ASSUME At(t, "upload", o), ok[t] PROVE "modified" \in flags[o]
        <4>1. Has(t, "upload", o) /\ \A k, p : Has(t, k, p) => (k = "upload" /\ p = o)
              \/ Beside("upload", o, k, p)
          BY <1>1, <3>3, Only DEF IInv
        <4>2. \A k \in MapLabels : ~Has(t, k, o)
          BY <4>1 DEF Beside, MapLabels, LetGoLabels
        <4> QED
          BY <1>1, <3>3, <4>1, <4>2 DEF IInv, Modified, UploadsTell
      <3>4. ASSUME At(t, "detach", o) PROVE "attached" \in flags[o]
        <4>1. Has(t, "detach", o)
          BY <1>1, <3>4, Only DEF IInv
        <4> QED
          BY <1>1, <4>1 DEF IInv, Leaving
      <3>5. ASSUME o \in removed, ~At(t, "orphan", o), t = writer PROVE "attached" \in flags[o]
        <4>1. writer = Closer /\ ("attached" \in flags[o] \/ Has(Closer, "orphan", o))
          BY <1>1, <3>5 DEF IInv, Closing
        <4>2. ~Has(t, "orphan", o)
          BY <1>1, <3>5, ComesFirst DEF IInv
        <4> QED
          BY <3>5, <4>1, <4>2
      <3> QED
        BY <3>1, <3>2, <3>3, <3>4, <3>5
    <2>3. ASSUME NEW o \in Objects \ revived, state[o] = "deleted"
          PROVE  /\ mapCount[o] = 0 /\ "orphan" \in flags[o]
                 /\ location[o] \in Locations => "attached" \notin flags[o]
      <3>1. \A t \in Threads : ~Mentions(t, o) /\ o \notin held[t]
        BY <1>1, <2>3, MentionedLives
      <3>2. \A t \in Threads : ~Maps(t, o)
        <4>1. "unmap" \in Labels
          BY DEF Labels, WorkLabels
        <4> QED
          BY <1>1, <3>1, <4>1 DEF IInv, Working, Maps, Mentions
      <3>3. Mappers(o) = {}
        BY <3>2 DEF Mappers
      <3>4. mapCount[o] = 0
        BY <1>1, <3>3, FS_EmptySet DEF IInv, MapCounts
      <3> QED
        BY <1>1, <2>3, <3>4 DEF IInv, Named, Life
    <2> QED
      BY <2>1, <2>2, <2>3 DEF CodeAssertions
  <1> QED
    BY <1>1, Inductive, PTL

(* Who has mapped a resource with success has its data until he unmaps it,   *)
(* whatever the others do meanwhile, unless a Map has come between the two   *)
(* halves of an UnMap (ResourceBase.cpp:131-155, TextureResource.cpp:39-53,  *)
(* 79-83).                                                                   *)
THEOREM DataStays == Spec => []DataWhileMapped
  <1>1. ASSUME IInv PROVE DataWhileMapped
    BY <1>1 DEF IInv, Typed, Flagged, FlagsTell, DataWhileMapped
  <1> QED
    BY <1>1, Inductive, PTL

(* When nobody refers to anything and no call is under way, what is alive is *)
(* eternal and still named: no reference is lost (ResourceBase.cpp:80-96,    *)
(* ResourceManager.cpp:97-136).                                              *)
THEOREM Leaks == Spec => []NothingLeaks
  <1>1. ASSUME IInv PROVE NothingLeaks
    <2> SUFFICES ASSUME \A t \in Threads : Idle(t) /\ held[t] = {},
                        NEW o \in Objects \ revived, state[o] = "live"
                 PROVE  "eternal" \in flags[o] /\ resourceMap[location[o]] = o
      BY DEF NothingLeaks
    <2>1. \A t \in Threads : \A k, p : ~Has(t, k, p)
      BY HasIs, StepsOfNone DEF Idle
    <2>2. referCount[o] # 0
      BY <1>1, <2>1 DEF IInv, Life
    <2>3. Kept(o)
      BY <1>1, <2>1, <2>2, Referred DEF IInv, Owes
    <2>4. removed \cup externals = {}
      BY <1>1, <2>1 DEF IInv, Closing
    <2>5. "eternal" \in flags[o] /\ InMap(o)
      BY <2>3, <2>4 DEF Kept
    <2>6. PICK l \in Locations : resourceMap[l] = o
      BY <2>5 DEF InMap
    <2>7. location[o] = l
      BY <1>1, <2>6, NoObjectIsNone DEF IInv, Named
    <2> QED
      BY <2>5, <2>6, <2>7
  <1> QED
    BY <1>1, Inductive, PTL

=============================================================================
