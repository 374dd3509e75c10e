------------------------- MODULE RepRegistryProofs --------------------------
(***************************************************************************)
(* Theorems about RepRegistry, for any names, any size of the file, any    *)
(* queues, clears, restarts and times.                                     *)
(***************************************************************************)
EXTENDS RepRegistry, Integers, TLAPS

Registered(n) == rep_list_[n] # NoObject

(* No command holds more items than its queue, so Pop takes what is there. *)
Fits(o) == o.sent <= Current(o)
SentFits ==
  /\ \A n \in Names : Registered(n) => Fits(rep_list_[n])
  /\ \A o \in clearing : Fits(o)

(* The object of a slave writes to the record its name leads to.           *)
ObjectMap == \A n \in Names : Registered(n) => rep_list_[n].info = rep_map_list_[n]

(* Memory and file agree on which records are taken, and by whom; the name *)
(* of a record that is taken leads to it.                                  *)
MapKnows ==
  \A i \in Records :
    /\ file[i].available = disk[i].available
    /\ file[i].name = disk[i].name
    /\ disk[i].available => /\ disk[i].name \in Names
                            /\ rep_map_list_[disk[i].name] = i

(* A record to which no cleared name leads is taken by the one name that   *)
(* leads to it.                                                            *)
LeftBy(i) == {k \in cleared : rep_map_list_[k] = i}
Taken ==
  \A n \in Names :
    rep_map_list_[n] # 0 /\ LeftBy(rep_map_list_[n]) = {} =>
      /\ file[rep_map_list_[n]].available
      /\ file[rep_map_list_[n]].name = n

(* A name with a record has an object until it is cleared.                 *)
Known == \A n \in Names : rep_map_list_[n] # 0 /\ n \notin cleared => Registered(n)

(* Until its first synchronisation is complete, a slave is in it, and the  *)
(* file has a time of a push and none of an acknowledgement.               *)
FirstSync ==
  cleared = {} =>
    \A n \in Names : Registered(n) /\ n \notin complete =>
      /\ rep_list_[n].is_update_que
      /\ disk[rep_list_[n].info].rep = 0
      /\ disk[rep_list_[n].info].ser >= 2

RegistryInv ==
  /\ TypeOK /\ SentFits /\ ObjectMap /\ MapKnows /\ Taken /\ Known
  /\ FirstSync /\ GapNeedsRestart
-----------------------------------------------------------------------------
(* The first nine digits of the time do not fall below 2.                  *)
LEMMA TwoGrains ==
  ASSUME NEW t \in Nat, NEW g \in Nat \ {0}, t >= 2 * g
  PROVE  t \div g \in Nat /\ t \div g >= 2
<1>1. t \div g \in Int /\ t = g * (t \div g) + (t % g) /\ t % g \in 0 .. g - 1
  BY SMTT(30)
<1>2. ASSUME t \div g <= 1
      PROVE  FALSE
  <2>1. g * (t \div g) <= g
    BY SMTT(30), <1>1, <1>2
  <2>2. QED
    BY SMTT(30), <1>1, <2>1
<1>3. QED
  BY <1>1, <1>2

LEMMA NineDigitsOfNow ==
  ASSUME TypeOK
  PROVE  NineDigits(now) \in Nat /\ NineDigits(now) >= 2 /\ now \in Nat
<1>1. now \in Nat /\ now >= 2 * Grain /\ Grain \in Nat \ {0}
  BY TimeAssumption, SizeAssumption DEF TypeOK
<1>2. QED
  BY Zenon, <1>1, TwoGrains DEF NineDigits

(* An object is not NoObject.                                              *)
LEMMA ObjectIs ==
  ASSUME NEW o \in Objects
  PROVE  o # NoObject
BY DEF Objects, NoObject, Records

(* Without a clear no two slaves have the same record.                     *)
LEMMA Alone ==
  ASSUME RegistryInv, cleared = {}, NEW m \in Names, NEW n \in Names,
         Registered(m), Registered(n), rep_list_[m].info = rep_list_[n].info
  PROVE  m = n
<1>1. rep_map_list_[m] = rep_list_[m].info /\ rep_map_list_[n] = rep_list_[m].info
  BY DEF RegistryInv, ObjectMap
<1>2. rep_list_[m] \in Objects
  BY Zenon DEF RegistryInv, TypeOK, Registered
<1>3. rep_map_list_[m] # 0
  BY <1>1, <1>2 DEF Objects, Records
<1>4. LeftBy(rep_map_list_[m]) = {} /\ LeftBy(rep_map_list_[n]) = {}
  BY Zenon DEF LeftBy
<1>5. file[rep_map_list_[m]].name = m
  BY Zenon, <1>3, <1>4 DEF RegistryInv, Taken
<1>6. file[rep_map_list_[n]].name = n
  BY Zenon, <1>1, <1>3, <1>4 DEF RegistryInv, Taken
<1>7. QED
  BY Zenon, <1>1, <1>5, <1>6

(* What holds of names and records stays when a step changes only times    *)
(* and queues.                                                             *)
LEMMA SameRecords ==
  ASSUME RegistryInv, UNCHANGED <<rep_map_list_, cleared>>,
         \A i \in Records : /\ file'[i].available = file[i].available
                            /\ file'[i].name = file[i].name
                            /\ disk'[i].available = disk[i].available
                            /\ disk'[i].name = disk[i].name,
         \A n \in Names : /\ rep_list_[n] = NoObject => rep_list_'[n] = NoObject
                          /\ Registered(n) => /\ rep_list_'[n] # NoObject
                                              /\ rep_list_'[n].info = rep_list_[n].info
  PROVE  ObjectMap' /\ MapKnows' /\ Taken' /\ Known'
<1>1. ObjectMap' /\ Known'
  BY Zenon DEF RegistryInv, ObjectMap, Known, Registered
<1>2. MapKnows'
  BY Zenon DEF RegistryInv, MapKnows
<1>3. Taken'
  <2> SUFFICES ASSUME NEW n \in Names, rep_map_list_[n] # 0, LeftBy(rep_map_list_[n])' = {}
               PROVE  file'[rep_map_list_[n]].available /\ file'[rep_map_list_[n]].name = n
    BY Zenon DEF Taken
  <2>1. LeftBy(rep_map_list_[n]) = {}
    BY Zenon DEF LeftBy
  <2>2. rep_map_list_[n] \in Records
    BY Zenon DEF RegistryInv, TypeOK
  <2>3. QED
    BY Zenon, <2>1, <2>2 DEF RegistryInv, Taken
<1>4. QED
  BY Zenon, <1>1, <1>2, <1>3

(* A step that leaves records and objects alone.                           *)
LEMMA QuietStep ==
  ASSUME RegistryInv, now' \in StartTime .. MaxTime, writing' \in BOOLEAN,
         online' \subseteq {n \in Names : Registered(n)},
         UNCHANGED <<file, disk, rep_map_list_, rep_list_, clearing, restarts,
                     behind, complete, cleared>>
  PROVE  RegistryInv'
<1>1. TypeOK'
  BY Zenon DEF RegistryInv, TypeOK, Registered
<1>2. ObjectMap' /\ MapKnows' /\ Taken' /\ Known'
  BY Zenon, SameRecords DEF RegistryInv, Registered
<1>3. SentFits' /\ FirstSync' /\ GapNeedsRestart'
  BY Zenon DEF RegistryInv, SentFits, FirstSync, GapNeedsRestart, Registered
<1>4. QED
  BY Zenon, <1>1, <1>2, <1>3 DEF RegistryInv
-----------------------------------------------------------------------------
(* A new object, and a record taken or found again by its slave.           *)
LEMMA NewObjectIs ==
  ASSUME NEW i \in Records, NEW r
  PROVE  /\ NewObject(i, r) \in Objects
         /\ NewObject(i, r).info = i
         /\ NewObject(i, r).is_update_que = NeedsAll(r)
         /\ Fits(NewObject(i, r))
<1>1. NeedsAll(r) \in BOOLEAN
  BY Zenon DEF NeedsAll
<1>2. QED
  BY <1>1, TimeAssumption DEF NewObject, Objects, Fits, Current

LEMMA FreshIs ==
  ASSUME NEW n \in Names
  PROVE  /\ Fresh(n) \in Infos /\ NeedsAll(Fresh(n))
         /\ Fresh(n).name = n /\ Fresh(n).available
         /\ Fresh(n).ser = 0 /\ Fresh(n).rep = 0
BY Zenon DEF Fresh, Infos, NeedsAll

LEMMA RegisterStep ==
  ASSUME RegistryInv, NEW n \in Names, Register(n)
  PROVE  RegistryInv'
<1> DEFINE known == rep_map_list_[n] # 0
           r(i) == IF known THEN file[i] ELSE Fresh(n)
           d(i) == IF known THEN disk[i] ELSE Fresh(n)
<1>1. PICK i \in Records :
        /\ rep_list_[n] = NoObject
        /\ RecordFor(n, i)
        /\ rep_map_list_' = [rep_map_list_ EXCEPT ![n] = i]
        /\ rep_list_' = [rep_list_ EXCEPT ![n] = NewObject(i, r(i))]
        /\ file' = [file EXCEPT ![i] = IF r(i).ser = 0 THEN [r(i) EXCEPT !.ser = now]
                                                       ELSE r(i)]
        /\ disk' = [disk EXCEPT ![i] =
                      IF r(i).ser = 0 THEN [d(i) EXCEPT !.ser = NineDigits(now)]
                                      ELSE d(i)]
        /\ online' = online \cup {n}
        /\ behind' = IF NeedsAll(r(i)) THEN behind \ {n} ELSE behind
        /\ UNCHANGED <<now, clearing, writing, restarts, complete, cleared>>
  BY Zenon DEF Register
<1>2. TypeOK
  BY Zenon DEF RegistryInv
<1>3. r(i) \in Infos /\ d(i) \in Infos
  BY Zenon, <1>2, FreshIs DEF TypeOK
<1>4. NineDigits(now) \in Nat /\ NineDigits(now) >= 2 /\ now \in Nat
  BY Zenon, <1>2, NineDigitsOfNow
<1>5. /\ file'[i] \in Infos /\ file'[i].name = r(i).name /\ file'[i].available = r(i).available
      /\ \A j \in Records : j # i => file'[j] = file[j]
      /\ file' \in [Records -> Infos]
  <2> HIDE DEF r, d, known
  <2>1. [r(i) EXCEPT !.ser = now] \in Infos /\ [r(i) EXCEPT !.ser = now].name = r(i).name
        /\ [r(i) EXCEPT !.ser = now].available = r(i).available
    BY Zenon, <1>3, <1>4 DEF Infos
  <2>2. file \in [Records -> Infos]
    BY Zenon, <1>2 DEF TypeOK
  <2>3. QED
    BY Zenon, <1>1, <1>3, <2>1, <2>2
<1>6. /\ disk'[i] \in Infos /\ disk'[i].name = d(i).name /\ disk'[i].available = d(i).available
      /\ disk'[i].rep = d(i).rep
      /\ disk'[i].ser = IF r(i).ser = 0 THEN NineDigits(now) ELSE d(i).ser
      /\ \A j \in Records : j # i => disk'[j] = disk[j]
      /\ disk' \in [Records -> Infos]
  <2> DEFINE e == [d(i) EXCEPT !.ser = NineDigits(now)]
  <2> HIDE DEF r, d, known
  <2>1. e \in Infos /\ e.name = d(i).name /\ e.rep = d(i).rep
        /\ e.available = d(i).available /\ e.ser = NineDigits(now)
    BY Zenon, <1>3, <1>4 DEF Infos
  <2>2. disk \in [Records -> Infos]
    BY Zenon, <1>2 DEF TypeOK
  <2> HIDE DEF e
  <2>3. disk' = [disk EXCEPT ![i] = IF r(i).ser = 0 THEN e ELSE d(i)]
    BY Zenon, <1>1 DEF e
  <2>4. QED
    BY Zenon, <1>3, <2>1, <2>2, <2>3
<1>7. /\ rep_map_list_' \in [Names -> Records \cup {0}] /\ rep_map_list_'[n] = i
      /\ \A m \in Names : m # n => rep_map_list_'[m] = rep_map_list_[m]
  BY Zenon, <1>1, <1>2 DEF TypeOK
<1>8. /\ rep_list_' \in [Names -> Objects \cup {NoObject}]
      /\ rep_list_'[n] = NewObject(i, r(i)) /\ rep_list_'[n] \in Objects
      /\ \A m \in Names : m # n => rep_list_'[m] = rep_list_[m]
  BY Zenon, <1>1, <1>2, NewObjectIs DEF TypeOK
<1>9. rep_list_'[n] # NoObject
  BY Zenon, <1>8, ObjectIs
<1>10. ASSUME known
       PROVE  MapKnows' /\ Taken' /\ FirstSync' /\ GapNeedsRestart'
  <2>1. i = rep_map_list_[n] /\ r(i) = file[i] /\ d(i) = disk[i] /\ rep_map_list_' = rep_map_list_
    BY Zenon, <1>1, <1>2, <1>10 DEF RecordFor, TypeOK
  <2>2. n \in cleared
    BY Zenon, <1>1, <1>10 DEF RegistryInv, Known, Registered
  <2> HIDE DEF r, d, known
  <2>3. \A j \in Records : /\ file'[j].name = file[j].name /\ disk'[j].name = disk[j].name
                           /\ file'[j].available = file[j].available
                           /\ disk'[j].available = disk[j].available
    <3> TAKE j \in Records
    <3>1. CASE j = i
      BY Zenon, <1>5, <1>6, <2>1, <3>1
    <3>2. CASE j # i
      BY Zenon, <1>5, <1>6, <3>2
    <3>3. QED
      BY Zenon, <3>1, <3>2
  <2>7. MapKnows'
    BY ZenonT(60), <2>1, <2>3 DEF RegistryInv, MapKnows
  <2>4. Taken'
    <3> SUFFICES ASSUME NEW m \in Names, rep_map_list_[m] # 0, LeftBy(rep_map_list_[m])' = {}
                 PROVE  file'[rep_map_list_[m]].available /\ file'[rep_map_list_[m]].name = m
      BY Zenon, <2>1 DEF Taken
    <3>1. LeftBy(rep_map_list_[m]) = {}
      BY Zenon, <1>1, <2>1 DEF LeftBy
    <3>2. rep_map_list_[m] \in Records
      BY Zenon, <1>2 DEF TypeOK
    <3>3. QED
      BY Zenon, <2>3, <3>1, <3>2 DEF RegistryInv, Taken
  <2>5. FirstSync' /\ GapNeedsRestart'
    <3>1. cleared' # {} /\ n \in cleared'
      BY Zenon, <1>1, <2>2
    <3>2. \A m \in Names : m # n /\ m \in behind' => m \in behind
      BY Zenon, <1>1
    <3>3. QED
      BY Zenon, <1>1, <1>8, <3>1, <3>2 DEF FirstSync, RegistryInv, GapNeedsRestart
  <2>6. QED
    BY Zenon, <2>4, <2>5, <2>7
<1>11. ASSUME ~known
       PROVE  MapKnows' /\ Taken' /\ FirstSync' /\ GapNeedsRestart'
  <2>1. /\ r(i) = Fresh(n) /\ d(i) = Fresh(n) /\ ~file[i].available
    BY Zenon, <1>11, <1>1 DEF RecordFor, FirstFree
  <2>2. /\ disk'[i].name = n /\ disk'[i].available /\ disk'[i].rep = 0 /\ disk'[i].ser >= 2
        /\ file'[i].name = n /\ file'[i].available
    <3>1. Fresh(n).name = n /\ Fresh(n).available /\ Fresh(n).ser = 0 /\ Fresh(n).rep = 0
      BY Zenon, FreshIs
    <3> HIDE DEF r, d, known
    <3>2. QED
      BY Zenon, <1>4, <1>5, <1>6, <2>1, <3>1
  <2>3. rep_list_'[n].is_update_que /\ rep_list_'[n].info = i
    <3>1. NeedsAll(Fresh(n)) = TRUE
      BY Zenon, FreshIs
    <3>2. rep_list_'[n] = NewObject(i, Fresh(n))
      BY Zenon, <1>8, <2>1
    <3>3. QED
      BY ZenonT(60), <3>1, <3>2, NewObjectIs
  <2> HIDE DEF r, d
  <2>4. MapKnows'
    <3> SUFFICES ASSUME NEW j \in Records
                 PROVE  /\ file'[j].available = disk'[j].available
                        /\ file'[j].name = disk'[j].name
                        /\ disk'[j].available => /\ disk'[j].name \in Names
                                                 /\ rep_map_list_'[disk'[j].name] = j
      BY Zenon DEF MapKnows
    <3>1. CASE j = i
      BY Zenon, <2>2, <1>7, <3>1
    <3>2. CASE j # i
      <4>1. disk[j].available => disk[j].name \in Names /\ rep_map_list_[disk[j].name] = j
        BY Zenon DEF RegistryInv, MapKnows
      <4>2. disk[j].available => disk[j].name # n
        BY <4>1, <1>11 DEF Records
      <4>3. file'[j] = file[j] /\ disk'[j] = disk[j]
        BY Zenon, <1>5, <1>6, <3>2
      <4>4. disk[j].available => rep_map_list_'[disk[j].name] = j
        BY Zenon, <1>7, <4>1, <4>2
      <4>5. file[j].available = disk[j].available /\ file[j].name = disk[j].name
        BY Zenon DEF RegistryInv, MapKnows
      <4>6. QED
        BY Zenon, <4>1, <4>3, <4>4, <4>5
    <3>3. QED
      BY Zenon, <3>1, <3>2
  <2>5. Taken'
    <3> SUFFICES ASSUME NEW m \in Names, rep_map_list_'[m] # 0,
                        LeftBy(rep_map_list_[m])' = {}
                 PROVE  file'[rep_map_list_'[m]].available /\ file'[rep_map_list_'[m]].name = m
      BY Zenon DEF Taken
    <3>1. CASE m = n
      BY Zenon, <2>2, <1>7, <3>1
    <3>2. CASE m # n
      <4>1. rep_map_list_'[m] = rep_map_list_[m] /\ rep_map_list_[m] \in Records
        BY Zenon, <1>2, <1>7, <3>2 DEF TypeOK
      <4>2. LeftBy(rep_map_list_[m]) = {}
        <5>1. SUFFICES ASSUME NEW k \in cleared, rep_map_list_[k] = rep_map_list_[m]
                       PROVE  FALSE
          BY Zenon DEF LeftBy
        <5>2. k # n /\ k \in Names
          BY Zenon, <1>2, <1>11, <4>1, <5>1 DEF TypeOK
        <5>3. k \in LeftBy(rep_map_list_[m])'
          BY Zenon, <1>1, <1>7, <4>1, <5>1, <5>2 DEF LeftBy
        <5>4. QED
          BY Zenon, <5>3
      <4>3. file[rep_map_list_[m]].available /\ file[rep_map_list_[m]].name = m
        BY Zenon, <4>2, <3>2, <4>1 DEF RegistryInv, Taken
      <4>4. rep_map_list_[m] # i
        BY Zenon, <2>1, <4>3
      <4>5. QED
        BY Zenon, <1>5, <4>1, <4>3, <4>4
    <3>3. QED
      BY Zenon, <3>1, <3>2
  <2>6. FirstSync'
    <3> SUFFICES ASSUME cleared = {}, NEW m \in Names, rep_list_'[m] # NoObject, m \notin complete
                 PROVE  /\ rep_list_'[m].is_update_que
                        /\ disk'[rep_list_'[m].info].rep = 0
                        /\ disk'[rep_list_'[m].info].ser >= 2
      BY Zenon, <1>1 DEF FirstSync, Registered
    <3>1. CASE m = n
      BY Zenon, <2>2, <2>3, <3>1
    <3>2. CASE m # n
      <4>1. rep_list_'[m] = rep_list_[m] /\ Registered(m) /\ rep_list_[m] \in Objects
        BY Zenon, <1>2, <1>8, <3>2 DEF Registered, TypeOK
      <4>2. rep_list_[m].info \in Records /\ rep_list_[m].info = rep_map_list_[m]
        BY <4>1 DEF RegistryInv, ObjectMap, Objects
      <4>3. rep_map_list_[m] # 0 /\ LeftBy(rep_map_list_[m]) = {}
        BY <4>2 DEF LeftBy, Records
      <4>4. rep_list_[m].info # i
        BY Zenon, <2>1, <4>2, <4>3 DEF RegistryInv, Taken
      <4>5. disk'[rep_list_[m].info] = disk[rep_list_[m].info]
        BY Zenon, <1>6, <4>2, <4>4
      <4>6. QED
        BY Zenon, <4>1, <4>5 DEF RegistryInv, FirstSync
    <3>3. QED
      BY Zenon, <3>1, <3>2
  <2>7. GapNeedsRestart'
    <3>1. behind' = behind \ {n}
      BY Zenon, <1>1, <2>1, FreshIs
    <3>2. QED
      BY Zenon, <1>1, <1>8, <3>1 DEF RegistryInv, GapNeedsRestart
  <2>8. QED
    BY Zenon, <2>4, <2>5, <2>6, <2>7
<1> HIDE DEF r, d, known
<1>12. TypeOK'
  <2>1. online' \subseteq {m \in Names : rep_list_'[m] # NoObject}
    BY Zenon, <1>1, <1>2, <1>8, <1>9 DEF TypeOK
  <2>2. behind' \subseteq Names
    BY Zenon, <1>1, <1>2 DEF TypeOK
  <2>3. QED
    BY Zenon, <1>1, <1>2, <1>5, <1>6, <1>7, <1>8, <2>1, <2>2 DEF TypeOK
<1>13. SentFits'
  <2>1. Fits(rep_list_'[n])
    BY Zenon, <1>8, NewObjectIs
  <2>2. QED
    BY Zenon, <1>1, <1>8, <2>1 DEF RegistryInv, SentFits, Registered, Fits, Current
<1>14. ObjectMap' /\ Known'
  <2>1. rep_list_'[n].info = i
    BY ZenonT(60), <1>8, NewObjectIs
  <2>2. QED
    BY Zenon, <1>1, <1>7, <1>8, <1>9, <2>1 DEF RegistryInv, ObjectMap, Known, Registered
<1>15. QED
  BY Zenon, <1>10, <1>11, <1>12, <1>13, <1>14 DEF RegistryInv
-----------------------------------------------------------------------------
(* repinfo::set changes one time of one record.                            *)
SerAt(f, i, t) == [f EXCEPT ![i].ser = t]
RepAt(f, i, t) == [f EXCEPT ![i].rep = t]

LEMMA SetIs ==
  ASSUME NEW f, NEW i
  PROVE  /\ SetSer(f, i) = SerAt(f, i, now) /\ SetRep(f, i) = RepAt(f, i, now)
         /\ DiskSer(i) = SerAt(disk, i, NineDigits(now))
         /\ DiskRep(i) = RepAt(disk, i, NineDigits(now))
BY DEF SetSer, SetRep, DiskSer, DiskRep, SerAt, RepAt

LEMMA SerTimed ==
  ASSUME NEW f \in [Records -> Infos], NEW i \in Records, NEW t \in Nat
  PROVE  LET g == SerAt(f, i, t) IN
         /\ g \in [Records -> Infos]
         /\ g[i].ser = t
         /\ \A j \in Records : /\ g[j].name = f[j].name /\ g[j].rep = f[j].rep
                               /\ g[j].available = f[j].available
                               /\ j # i => g[j] = f[j]
<1> DEFINE e == [f[i] EXCEPT !.ser = t]
           g == SerAt(f, i, t)
<1>1. f[i] \in Infos
  BY Zenon
<1>2. e \in Infos /\ e.name = f[i].name /\ e.rep = f[i].rep /\ e.available = f[i].available
      /\ e.ser = t
  BY Zenon, <1>1 DEF Infos
<1>3. g = [f EXCEPT ![i] = e]
  BY DEF SerAt
<1> HIDE DEF e
<1>4. QED
  BY Zenon, <1>2, <1>3

LEMMA RepTimed ==
  ASSUME NEW f \in [Records -> Infos], NEW i \in Records, NEW t \in Nat
  PROVE  LET g == RepAt(f, i, t) IN
         /\ g \in [Records -> Infos]
         /\ \A j \in Records : /\ g[j].name = f[j].name /\ g[j].ser = f[j].ser
                               /\ g[j].available = f[j].available
                               /\ j # i => g[j] = f[j]
<1> DEFINE e == [f[i] EXCEPT !.rep = t]
           g == RepAt(f, i, t)
<1>1. f[i] \in Infos
  BY Zenon
<1>2. e \in Infos /\ e.name = f[i].name /\ e.ser = f[i].ser /\ e.available = f[i].available
  BY Zenon, <1>1 DEF Infos
<1>3. g = [f EXCEPT ![i] = e]
  BY DEF RepAt
<1> HIDE DEF e
<1>4. QED
  BY Zenon, <1>2, <1>3

LEMMA PushStep ==
  ASSUME RegistryInv, Push
  PROVE  RegistryInv'
<1> DEFINE registered == {n \in Names : rep_list_[n] # NoObject}
           touched == {rep_list_[n].info : n \in registered}
<1>1. /\ writing' = FALSE
      /\ rep_list_' = [n \in Names |->
           IF n \in registered
             THEN [rep_list_[n] EXCEPT !.main_que = @ + 1] ELSE NoObject]
      /\ file' = [i \in Records |-> IF i \in touched THEN SetSer(file, i)[i] ELSE file[i]]
      /\ disk' = [i \in Records |-> IF i \in touched THEN DiskSer(i)[i] ELSE disk[i]]
      /\ behind' = behind \cup (Names \ registered)
      /\ UNCHANGED <<now, rep_map_list_, online, clearing, restarts, complete, cleared>>
  BY Zenon DEF Push
<1>2. TypeOK /\ NineDigits(now) \in Nat /\ NineDigits(now) >= 2 /\ now \in Nat
  BY Zenon, NineDigitsOfNow DEF RegistryInv
<1>3. ASSUME NEW i \in Records
      PROVE  /\ file'[i] \in Infos /\ file'[i].name = file[i].name
             /\ file'[i].available = file[i].available
             /\ disk'[i] \in Infos /\ disk'[i].name = disk[i].name
             /\ disk'[i].available = disk[i].available /\ disk'[i].rep = disk[i].rep
             /\ disk'[i].ser = disk[i].ser \/ disk'[i].ser >= 2
  <2>1. file \in [Records -> Infos] /\ disk \in [Records -> Infos]
    BY Zenon, <1>2 DEF TypeOK
  <2> DEFINE f == SerAt(file, i, now)
             d == SerAt(disk, i, NineDigits(now))
  <2>2. f[i] \in Infos /\ f[i].name = file[i].name /\ f[i].available = file[i].available
    BY <1>2, <2>1, SerTimed
  <2>3. /\ d[i] \in Infos /\ d[i].name = disk[i].name /\ d[i].available = disk[i].available
        /\ d[i].rep = disk[i].rep /\ d[i].ser = NineDigits(now)
    BY <1>2, <2>1, SerTimed
  <2>4. \/ file'[i] = f[i] /\ disk'[i] = d[i]
        \/ file'[i] = file[i] /\ disk'[i] = disk[i]
    BY Zenon, <1>1, SetIs
  <2> HIDE DEF f, d
  <2>5. file[i] \in Infos /\ disk[i] \in Infos
    BY Zenon, <2>1
  <2>6. CASE file'[i] = f[i] /\ disk'[i] = d[i]
    <3>1. disk'[i].ser = NineDigits(now)
      BY Zenon, <2>3, <2>6
    <3>2. disk'[i].ser >= 2
      BY Zenon, <1>2, <3>1
    <3>3. QED
      BY Zenon, <2>2, <2>3, <2>6, <3>2
  <2>7. QED
    BY Zenon, <2>4, <2>5, <2>6
<1>4. file' \in [Records -> Infos] /\ disk' \in [Records -> Infos]
  <2>1. /\ file' = [i \in Records |-> file'[i]] /\ disk' = [i \in Records |-> disk'[i]]
    BY Zenon, <1>1
  <2>2. QED
    BY Zenon, <1>3, <2>1
<1>5. ASSUME NEW n \in Names, Registered(n)
      PROVE  /\ rep_list_[n] \in Objects /\ rep_list_'[n] \in Objects
             /\ rep_list_'[n].info = rep_list_[n].info
             /\ rep_list_'[n].is_update_que = rep_list_[n].is_update_que
             /\ Fits(rep_list_'[n]) /\ rep_list_'[n] # NoObject
  <2>1. rep_list_[n] \in Objects /\ Fits(rep_list_[n])
    BY Zenon, <1>2, <1>5 DEF TypeOK, Registered, RegistryInv, SentFits
  <2>2. rep_list_'[n] = [rep_list_[n] EXCEPT !.main_que = @ + 1]
    BY Zenon, <1>1, <1>5 DEF Registered
  <2>3. /\ rep_list_'[n] \in Objects
        /\ rep_list_'[n].info = rep_list_[n].info
        /\ rep_list_'[n].is_update_que = rep_list_[n].is_update_que
    BY <2>1, <2>2 DEF Objects
  <2>4. Fits(rep_list_'[n])
    BY <2>1, <2>2 DEF Objects, Fits, Current
  <2>5. QED
    BY Zenon, <2>1, <2>3, <2>4, ObjectIs
<1>6. ASSUME NEW n \in Names, ~Registered(n)
      PROVE  rep_list_'[n] = NoObject
  BY Zenon, <1>1, <1>6 DEF Registered
<1>7. TypeOK'
  <2>1. rep_list_' \in [Names -> Objects \cup {NoObject}]
    <3>1. rep_list_' = [n \in Names |-> rep_list_'[n]]
      BY Zenon, <1>1
    <3>2. \A n \in Names : rep_list_'[n] \in Objects \cup {NoObject}
      BY Zenon, <1>5, <1>6
    <3>3. QED
      BY Zenon, <3>1, <3>2
  <2>2. online' \subseteq {n \in Names : rep_list_'[n] # NoObject}
    BY Zenon, <1>1, <1>2, <1>5 DEF TypeOK, Registered
  <2>3. QED
    BY Zenon, <1>1, <1>2, <1>4, <2>1, <2>2 DEF TypeOK
<1>8. SentFits'
  BY Zenon, <1>1, <1>5, <1>6 DEF SentFits, RegistryInv, Registered, Fits, Current
<1>9. ObjectMap' /\ MapKnows' /\ Taken' /\ Known'
  BY Zenon, <1>1, <1>3, <1>5, <1>6, SameRecords DEF Registered
<1>10. FirstSync'
  <2> SUFFICES ASSUME cleared = {}, NEW n \in Names, rep_list_'[n] # NoObject, n \notin complete
               PROVE  /\ rep_list_'[n].is_update_que
                      /\ disk'[rep_list_'[n].info].rep = 0
                      /\ disk'[rep_list_'[n].info].ser >= 2
    BY Zenon, <1>1 DEF FirstSync, Registered
  <2>1. Registered(n)
    BY Zenon, <1>6
  <2>2. rep_list_[n].info \in Records
    BY <1>5, <2>1 DEF Objects
  <2>3. /\ rep_list_[n].is_update_que /\ disk[rep_list_[n].info].rep = 0
        /\ disk[rep_list_[n].info].ser >= 2
    BY Zenon, <2>1 DEF RegistryInv, FirstSync
  <2>4. QED
    BY ZenonT(60), <1>3, <1>5, <2>1, <2>2, <2>3
<1>11. GapNeedsRestart'
  BY Zenon, <1>1, <1>6 DEF GapNeedsRestart, RegistryInv, Registered
<1>12. QED
  BY Zenon, <1>7, <1>8, <1>9, <1>10, <1>11 DEF RegistryInv

(* One slave's object changes, and perhaps the rep_time of its record.     *)
LEMMA ObjectStep ==
  ASSUME RegistryInv, NEW n \in Names, Registered(n), NEW q \in Objects, Fits(q),
         q.info = rep_list_[n].info, rep_list_' = [rep_list_ EXCEPT ![n] = q],
         NEW timed \in BOOLEAN,
         file' = IF timed THEN SetRep(file, q.info) ELSE file,
         disk' = IF timed THEN DiskRep(q.info) ELSE disk,
         complete' \in SUBSET Names, complete \subseteq complete',
         cleared = {} /\ n \notin complete' => q.is_update_que /\ ~timed,
         UNCHANGED <<now, rep_map_list_, online, clearing, writing, restarts, behind, cleared>>
  PROVE  RegistryInv'
<1>1. TypeOK /\ NineDigits(now) \in Nat /\ now \in Nat
  BY Zenon, NineDigitsOfNow DEF RegistryInv
<1>2. /\ rep_list_' \in [Names -> Objects \cup {NoObject}] /\ rep_list_'[n] = q
      /\ \A m \in Names : m # n => rep_list_'[m] = rep_list_[m]
  BY Zenon, <1>1 DEF TypeOK
<1>3. q # NoObject /\ q.info \in Records
  BY ObjectIs DEF Objects
<1>4. /\ file' \in [Records -> Infos] /\ disk' \in [Records -> Infos]
      /\ \A i \in Records : /\ file'[i].available = file[i].available
                            /\ file'[i].name = file[i].name
                            /\ disk'[i].available = disk[i].available
                            /\ disk'[i].name = disk[i].name
                            /\ disk'[i].ser = disk[i].ser
                            /\ i # q.info => disk'[i] = disk[i]
  <2>1. file \in [Records -> Infos] /\ disk \in [Records -> Infos]
    BY Zenon, <1>1 DEF TypeOK
  <2>2. CASE timed
    <3>1. file' = RepAt(file, q.info, now) /\ disk' = RepAt(disk, q.info, NineDigits(now))
      BY Zenon, <2>2, SetIs
    <3>2. QED
      BY <1>1, <1>3, <2>1, <3>1, RepTimed
  <2>3. QED
    BY Zenon, <2>1, <2>2
<1>5. TypeOK'
  <2>1. online' \subseteq {m \in Names : rep_list_'[m] # NoObject}
    BY Zenon, <1>1, <1>2, <1>3 DEF TypeOK
  <2>2. QED
    BY Zenon, <1>1, <1>2, <1>4, <2>1 DEF TypeOK
<1>6. SentFits'
  BY Zenon, <1>2 DEF SentFits, RegistryInv, Registered, Fits, Current
<1>7. ObjectMap' /\ MapKnows' /\ Taken' /\ Known'
  <2>1. \A m \in Names : /\ rep_list_[m] = NoObject => rep_list_'[m] = NoObject
                         /\ Registered(m) => /\ rep_list_'[m] # NoObject
                                             /\ rep_list_'[m].info = rep_list_[m].info
    BY Zenon, <1>2, <1>3 DEF Registered
  <2>2. QED
    BY Zenon, <1>4, <2>1, SameRecords
<1>8. FirstSync'
  <2> SUFFICES ASSUME cleared = {}, NEW m \in Names, rep_list_'[m] # NoObject, m \notin complete'
               PROVE  /\ rep_list_'[m].is_update_que
                      /\ disk'[rep_list_'[m].info].rep = 0
                      /\ disk'[rep_list_'[m].info].ser >= 2
    BY Zenon DEF FirstSync, Registered
  <2>1. Registered(m) /\ m \notin complete /\ rep_list_'[m].info = rep_list_[m].info
    BY Zenon, <1>2 DEF Registered
  <2>2. /\ rep_list_[m].is_update_que /\ disk[rep_list_[m].info].rep = 0
        /\ disk[rep_list_[m].info].ser >= 2
    BY Zenon, <2>1 DEF RegistryInv, FirstSync
  <2>3. disk'[rep_list_[m].info] = disk[rep_list_[m].info] /\ rep_list_'[m].is_update_que
    <3>1. CASE m = n
      BY Zenon, <1>2, <3>1
    <3>2. CASE m # n
      <4>1. rep_list_[m].info # q.info
        BY Zenon, <2>1, <3>2, Alone
      <4>2. rep_list_[m].info \in Records
        BY <1>1, <2>1 DEF TypeOK, Objects, Registered
      <4>3. QED
        BY Zenon, <1>2, <1>4, <2>2, <3>2, <4>1, <4>2
    <3>3. QED
      BY Zenon, <3>1, <3>2
  <2>4. QED
    BY Zenon, <2>1, <2>2, <2>3
<1>9. GapNeedsRestart'
  BY Zenon, <1>2 DEF GapNeedsRestart, RegistryInv, Registered
<1>10. QED
  BY Zenon, <1>5, <1>6, <1>7, <1>8, <1>9 DEF RegistryInv

LEMMA SendStep ==
  ASSUME RegistryInv, NEW n \in Names, Send(n)
  PROVE  RegistryInv'
<1> DEFINE o == rep_list_[n]
           ends == o.is_update_que /\ o.que = 0
           p == IF ends THEN [o EXCEPT !.is_update_que = FALSE] ELSE o
           first == ends /\ file[o.info].rep = 0
<1>1. /\ n \in online /\ o.sent = 0
      /\ IF Current(p) = 0
           THEN rep_list_' = [rep_list_ EXCEPT ![n] = p]
           ELSE \E k \in 1 .. SyncNum :
                  /\ k <= Current(p)
                  /\ rep_list_' = [rep_list_ EXCEPT ![n] = [p EXCEPT !.sent = k]]
      /\ file' = IF first THEN SetRep(file, o.info) ELSE file
      /\ disk' = IF first THEN DiskRep(o.info) ELSE disk
      /\ complete' = IF ends THEN complete \cup {n} ELSE complete
      /\ UNCHANGED <<now, rep_map_list_, online, clearing, writing, restarts, behind, cleared>>
  BY Zenon DEF Send
<1>2. TypeOK /\ Registered(n) /\ o \in Objects
  BY Zenon, <1>1 DEF RegistryInv, TypeOK, Registered
<1>3. p \in Objects /\ p.info = o.info /\ p.sent = 0 /\ p.is_update_que = (o.is_update_que /\ ~ends)
  BY Zenon, <1>1, <1>2 DEF Objects
<1>4. first \in BOOLEAN /\ (first => ends)
  BY Zenon
<1> HIDE DEF p, first
<1>5. PICK q \in Objects : /\ Fits(q) /\ q.info = o.info /\ q.is_update_que = p.is_update_que
                           /\ rep_list_' = [rep_list_ EXCEPT ![n] = q]
  <2>1. CASE Current(p) = 0
    <3>1. Fits(p)
      BY <1>3, <2>1 DEF Fits
    <3>2. QED
      BY Zenon, <1>1, <1>3, <2>1, <3>1
  <2>2. CASE Current(p) # 0
    <3>1. PICK k \in 1 .. SyncNum : /\ k <= Current(p)
                                    /\ rep_list_' = [rep_list_ EXCEPT ![n] = [p EXCEPT !.sent = k]]
      BY Zenon, <1>1, <2>2
    <3> DEFINE s == [p EXCEPT !.sent = k]
    <3>2. s \in Objects /\ s.info = p.info /\ s.is_update_que = p.is_update_que
      BY <1>3, SizeAssumption DEF Objects
    <3>3. Fits(s)
      BY <1>3, <3>1 DEF Fits, Current, Objects
    <3>4. QED
      BY Zenon, <1>3, <3>1, <3>2, <3>3
  <2>3. QED
    BY Zenon, <2>1, <2>2
<1>6. complete' \in SUBSET Names /\ complete \subseteq complete'
  BY Zenon, <1>1, <1>2 DEF TypeOK
<1>7. cleared = {} /\ n \notin complete' => q.is_update_que /\ ~first
  <2> SUFFICES ASSUME cleared = {}, n \notin complete'
               PROVE  q.is_update_que /\ ~first
    OBVIOUS
  <2>1. ~ends /\ n \notin complete
    BY Zenon, <1>1
  <2>2. o.is_update_que
    BY Zenon, <1>2, <2>1 DEF RegistryInv, FirstSync
  <2>3. QED
    BY Zenon, <1>3, <1>4, <1>5, <2>1, <2>2
<1>8. QED
  BY Zenon, <1>1, <1>2, <1>4, <1>5, <1>6, <1>7, ObjectStep

(* Pop takes no more than the queue holds.                                 *)
LEMMA PoppedIs ==
  ASSUME NEW o \in Objects, Fits(o)
  PROVE  /\ Popped(o) \in Objects /\ Fits(Popped(o)) /\ Popped(o).info = o.info
         /\ Popped(o).is_update_que = o.is_update_que
<1>1. CASE o.is_update_que
  <2> DEFINE k == o.que - o.sent
             m == [o EXCEPT !.que = k]
  <2>1. Popped(o) = [m EXCEPT !.sent = 0]
    BY Zenon, <1>1 DEF Popped
  <2>2. k \in Nat
    BY <1>1 DEF Objects, Fits, Current
  <2> HIDE DEF k
  <2>3. m \in Objects /\ m.info = o.info /\ m.is_update_que = o.is_update_que
    BY <2>2 DEF Objects
  <2> HIDE DEF m
  <2>4. /\ Popped(o) \in Objects /\ Popped(o).info = m.info /\ Popped(o).sent = 0
        /\ Popped(o).is_update_que = m.is_update_que
    BY <2>1, <2>3 DEF Objects
  <2>5. Fits(Popped(o))
    BY <2>4 DEF Objects, Fits, Current
  <2>6. QED
    BY Zenon, <2>3, <2>4, <2>5
<1>2. CASE ~o.is_update_que
  <2> DEFINE k == o.main_que - o.sent
             m == [o EXCEPT !.main_que = k]
  <2>1. Popped(o) = [m EXCEPT !.sent = 0]
    BY Zenon, <1>2 DEF Popped
  <2>2. k \in Nat
    BY <1>2 DEF Objects, Fits, Current
  <2> HIDE DEF k
  <2>3. m \in Objects /\ m.info = o.info /\ m.is_update_que = o.is_update_que
    BY <2>2 DEF Objects
  <2> HIDE DEF m
  <2>4. /\ Popped(o) \in Objects /\ Popped(o).info = m.info /\ Popped(o).sent = 0
        /\ Popped(o).is_update_que = m.is_update_que
    BY <2>1, <2>3 DEF Objects
  <2>5. Fits(Popped(o))
    BY <2>4 DEF Objects, Fits, Current
  <2>6. QED
    BY Zenon, <2>3, <2>4, <2>5
<1>3. QED
  BY Zenon, <1>1, <1>2

LEMMA AckStep ==
  ASSUME RegistryInv, NEW n \in Names, Ack(n)
  PROVE  RegistryInv'
<1> DEFINE o == rep_list_[n]
<1>1. /\ n \in online
      /\ rep_list_' = [rep_list_ EXCEPT ![n] = Popped(o)]
      /\ file' = IF PopSetsRep(o) THEN SetRep(file, o.info) ELSE file
      /\ disk' = IF PopSetsRep(o) THEN DiskRep(o.info) ELSE disk
      /\ UNCHANGED <<now, rep_map_list_, online, clearing, writing, restarts, behind,
                     complete, cleared>>
  BY Zenon DEF Ack
<1>2. TypeOK /\ Registered(n) /\ o \in Objects
  BY Zenon, <1>1 DEF RegistryInv, TypeOK, Registered
<1>3. Fits(o)
  BY Zenon, <1>2 DEF RegistryInv, SentFits
<1>4. /\ Popped(o) \in Objects /\ Fits(Popped(o)) /\ Popped(o).info = o.info
      /\ Popped(o).is_update_que = o.is_update_que
  BY Zenon, <1>2, <1>3, PoppedIs
<1>5. cleared = {} /\ n \notin complete' => o.is_update_que /\ ~PopSetsRep(o)
  BY Zenon, <1>1, <1>2 DEF RegistryInv, FirstSync, PopSetsRep
<1>6. complete' \in SUBSET Names /\ complete \subseteq complete' /\ PopSetsRep(o) \in BOOLEAN
  BY Zenon, <1>1, <1>2 DEF TypeOK, PopSetsRep
<1>7. QED
  BY Zenon, <1>1, <1>2, <1>4, <1>5, <1>6, ObjectStep

LEMMA LogoutStep ==
  ASSUME RegistryInv, NEW n \in Names, Logout(n)
  PROVE  RegistryInv'
<1> DEFINE o == rep_list_[n]
<1>1. /\ o # NoObject /\ n \notin online
      /\ file' = [file EXCEPT ![o.info].available = FALSE]
      /\ disk' = [disk EXCEPT ![o.info].available = FALSE]
      /\ clearing' = clearing \cup {o}
      /\ rep_list_' = [rep_list_ EXCEPT ![n] = NoObject]
      /\ cleared' = cleared \cup {n}
      /\ behind' = IF o.que + o.main_que > 0 THEN behind \cup {n} ELSE behind
      /\ UNCHANGED <<now, rep_map_list_, online, writing, restarts, complete>>
  BY Zenon DEF Logout
<1>2. TypeOK /\ o \in Objects /\ Fits(o) /\ o.info = rep_map_list_[n]
  BY Zenon, <1>1 DEF RegistryInv, TypeOK, SentFits, ObjectMap, Registered
<1>3. o.info \in Records
  BY <1>2 DEF Objects
<1>4. /\ file' \in [Records -> Infos] /\ disk' \in [Records -> Infos]
      /\ ~file'[o.info].available /\ ~disk'[o.info].available
      /\ file'[o.info].name = file[o.info].name /\ disk'[o.info].name = disk[o.info].name
      /\ \A i \in Records : i # o.info => file'[i] = file[i] /\ disk'[i] = disk[i]
  <2> DEFINE f == [file[o.info] EXCEPT !.available = FALSE]
             d == [disk[o.info] EXCEPT !.available = FALSE]
  <2>1. file \in [Records -> Infos] /\ disk \in [Records -> Infos]
    BY Zenon, <1>2 DEF TypeOK
  <2>2. file' = [file EXCEPT ![o.info] = f] /\ disk' = [disk EXCEPT ![o.info] = d]
    BY <1>1
  <2>3. file[o.info] \in Infos /\ disk[o.info] \in Infos
    BY Zenon, <1>3, <2>1
  <2>4. /\ f \in Infos /\ ~f.available /\ f.name = file[o.info].name
        /\ d \in Infos /\ ~d.available /\ d.name = disk[o.info].name
    BY Zenon, <2>3 DEF Infos
  <2> HIDE DEF f, d
  <2>5. QED
    BY Zenon, <1>3, <2>1, <2>2, <2>4
<1>5. /\ rep_list_' \in [Names -> Objects \cup {NoObject}] /\ rep_list_'[n] = NoObject
      /\ \A m \in Names : m # n => rep_list_'[m] = rep_list_[m]
  BY Zenon, <1>1, <1>2 DEF TypeOK
<1> HIDE DEF o
<1>6. TypeOK'
  <2>1. online' \subseteq {m \in Names : rep_list_'[m] # NoObject}
    BY Zenon, <1>1, <1>2, <1>5 DEF TypeOK
  <2>2. behind' \subseteq Names
    BY Zenon, <1>1, <1>2 DEF TypeOK
  <2>3. QED
    BY Zenon, <1>1, <1>2, <1>4, <1>5, <2>1, <2>2 DEF TypeOK
<1>7. SentFits'
  BY Zenon, <1>1, <1>2, <1>5 DEF SentFits, RegistryInv, Registered, Fits, Current
<1>8. ObjectMap' /\ Known'
  BY Zenon, <1>1, <1>5 DEF ObjectMap, Known, RegistryInv, Registered
<1>9. MapKnows'
  <2> SUFFICES ASSUME NEW i \in Records
               PROVE  /\ file'[i].available = disk'[i].available
                      /\ file'[i].name = disk'[i].name
                      /\ disk'[i].available => /\ disk'[i].name \in Names
                                               /\ rep_map_list_[disk'[i].name] = i
    BY Zenon, <1>1 DEF MapKnows
  <2>1. /\ file[i].available = disk[i].available /\ file[i].name = disk[i].name
        /\ disk[i].available => disk[i].name \in Names /\ rep_map_list_[disk[i].name] = i
    BY Zenon DEF RegistryInv, MapKnows
  <2>2. CASE i # o.info
    BY Zenon, <1>4, <2>1, <2>2
  <2>3. CASE i = o.info
    <3>1. file'[i].available \in BOOLEAN /\ disk'[i].available \in BOOLEAN
      BY Zenon, <1>4 DEF Infos
    <3>2. ~file'[i].available /\ ~disk'[i].available
      BY Zenon, <1>4, <2>3
    <3>3. file'[i].name = disk'[i].name
      BY Zenon, <1>4, <2>1, <2>3
    <3>4. file'[i].available = disk'[i].available
      BY <3>1, <3>2
    <3>5. QED
      BY Zenon, <3>2, <3>3, <3>4
  <2>4. QED
    BY Zenon, <2>2, <2>3
<1>10. Taken'
  <2> SUFFICES ASSUME NEW m \in Names, rep_map_list_[m] # 0, LeftBy(rep_map_list_[m])' = {}
               PROVE  file'[rep_map_list_[m]].available /\ file'[rep_map_list_[m]].name = m
    BY Zenon, <1>1 DEF Taken
  <2>1. n \in cleared' /\ cleared \subseteq cleared'
    BY Zenon, <1>1
  <2>2. rep_map_list_[m] # o.info
    BY Zenon, <1>1, <1>2, <2>1 DEF LeftBy
  <2>3. LeftBy(rep_map_list_[m]) = {}
    BY Zenon, <1>1, <2>1 DEF LeftBy
  <2>4. rep_map_list_[m] \in Records
    BY Zenon, <1>2 DEF TypeOK
  <2>5. QED
    BY Zenon, <1>4, <2>2, <2>3, <2>4 DEF RegistryInv, Taken
<1>11. FirstSync' /\ GapNeedsRestart'
  <2>1. n \in cleared' /\ cleared \subseteq cleared'
    BY Zenon, <1>1
  <2>2. \A m \in Names : m # n /\ m \in behind' => m \in behind
    BY Zenon, <1>1
  <2>3. QED
    BY Zenon, <1>1, <1>5, <2>1, <2>2 DEF FirstSync, RegistryInv, GapNeedsRestart
<1>12. QED
  BY Zenon, <1>6, <1>7, <1>8, <1>9, <1>10, <1>11 DEF RegistryInv

LEMMA ClearRepStep ==
  ASSUME RegistryInv, NEW o \in clearing, ClearRep(o)
  PROVE  RegistryInv'
<1>1. TypeOK /\ o \in Objects /\ Fits(o)
  BY Zenon DEF RegistryInv, TypeOK, SentFits
<1>2. Popped(o) \in Objects /\ Fits(Popped(o))
  BY Zenon, <1>1, PoppedIs
<1>3. \A p \in clearing' : p \in clearing \/ p = Popped(o)
  BY Zenon DEF ClearRep
<1>4. clearing' \subseteq Objects /\ \A p \in clearing' : Fits(p)
  BY Zenon, <1>1, <1>2, <1>3 DEF TypeOK, RegistryInv, SentFits
<1>5. TypeOK'
  BY Zenon, <1>1, <1>4 DEF TypeOK, ClearRep
<1>6. ObjectMap' /\ MapKnows' /\ Taken' /\ Known'
  BY Zenon, SameRecords DEF ClearRep, Registered
<1>7. SentFits' /\ FirstSync' /\ GapNeedsRestart'
  BY Zenon, <1>4 DEF RegistryInv, SentFits, FirstSync, GapNeedsRestart, Registered, ClearRep, Fits, Current
<1>8. QED
  BY Zenon, <1>5, <1>6, <1>7 DEF RegistryInv
-----------------------------------------------------------------------------
(* What GentFile::Init reads: the record as it is in the file, but for a   *)
(* rep_time of 0.                                                          *)
LEMMA RereadIs ==
  ASSUME NEW r \in Infos, NEW digit \in {0, 1}
  PROVE  LET q == Reread(r, digit) IN
         /\ q \in Infos /\ q.name = r.name /\ q.available = r.available /\ q.ser = r.ser
         /\ r.rep = 0 => q.rep \in {0, 1}
<1> DEFINE q == [r EXCEPT !.rep = digit]
<1>1. q \in Infos /\ q.name = r.name /\ q.available = r.available /\ q.ser = r.ser
      /\ q.rep = digit
  <2>1. digit \in Nat
    OBVIOUS
  <2>2. QED
    BY Zenon, <2>1 DEF Infos
<1> HIDE DEF q
<1>2. Reread(r, digit) = q \/ Reread(r, digit) = r
  BY Zenon DEF Reread, q
<1>3. CASE Reread(r, digit) = q
  BY Zenon, <1>1, <1>3
<1>4. CASE Reread(r, digit) = r
  BY Zenon, <1>4
<1>5. QED
  BY Zenon, <1>2, <1>3, <1>4

LEMMA RestartStep ==
  ASSUME RegistryInv, Restart
  PROVE  RegistryInv'
<1> DEFINE loaded == {n \in Names : \E i \in Records : LoadedNames(n, i)}
           last(n) == CHOOSE i \in Records :
                        /\ LoadedNames(n, i)
                        /\ \A j \in Records : LoadedNames(n, j) => j <= i
           at == [n \in Names |-> IF n \in loaded THEN last(n) ELSE 0]
           read(digit) == [i \in Records |-> Reread(disk[i], digit)]
           all(digit) == {n \in loaded : NeedsAll(read(digit)[at[n]])}
           first(digit) == {at[n] : n \in {m \in all(digit) : read(digit)[at[m]].ser = 0}}
<1>1. PICK digit \in {0, 1} :
        /\ restarts < MaxRestart /\ restarts' = restarts + 1
        /\ disk' = [i \in Records |-> IF i \in first(digit) THEN DiskSer(i)[i] ELSE disk[i]]
        /\ file' = [i \in Records |-> IF i \in first(digit) THEN SetSer(read(digit), i)[i]
                                                            ELSE read(digit)[i]]
        /\ rep_map_list_' = at
        /\ rep_list_' = [n \in Names |-> IF n \in loaded
                                           THEN NewObject(at[n], read(digit)[at[n]])
                                           ELSE NoObject]
        /\ online' = {} /\ clearing' = {} /\ writing' = FALSE
        /\ behind' \subseteq behind \cup Names
        /\ UNCHANGED <<now, complete, cleared>>
  BY Zenon DEF Restart
<1> DEFINE rd == read(digit)
<1>2. TypeOK /\ NineDigits(now) \in Nat /\ NineDigits(now) >= 2 /\ now \in Nat
  BY Zenon, NineDigitsOfNow DEF RegistryInv
<1>3. ASSUME NEW n \in loaded
      PROVE  /\ n \in Names /\ at[n] \in Records /\ LoadedNames(n, at[n])
             /\ rep_map_list_[n] = at[n]
  <2>1. n \in Names /\ \A i \in Records : LoadedNames(n, i) => rep_map_list_[n] = i
    BY Zenon DEF LoadedNames, RegistryInv, MapKnows
  <2>2. PICK i \in Records : LoadedNames(n, i)
    BY Zenon
  <2>3. \A j \in Records : LoadedNames(n, j) => j <= i
    <3> SUFFICES ASSUME NEW j \in Records, LoadedNames(n, j)
                 PROVE  j <= i
      OBVIOUS
    <3>1. j = i
      BY Zenon, <2>1, <2>2
    <3>2. i \in Nat
      BY DEF Records
    <3>3. QED
      BY SMT, <3>1, <3>2
  <2>4. last(n) \in Records /\ LoadedNames(n, last(n))
    BY Zenon, <2>2, <2>3
  <2>5. at[n] = last(n)
    BY Zenon, <2>1
  <2>6. QED
    BY Zenon, <2>1, <2>4, <2>5
<1>4. ASSUME NEW n \in Names, n \notin loaded
      PROVE  at[n] = 0 /\ \A i \in Records : ~LoadedNames(n, i)
  BY Zenon, <1>4
<1>5. ASSUME NEW i \in Records
      PROVE  /\ rd[i] \in Infos /\ rd[i].name = disk[i].name
             /\ rd[i].available = disk[i].available /\ rd[i].ser = disk[i].ser
             /\ disk[i].rep = 0 => rd[i].rep \in {0, 1}
  <2>1. disk[i] \in Infos /\ rd[i] = Reread(disk[i], digit)
    BY Zenon, <1>2 DEF TypeOK
  <2> HIDE DEF rd
  <2>2. QED
    BY <2>1, RereadIs
<1>6. rd \in [Records -> Infos] /\ disk \in [Records -> Infos]
  <2>1. rd = [i \in Records |-> rd[i]]
    BY Zenon
  <2> HIDE DEF rd
  <2>2. QED
    BY Zenon, <1>2, <1>5, <2>1 DEF TypeOK
<1>7. rep_map_list_' = at /\ DOMAIN at = Names
  BY Zenon, <1>1
<1>8. ASSUME NEW n \in loaded
      PROVE  rep_list_'[n] = NewObject(at[n], rd[at[n]])
  BY Zenon, <1>1, <1>3
<1>9. ASSUME NEW n \in Names, n \notin loaded
      PROVE  rep_list_'[n] = NoObject
  BY Zenon, <1>1, <1>9
<1>10. ASSUME NEW i \in Records
       PROVE  /\ file'[i] \in Infos /\ file'[i].name = disk[i].name
              /\ file'[i].available = disk[i].available
              /\ disk'[i] \in Infos /\ disk'[i].name = disk[i].name
              /\ disk'[i].available = disk[i].available /\ disk'[i].rep = disk[i].rep
              /\ disk'[i].ser = disk[i].ser \/ disk'[i].ser >= 2
  <2> DEFINE f == SerAt(rd, i, now)
             d == SerAt(disk, i, NineDigits(now))
  <2>1. \/ file'[i] = f[i] /\ disk'[i] = d[i]
        \/ file'[i] = rd[i] /\ disk'[i] = disk[i]
    BY Zenon, <1>1, SetIs
  <2> HIDE DEF rd
  <2>2. f[i] \in Infos /\ f[i].name = rd[i].name /\ f[i].available = rd[i].available
    BY <1>2, <1>6, SerTimed
  <2>3. /\ d[i] \in Infos /\ d[i].name = disk[i].name /\ d[i].available = disk[i].available
        /\ d[i].rep = disk[i].rep /\ d[i].ser = NineDigits(now)
    BY <1>2, <1>6, SerTimed
  <2> HIDE DEF f, d
  <2>4. CASE file'[i] = f[i] /\ disk'[i] = d[i]
    <3>1. disk'[i].ser = NineDigits(now)
      BY Zenon, <2>3, <2>4
    <3>2. disk'[i].ser >= 2
      BY Zenon, <1>2, <3>1
    <3>3. QED
      BY Zenon, <1>5, <2>2, <2>3, <2>4, <3>2
  <2>5. CASE file'[i] = rd[i] /\ disk'[i] = disk[i]
    BY Zenon, <1>5, <1>6, <2>5
  <2>6. QED
    BY Zenon, <2>1, <2>4, <2>5
<1>11. file' \in [Records -> Infos] /\ disk' \in [Records -> Infos]
  <2>1. file' = [i \in Records |-> file'[i]] /\ disk' = [i \in Records |-> disk'[i]]
    BY Zenon, <1>1
  <2>2. QED
    BY Zenon, <1>10, <2>1
<1> HIDE DEF loaded, at, rd, last, read, all, first
<1>12. rep_list_' = [n \in Names |-> rep_list_'[n]]
  BY Zenon, <1>1
<1>13. ASSUME NEW n \in loaded
       PROVE  /\ rep_list_'[n] \in Objects /\ rep_list_'[n].info = at[n] /\ Fits(rep_list_'[n])
              /\ rep_list_'[n].is_update_que = NeedsAll(rd[at[n]])
              /\ rep_list_'[n] # NoObject
  <2> DEFINE o == NewObject(at[n], rd[at[n]])
  <2>1. o \in Objects /\ o.info = at[n] /\ Fits(o) /\ o.is_update_que = NeedsAll(rd[at[n]])
    <3>1. at[n] \in Records
      BY Zenon, <1>3
    <3>2. QED
      BY Zenon, <3>1, NewObjectIs
  <2>2. o # NoObject
    BY Zenon, <2>1, ObjectIs
  <2>3. rep_list_'[n] = o
    BY Zenon, <1>8
  <2> HIDE DEF o
  <2>4. QED
    BY Zenon, <2>1, <2>2, <2>3
<1>14. TypeOK'
  <2>1. \A n \in Names : /\ rep_list_'[n] \in Objects \cup {NoObject}
                         /\ at[n] \in Records \cup {0}
    BY Zenon, <1>3, <1>4, <1>9, <1>13
  <2>2. rep_list_' \in [Names -> Objects \cup {NoObject}]
    BY Zenon, <1>12, <2>1
  <2>3. rep_map_list_' \in [Names -> Records \cup {0}]
    <3>1. at = [n \in Names |-> at[n]]
      BY Zenon DEF at
    <3>2. QED
      BY Zenon, <1>7, <2>1, <3>1
  <2>4. restarts' \in 0 .. MaxRestart
    BY <1>1, <1>2, TimeAssumption DEF TypeOK
  <2>5. behind' \subseteq Names
    BY Zenon, <1>1, <1>2 DEF TypeOK
  <2>6. QED
    BY Zenon, <1>1, <1>2, <1>11, <2>2, <2>3, <2>4, <2>5 DEF TypeOK
<1>15. SentFits' /\ ObjectMap' /\ Known'
  <2>1. SentFits'
    BY Zenon, <1>1, <1>9, <1>13 DEF SentFits, Registered, Fits, Current
  <2>2. ObjectMap' /\ Known'
    BY Zenon, <1>4, <1>7, <1>9, <1>13 DEF ObjectMap, Known, Registered
  <2>3. QED
    BY Zenon, <2>1, <2>2
<1>16. MapKnows'
  <2> SUFFICES ASSUME NEW i \in Records, disk'[i].available
               PROVE  disk'[i].name \in Names /\ at[disk'[i].name] = i
    BY Zenon, <1>7, <1>10 DEF MapKnows
  <2> DEFINE n == disk[i].name
  <2>1. disk[i].available /\ disk'[i].name = n
    BY Zenon, <1>10
  <2>2. n \in Names /\ rep_map_list_[n] = i
    BY Zenon, <2>1 DEF RegistryInv, MapKnows
  <2>3. n \in loaded
    BY Zenon, <2>1, <2>2 DEF loaded, LoadedNames
  <2>4. QED
    BY Zenon, <1>3, <2>1, <2>2, <2>3
<1>17. Taken'
  <2> SUFFICES ASSUME NEW n \in Names, at[n] # 0
               PROVE  file'[at[n]].available /\ file'[at[n]].name = n
    BY Zenon, <1>7 DEF Taken
  <2>1. n \in loaded
    BY Zenon, <1>4
  <2>2. QED
    BY Zenon, <1>3, <1>10, <2>1 DEF LoadedNames
<1>18. FirstSync'
  <2> SUFFICES ASSUME cleared = {}, NEW n \in Names, rep_list_'[n] # NoObject, n \notin complete
               PROVE  /\ rep_list_'[n].is_update_que
                      /\ disk'[rep_list_'[n].info].rep = 0
                      /\ disk'[rep_list_'[n].info].ser >= 2
    BY Zenon, <1>1 DEF FirstSync, Registered
  <2>1. n \in loaded
    BY Zenon, <1>9
  <2>2. at[n] \in Records /\ rep_map_list_[n] = at[n] /\ at[n] # 0
    BY <1>3, <2>1 DEF Records
  <2>3. Registered(n) /\ rep_list_[n].info = at[n]
    BY Zenon, <2>2 DEF RegistryInv, Known, ObjectMap
  <2>4. disk[at[n]].rep = 0 /\ disk[at[n]].ser >= 2
    BY Zenon, <2>3 DEF RegistryInv, FirstSync
  <2>5. NeedsAll(rd[at[n]]) = TRUE
    <3>1. rd[at[n]].ser >= 2 /\ rd[at[n]].rep \in {0, 1} /\ rd[at[n]].ser \in Nat
      BY Zenon, <1>5, <2>2, <2>4 DEF Infos
    <3>2. QED
      BY <3>1 DEF NeedsAll
  <2>6. QED
    BY ZenonT(60), <1>10, <1>13, <2>1, <2>2, <2>4, <2>5
<1>19. GapNeedsRestart'
  <2>1. restarts' > 0
    BY <1>1, <1>2 DEF TypeOK
  <2>2. QED
    BY Zenon, <2>1 DEF GapNeedsRestart
<1>20. QED
  BY Zenon, <1>14, <1>15, <1>16, <1>17, <1>18, <1>19 DEF RegistryInv
-----------------------------------------------------------------------------
LEMMA InitInv ==
  ASSUME Init
  PROVE  RegistryInv
<1> USE DEF Init
<1>1. TypeOK
  <2>1. now \in StartTime .. MaxTime /\ restarts \in 0 .. MaxRestart
    <3>1. StartTime \in Nat /\ MaxTime \in Nat /\ MaxRestart \in Nat /\ MaxTime >= StartTime
      BY Zenon, TimeAssumption
    <3>2. now = StartTime /\ restarts = 0
      BY Zenon
    <3> HIDE DEF Init
    <3>3. QED
      BY <3>1, <3>2
  <2>2. file \in [Records -> Infos] /\ disk \in [Records -> Infos]
    BY Zenon DEF Infos
  <2>3. QED
    BY Zenon, <2>1, <2>2 DEF TypeOK
<1>2. \A i \in Records : ~file[i].available /\ ~disk[i].available /\ file[i] = disk[i]
  BY Zenon
<1>3. MapKnows
  BY Zenon, <1>2 DEF MapKnows
<1>4. SentFits /\ ObjectMap /\ Taken /\ Known /\ FirstSync /\ GapNeedsRestart
  BY Zenon DEF SentFits, ObjectMap, Taken, Known, FirstSync, GapNeedsRestart, Registered
<1>5. QED
  BY Zenon, <1>1, <1>3, <1>4 DEF RegistryInv

LEMMA InvNext ==
  ASSUME RegistryInv, [Next]_vars
  PROVE  RegistryInv'
<1>1. TypeOK
  BY Zenon DEF RegistryInv
<1>2. CASE \E n \in Names : Connect(n) \/ Disconnect(n)
  <2>1. /\ UNCHANGED <<now, file, disk, rep_map_list_, rep_list_, clearing, writing, restarts,
                       behind, complete, cleared>>
        /\ online' \subseteq {n \in Names : Registered(n)}
    BY Zenon, <1>1, <1>2 DEF Connect, Disconnect, TypeOK, Registered
  <2>2. QED
    BY Zenon, <1>1, <2>1, QuietStep DEF TypeOK
<1>3. CASE Write \/ UNCHANGED vars
  <2>1. /\ UNCHANGED <<now, file, disk, rep_map_list_, rep_list_, online, clearing, restarts,
                       behind, complete, cleared>>
        /\ writing' \in BOOLEAN
    BY Zenon, <1>1, <1>3 DEF Write, TypeOK, vars
  <2>2. online' \subseteq {n \in Names : Registered(n)}
    BY Zenon, <1>1, <2>1 DEF TypeOK, Registered
  <2>3. QED
    BY Zenon, <1>1, <2>1, <2>2, QuietStep DEF TypeOK
<1>4. CASE Tick
  <2>1. now' \in StartTime .. MaxTime
    BY <1>1, <1>4, TimeAssumption DEF TypeOK, Tick
  <2>2. online' \subseteq {n \in Names : Registered(n)} /\ writing' \in BOOLEAN
    BY Zenon, <1>1, <1>4 DEF TypeOK, Registered, Tick
  <2>3. QED
    BY Zenon, <1>4, <2>1, <2>2, QuietStep DEF Tick
<1>5. QED
  BY Zenon, <1>2, <1>3, <1>4, RegisterStep, SendStep, AckStep, LogoutStep, PushStep,
     RestartStep, ClearRepStep DEF Next

(* In every reachable state names, records in memory and in the file and  *)
(* the objects of the slaves agree as RegistryInv says.                    *)
THEOREM RegistryInvariance == Spec => []RegistryInv
<1>1. Init => RegistryInv
  BY InitInv
<1>2. RegistryInv /\ [Next]_vars => RegistryInv'
  BY InvNext
<1>3. QED
  BY <1>1, <1>2, PTL DEF Spec

(* No two records in use carry the same name.                              *)
THEOREM OneRecordAlways == Spec => []OneRecordPerName
<1>1. ASSUME RegistryInv
      PROVE  OneRecordPerName
  <2> SUFFICES ASSUME NEW i \in Records, NEW j \in Records, disk[i].available,
                      disk[j].available, disk[i].name = disk[j].name
               PROVE  i = j
    BY Zenon DEF OneRecordPerName
  <2>1. rep_map_list_[disk[i].name] = i /\ rep_map_list_[disk[j].name] = j
    BY Zenon, <1>1 DEF RegistryInv, MapKnows
  <2>2. QED
    BY <2>1
<1>2. QED
  BY <1>1, RegistryInvariance, PTL

(* Slaves share a record only when a cleared name still leads to it.       *)
THEOREM SharingNeedsClear == Spec => []SharedNeedsClear
<1>1. ASSUME RegistryInv
      PROVE  SharedNeedsClear
  <2> SUFFICES ASSUME NEW m \in Names, NEW n \in Names, Share(m, n),
                      \A k \in cleared : rep_map_list_[k] # rep_list_[m].info
               PROVE  FALSE
    BY Zenon DEF SharedNeedsClear
  <2> DEFINE i == rep_list_[m].info
  <2>1. rep_map_list_[m] = i /\ rep_map_list_[n] = rep_list_[n].info /\ rep_list_[n].info = i
    BY <1>1 DEF RegistryInv, ObjectMap, Registered, Share
  <2>2. rep_list_[m] \in Objects
    BY Zenon, <1>1 DEF RegistryInv, TypeOK, Share
  <2>3. i # 0
    BY <2>2 DEF Objects, Records
  <2> HIDE DEF i
  <2>4. LeftBy(i) = {}
    BY Zenon DEF LeftBy, i
  <2>5. file[i].name = m /\ file[i].name = n
    <3>1. LeftBy(rep_map_list_[m]) = {} /\ LeftBy(rep_map_list_[n]) = {}
      BY Zenon, <2>1, <2>4
    <3>2. file[rep_map_list_[m]].name = m /\ file[rep_map_list_[n]].name = n
      BY Zenon, <1>1, <2>1, <2>3, <3>1 DEF RegistryInv, Taken
    <3>3. QED
      BY Zenon, <2>1, <3>2
  <2>6. QED
    BY Zenon, <2>5 DEF Share
<1>2. QED
  BY <1>1, RegistryInvariance, PTL

(* Until its first synchronisation is complete, a slave that is read from  *)
(* the file again begins a full synchronisation.                           *)
THEOREM FirstSyncAlwaysResumes == Spec => []FirstSyncResumes
<1>1. ASSUME RegistryInv
      PROVE  FirstSyncResumes
  <2> SUFFICES ASSUME cleared = {}, NEW n \in Names, Registered(n), n \notin complete
               PROVE  NeedsAll(disk[rep_list_[n].info])
    BY Zenon DEF FirstSyncResumes, Registered
  <2>1. disk[rep_list_[n].info].rep = 0 /\ disk[rep_list_[n].info].ser >= 2
    BY Zenon, <1>1 DEF RegistryInv, FirstSync
  <2>2. disk[rep_list_[n].info].ser \in Nat
    BY Zenon, <1>1 DEF RegistryInv, TypeOK, Objects, Infos, Registered
  <2>3. QED
    BY <2>1, <2>2 DEF NeedsAll
<1>2. QED
  BY <1>1, RegistryInvariance, PTL

(* A slave misses an update that is not queued only after a restart or a   *)
(* clear.                                                                  *)
THEOREM GapAlwaysNeedsRestart == Spec => []GapNeedsRestart
<1>1. RegistryInv => GapNeedsRestart
  BY Zenon DEF RegistryInv
<1>2. QED
  BY <1>1, RegistryInvariance, PTL
=============================================================================
