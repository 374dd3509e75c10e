---------------------------- MODULE GentDbProofs ----------------------------
(***************************************************************************)
(* Theorems about GentDb, for any workers, keys, expiries, clearings,      *)
(* failures of leveldb and restarts.                                       *)
(***************************************************************************)
EXTENDS GentDb, TLAPS

(* What a thread may be doing, and who holds clear_lock.                   *)
Roles ==
  /\ pc[Cleaner].at \in {"idle", "clear"} \cup Deleting
  /\ \A w \in Workers :
       /\ pc[w].at # "clear"
       /\ pc[w].at = "batch_meta" => \A e \in pc[w].rest : e[2] = 0

Holds(t) == \/ pc[t].at \in Putting \cup Batching
            \/ t = Cleaner /\ pc[t].at # "idle"
Lock == \A t, u \in Threads : Holds(t) /\ Holds(u) => t = u

BaseInv == TypeOK /\ Roles /\ Lock

(* A call that puts or deletes a key, and one between the write to db and  *)
(* the write to meta_db.                                                   *)
Puts(r, k) == \/ r.at \in Putting /\ r.key = k
              \/ \E e \in r.rest : e[1] = k /\ r.at \in Batching
Dels(r, k) == r.at \in Deleting /\ r.key = k
PutsHalf(r, k) ==
  \/ r.at \in {"put_num", "put_meta"} /\ r.key = k /\ r.ok
  \/ r.at = "batch_meta" /\ <<k, 0>> \in r.rest
DelsHalf(r, k) == r.at \in {"del_num", "del_meta"} /\ r.key = k
HalfPut(k) == \E t \in Threads : PutsHalf(pc[t], k)
HalfDel(k) == \E t \in Threads : DelsHalf(pc[t], k)

(* A value that is half put is the one that is being put, or was deleted   *)
(* since.                                                                  *)
NewValue(r) == IF r.at = "batch_meta" THEN 0 ELSE r.expire
HalfValue ==
  \A t \in Threads, k \in Keys :
    PutsHalf(pc[t], k) => db[k] = None \/ db[k] = NewValue(pc[t])

(* A key that is not half put has the expiry of its value.                 *)
Own ==
  \A k \in Keys : k \notin torn /\ ~HalfPut(k) =>
    db[k] = None \/ meta_db[k] = None \/ meta_db[k] = db[k]

(* The keys that are not in raced: half a put leaves a value, half a del   *)
(* leaves none, and a key that is neither is in both databases or in none. *)
NoMix == \A k \in Keys \ raced : ~(PuttingKey(k) /\ DeletingKey(k))
HalfSeen ==
  \A k \in Keys \ raced : /\ HalfPut(k) => db[k] # None
                          /\ HalfDel(k) => db[k] = None
Synced ==
  \A k \in Keys \ (torn \cup raced) :
    ~HalfPut(k) /\ ~HalfDel(k) => (db[k] = None <=> meta_db[k] = None)

(* The snapshot of ClearExpireKey stays true of the values that are there: *)
(* nobody puts while it holds clear_lock.                                  *)
Snapshot ==
  /\ pc[Cleaner].at # "idle" =>
       \A e \in pc[Cleaner].rest :
         /\ e[2] # 0
         /\ db[e[1]] # None /\ e[1] \notin torn => db[e[1]] = e[2]
  /\ pc[Cleaner].at = "del_db" =>
       LET v == db[pc[Cleaner].key]
       IN  v # None /\ pc[Cleaner].key \notin torn => v # 0 /\ v <= now

DataInv == HalfValue /\ Own /\ NoMix /\ HalfSeen /\ Synced /\ Snapshot

(* What is still to be added to key_num fits; a deletion that is about to  *)
(* count down is the only one, and nobody is about to set key_num.         *)
Counting == Putting \cup Batching \cup {"count"}
Adding == {"put_db", "put_num"} \cup Batching
NumOne ==
  \A t \in Threads :
    /\ pc[t].at \in Counting => pc[t].num <= MaxNum
    /\ pc[t].at = "put_db" => pc[t].num \in {0, 1}
    /\ pc[t].at = "put_num" => pc[t].num = 1
NumFits ==
  /\ key_num <= 2 * MaxNum
  /\ number # None => number <= 2 * MaxNum
  /\ \A t \in Threads : pc[t].at \in Adding => key_num + pc[t].num <= 2 * MaxNum
  /\ \A t \in Threads : pc[t].at = "del_num" =>
       /\ key_num > 0
       /\ \A u \in Threads \ {t} : pc[u].at \notin {"del_num", "count"}
NumInv == NumOne /\ (~crossed => NumFits)
-----------------------------------------------------------------------------
(* Types: the parts of TypeOK, and the steps of one thread.                *)
StoreOK ==
  /\ now \in 1 .. MaxTime
  /\ db \in [Keys -> Nat \cup {None}] /\ meta_db \in [Keys -> Nat \cup {None}]
  /\ is_clear \in BOOLEAN /\ starting \in 0 .. MaxStarting /\ crashes \in 0 .. MaxCrash
  /\ torn \subseteq Keys /\ raced \subseteq Keys /\ crossed \in BOOLEAN
CountOK ==
  /\ key_num \in 0 .. Modulus - 1 /\ number \in (0 .. Modulus - 1) \cup {None}
  /\ write_num \in 0 .. MaxWriteClear + 1 /\ trigger_num_save \in 0 .. SaveEvery
CallsOK ==
  /\ pc \in [Threads -> Calls]
  /\ \A t \in Threads :
       pc[t].at \in {"get"} \cup Putting \cup Deleting => pc[t].key \in Keys

LEMMA TypeParts == TypeOK <=> StoreOK /\ CountOK /\ CallsOK
BY Zenon DEF TypeOK, StoreOK, CountOK, CallsOK

Moves(t) == pc' \in [Threads -> Calls] /\ \A u \in Threads \ {t} : pc'[u] = pc[u]

LEMMA IdleIs ==
  /\ Idle \in Calls /\ Idle.at = "idle" /\ Idle.key = None /\ Idle.expire = 0
  /\ Idle.num = 0 /\ Idle.ok = TRUE /\ Idle.rest = {}
BY DEF Idle, Calls, Steps

LEMMA SetMoves ==
  ASSUME TypeOK, NEW t \in Threads, NEW r \in Calls, pc' = [pc EXCEPT ![t] = r]
  PROVE  Moves(t) /\ pc'[t] = r
BY Zenon DEF TypeOK, Moves

LEMMA ReturnMoves ==
  ASSUME TypeOK, NEW t \in Threads, Return(t)
  PROVE  Moves(t) /\ pc'[t] = Idle
BY Zenon, SetMoves, IdleIs DEF Return

LEMMA GotoMoves ==
  ASSUME TypeOK, NEW t \in Threads, NEW step \in Steps, Goto(t, step)
  PROVE  /\ Moves(t) /\ pc'[t].at = step
         /\ pc'[t].key = pc[t].key /\ pc'[t].expire = pc[t].expire
         /\ pc'[t].num = pc[t].num /\ pc'[t].ok = pc[t].ok /\ pc'[t].rest = pc[t].rest
<1> DEFINE r == [pc[t] EXCEPT !.at = step]
<1>1. pc[t] \in Calls
  BY Zenon DEF TypeOK
<1>2. /\ r \in Calls /\ r.at = step /\ r.key = pc[t].key /\ r.expire = pc[t].expire
      /\ r.num = pc[t].num /\ r.ok = pc[t].ok /\ r.rest = pc[t].rest
  BY <1>1 DEF Calls
<1>3. pc' = [pc EXCEPT ![t] = r]
  BY DEF Goto
<1> HIDE DEF r
<1>4. Moves(t) /\ pc'[t] = r
  BY Zenon, <1>2, <1>3, SetMoves
<1>5. QED
  BY Zenon, <1>2, <1>4

LEMMA FreeHolds ==
  ASSUME LockFree, NEW t \in Threads
  PROVE  ~Holds(t)
BY Zenon, WorkersAssumption DEF LockFree, Holds, Threads, Putting, Batching

(* A step of one thread keeps roles and lock when it keeps to its own.     *)
LEMMA BaseKept ==
  ASSUME BaseInv, NEW t \in Threads, Moves(t), StoreOK', CountOK',
         pc'[t].at \in {"get"} \cup Putting \cup Deleting => pc'[t].key \in Keys,
         t = Cleaner => pc'[t].at \in {"idle", "clear"} \cup Deleting,
         t \in Workers => /\ pc'[t].at # "clear"
                          /\ pc'[t].at = "batch_meta" => \A e \in pc'[t].rest : e[2] = 0,
         Holds(t)' => Holds(t) \/ LockFree
  PROVE  BaseInv'
<1>1. TypeOK'
  <2>1. CallsOK'
    BY Zenon, TypeParts DEF CallsOK, BaseInv, Moves
  <2>2. StoreOK' /\ CountOK' /\ CallsOK' => TypeOK'
    BY Zenon DEF TypeOK, StoreOK, CountOK, CallsOK
  <2>3. QED
    BY Zenon, <2>1, <2>2
<1>2. Roles'
  BY ZenonT(60), WorkersAssumption DEF Roles, BaseInv, Moves, Threads
<1>3. Lock'
  <2> SUFFICES ASSUME NEW v \in Threads, NEW u \in Threads, Holds(v)', Holds(u)'
               PROVE  v = u
    BY Zenon DEF Lock
  <2>1. \A x \in Threads \ {t} : Holds(x)' => Holds(x)
    BY Zenon DEF Holds, Moves
  <2>2. QED
    BY Zenon, <2>1, FreeHolds DEF BaseInv, Lock
<1>4. QED
  BY Zenon, <1>1, <1>2, <1>3 DEF BaseInv
-----------------------------------------------------------------------------
(* The counters.                                                           *)
LEMMA Wrapped ==
  ASSUME NEW a \in Int
  PROVE  /\ a % Modulus \in 0 .. Modulus - 1
         /\ a \in 0 .. Modulus - 1 => a % Modulus = a
BY SMTT(30), ModulusAssumption

LEMMA Saturated ==
  ASSUME NEW limit \in Nat, NEW n \in 0 .. limit
  PROVE  Saturate(n + 1, limit) \in 0 .. limit
BY DEF Saturate

LEMMA SetNumIs ==
  ASSUME CountOK, NEW n \in 0 .. Modulus - 1, key_num' = n, SetNum(n), UNCHANGED write_num
  PROVE  CountOK' /\ (number' = number \/ number' = n)
<1>1. 0 \in 0 .. SaveEvery
  BY ModulusAssumption
<1>2. QED
  BY Zenon, <1>1 DEF CountOK, SetNum

LEMMA CountFrame ==
  ASSUME CountOK, UNCHANGED counters
  PROVE  CountOK'
BY Zenon DEF CountOK, counters

(* One item is counted in write_num and trigger_num_save.                  *)
LEMMA CountWrite ==
  ASSUME CountOK, UNCHANGED <<key_num, number>>,
         write_num' = Saturate(write_num + 1, MaxWriteClear + 1),
         trigger_num_save' = Saturate(trigger_num_save + 1, SaveEvery)
  PROVE  CountOK'
<1>1. MaxWriteClear + 1 \in Nat /\ SaveEvery \in Nat
  BY ModulusAssumption
<1>2. write_num' \in 0 .. MaxWriteClear + 1 /\ trigger_num_save' \in 0 .. SaveEvery
  BY Zenon, <1>1, Saturated DEF CountOK
<1>3. QED
  BY Zenon, <1>2 DEF CountOK

LEMMA StoreFrame ==
  ASSUME StoreOK, UNCHANGED <<now, is_clear, starting, crashes>>,
         db' \in [Keys -> Nat \cup {None}], meta_db' \in [Keys -> Nat \cup {None}],
         torn' \subseteq Keys, raced' \subseteq Keys, crossed' \in BOOLEAN
  PROVE  StoreOK'
BY Zenon DEF StoreOK

LEMMA BaseParts ==
  ASSUME BaseInv
  PROVE  /\ TypeOK /\ StoreOK /\ CountOK /\ Roles /\ Lock
         /\ \A t \in Threads : /\ pc[t] \in Calls
                               /\ pc[t].at \in {"get"} \cup Putting \cup Deleting =>
                                    pc[t].key \in Keys
         /\ db \in [Keys -> Nat \cup {None}] /\ meta_db \in [Keys -> Nat \cup {None}]
         /\ torn \subseteq Keys /\ raced \subseteq Keys /\ crossed \in BOOLEAN
BY Zenon, TypeParts DEF BaseInv, CallsOK, StoreOK

(* Cardinalities of sets of keys.                                          *)
LEMMA KeyCount ==
  ASSUME NEW K \in SUBSET Keys
  PROVE  Cardinality(K) \in Nat /\ Cardinality(K) <= MaxNum
BY KeysAssumption, BoundAssumption
-----------------------------------------------------------------------------
(* What each step does to the thread that takes it.                        *)
LEMMA BeginPutIs ==
  ASSUME BaseInv, NEW w \in Workers, NEW k \in Keys, NEW expire \in Nat, BeginPut(w, k, expire)
  PROVE  /\ BaseInv' /\ Moves(w) /\ LockFree /\ pc[w].at = "idle"
         /\ pc'[w].at = "put_db" /\ pc'[w].key = k /\ pc'[w].num \in {0, 1}
         /\ key_num < MaxNum /\ UNCHANGED <<key_num, number, crossed, now, db, meta_db, torn>>
         /\ raced' = IF DeletingKey(k) THEN raced \cup {k} ELSE raced
<1> DEFINE n == IF meta_db[k] = None THEN 1 ELSE 0
           r == [Idle EXCEPT !.at = "put_db", !.key = k, !.expire = expire, !.num = n]
           due == write_num > MaxWriteClear /\ ~is_clear
<1>1. /\ pc[w].at = "idle" /\ LockFree /\ key_num < MaxNum
      /\ due => starting < MaxStarting
      /\ starting' = IF due THEN starting + 1 ELSE starting
      /\ write_num' = IF due THEN 0 ELSE write_num
      /\ pc' = [pc EXCEPT ![w] = r]
      /\ raced' = IF DeletingKey(k) THEN raced \cup {k} ELSE raced
      /\ UNCHANGED <<now, db, meta_db, key_num, number, trigger_num_save,
                     is_clear, crashes, torn, crossed>>
  BY Zenon DEF BeginPut
<1>2. n \in {0, 1}
  BY Zenon
<1>3. r \in Calls /\ r.at = "put_db" /\ r.key = k /\ r.num = n /\ r.rest = {}
  <2> HIDE DEF n
  <2>1. n \in Nat
    BY <1>2
  <2>2. QED
    BY Zenon, <2>1 DEF Idle, Calls, Steps, Putting
<1> HIDE DEF r, n, due
<1>4. w \in Threads /\ w # Cleaner
  BY Zenon, WorkersAssumption DEF Threads
<1>5. Moves(w) /\ pc'[w] = r
  BY Zenon, <1>1, <1>3, <1>4, SetMoves, BaseParts
<1>6. StoreOK'
  <2>1. starting' \in 0 .. MaxStarting
    BY <1>1, BaseParts, BoundAssumption DEF StoreOK
  <2>2. raced' \subseteq Keys
    BY Zenon, <1>1, BaseParts
  <2>3. QED
    BY Zenon, <1>1, <2>1, <2>2, BaseParts DEF StoreOK
<1>7. CountOK'
  <2>1. 0 \in 0 .. MaxWriteClear + 1
    BY ModulusAssumption
  <2>2. QED
    BY Zenon, <1>1, <2>1, BaseParts DEF CountOK
<1>8. BaseInv'
  BY Zenon, <1>1, <1>3, <1>4, <1>5, <1>6, <1>7, BaseKept
<1>9. QED
  BY Zenon, <1>1, <1>2, <1>3, <1>5, <1>8

LEMMA PutDbIs ==
  ASSUME BaseInv, NEW w \in Workers, PutDb(w)
  PROVE  /\ BaseInv' /\ Moves(w) /\ pc[w].at = "put_db" /\ pc[w].key \in Keys
         /\ pc'[w].at = (IF pc[w].num > 0 THEN "put_num" ELSE "put_meta")
         /\ pc'[w].key = pc[w].key /\ pc'[w].expire = pc[w].expire
         /\ pc'[w].num = pc[w].num /\ pc'[w].rest = pc[w].rest
         /\ db' = IF pc'[w].ok THEN [db EXCEPT ![pc[w].key] = pc[w].expire] ELSE db
         /\ UNCHANGED <<key_num, number, crossed, now, meta_db, torn, raced>>
<1>1. PICK ok \in BOOLEAN :
        /\ pc[w].at = "put_db"
        /\ db' = IF ok THEN [db EXCEPT ![pc[w].key] = pc[w].expire] ELSE db
        /\ pc' = [pc EXCEPT ![w].ok = ok,
                            ![w].at = IF pc[w].num > 0 THEN "put_num" ELSE "put_meta"]
        /\ UNCHANGED <<now, meta_db, counters, is_clear, starting, crashes, history>>
  BY Zenon DEF PutDb, Outcomes
<1>2. w \in Threads /\ w # Cleaner /\ pc[w] \in Calls
  BY Zenon, WorkersAssumption, BaseParts DEF Threads
<1> DEFINE step == IF pc[w].num > 0 THEN "put_num" ELSE "put_meta"
           m == [pc[w] EXCEPT !.ok = ok]
           r == [m EXCEPT !.at = step]
<1>3. pc' = [pc EXCEPT ![w] = r]
  <2>1. pc \in [Threads -> Calls]
    BY Zenon, BaseParts DEF TypeOK
  <2>2. QED
    BY Zenon, <1>1, <1>2, <2>1
<1>4. step \in Putting /\ step \in Steps /\ step # "batch_meta"
  BY Zenon DEF Putting, Steps
<1> HIDE DEF step
<1>5. /\ m \in Calls /\ m.at = pc[w].at /\ m.key = pc[w].key /\ m.expire = pc[w].expire
      /\ m.num = pc[w].num /\ m.ok = ok /\ m.rest = pc[w].rest
  BY <1>2 DEF Calls
<1> HIDE DEF m
<1>6. /\ r \in Calls /\ r.at = step /\ r.key = m.key /\ r.expire = m.expire
      /\ r.num = m.num /\ r.ok = m.ok /\ r.rest = m.rest
  BY <1>4, <1>5 DEF Calls
<1> HIDE DEF r
<1>7. Moves(w) /\ pc'[w] = r
  BY Zenon, <1>2, <1>3, <1>6, SetMoves, BaseParts
<1>8. pc[w].key \in Keys /\ pc[w].expire \in Nat
  <2>1. pc[w].key \in Keys
    BY Zenon, <1>1, <1>2, BaseParts DEF Putting
  <2>2. pc[w].expire \in Nat
    BY <1>2 DEF Calls
  <2>3. QED
    BY Zenon, <2>1, <2>2
<1>9. StoreOK' /\ CountOK'
  <2>1. db' \in [Keys -> Nat \cup {None}]
    BY Zenon, <1>1, <1>8, BaseParts
  <2>2. QED
    BY Zenon, <1>1, <2>1, BaseParts, StoreFrame, CountFrame DEF history
<1>10. Holds(w)
  BY Zenon, <1>1 DEF Holds, Putting
<1>11. BaseInv'
  BY Zenon, <1>2, <1>4, <1>5, <1>6, <1>7, <1>8, <1>9, <1>10, BaseKept DEF Putting
<1>12. QED
  BY Zenon, <1>1, <1>5, <1>6, <1>7, <1>8, <1>11 DEF step, counters, history

LEMMA PutNumIs ==
  ASSUME BaseInv, NEW w \in Workers, PutNum(w)
  PROVE  /\ BaseInv' /\ Moves(w) /\ pc[w].at = "put_num" /\ pc'[w].at = "put_meta"
         /\ pc'[w].key = pc[w].key /\ pc'[w].expire = pc[w].expire
         /\ pc'[w].num = pc[w].num /\ pc'[w].ok = pc[w].ok /\ pc'[w].rest = pc[w].rest
         /\ key_num' = (key_num + 1) % Modulus /\ (number' = number \/ number' = key_num')
         /\ UNCHANGED <<crossed, now, db, meta_db, torn, raced>>
<1> USE DEF PutNum
<1>1. w \in Threads /\ w # Cleaner /\ "put_meta" \in Steps
  BY Zenon, WorkersAssumption DEF Threads, Steps, Putting
<1>2. /\ Moves(w) /\ pc'[w].at = "put_meta"
      /\ pc'[w].key = pc[w].key /\ pc'[w].expire = pc[w].expire
      /\ pc'[w].num = pc[w].num /\ pc'[w].ok = pc[w].ok /\ pc'[w].rest = pc[w].rest
  BY Zenon, <1>1, GotoMoves, BaseParts
<1>3. key_num' \in 0 .. Modulus - 1
  <2>1. key_num + 1 \in Int
    BY BaseParts DEF CountOK
  <2>2. QED
    BY Zenon, <2>1, Wrapped
<1>4. CountOK' /\ (number' = number \/ number' = key_num')
  BY Zenon, <1>3, SetNumIs, BaseParts
<1>5. StoreOK'
  BY Zenon, BaseParts, StoreFrame DEF history
<1>6. Holds(w) /\ pc[w].key \in Keys
  BY Zenon, <1>1, BaseParts DEF Holds, Putting
<1>7. BaseInv'
  BY Zenon, <1>1, <1>2, <1>4, <1>5, <1>6, BaseKept
<1>8. QED
  BY Zenon, <1>2, <1>4, <1>7 DEF history

LEMMA PutMetaIs ==
  ASSUME BaseInv, NEW w \in Workers, PutMeta(w)
  PROVE  /\ BaseInv' /\ Moves(w) /\ pc[w].at = "put_meta" /\ pc'[w] = Idle
         /\ pc[w].key \in Keys
         /\ UNCHANGED <<key_num, number, crossed, now, db, raced>>
         /\ \/ /\ pc[w].ok /\ meta_db' = [meta_db EXCEPT ![pc[w].key] = pc[w].expire]
               /\ torn' = torn \ {pc[w].key}
            \/ pc[w].ok /\ meta_db' = meta_db /\ torn' = torn \cup {pc[w].key}
            \/ ~pc[w].ok /\ meta_db' = meta_db /\ torn' = torn
<1> DEFINE k == pc[w].key
<1>1. PICK written \in BOOLEAN :
        /\ pc[w].at = "put_meta"
        /\ meta_db' = IF pc[w].ok /\ written
                        THEN [meta_db EXCEPT ![k] = pc[w].expire] ELSE meta_db
        /\ torn' = IF pc[w].ok THEN IF written THEN torn \ {k} ELSE torn \cup {k}
                               ELSE torn
        /\ write_num' = Saturate(write_num + 1, MaxWriteClear + 1)
        /\ trigger_num_save' = Saturate(trigger_num_save + 1, SaveEvery)
        /\ Return(w)
        /\ UNCHANGED <<now, db, key_num, number, is_clear, starting, crashes, raced, crossed>>
  BY Zenon DEF PutMeta, Outcomes
<1>2. w \in Threads /\ w # Cleaner /\ pc[w] \in Calls /\ k \in Keys
  BY Zenon, <1>1, WorkersAssumption, BaseParts DEF Threads, Putting
<1>3. pc[w].expire \in Nat /\ pc[w].ok \in BOOLEAN
  BY <1>2 DEF Calls
<1>4. Moves(w) /\ pc'[w] = Idle
  BY Zenon, <1>1, <1>2, ReturnMoves, BaseParts
<1>5. CountOK'
  BY Zenon, <1>1, CountWrite, BaseParts
<1> HIDE DEF k
<1>6. StoreOK'
  <2>1. meta_db' \in [Keys -> Nat \cup {None}] /\ torn' \subseteq Keys
    BY Zenon, <1>1, <1>2, <1>3, BaseParts
  <2>2. QED
    BY Zenon, <1>1, <2>1, StoreFrame, BaseParts
<1>7. BaseInv'
  BY Zenon, <1>2, <1>4, <1>5, <1>6, BaseKept, IdleIs DEF Holds, Putting, Batching, Deleting
<1>8. QED
  BY Zenon, <1>1, <1>2, <1>3, <1>4, <1>7 DEF k

LEMMA BatchWriteIs ==
  ASSUME BaseInv, NEW w \in Workers, NEW K \in SUBSET Keys, BatchWrite(w, K)
  PROVE  /\ BaseInv' /\ Moves(w) /\ LockFree /\ pc[w].at = "idle"
         /\ pc'[w].at = "batch_meta" /\ pc'[w].rest = K \X {0}
         /\ pc'[w].num <= MaxNum /\ pc'[w].num \in Nat /\ key_num + pc'[w].num <= MaxNum
         /\ db' = [k \in Keys |-> IF k \in K THEN 0 ELSE db[k]]
         /\ raced' = raced \cup {k \in K : DeletingKey(k)}
         /\ UNCHANGED <<key_num, number, crossed, now, meta_db, torn>>
<1> USE DEF BatchWrite
<1> DEFINE n == Cardinality(K)
           s == K \X {0}
           r == [Idle EXCEPT !.at = "batch_meta", !.num = n, !.rest = s]
<1>1. n \in Nat /\ n <= MaxNum
  BY Zenon, KeyCount
<1>2. s \in SUBSET (Keys \X Nat) /\ \A e \in s : e[2] = 0
  OBVIOUS
<1>3. pc' = [pc EXCEPT ![w] = r] /\ key_num + n <= MaxNum
  BY Zenon
<1> HIDE DEF n, s
<1>4. r \in Calls /\ r.at = "batch_meta" /\ r.num = n /\ r.rest = s
  <2> HIDE DEF BatchWrite
  <2>1. QED
    BY Zenon, <1>1, <1>2 DEF Idle, Calls, Steps, Batching
<1> HIDE DEF r
<1>5. w \in Threads /\ w # Cleaner
  BY Zenon, WorkersAssumption DEF Threads
<1>6. Moves(w) /\ pc'[w] = r
  BY Zenon, <1>3, <1>4, <1>5, SetMoves, BaseParts
<1>7. StoreOK' /\ CountOK'
  <2>1. db' \in [Keys -> Nat \cup {None}]
    <3>1. 0 \in Nat
      OBVIOUS
    <3>2. \A k \in Keys : db[k] \in Nat \cup {None}
      BY Zenon, BaseParts
    <3>3. \A k \in Keys : (IF k \in K THEN 0 ELSE db[k]) \in Nat \cup {None}
      BY Zenon, <3>1, <3>2
    <3>4. QED
      BY Zenon, <3>3
  <2>2. raced' \subseteq Keys
    BY Zenon, BaseParts
  <2>3. QED
    BY Zenon, <2>1, <2>2, BaseParts, StoreFrame, CountFrame
<1>8. BaseInv'
  BY Zenon, <1>2, <1>4, <1>5, <1>6, <1>7, BaseKept DEF Putting, Deleting
<1>9. QED
  BY Zenon, <1>1, <1>3, <1>4, <1>6, <1>8 DEF s, counters

LEMMA BatchMetaIs ==
  ASSUME BaseInv, NEW w \in Workers, BatchMeta(w)
  PROVE  /\ BaseInv' /\ Moves(w) /\ pc[w].at = "batch_meta"
         /\ pc'[w].at \in Batching /\ pc'[w].num = pc[w].num
         /\ UNCHANGED <<key_num, number, crossed, now, db, raced>>
         /\ \E k \in Keys :
              /\ <<k, 0>> \in pc[w].rest /\ pc'[w].rest = pc[w].rest \ {<<k, 0>>}
              /\ pc'[w].rest # {} => pc'[w].at = "batch_meta"
              /\ \/ meta_db' = [meta_db EXCEPT ![k] = 0] /\ torn' = torn \ {k}
                 \/ meta_db' = meta_db /\ torn' = torn \cup {k}
<1>1. PICK e \in pc[w].rest, written \in BOOLEAN :
        LET rest == pc[w].rest \ {e}
        IN  /\ pc[w].at = "batch_meta"
            /\ meta_db' = IF written THEN [meta_db EXCEPT ![e[1]] = e[2]] ELSE meta_db
            /\ torn' = IF written THEN torn \ {e[1]} ELSE torn \cup {e[1]}
            /\ write_num' = Saturate(write_num + 1, MaxWriteClear + 1)
            /\ trigger_num_save' = Saturate(trigger_num_save + 1, SaveEvery)
            /\ pc' = [pc EXCEPT ![w].rest = rest,
                                ![w].at = IF rest = {} THEN "batch_num" ELSE @]
            /\ UNCHANGED <<now, db, key_num, number, is_clear, starting, crashes,
                           raced, crossed>>
  BY Zenon DEF BatchMeta, Outcomes
<1>2. w \in Threads /\ w # Cleaner /\ pc[w] \in Calls
  BY Zenon, WorkersAssumption, BaseParts DEF Threads
<1>3. e[2] = 0
  BY Zenon, <1>1, BaseParts DEF Roles
<1>4. pc[w].rest \in SUBSET (Keys \X Nat)
  BY <1>2 DEF Calls
<1>5. e[1] \in Keys /\ e = <<e[1], 0>>
  BY <1>3, <1>4
<1> DEFINE k == e[1]
           rest == pc[w].rest \ {e}
           step == IF rest = {} THEN "batch_num" ELSE "batch_meta"
           m == [pc[w] EXCEPT !.rest = rest]
           r == [m EXCEPT !.at = step]
<1>6. step \in Batching /\ step \in Steps /\ (rest # {} => step = "batch_meta")
  BY Zenon DEF Batching, Steps
<1>7. pc' = [pc EXCEPT ![w] = r]
  <2>1. pc \in [Threads -> Calls] /\ pc[w].at = "batch_meta"
    BY Zenon, <1>1, BaseParts DEF TypeOK
  <2>2. pc' = [pc EXCEPT ![w].rest = rest, ![w].at = step]
    <3>1. [pc EXCEPT ![w].rest = rest][w].at = "batch_meta"
      BY <1>2, <2>1 DEF Calls
    <3>2. QED
      BY <1>1, <3>1
  <2> HIDE DEF rest, step
  <2>3. QED
    BY Zenon, <1>2, <2>1, <2>2
<1>8. rest \in SUBSET (Keys \X Nat) /\ \A f \in rest : f[2] = 0
  BY Zenon, <1>1, <1>4, BaseParts DEF Roles
<1> HIDE DEF rest, step
<1>9. m \in Calls /\ m.num = pc[w].num /\ m.rest = rest
  BY <1>2, <1>8 DEF Calls
<1> HIDE DEF m
<1>10. r \in Calls /\ r.num = m.num /\ r.rest = m.rest /\ r.at = step
  BY <1>6, <1>9 DEF Calls
<1> HIDE DEF r
<1>11. Moves(w) /\ pc'[w] = r
  BY Zenon, <1>2, <1>7, <1>10, SetMoves, BaseParts
<1>12. CountOK'
  BY Zenon, <1>1, CountWrite, BaseParts
<1>13. StoreOK'
  <2>1. 0 \in Nat
    OBVIOUS
  <2>2. meta_db' \in [Keys -> Nat \cup {None}] /\ torn' \subseteq Keys
    BY Zenon, <1>1, <1>3, <1>5, <2>1, BaseParts
  <2>3. QED
    BY Zenon, <1>1, <2>2, StoreFrame, BaseParts
<1>14. Holds(w)
  BY Zenon, <1>1 DEF Holds, Batching
<1>15. step \notin {"get"} \cup Putting \cup Deleting /\ step # "clear"
  BY Zenon, <1>6 DEF Batching, Putting, Deleting
<1>16. BaseInv'
  BY Zenon, <1>2, <1>8, <1>9, <1>10, <1>11, <1>12, <1>13, <1>14, <1>15, BaseKept
<1>17. \/ meta_db' = [meta_db EXCEPT ![k] = 0] /\ torn' = torn \ {k}
       \/ meta_db' = meta_db /\ torn' = torn \cup {k}
  BY Zenon, <1>1, <1>3
<1>18. pc'[w].rest = pc[w].rest \ {<<k, 0>>} /\ <<k, 0>> \in pc[w].rest
  BY Zenon, <1>5, <1>9, <1>10, <1>11 DEF rest
<1>19. pc'[w].rest # {} => pc'[w].at = "batch_meta"
  BY Zenon, <1>6, <1>9, <1>10, <1>11
<1>20. QED
  BY Zenon, <1>1, <1>5, <1>6, <1>9, <1>10, <1>11, <1>16, <1>17, <1>18, <1>19

LEMMA BatchNumIs ==
  ASSUME BaseInv, NEW w \in Workers, BatchNum(w)
  PROVE  /\ BaseInv' /\ Moves(w) /\ pc[w].at = "batch_num" /\ pc'[w] = Idle
         /\ key_num' = (key_num + pc[w].num) % Modulus
         /\ (number' = number \/ number' = key_num')
         /\ UNCHANGED <<crossed, now, db, meta_db, torn, raced>>
<1> USE DEF BatchNum
<1>1. w \in Threads /\ w # Cleaner /\ pc[w] \in Calls
  BY Zenon, WorkersAssumption, BaseParts DEF Threads
<1>2. Moves(w) /\ pc'[w] = Idle
  BY Zenon, <1>1, ReturnMoves, BaseParts
<1>3. key_num' \in 0 .. Modulus - 1
  <2>1. key_num + pc[w].num \in Int
    BY <1>1, BaseParts DEF CountOK, Calls
  <2>2. QED
    BY Zenon, <2>1, Wrapped
<1>4. CountOK' /\ (number' = number \/ number' = key_num')
  BY Zenon, <1>3, SetNumIs, BaseParts
<1>5. StoreOK'
  BY Zenon, BaseParts, StoreFrame DEF history
<1>6. BaseInv'
  BY Zenon, <1>1, <1>2, <1>4, <1>5, BaseKept, IdleIs DEF Holds, Putting, Batching, Deleting
<1>7. QED
  BY Zenon, <1>2, <1>4, <1>6 DEF history

LEMMA BeginDelIs ==
  ASSUME BaseInv, NEW w \in Workers, NEW k \in Keys, BeginDel(w, k)
  PROVE  /\ BaseInv' /\ Moves(w) /\ pc[w].at = "idle" /\ pc'[w].at = "get"
         /\ UNCHANGED <<key_num, number, crossed, now, db, meta_db, torn, raced>>
<1> DEFINE r == [Idle EXCEPT !.at = "get", !.key = k]
<1>1. r \in Calls /\ r.at = "get" /\ r.key = k
  BY Zenon DEF Idle, Calls, Steps
<1>2. pc' = [pc EXCEPT ![w] = r] /\ pc[w].at = "idle"
  BY Zenon DEF BeginDel
<1> HIDE DEF r
<1>3. w \in Threads /\ w # Cleaner
  BY Zenon, WorkersAssumption DEF Threads
<1>4. Moves(w) /\ pc'[w] = r
  BY Zenon, <1>1, <1>2, <1>3, SetMoves, BaseParts
<1>5. StoreOK' /\ CountOK'
  BY Zenon, BaseParts, StoreFrame, CountFrame DEF BeginDel, history
<1>6. BaseInv'
  BY Zenon, <1>1, <1>3, <1>4, <1>5, BaseKept DEF Holds, Putting, Batching, Deleting
<1>7. QED
  BY Zenon, <1>1, <1>2, <1>4, <1>6 DEF BeginDel, counters, history

LEMMA GetDbIs ==
  ASSUME BaseInv, NEW w \in Workers, GetDb(w)
  PROVE  /\ BaseInv' /\ Moves(w) /\ pc[w].at = "get" /\ pc[w].key \in Keys
         /\ \/ pc'[w].at = "idle" /\ raced' = raced
            \/ /\ pc'[w].at = "del_db" /\ pc'[w].key = pc[w].key
               /\ raced' = IF PuttingKey(pc[w].key) THEN raced \cup {pc[w].key} ELSE raced
         /\ UNCHANGED <<key_num, number, crossed, now, db, meta_db, torn>>
<1> DEFINE k == pc[w].key
<1>1. w \in Threads /\ w # Cleaner /\ "del_db" \in Steps
  BY Zenon, WorkersAssumption DEF Threads, Steps, Deleting
<1>2. pc[w].at = "get" /\ k \in Keys
  BY Zenon, <1>1, BaseParts DEF GetDb
<1>3. \/ Return(w) /\ raced' = raced
      \/ /\ Goto(w, "del_db")
         /\ raced' = IF PuttingKey(k) THEN raced \cup {k} ELSE raced
  BY Zenon DEF GetDb
<1>4. \/ Moves(w) /\ pc'[w] = Idle /\ raced' = raced
      \/ /\ Moves(w) /\ pc'[w].at = "del_db" /\ pc'[w].key = k
         /\ raced' = IF PuttingKey(k) THEN raced \cup {k} ELSE raced
  BY Zenon, <1>1, <1>3, ReturnMoves, GotoMoves, BaseParts
<1> HIDE DEF k
<1>5. StoreOK' /\ CountOK'
  <2>1. raced' \subseteq Keys
    BY Zenon, <1>2, <1>3, BaseParts
  <2>2. QED
    BY Zenon, <2>1, BaseParts, StoreFrame, CountFrame DEF GetDb, history
<1>6. pc'[w].at \in {"idle", "del_db"} /\ (pc'[w].at = "del_db" => pc'[w].key \in Keys)
  BY Zenon, <1>2, <1>4, IdleIs
<1>7. BaseInv'
  BY Zenon, <1>1, <1>4, <1>5, <1>6, BaseKept DEF Holds, Putting, Batching, Deleting
<1>8. QED
  BY Zenon, <1>2, <1>4, <1>7, IdleIs DEF GetDb, counters, history, k

LEMMA DelReturnsMoves ==
  ASSUME TypeOK, NEW t \in Threads, DelReturns(t)
  PROVE  /\ Moves(t) /\ pc'[t].at = (IF t = Cleaner THEN "clear" ELSE "idle")
         /\ t = Cleaner => pc'[t].rest = pc[t].rest
<1>1. "clear" \in Steps
  BY Zenon DEF Steps
<1>2. QED
  BY Zenon, <1>1, GotoMoves, ReturnMoves, IdleIs DEF DelReturns

LEMMA DelDbIs ==
  ASSUME BaseInv, NEW t \in Threads, DelDb(t)
  PROVE  /\ BaseInv' /\ Moves(t) /\ pc[t].at = "del_db" /\ pc[t].key \in Keys
         /\ t = Cleaner => pc'[t].rest = pc[t].rest
         /\ \/ /\ db' = [db EXCEPT ![pc[t].key] = None]
               /\ pc'[t].at = (IF key_num > 0 THEN "del_num" ELSE "del_meta")
               /\ pc'[t].key = pc[t].key
            \/ db' = db /\ pc'[t].at = (IF t = Cleaner THEN "clear" ELSE "idle")
         /\ crossed' = (crossed \/ \E u \in Threads \ {t} : pc[u].at \in {"del_num", "count"})
         /\ UNCHANGED <<key_num, number, now, meta_db, torn, raced>>
<1> DEFINE step == IF key_num > 0 THEN "del_num" ELSE "del_meta"
<1>1. step \in Steps /\ step \in {"del_num", "del_meta"}
  BY Zenon DEF Steps, Deleting
<1>2. PICK ok \in BOOLEAN :
        /\ pc[t].at = "del_db"
        /\ db' = IF ok THEN [db EXCEPT ![pc[t].key] = None] ELSE db
        /\ IF ok THEN Goto(t, step) ELSE DelReturns(t)
        /\ crossed' = (crossed \/ \E u \in Threads \ {t} : pc[u].at \in {"del_num", "count"})
        /\ UNCHANGED <<now, meta_db, counters, is_clear, starting, crashes, torn, raced>>
  BY Zenon DEF DelDb, Outcomes, NumPositive
<1> HIDE DEF step
<1>3. pc[t].key \in Keys
  BY Zenon, <1>2, BaseParts DEF Deleting
<1>4. \/ /\ Moves(t) /\ pc'[t].at = step /\ pc'[t].key = pc[t].key /\ pc'[t].rest = pc[t].rest
         /\ db' = [db EXCEPT ![pc[t].key] = None]
      \/ /\ Moves(t) /\ pc'[t].at = (IF t = Cleaner THEN "clear" ELSE "idle")
         /\ t = Cleaner => pc'[t].rest = pc[t].rest
         /\ db' = db
  BY Zenon, <1>1, <1>2, GotoMoves, DelReturnsMoves, BaseParts
<1>5. StoreOK' /\ CountOK'
  <2>1. db' \in [Keys -> Nat \cup {None}] /\ crossed' \in BOOLEAN
    BY Zenon, <1>2, <1>3, BaseParts
  <2>2. QED
    BY Zenon, <1>2, <2>1, BaseParts, StoreFrame, CountFrame
<1>6. /\ pc'[t].at \in Deleting => pc'[t].key \in Keys
      /\ t = Cleaner => pc'[t].at \in {"idle", "clear"} \cup Deleting
      /\ t # Cleaner => pc'[t].at \in {"idle"} \cup Deleting
  BY Zenon, <1>1, <1>3, <1>4 DEF Deleting
<1>7. t = Cleaner => Holds(t)
  BY Zenon, <1>2 DEF Holds
<1>8. BaseInv'
  <2>1. t \in Workers => t # Cleaner
    BY Zenon, WorkersAssumption
  <2>2. pc'[t].at \notin {"get"} \cup Putting \cup Batching
    BY Zenon, <1>6 DEF Deleting, Putting, Batching
  <2>3. Holds(t)' => t = Cleaner
    BY Zenon, <2>2 DEF Holds
  <2>4. t # Cleaner => pc'[t].at # "clear" /\ pc'[t].at # "batch_meta"
    BY Zenon, <1>6, <2>2 DEF Deleting, Batching
  <2>5. Moves(t)
    BY Zenon, <1>4
  <2>6. QED
    BY Zenon, <1>5, <1>6, <1>7, <2>1, <2>2, <2>3, <2>4, <2>5, BaseKept
<1>9. QED
  BY Zenon, <1>2, <1>3, <1>4, <1>8 DEF step, counters

LEMMA DelNumIs ==
  ASSUME BaseInv, NEW t \in Threads, DelNum(t)
  PROVE  /\ BaseInv' /\ Moves(t) /\ pc[t].at = "del_num" /\ pc'[t].at = "del_meta"
         /\ pc'[t].key = pc[t].key /\ pc'[t].rest = pc[t].rest
         /\ key_num' = (key_num - 1) % Modulus /\ (number' = number \/ number' = key_num')
         /\ UNCHANGED <<crossed, now, db, meta_db, torn, raced>>
<1> USE DEF DelNum
<1>1. "del_meta" \in Steps
  BY Zenon DEF Steps, Deleting
<1>2. Moves(t) /\ pc'[t].at = "del_meta" /\ pc'[t].key = pc[t].key /\ pc'[t].rest = pc[t].rest
  BY Zenon, <1>1, GotoMoves, BaseParts
<1>3. key_num' \in 0 .. Modulus - 1
  <2>1. key_num - 1 \in Int
    BY BaseParts DEF CountOK
  <2>2. QED
    BY Zenon, <2>1, Wrapped
<1>4. CountOK' /\ (number' = number \/ number' = key_num')
  BY Zenon, <1>3, SetNumIs, BaseParts
<1>5. StoreOK'
  BY Zenon, BaseParts, StoreFrame DEF history
<1>6. pc[t].key \in Keys /\ (t = Cleaner => Holds(t))
  BY Zenon, BaseParts DEF Holds, Deleting
<1>7. BaseInv'
  BY Zenon, <1>2, <1>4, <1>5, <1>6, BaseKept DEF Deleting, Holds, Putting, Batching
<1>8. QED
  BY Zenon, <1>2, <1>4, <1>7 DEF history

LEMMA DelMetaIs ==
  ASSUME BaseInv, NEW t \in Threads, DelMeta(t)
  PROVE  /\ BaseInv' /\ Moves(t) /\ pc[t].at = "del_meta" /\ pc[t].key \in Keys
         /\ pc'[t].at = (IF t = Cleaner THEN "clear" ELSE "idle")
         /\ t = Cleaner => pc'[t].rest = pc[t].rest
         /\ \/ meta_db' = [meta_db EXCEPT ![pc[t].key] = None] /\ torn' = torn
            \/ meta_db' = meta_db /\ torn' = torn \cup {pc[t].key}
         /\ UNCHANGED <<key_num, number, crossed, now, db, raced>>
<1> DEFINE k == pc[t].key
<1>1. PICK written \in BOOLEAN :
        /\ pc[t].at = "del_meta"
        /\ meta_db' = IF written THEN [meta_db EXCEPT ![k] = None] ELSE meta_db
        /\ torn' = IF written THEN torn ELSE torn \cup {k}
        /\ DelReturns(t)
        /\ UNCHANGED <<now, db, counters, is_clear, starting, crashes, raced, crossed>>
  BY Zenon DEF DelMeta, Outcomes
<1>2. k \in Keys
  BY Zenon, <1>1, BaseParts DEF Deleting
<1> HIDE DEF k
<1>3. /\ Moves(t) /\ pc'[t].at = (IF t = Cleaner THEN "clear" ELSE "idle")
      /\ t = Cleaner => pc'[t].rest = pc[t].rest
  BY Zenon, <1>1, DelReturnsMoves, BaseParts
<1>4. StoreOK' /\ CountOK'
  <2>1. meta_db' \in [Keys -> Nat \cup {None}] /\ torn' \subseteq Keys
    BY Zenon, <1>1, <1>2, BaseParts
  <2>2. QED
    BY Zenon, <1>1, <2>1, BaseParts, StoreFrame, CountFrame
<1>5. (t = Cleaner => Holds(t)) /\ (t \in Workers => t # Cleaner)
  BY Zenon, <1>1, WorkersAssumption DEF Holds
<1>6. BaseInv'
  BY Zenon, <1>3, <1>4, <1>5, BaseKept DEF Holds, Putting, Batching, Deleting
<1>7. QED
  BY Zenon, <1>1, <1>2, <1>3, <1>6 DEF k, counters

LEMMA BeginCountIs ==
  ASSUME BaseInv, NEW w \in Workers, BeginCount(w)
  PROVE  /\ BaseInv' /\ Moves(w) /\ pc[w].at = "idle" /\ pc'[w].at = "count"
         /\ key_num = 0 /\ pc'[w].num <= MaxNum
         /\ UNCHANGED <<key_num, number, crossed, now, db, meta_db, torn, raced>>
<1> USE DEF BeginCount
<1> DEFINE n == Cardinality({k \in Keys : meta_db[k] # None})
           r == [Idle EXCEPT !.at = "count", !.num = n]
<1>1. n \in Nat /\ n <= MaxNum
  BY Zenon, KeyCount
<1>2. pc' = [pc EXCEPT ![w] = r]
  BY Zenon
<1> HIDE DEF n
<1>3. r \in Calls /\ r.at = "count" /\ r.num = n
  BY Zenon, <1>1 DEF Idle, Calls, Steps
<1> HIDE DEF r
<1>4. w \in Threads /\ w # Cleaner
  BY Zenon, WorkersAssumption DEF Threads
<1>5. Moves(w) /\ pc'[w] = r
  BY Zenon, <1>2, <1>3, <1>4, SetMoves, BaseParts
<1>6. StoreOK' /\ CountOK'
  BY Zenon, BaseParts, StoreFrame, CountFrame DEF history
<1>7. BaseInv'
  BY Zenon, <1>3, <1>4, <1>5, <1>6, BaseKept DEF Holds, Putting, Batching, Deleting
<1>8. QED
  BY Zenon, <1>1, <1>3, <1>5, <1>7 DEF counters, history

LEMMA CountNumIs ==
  ASSUME BaseInv, NEW w \in Workers, CountNum(w), pc[w].num <= MaxNum
  PROVE  /\ BaseInv' /\ Moves(w) /\ pc[w].at = "count" /\ pc'[w] = Idle
         /\ key_num' = pc[w].num /\ (number' = number \/ number' = key_num')
         /\ UNCHANGED <<crossed, now, db, meta_db, torn, raced>>
<1> USE DEF CountNum
<1>1. w \in Threads /\ w # Cleaner /\ pc[w] \in Calls
  BY Zenon, WorkersAssumption, BaseParts DEF Threads
<1>2. Moves(w) /\ pc'[w] = Idle
  BY Zenon, <1>1, ReturnMoves, BaseParts
<1>3. pc[w].num \in Nat
  BY <1>1 DEF Calls
<1>4. key_num' \in 0 .. Modulus - 1
  BY <1>3, ModulusAssumption, BoundAssumption
<1>5. CountOK' /\ (number' = number \/ number' = key_num')
  BY Zenon, <1>4, SetNumIs, BaseParts
<1>6. StoreOK'
  BY Zenon, BaseParts, StoreFrame DEF history
<1>7. BaseInv'
  BY Zenon, <1>1, <1>2, <1>5, <1>6, BaseKept, IdleIs DEF Holds, Putting, Batching, Deleting
<1>8. QED
  BY Zenon, <1>2, <1>5, <1>7 DEF history

LEMMA BeginClearIs ==
  ASSUME BaseInv, BeginClear
  PROVE  /\ BaseInv' /\ Moves(Cleaner) /\ LockFree
         /\ pc[Cleaner].at = "idle" /\ pc'[Cleaner].at = "clear"
         /\ \A e \in pc'[Cleaner].rest :
              e[1] \in Keys /\ e[2] = meta_db[e[1]] /\ e[2] # None /\ e[2] # 0
         /\ UNCHANGED <<key_num, number, crossed, now, db, meta_db, torn, raced>>
<1> USE DEF BeginClear
<1> DEFINE K == {j \in Keys : meta_db[j] \notin {None, 0}}
           R == {<<k, meta_db[k]>> : k \in K}
           r == [Idle EXCEPT !.at = "clear", !.rest = R]
<1>1. /\ R \in SUBSET (Keys \X Nat)
      /\ \A e \in R : e[1] \in Keys /\ e[2] = meta_db[e[1]] /\ e[2] # None /\ e[2] # 0
  BY BaseParts
<1>2. pc' = [pc EXCEPT ![Cleaner] = r]
  BY Zenon
<1> HIDE DEF R
<1>3. r \in Calls /\ r.at = "clear" /\ r.rest = R
  BY Zenon, <1>1 DEF Idle, Calls, Steps
<1> HIDE DEF r
<1>4. Cleaner \in Threads /\ Cleaner \notin Workers
  BY Zenon, WorkersAssumption DEF Threads
<1>5. Moves(Cleaner) /\ pc'[Cleaner] = r
  BY Zenon, <1>2, <1>3, <1>4, SetMoves, BaseParts
<1>6. StoreOK' /\ CountOK'
  <2>1. starting' \in 0 .. MaxStarting /\ is_clear' \in BOOLEAN
    BY BaseParts, BoundAssumption DEF StoreOK
  <2>2. QED
    BY Zenon, <2>1, BaseParts, CountFrame DEF StoreOK, history
<1>7. BaseInv'
  BY Zenon, <1>3, <1>4, <1>5, <1>6, BaseKept DEF Putting, Deleting
<1>8. QED
  BY Zenon, <1>1, <1>3, <1>5, <1>7 DEF counters, history, LockFree

LEMMA ClearKeyIs ==
  ASSUME BaseInv, ClearKey
  PROVE  /\ BaseInv' /\ Moves(Cleaner) /\ pc[Cleaner].at = "clear"
         /\ \/ pc'[Cleaner].at = "clear" /\ pc'[Cleaner].rest \subseteq pc[Cleaner].rest
            \/ /\ pc'[Cleaner].at = "del_db" /\ pc'[Cleaner].rest \subseteq pc[Cleaner].rest
               /\ \E e \in pc[Cleaner].rest : pc'[Cleaner].key = e[1] /\ e[1] \in Keys /\ e[2] <= now
         /\ UNCHANGED <<key_num, number, crossed, now, db, meta_db, torn, raced>>
<1>1. PICK e \in pc[Cleaner].rest :
        /\ pc[Cleaner].at = "clear"
        /\ pc' = [pc EXCEPT ![Cleaner] =
                    IF e[2] > now THEN [@ EXCEPT !.rest = pc[Cleaner].rest \ {e}]
                    ELSE [@ EXCEPT !.rest = pc[Cleaner].rest \ {e}, !.at = "del_db", !.key = e[1]]]
        /\ UNCHANGED <<now, db, meta_db, counters, is_clear, starting, crashes, history>>
  BY Zenon DEF ClearKey
<1>2. Cleaner \in Threads /\ Cleaner \notin Workers /\ pc[Cleaner] \in Calls
  BY Zenon, WorkersAssumption, BaseParts DEF Threads
<1>3. e[1] \in Keys /\ e[2] \in Nat /\ now \in Nat
  BY <1>1, <1>2, BaseParts DEF Calls, StoreOK
<1> DEFINE rest == pc[Cleaner].rest \ {e}
           m == [pc[Cleaner] EXCEPT !.rest = rest]
           n == [m EXCEPT !.at = "del_db"]
           r == [n EXCEPT !.key = e[1]]
           q == IF e[2] > now THEN m ELSE r
<1>4. pc' = [pc EXCEPT ![Cleaner] = q]
  <2>1. pc \in [Threads -> Calls]
    BY Zenon, BaseParts DEF TypeOK
  <2>2. QED
    BY <1>1, <1>2, <2>1
<1>5. m \in Calls /\ m.at = pc[Cleaner].at /\ m.rest = rest
  BY <1>2 DEF Calls
<1> HIDE DEF m
<1>6. n \in Calls /\ n.at = "del_db" /\ n.rest = m.rest
  BY <1>5 DEF Calls, Steps, Deleting
<1> HIDE DEF n
<1>7. r \in Calls /\ r.at = n.at /\ r.rest = n.rest /\ r.key = e[1]
  BY <1>3, <1>6 DEF Calls
<1> HIDE DEF r
<1>8. /\ q \in Calls /\ q.rest \subseteq pc[Cleaner].rest
      /\ \/ q.at = "clear"
         \/ q.at = "del_db" /\ q.key = e[1] /\ e[2] <= now
  <2>1. e[2] > now \/ e[2] <= now
    BY <1>3
  <2>2. QED
    BY Zenon, <1>1, <1>5, <1>6, <1>7, <2>1
<1> HIDE DEF q
<1>9. Moves(Cleaner) /\ pc'[Cleaner] = q
  BY Zenon, <1>2, <1>4, <1>8, SetMoves, BaseParts
<1>10. StoreOK' /\ CountOK'
  BY Zenon, <1>1, BaseParts, StoreFrame, CountFrame DEF history
<1>11. Holds(Cleaner)
  BY Zenon, <1>1 DEF Holds
<1>12. BaseInv'
  BY Zenon, <1>2, <1>3, <1>8, <1>9, <1>10, <1>11, BaseKept DEF Putting, Deleting
<1>13. QED
  BY Zenon, <1>1, <1>3, <1>8, <1>9, <1>12 DEF counters, history

LEMMA EndClearIs ==
  ASSUME BaseInv, EndClear
  PROVE  /\ BaseInv' /\ Moves(Cleaner) /\ pc[Cleaner].at = "clear" /\ pc'[Cleaner] = Idle
         /\ UNCHANGED <<key_num, number, crossed, now, db, meta_db, torn, raced>>
<1> USE DEF EndClear
<1>1. Cleaner \in Threads /\ Cleaner \notin Workers
  BY Zenon, WorkersAssumption DEF Threads
<1>2. Moves(Cleaner) /\ pc'[Cleaner] = Idle
  BY Zenon, <1>1, ReturnMoves, BaseParts
<1>3. StoreOK' /\ CountOK'
  BY Zenon, BaseParts, CountFrame DEF history, StoreOK
<1>4. BaseInv'
  BY Zenon, <1>1, <1>2, <1>3, BaseKept, IdleIs DEF Holds, Putting, Batching, Deleting
<1>5. QED
  BY Zenon, <1>2, <1>4 DEF counters, history

LEMMA TickIs ==
  ASSUME BaseInv, Tick
  PROVE  BaseInv'
<1> USE DEF Tick
<1>1. now' \in 1 .. MaxTime
  BY BaseParts, BoundAssumption DEF StoreOK
<1>2. TypeOK'
  BY Zenon, <1>1, BaseParts DEF TypeOK, counters, history
<1>3. QED
  BY Zenon, <1>2 DEF BaseInv, Roles, Lock, Holds

LEMMA RestartIs ==
  ASSUME BaseInv, Restart
  PROVE  /\ BaseInv' /\ \A t \in Threads : pc'[t] = Idle
         /\ key_num' = IF number = None THEN 0 ELSE number
         /\ torn' = torn \cup {k \in Keys : HalfDone(k)}
         /\ UNCHANGED <<now, db, meta_db, number, raced, crossed>>
<1> USE DEF Restart
<1>1. CountOK'
  BY BaseParts, ModulusAssumption, BoundAssumption DEF CountOK
<1>2. crashes' \in 0 .. MaxCrash /\ starting' \in 0 .. MaxStarting
  BY BaseParts, BoundAssumption DEF StoreOK
<1>3. StoreOK'
  <2>1. torn' \subseteq Keys
    BY Zenon, BaseParts
  <2>2. QED
    BY Zenon, <1>2, <2>1, BaseParts DEF StoreOK
<1>4. pc' \in [Threads -> Calls] /\ \A t \in Threads : pc'[t] = Idle
  BY Zenon, IdleIs
<1>5. CallsOK'
  BY Zenon, <1>4, IdleIs DEF CallsOK, Putting, Deleting
<1>6. TypeOK'
  BY Zenon, <1>1, <1>3, <1>5 DEF TypeOK, StoreOK, CountOK, CallsOK
<1>7. Roles' /\ Lock'
  BY Zenon, <1>4, IdleIs DEF Roles, Lock, Holds, Threads, Putting, Batching
<1>8. QED
  BY Zenon, <1>4, <1>6, <1>7 DEF BaseInv
-----------------------------------------------------------------------------
(* Only the holder of clear_lock puts, so the state of a put can be read   *)
(* off one thread.                                                         *)
LEMMA PutterHolds ==
  ASSUME BaseInv, NEW t \in Threads, NEW k
  PROVE  /\ Puts(pc[t], k) => Holds(t)
         /\ PutsHalf(pc[t], k) => Puts(pc[t], k)
         /\ DelsHalf(pc[t], k) => Dels(pc[t], k)
<1>1. \A e : e = <<k, 0>> => e[1] = k
  OBVIOUS
<1>2. QED
  BY Zenon, <1>1 DEF Puts, Holds, PutsHalf, DelsHalf, Dels, Putting, Batching, Deleting

LEMMA KeyViews ==
  ASSUME NEW k
  PROVE  /\ PuttingKey(k) <=> \E t \in Threads : Puts(pc[t], k)
         /\ DeletingKey(k) <=> \E t \in Threads : Dels(pc[t], k)
BY Zenon DEF PuttingKey, DeletingKey, Puts, Dels

LEMMA HalfViews ==
  ASSUME BaseInv, NEW k
  PROVE  (HalfPut(k) => PuttingKey(k)) /\ (HalfDel(k) => DeletingKey(k))
BY Zenon, PutterHolds, KeyViews DEF HalfPut, HalfDel

LEMMA PutterHoldsNext ==
  ASSUME BaseInv', NEW t \in Threads, NEW k
  PROVE  /\ Puts(pc'[t], k) => Holds(t)'
         /\ PutsHalf(pc'[t], k) => Puts(pc'[t], k)
<1>1. \A e : e = <<k, 0>> => e[1] = k
  OBVIOUS
<1>2. QED
  BY Zenon, <1>1 DEF Puts, Holds, PutsHalf, Putting, Batching

LEMMA PutterView ==
  ASSUME BaseInv, BaseInv', NEW w \in Workers, Moves(w), Holds(w) \/ LockFree,
         pc[w].at \notin Deleting, pc'[w].at \notin Deleting
  PROVE  /\ pc'[Cleaner].at = "idle"
         /\ \A k \in Keys : /\ HalfPut(k) <=> PutsHalf(pc[w], k)
                            /\ HalfPut(k)' <=> PutsHalf(pc'[w], k)
                            /\ PuttingKey(k) <=> Puts(pc[w], k)
                            /\ PuttingKey(k)' <=> Puts(pc'[w], k)
                            /\ HalfDel(k)' <=> HalfDel(k)
                            /\ DeletingKey(k)' <=> DeletingKey(k)
         /\ \A t \in Threads, k \in Keys : PutsHalf(pc'[t], k) => t = w
<1>1. w \in Threads /\ Cleaner \in Threads /\ w # Cleaner
  BY Zenon, WorkersAssumption DEF Threads
<1>2. \A t \in Threads : t # w => ~Holds(t)
  BY Zenon, <1>1, FreeHolds DEF BaseInv, Lock
<1>3. \A t \in Threads : t # w => pc'[t] = pc[t]
  BY Zenon DEF Moves
<1>4. \A t \in Threads, k \in Keys : t # w => ~Puts(pc[t], k) /\ ~PutsHalf(pc[t], k)
  BY Zenon, <1>2, PutterHolds
<1>5. pc'[Cleaner].at = "idle"
  BY Zenon, <1>1, <1>2, <1>3 DEF Holds
<1>6. ASSUME NEW k \in Keys
      PROVE  /\ HalfPut(k) <=> PutsHalf(pc[w], k)
             /\ HalfPut(k)' <=> PutsHalf(pc'[w], k)
  BY Zenon, <1>1, <1>3, <1>4 DEF HalfPut
<1>7. ASSUME NEW k \in Keys
      PROVE  /\ PuttingKey(k) <=> Puts(pc[w], k)
             /\ PuttingKey(k)' <=> Puts(pc'[w], k)
  <2>1. PuttingKey(k)' <=> \E t \in Threads : Puts(pc'[t], k)
    BY Zenon DEF PuttingKey, Puts
  <2>2. QED
    BY Zenon, <1>1, <1>3, <1>4, <2>1, KeyViews
<1>8. ASSUME NEW k \in Keys
      PROVE  /\ HalfDel(k)' <=> HalfDel(k)
             /\ DeletingKey(k)' <=> DeletingKey(k)
  <2>1. ~Dels(pc[w], k) /\ ~Dels(pc'[w], k) /\ ~DelsHalf(pc[w], k) /\ ~DelsHalf(pc'[w], k)
    BY Zenon DEF Dels, DelsHalf, Deleting
  <2>2. DeletingKey(k)' <=> \E t \in Threads : Dels(pc'[t], k)
    BY Zenon DEF DeletingKey, Dels
  <2>3. DeletingKey(k)' <=> DeletingKey(k)
    BY Zenon, <1>3, <2>1, <2>2, KeyViews
  <2>4. HalfDel(k)' <=> HalfDel(k)
    BY Zenon, <1>3, <2>1 DEF HalfDel
  <2>5. QED
    BY Zenon, <2>3, <2>4
<1>9. QED
  BY Zenon, <1>3, <1>4, <1>5, <1>6, <1>7, <1>8

LEMMA OtherView ==
  ASSUME NEW t \in Threads, Moves(t),
         pc[t].at \notin Putting \cup Batching, pc'[t].at \notin Putting \cup Batching
  PROVE  /\ \A k \in Keys : /\ HalfPut(k)' <=> HalfPut(k)
                            /\ PuttingKey(k)' <=> PuttingKey(k)
                            /\ HalfDel(k)' => HalfDel(k) \/ DelsHalf(pc'[t], k)
                            /\ HalfDel(k) => HalfDel(k)' \/ DelsHalf(pc[t], k)
                            /\ DeletingKey(k)' => DeletingKey(k) \/ Dels(pc'[t], k)
         /\ \A u \in Threads, k \in Keys :
              PutsHalf(pc'[u], k) => u # t /\ pc'[u] = pc[u]
<1>1. \A u \in Threads : u # t => pc'[u] = pc[u]
  BY Zenon DEF Moves
<1>2. ASSUME NEW k
      PROVE  ~Puts(pc[t], k) /\ ~Puts(pc'[t], k) /\ ~PutsHalf(pc[t], k) /\ ~PutsHalf(pc'[t], k)
  BY Zenon DEF Puts, PutsHalf, Putting, Batching
<1>3. ASSUME NEW k \in Keys
      PROVE  /\ HalfPut(k)' <=> HalfPut(k)
             /\ HalfDel(k)' => HalfDel(k) \/ DelsHalf(pc'[t], k)
             /\ HalfDel(k) => HalfDel(k)' \/ DelsHalf(pc[t], k)
  BY Zenon, <1>1, <1>2 DEF HalfPut, HalfDel
<1>4. ASSUME NEW k \in Keys
      PROVE  /\ PuttingKey(k)' <=> PuttingKey(k)
             /\ DeletingKey(k)' => DeletingKey(k) \/ Dels(pc'[t], k)
  <2>1. PuttingKey(k)' <=> \E u \in Threads : Puts(pc'[u], k)
    BY Zenon DEF PuttingKey, Puts
  <2>2. DeletingKey(k)' <=> \E u \in Threads : Dels(pc'[u], k)
    BY Zenon DEF DeletingKey, Dels
  <2>3. QED
    BY Zenon, <1>1, <1>2, <2>1, <2>2, KeyViews
<1>5. QED
  BY Zenon, <1>1, <1>2, <1>3, <1>4

(* A step that writes to neither database.                                 *)
LEMMA DataFrame ==
  ASSUME DataInv, UNCHANGED <<db, meta_db, torn>>, raced \subseteq raced',
         \A k \in Keys : HalfPut(k)' <=> HalfPut(k),
         \A k \in Keys : HalfDel(k)' <=> HalfDel(k),
         HalfValue', NoMix', Snapshot'
  PROVE  DataInv'
<1>1. Own'
  BY Zenon DEF DataInv, Own
<1>2. HalfSeen'
  BY Zenon DEF DataInv, HalfSeen
<1>3. Synced'
  BY Zenon DEF DataInv, Synced
<1>4. QED
  BY Zenon, <1>1, <1>2, <1>3 DEF DataInv

(* The snapshot while the Cleaner does nothing, or another thread moves.   *)
LEMMA NoSnapshot ==
  ASSUME pc'[Cleaner].at = "idle"
  PROVE  Snapshot'
BY Zenon DEF Snapshot

LEMMA SnapshotKept ==
  ASSUME Snapshot, pc'[Cleaner] = pc[Cleaner], UNCHANGED now, torn \subseteq torn',
         BaseInv, \A k \in Keys : db'[k] = None \/ db'[k] = db[k]
  PROVE  Snapshot'
<1>1. Cleaner \in Threads
  BY Zenon DEF Threads
<1>2. pc[Cleaner] \in Calls
  BY Zenon, <1>1, BaseParts
<1>3. \A e \in pc[Cleaner].rest : e[1] \in Keys
  BY <1>2 DEF Calls
<1>4. pc[Cleaner].at = "del_db" => pc[Cleaner].key \in Keys
  BY Zenon, <1>1, BaseParts DEF Deleting
<1>5. QED
  BY Zenon, <1>3, <1>4 DEF Snapshot
-----------------------------------------------------------------------------
(* The data under each step of a put.                                      *)
LEMMA BeginPutData ==
  ASSUME BaseInv, DataInv, NEW w \in Workers, NEW k \in Keys, NEW expire \in Nat,
         BeginPut(w, k, expire)
  PROVE  DataInv'
<1>1. /\ BaseInv' /\ Moves(w) /\ LockFree /\ pc[w].at = "idle"
      /\ pc'[w].at = "put_db" /\ pc'[w].key = k
      /\ UNCHANGED <<db, meta_db, torn>>
      /\ raced' = IF DeletingKey(k) THEN raced \cup {k} ELSE raced
  BY Zenon, BeginPutIs
<1>2. pc[w].at \notin Deleting /\ pc'[w].at \notin Deleting
  BY Zenon, <1>1 DEF Deleting
<1>3. /\ pc'[Cleaner].at = "idle"
      /\ \A j \in Keys : /\ HalfPut(j) <=> PutsHalf(pc[w], j)
                         /\ HalfPut(j)' <=> PutsHalf(pc'[w], j)
                         /\ PuttingKey(j)' <=> Puts(pc'[w], j)
                         /\ HalfDel(j)' <=> HalfDel(j)
                         /\ DeletingKey(j)' <=> DeletingKey(j)
      /\ \A t \in Threads, j \in Keys : PutsHalf(pc'[t], j) => t = w
  BY Zenon, <1>1, <1>2, PutterView
<1>4. ASSUME NEW j
      PROVE  ~PutsHalf(pc[w], j) /\ ~PutsHalf(pc'[w], j) /\ (Puts(pc'[w], j) => j = k)
  BY Zenon, <1>1 DEF PutsHalf, Puts, Batching
<1>5. HalfValue'
  BY Zenon, <1>3, <1>4 DEF HalfValue
<1>6. NoMix'
  <2> SUFFICES ASSUME NEW j \in Keys, j \notin raced', PuttingKey(j)', DeletingKey(j)'
               PROVE  FALSE
    BY Zenon DEF NoMix
  <2>1. j = k /\ DeletingKey(j)
    BY Zenon, <1>3, <1>4
  <2>2. QED
    BY Zenon, <1>1, <2>1
<1>7. QED
  BY Zenon, <1>1, <1>3, <1>4, <1>5, <1>6, DataFrame, NoSnapshot

LEMMA PutDbData ==
  ASSUME BaseInv, DataInv, NEW w \in Workers, PutDb(w)
  PROVE  DataInv'
<1> DEFINE k == pc[w].key
<1>1. /\ BaseInv' /\ Moves(w) /\ pc[w].at = "put_db" /\ k \in Keys
      /\ pc'[w].at \in {"put_num", "put_meta"}
      /\ pc'[w].key = k /\ pc'[w].expire = pc[w].expire
      /\ db' = IF pc'[w].ok THEN [db EXCEPT ![k] = pc[w].expire] ELSE db
      /\ UNCHANGED <<meta_db, torn, raced>>
  BY Zenon, PutDbIs
<1>2. Holds(w) /\ pc[w].at \notin Deleting /\ pc'[w].at \notin Deleting
  BY Zenon, <1>1 DEF Deleting, Holds, Putting
<1>3. /\ pc'[Cleaner].at = "idle"
      /\ \A j \in Keys : /\ HalfPut(j) <=> PutsHalf(pc[w], j)
                         /\ HalfPut(j)' <=> PutsHalf(pc'[w], j)
                         /\ PuttingKey(j) <=> Puts(pc[w], j)
                         /\ PuttingKey(j)' <=> Puts(pc'[w], j)
                         /\ HalfDel(j)' <=> HalfDel(j)
                         /\ DeletingKey(j)' <=> DeletingKey(j)
      /\ \A t \in Threads, j \in Keys : PutsHalf(pc'[t], j) => t = w
  BY Zenon, <1>1, <1>2, PutterView
<1>4. ASSUME NEW j
      PROVE  /\ ~PutsHalf(pc[w], j)
             /\ PutsHalf(pc'[w], j) <=> j = k /\ pc'[w].ok
             /\ Puts(pc[w], j) <=> j = k
             /\ Puts(pc'[w], j) <=> j = k
  BY Zenon, <1>1 DEF PutsHalf, Puts, Batching, Putting
<1>5. NoMix'
  BY Zenon, <1>1, <1>3, <1>4 DEF NoMix, DataInv
<1>6. CASE ~pc'[w].ok
  <2>1. HalfValue'
    BY Zenon, <1>3, <1>4, <1>6 DEF HalfValue
  <2>2. QED
    BY Zenon, <1>1, <1>3, <1>4, <1>5, <1>6, <2>1, DataFrame, NoSnapshot
<1>7. CASE pc'[w].ok
  <2>1. pc[w].expire \in Nat /\ pc[w].expire # None
    <3>1. pc[w] \in Calls
      BY Zenon, BaseParts DEF Threads
    <3>2. QED
      BY <3>1, NoneAssumption DEF Calls
  <2>2. db'[k] = pc[w].expire /\ \A j \in Keys : j # k => db'[j] = db[j]
    BY Zenon, <1>1, <1>7, BaseParts
  <2>3. NewValue(pc'[w]) = pc[w].expire
    BY Zenon, <1>1 DEF NewValue
  <2> HIDE DEF k
  <2>4. HalfValue'
    BY Zenon, <1>3, <1>4, <2>2, <2>3 DEF HalfValue
  <2>5. Own'
    BY ZenonT(60), <1>1, <1>3, <1>4, <1>7, <2>2 DEF Own, DataInv
  <2>6. HalfSeen'
    <3> SUFFICES ASSUME NEW j \in Keys, j \notin raced'
                 PROVE  /\ HalfPut(j)' => db'[j] # None
                        /\ HalfDel(j)' => db'[j] = None
      BY Zenon DEF HalfSeen
    <3>1. CASE j = k
      <4>1. ~HalfDel(j)
        BY Zenon, <1>1, <1>3, <1>4, <3>1, HalfViews DEF NoMix, DataInv
      <4>2. QED
        BY Zenon, <1>3, <2>1, <2>2, <3>1, <4>1
    <3>2. CASE j # k
      BY Zenon, <1>1, <1>3, <1>4, <2>2, <3>2 DEF HalfSeen, DataInv
    <3>3. QED
      BY Zenon, <3>1, <3>2
  <2>7. Synced'
    BY ZenonT(60), <1>1, <1>3, <1>4, <1>7, <2>2 DEF Synced, DataInv
  <2>8. QED
    BY Zenon, <1>3, <1>5, <2>4, <2>5, <2>6, <2>7, NoSnapshot DEF DataInv
<1>8. QED
  BY Zenon, <1>6, <1>7

LEMMA PutNumData ==
  ASSUME BaseInv, DataInv, NEW w \in Workers, PutNum(w)
  PROVE  DataInv'
<1>1. /\ BaseInv' /\ Moves(w) /\ pc[w].at = "put_num" /\ pc'[w].at = "put_meta"
      /\ pc'[w].key = pc[w].key /\ pc'[w].expire = pc[w].expire /\ pc'[w].ok = pc[w].ok
      /\ UNCHANGED <<db, meta_db, torn, raced>>
  BY Zenon, PutNumIs
<1>2. Holds(w) /\ pc[w].at \notin Deleting /\ pc'[w].at \notin Deleting
  BY Zenon, <1>1 DEF Deleting, Holds, Putting
<1>3. /\ pc'[Cleaner].at = "idle"
      /\ \A j \in Keys : /\ HalfPut(j) <=> PutsHalf(pc[w], j)
                         /\ HalfPut(j)' <=> PutsHalf(pc'[w], j)
                         /\ PuttingKey(j) <=> Puts(pc[w], j)
                         /\ PuttingKey(j)' <=> Puts(pc'[w], j)
                         /\ HalfDel(j)' <=> HalfDel(j)
                         /\ DeletingKey(j)' <=> DeletingKey(j)
      /\ \A t \in Threads, j \in Keys : PutsHalf(pc'[t], j) => t = w
  BY Zenon, <1>1, <1>2, PutterView
<1>4. ASSUME NEW j
      PROVE  /\ PutsHalf(pc'[w], j) <=> PutsHalf(pc[w], j)
             /\ Puts(pc'[w], j) <=> Puts(pc[w], j)
  BY Zenon, <1>1 DEF PutsHalf, Puts, Batching, Putting
<1>5. NoMix'
  BY Zenon, <1>1, <1>3, <1>4 DEF NoMix, DataInv
<1>6. HalfValue'
  <2>1. NewValue(pc'[w]) = NewValue(pc[w])
    BY Zenon, <1>1 DEF NewValue
  <2>2. w \in Threads
    BY Zenon DEF Threads
  <2>3. QED
    BY Zenon, <1>1, <1>3, <1>4, <2>1, <2>2 DEF HalfValue, DataInv
<1>7. QED
  BY Zenon, <1>1, <1>3, <1>4, <1>5, <1>6, DataFrame, NoSnapshot

(* The write of an expiry to meta_db ends the half put of its key.         *)
LEMMA MetaData ==
  ASSUME BaseInv, BaseInv', DataInv, NEW w \in Workers, Moves(w), Holds(w),
         pc[w].at \notin Deleting, pc'[w].at \notin Deleting,
         NEW k \in Keys, NEW v \in Nat, PutsHalf(pc[w], k), NewValue(pc[w]) = v,
         UNCHANGED <<db, raced>>,
         \/ meta_db' = [meta_db EXCEPT ![k] = v] /\ torn' = torn \ {k}
         \/ meta_db' = meta_db /\ torn' = torn \cup {k},
         \A j \in Keys : PutsHalf(pc'[w], j) <=> PutsHalf(pc[w], j) /\ j # k,
         \A j \in Keys : Puts(pc'[w], j) => Puts(pc[w], j),
         \A j \in Keys : PutsHalf(pc'[w], j) => NewValue(pc'[w]) = v
  PROVE  DataInv'
<1>1. /\ pc'[Cleaner].at = "idle"
      /\ \A j \in Keys : /\ HalfPut(j) <=> PutsHalf(pc[w], j)
                         /\ HalfPut(j)' <=> PutsHalf(pc'[w], j)
                         /\ PuttingKey(j) <=> Puts(pc[w], j)
                         /\ PuttingKey(j)' <=> Puts(pc'[w], j)
                         /\ HalfDel(j)' <=> HalfDel(j)
                         /\ DeletingKey(j)' <=> DeletingKey(j)
      /\ \A t \in Threads, j \in Keys : PutsHalf(pc'[t], j) => t = w
  BY Zenon, PutterView
<1>2. w \in Threads
  BY Zenon DEF Threads
<1>3. v # None
  BY NoneAssumption
<1>4. \/ meta_db'[k] = v
      \/ k \in torn'
  BY Zenon, BaseParts
<1>5. \A j \in Keys : j # k => meta_db'[j] = meta_db[j] /\ (j \in torn' <=> j \in torn)
  BY Zenon, BaseParts
<1>6. db[k] = None \/ db[k] = v
  BY Zenon, <1>2 DEF HalfValue, DataInv
<1>7. HalfValue'
  BY Zenon, <1>1, <1>2 DEF HalfValue, DataInv
<1>8. NoMix'
  BY Zenon, <1>1 DEF NoMix, DataInv
<1>9. Own'
  <2> SUFFICES ASSUME NEW j \in Keys, j \notin torn', ~HalfPut(j)'
               PROVE  db[j] = None \/ meta_db'[j] = None \/ meta_db'[j] = db[j]
    BY Zenon DEF Own
  <2>1. CASE j = k
    BY Zenon, <1>4, <1>6, <2>1
  <2>2. CASE j # k
    BY Zenon, <1>1, <1>5, <2>2 DEF Own, DataInv
  <2>3. QED
    BY Zenon, <2>1, <2>2
<1>10. HalfSeen'
  BY Zenon, <1>1 DEF HalfSeen, DataInv
<1>11. Synced'
  <2> SUFFICES ASSUME NEW j \in Keys, j \notin torn', j \notin raced, ~HalfPut(j)', ~HalfDel(j)'
               PROVE  db[j] = None <=> meta_db'[j] = None
    BY Zenon DEF Synced
  <2>1. CASE j = k
    BY Zenon, <1>1, <1>3, <1>4, <2>1 DEF HalfSeen, DataInv
  <2>2. CASE j # k
    BY Zenon, <1>1, <1>5, <2>2 DEF Synced, DataInv
  <2>3. QED
    BY Zenon, <2>1, <2>2
<1>12. QED
  BY Zenon, <1>1, <1>7, <1>8, <1>9, <1>10, <1>11, NoSnapshot DEF DataInv

LEMMA PutMetaData ==
  ASSUME BaseInv, DataInv, NEW w \in Workers, PutMeta(w)
  PROVE  DataInv'
<1> DEFINE k == pc[w].key
<1>1. /\ BaseInv' /\ Moves(w) /\ pc[w].at = "put_meta" /\ pc'[w] = Idle /\ k \in Keys
      /\ UNCHANGED <<db, raced>>
      /\ \/ pc[w].ok /\ meta_db' = [meta_db EXCEPT ![k] = pc[w].expire] /\ torn' = torn \ {k}
         \/ pc[w].ok /\ meta_db' = meta_db /\ torn' = torn \cup {k}
         \/ ~pc[w].ok /\ meta_db' = meta_db /\ torn' = torn
  BY Zenon, PutMetaIs
<1>2. Holds(w) /\ pc[w].at \notin Deleting /\ pc'[w].at \notin Deleting
  BY Zenon, <1>1, IdleIs DEF Deleting, Holds, Putting
<1>3. ASSUME NEW j
      PROVE  ~PutsHalf(pc'[w], j) /\ ~Puts(pc'[w], j)
  BY Zenon, <1>1, IdleIs DEF Puts, PutsHalf, Putting, Batching
<1>4. ASSUME NEW j
      PROVE  PutsHalf(pc[w], j) <=> pc[w].ok /\ j = k
  BY Zenon, <1>1 DEF PutsHalf
<1>5. CASE pc[w].ok
  <2>1. pc[w].expire \in Nat
    <3>1. pc[w] \in Calls
      BY Zenon, BaseParts DEF Threads
    <3>2. QED
      BY <3>1 DEF Calls
  <2>2. NewValue(pc[w]) = pc[w].expire
    BY Zenon, <1>1 DEF NewValue
  <2> HIDE DEF k
  <2>3. PutsHalf(pc[w], k)
    BY Zenon, <1>4, <1>5
  <2>4. \/ meta_db' = [meta_db EXCEPT ![k] = pc[w].expire] /\ torn' = torn \ {k}
        \/ meta_db' = meta_db /\ torn' = torn \cup {k}
    BY Zenon, <1>1, <1>5
  <2>5. /\ \A j \in Keys : PutsHalf(pc'[w], j) <=> PutsHalf(pc[w], j) /\ j # k
        /\ \A j \in Keys : Puts(pc'[w], j) => Puts(pc[w], j)
        /\ \A j \in Keys : PutsHalf(pc'[w], j) => NewValue(pc'[w]) = pc[w].expire
    BY Zenon, <1>3, <1>4
  <2>6. BaseInv' /\ Moves(w) /\ k \in Keys /\ UNCHANGED <<db, raced>>
    BY Zenon, <1>1
  <2>7. QED
    BY <1>2, <2>1, <2>2, <2>3, <2>4, <2>5, <2>6, MetaData
<1>6. CASE ~pc[w].ok
  <2> HIDE DEF k
  <2>1. /\ pc'[Cleaner].at = "idle"
        /\ \A j \in Keys : /\ HalfPut(j) <=> PutsHalf(pc[w], j)
                           /\ HalfPut(j)' <=> PutsHalf(pc'[w], j)
                           /\ PuttingKey(j)' <=> Puts(pc'[w], j)
                           /\ HalfDel(j)' <=> HalfDel(j)
        /\ \A t \in Threads, j \in Keys : PutsHalf(pc'[t], j) => t = w
    BY Zenon, <1>1, <1>2, PutterView
  <2>2. HalfValue' /\ NoMix'
    BY Zenon, <1>3, <2>1 DEF HalfValue, NoMix
  <2>3. QED
    BY Zenon, <1>1, <1>3, <1>4, <1>6, <2>1, <2>2, DataFrame, NoSnapshot
<1>7. QED
  BY Zenon, <1>5, <1>6

LEMMA BatchNumData ==
  ASSUME BaseInv, DataInv, NEW w \in Workers, BatchNum(w)
  PROVE  DataInv'
<1>1. /\ BaseInv' /\ Moves(w) /\ pc[w].at = "batch_num" /\ pc'[w] = Idle
      /\ UNCHANGED <<db, meta_db, torn, raced>>
  BY Zenon, BatchNumIs
<1>2. Holds(w) /\ pc[w].at \notin Deleting /\ pc'[w].at \notin Deleting
  BY Zenon, <1>1, IdleIs DEF Deleting, Holds, Batching
<1>3. ASSUME NEW j
      PROVE  ~PutsHalf(pc[w], j) /\ ~PutsHalf(pc'[w], j) /\ ~Puts(pc'[w], j)
  BY Zenon, <1>1, IdleIs DEF Puts, PutsHalf, Putting, Batching
<1>4. /\ pc'[Cleaner].at = "idle"
      /\ \A j \in Keys : /\ HalfPut(j) <=> PutsHalf(pc[w], j)
                         /\ HalfPut(j)' <=> PutsHalf(pc'[w], j)
                         /\ PuttingKey(j)' <=> Puts(pc'[w], j)
                         /\ HalfDel(j)' <=> HalfDel(j)
      /\ \A t \in Threads, j \in Keys : PutsHalf(pc'[t], j) => t = w
  BY Zenon, <1>1, <1>2, PutterView
<1>5. HalfValue' /\ NoMix'
  BY Zenon, <1>3, <1>4 DEF HalfValue, NoMix
<1>6. QED
  BY Zenon, <1>1, <1>3, <1>4, <1>5, DataFrame, NoSnapshot

LEMMA BatchWriteData ==
  ASSUME BaseInv, DataInv, NEW w \in Workers, NEW K \in SUBSET Keys, BatchWrite(w, K)
  PROVE  DataInv'
<1>1. /\ BaseInv' /\ Moves(w) /\ LockFree /\ pc[w].at = "idle"
      /\ pc'[w].at = "batch_meta" /\ pc'[w].rest = K \X {0}
      /\ db' = [k \in Keys |-> IF k \in K THEN 0 ELSE db[k]]
      /\ raced' = raced \cup {k \in K : DeletingKey(k)}
      /\ UNCHANGED <<meta_db, torn>>
  BY Zenon, BatchWriteIs
<1>2. pc[w].at \notin Deleting /\ pc'[w].at \notin Deleting
  BY Zenon, <1>1 DEF Deleting
<1>3. /\ pc'[Cleaner].at = "idle"
      /\ \A j \in Keys : /\ HalfPut(j) <=> PutsHalf(pc[w], j)
                         /\ HalfPut(j)' <=> PutsHalf(pc'[w], j)
                         /\ PuttingKey(j)' <=> Puts(pc'[w], j)
                         /\ HalfDel(j)' <=> HalfDel(j)
                         /\ DeletingKey(j)' <=> DeletingKey(j)
      /\ \A t \in Threads, j \in Keys : PutsHalf(pc'[t], j) => t = w
  BY Zenon, <1>1, <1>2, PutterView
<1>4. ASSUME NEW j \in Keys
      PROVE  ~HalfPut(j) /\ (HalfPut(j)' <=> j \in K) /\ (PuttingKey(j)' <=> j \in K)
  <2>1. /\ <<j, 0>> \in K \X {0} <=> j \in K
        /\ (\E e \in K \X {0} : e[1] = j) <=> j \in K
    OBVIOUS
  <2>2. ~PutsHalf(pc[w], j)
    BY Zenon, <1>1 DEF PutsHalf
  <2>3. PutsHalf(pc'[w], j) <=> j \in K
    BY Zenon, <1>1, <2>1 DEF PutsHalf
  <2>4. Puts(pc'[w], j) <=> j \in K
    BY Zenon, <1>1, <2>1 DEF Puts, Putting, Batching
  <2>5. QED
    BY Zenon, <1>3, <2>2, <2>3, <2>4
<1>5. /\ \A j \in K : db'[j] = 0
      /\ \A j \in Keys : j \notin K => db'[j] = db[j]
  BY Zenon, <1>1
<1>6. 0 # None
  BY NoneAssumption
<1>7. HalfValue'
  <2>1. NewValue(pc'[w]) = 0
    BY Zenon, <1>1 DEF NewValue
  <2>2. w \in Threads
    BY Zenon DEF Threads
  <2>3. \A t \in Threads, j \in Keys : PutsHalf(pc'[t], j) => t = w /\ j \in K
    BY Zenon, <1>3, <1>4
  <2>4. QED
    BY Zenon, <1>5, <2>1, <2>3 DEF HalfValue
<1>8. \A j \in K : j \notin raced' => ~DeletingKey(j)
  BY Zenon, <1>1
<1>9. NoMix'
  BY Zenon, <1>1, <1>3, <1>4, <1>8 DEF NoMix
<1>10. Own'
  BY Zenon, <1>1, <1>4, <1>5 DEF Own, DataInv
<1>11. HalfSeen'
  <2> SUFFICES ASSUME NEW j \in Keys, j \notin raced'
               PROVE  (HalfPut(j)' => db'[j] # None) /\ (HalfDel(j)' => db'[j] = None)
    BY Zenon DEF HalfSeen
  <2>1. CASE j \in K
    BY Zenon, <1>3, <1>5, <1>6, <1>8, <2>1, HalfViews
  <2>2. CASE j \notin K
    BY Zenon, <1>1, <1>3, <1>4, <1>5, <2>2 DEF HalfSeen, DataInv
  <2>3. QED
    BY Zenon, <2>1, <2>2
<1>12. Synced'
  BY Zenon, <1>1, <1>3, <1>4, <1>5 DEF Synced, DataInv
<1>13. QED
  BY Zenon, <1>3, <1>7, <1>9, <1>10, <1>11, <1>12, NoSnapshot DEF DataInv

LEMMA BatchMetaData ==
  ASSUME BaseInv, DataInv, NEW w \in Workers, BatchMeta(w)
  PROVE  DataInv'
<1>1. /\ BaseInv' /\ Moves(w) /\ pc[w].at = "batch_meta" /\ pc'[w].at \in Batching
      /\ UNCHANGED <<db, raced>>
  BY Zenon, BatchMetaIs
<1>2. PICK k \in Keys :
        /\ <<k, 0>> \in pc[w].rest /\ pc'[w].rest = pc[w].rest \ {<<k, 0>>}
        /\ pc'[w].rest # {} => pc'[w].at = "batch_meta"
        /\ \/ meta_db' = [meta_db EXCEPT ![k] = 0] /\ torn' = torn \ {k}
           \/ meta_db' = meta_db /\ torn' = torn \cup {k}
  BY Zenon, BatchMetaIs
<1>3. Holds(w) /\ pc[w].at \notin Deleting /\ pc'[w].at \notin Deleting
  BY Zenon, <1>1 DEF Deleting, Holds, Batching
<1>4. PutsHalf(pc[w], k) /\ NewValue(pc[w]) = 0
  BY Zenon, <1>1, <1>2 DEF PutsHalf, NewValue
<1>5. ASSUME NEW j \in Keys
      PROVE  PutsHalf(pc'[w], j) <=> PutsHalf(pc[w], j) /\ j # k
  <2>1. <<j, 0>> = <<k, 0>> <=> j = k
    OBVIOUS
  <2>2. <<j, 0>> \in pc'[w].rest <=> <<j, 0>> \in pc[w].rest /\ j # k
    BY Zenon, <1>2, <2>1
  <2>3. PutsHalf(pc[w], j) <=> <<j, 0>> \in pc[w].rest
    BY Zenon, <1>1 DEF PutsHalf
  <2>4. PutsHalf(pc'[w], j) <=> <<j, 0>> \in pc'[w].rest
    BY Zenon, <1>1, <1>2 DEF PutsHalf, Batching
  <2>5. QED
    BY Zenon, <2>2, <2>3, <2>4
<1>6. ASSUME NEW j \in Keys
      PROVE  Puts(pc'[w], j) => Puts(pc[w], j)
  BY Zenon, <1>1, <1>2 DEF Puts, Putting, Batching
<1>7. ASSUME NEW j \in Keys
      PROVE  PutsHalf(pc'[w], j) => NewValue(pc'[w]) = 0
  BY Zenon, <1>1 DEF PutsHalf, NewValue, Batching
<1>8. 0 \in Nat
  OBVIOUS
<1>9. QED
  BY Zenon, <1>1, <1>2, <1>3, <1>4, <1>5, <1>6, <1>7, <1>8, MetaData
-----------------------------------------------------------------------------
(* The data under the steps of the calls that do not put.                  *)
LEMMA QuietData ==
  ASSUME BaseInv, DataInv, NEW t \in Threads, Moves(t),
         pc[t].at \notin Putting \cup Batching, pc'[t].at \notin Putting \cup Batching,
         UNCHANGED <<db, meta_db, torn>>, raced \subseteq raced',
         \A k \in Keys : DelsHalf(pc'[t], k) <=> DelsHalf(pc[t], k),
         \A k \in Keys \ raced' : Dels(pc'[t], k) => DeletingKey(k) \/ ~PuttingKey(k),
         Snapshot'
  PROVE  DataInv'
<1>1. /\ \A k \in Keys : /\ HalfPut(k)' <=> HalfPut(k)
                         /\ PuttingKey(k)' <=> PuttingKey(k)
                         /\ HalfDel(k)' => HalfDel(k) \/ DelsHalf(pc'[t], k)
                         /\ HalfDel(k) => HalfDel(k)' \/ DelsHalf(pc[t], k)
                         /\ DeletingKey(k)' => DeletingKey(k) \/ Dels(pc'[t], k)
      /\ \A u \in Threads, k \in Keys :
           PutsHalf(pc'[u], k) => u # t /\ pc'[u] = pc[u]
  BY Zenon, OtherView
<1>2. \A k \in Keys : HalfDel(k)' <=> HalfDel(k)
  BY Zenon, <1>1 DEF HalfDel
<1>3. HalfValue'
  <2> SUFFICES ASSUME NEW u \in Threads, NEW k \in Keys, PutsHalf(pc'[u], k)
               PROVE  db[k] = None \/ db[k] = NewValue(pc'[u])
    BY Zenon DEF HalfValue
  <2>1. pc'[u] = pc[u]
    BY Zenon, <1>1
  <2>2. PutsHalf(pc[u], k)
    BY Zenon, <2>1
  <2>3. db[k] = None \/ db[k] = NewValue(pc[u])
    BY Zenon, <2>2 DEF HalfValue, DataInv
  <2>4. QED
    BY Zenon, <2>1, <2>3
<1>4. NoMix'
  BY Zenon, <1>1 DEF NoMix, DataInv
<1>5. QED
  BY Zenon, <1>1, <1>2, <1>3, <1>4, DataFrame

LEMMA WorkerSnapshot ==
  ASSUME BaseInv, DataInv, NEW w \in Workers, Moves(w), UNCHANGED <<now, db, torn>>
  PROVE  Snapshot'
<1>1. pc'[Cleaner] = pc[Cleaner]
  BY Zenon, WorkersAssumption DEF Moves, Threads
<1>2. QED
  BY Zenon, <1>1, SnapshotKept DEF DataInv

LEMMA BeginDelData ==
  ASSUME BaseInv, DataInv, NEW w \in Workers, NEW k \in Keys, BeginDel(w, k)
  PROVE  DataInv'
<1>1. /\ Moves(w) /\ pc[w].at = "idle" /\ pc'[w].at = "get"
      /\ UNCHANGED <<now, db, meta_db, torn, raced>>
  BY Zenon, BeginDelIs
<1>2. w \in Threads
  BY Zenon DEF Threads
<1>3. QED
  BY Zenon, <1>1, <1>2, QuietData, WorkerSnapshot
     DEF Putting, Batching, Deleting, Dels, DelsHalf

LEMMA BeginCountData ==
  ASSUME BaseInv, DataInv, NEW w \in Workers, BeginCount(w)
  PROVE  DataInv'
<1>1. /\ Moves(w) /\ pc[w].at = "idle" /\ pc'[w].at = "count"
      /\ UNCHANGED <<now, db, meta_db, torn, raced>>
  BY Zenon, BeginCountIs
<1>2. w \in Threads
  BY Zenon DEF Threads
<1>3. QED
  BY Zenon, <1>1, <1>2, QuietData, WorkerSnapshot
     DEF Putting, Batching, Deleting, Dels, DelsHalf

LEMMA CountNumData ==
  ASSUME BaseInv, DataInv, NEW w \in Workers, CountNum(w), pc[w].num <= MaxNum
  PROVE  DataInv'
<1>1. /\ Moves(w) /\ pc[w].at = "count" /\ pc'[w].at = "idle"
      /\ UNCHANGED <<now, db, meta_db, torn, raced>>
  BY Zenon, CountNumIs, IdleIs
<1>2. w \in Threads
  BY Zenon DEF Threads
<1>3. QED
  BY Zenon, <1>1, <1>2, QuietData, WorkerSnapshot
     DEF Putting, Batching, Deleting, Dels, DelsHalf

LEMMA GetDbData ==
  ASSUME BaseInv, DataInv, NEW w \in Workers, GetDb(w)
  PROVE  DataInv'
<1> DEFINE k == pc[w].key
<1>1. /\ Moves(w) /\ pc[w].at = "get" /\ UNCHANGED <<now, db, meta_db, torn>>
      /\ \/ pc'[w].at = "idle" /\ raced' = raced
         \/ /\ pc'[w].at = "del_db" /\ pc'[w].key = k
            /\ raced' = IF PuttingKey(k) THEN raced \cup {k} ELSE raced
  BY Zenon, GetDbIs
<1>2. w \in Threads
  BY Zenon DEF Threads
<1> HIDE DEF k
<1>3. Snapshot'
  BY Zenon, <1>1, WorkerSnapshot
<1>4. pc[w].at \notin Putting \cup Batching /\ pc'[w].at \notin Putting \cup Batching
  BY Zenon, <1>1 DEF Putting, Batching
<1>5. \A j \in Keys : DelsHalf(pc'[w], j) <=> DelsHalf(pc[w], j)
  BY Zenon, <1>1 DEF DelsHalf
<1>6. raced \subseteq raced' /\ \A j \in Keys \ raced' : Dels(pc'[w], j) => ~PuttingKey(j)
  BY Zenon, <1>1 DEF Dels, Deleting
<1>7. QED
  BY Zenon, <1>1, <1>2, <1>3, <1>4, <1>5, <1>6, QuietData

LEMMA DelNumData ==
  ASSUME BaseInv, DataInv, NEW t \in Threads, DelNum(t)
  PROVE  DataInv'
<1>1. /\ Moves(t) /\ pc[t].at = "del_num" /\ pc'[t].at = "del_meta"
      /\ pc'[t].key = pc[t].key /\ pc'[t].rest = pc[t].rest
      /\ UNCHANGED <<now, db, meta_db, torn, raced>>
  BY Zenon, DelNumIs
<1>2. Snapshot'
  <2>1. CASE t = Cleaner
    BY Zenon, <1>1, <2>1 DEF Snapshot, DataInv
  <2>2. CASE t # Cleaner
    BY Zenon, <1>1, <2>2, WorkerSnapshot DEF Threads
  <2>3. QED
    BY Zenon, <2>1, <2>2
<1>3. /\ \A k \in Keys : DelsHalf(pc'[t], k) <=> DelsHalf(pc[t], k)
      /\ \A k \in Keys : Dels(pc'[t], k) => Dels(pc[t], k)
  BY Zenon, <1>1 DEF Dels, DelsHalf, Deleting
<1>4. \A k \in Keys : Dels(pc'[t], k) => DeletingKey(k)
  BY Zenon, <1>3, KeyViews
<1>5. pc[t].at \notin Putting \cup Batching /\ pc'[t].at \notin Putting \cup Batching
  BY Zenon, <1>1 DEF Putting, Batching
<1>6. QED
  BY Zenon, <1>1, <1>2, <1>3, <1>4, <1>5, QuietData

LEMMA BeginClearData ==
  ASSUME BaseInv, DataInv, BeginClear
  PROVE  DataInv'
<1>1. /\ Moves(Cleaner) /\ LockFree /\ pc[Cleaner].at = "idle" /\ pc'[Cleaner].at = "clear"
      /\ \A e \in pc'[Cleaner].rest :
           e[1] \in Keys /\ e[2] = meta_db[e[1]] /\ e[2] # None /\ e[2] # 0
      /\ UNCHANGED <<db, meta_db, torn, raced>>
  BY Zenon, BeginClearIs
<1>2. Cleaner \in Threads
  BY Zenon DEF Threads
<1>3. \A k \in Keys : ~HalfPut(k)
  BY Zenon, <1>1, FreeHolds, PutterHolds DEF HalfPut
<1>4. Snapshot'
  <2>1. ASSUME NEW e \in pc'[Cleaner].rest, db[e[1]] # None, e[1] \notin torn
        PROVE  db[e[1]] = e[2]
    <3> DEFINE k == e[1]
    <3>1. k \in Keys /\ e[2] = meta_db[k] /\ e[2] # None
      BY Zenon, <1>1
    <3> HIDE DEF k
    <3>2. db[k] # None /\ k \notin torn
      BY Zenon, <2>1 DEF k
    <3>3. meta_db[k] = db[k]
      BY Zenon, <1>3, <3>1, <3>2 DEF Own, DataInv
    <3>4. QED
      BY Zenon, <3>1, <3>3 DEF k
  <2>2. QED
    BY Zenon, <1>1, <2>1 DEF Snapshot
<1>5. QED
  BY Zenon, <1>1, <1>2, <1>4, QuietData
     DEF Putting, Batching, Deleting, Dels, DelsHalf

LEMMA ClearKeyData ==
  ASSUME BaseInv, DataInv, ClearKey
  PROVE  DataInv'
<1>1. /\ Moves(Cleaner) /\ pc[Cleaner].at = "clear"
      /\ \/ pc'[Cleaner].at = "clear" /\ pc'[Cleaner].rest \subseteq pc[Cleaner].rest
         \/ /\ pc'[Cleaner].at = "del_db" /\ pc'[Cleaner].rest \subseteq pc[Cleaner].rest
            /\ \E e \in pc[Cleaner].rest : pc'[Cleaner].key = e[1] /\ e[1] \in Keys /\ e[2] <= now
      /\ UNCHANGED <<now, db, meta_db, torn, raced>>
  BY Zenon, ClearKeyIs
<1>2. Cleaner \in Threads
  BY Zenon DEF Threads
<1>3. Snapshot'
  <2>1. \A e \in pc'[Cleaner].rest :
          /\ e[2] # 0
          /\ db[e[1]] # None /\ e[1] \notin torn => db[e[1]] = e[2]
    BY Zenon, <1>1 DEF Snapshot, DataInv
  <2>2. ASSUME pc'[Cleaner].at = "del_db", NEW k, k = pc'[Cleaner].key,
               db[k] # None, k \notin torn
        PROVE  db[k] # 0 /\ db[k] <= now
    <3>1. PICK e \in pc[Cleaner].rest : k = e[1] /\ e[2] <= now
      BY Zenon, <1>1, <2>2
    <3>2. e[2] # 0 /\ (db[e[1]] # None /\ e[1] \notin torn => db[e[1]] = e[2])
      BY Zenon, <1>1 DEF Snapshot, DataInv
    <3>3. db[k] = e[2]
      BY Zenon, <2>2, <3>1, <3>2
    <3>4. QED
      BY Zenon, <3>1, <3>2, <3>3
  <2>3. QED
    BY Zenon, <1>1, <2>1, <2>2 DEF Snapshot
<1>4. \A k \in Keys : ~PuttingKey(k)
  <2>1. Holds(Cleaner)
    BY Zenon, <1>1 DEF Holds
  <2>2. pc[Cleaner].at \notin Putting \cup Batching
    BY Zenon, <1>1 DEF Putting, Batching
  <2>3. \A k : ~Puts(pc[Cleaner], k)
    BY Zenon, <2>2 DEF Puts
  <2>4. QED
    BY Zenon, <1>2, <2>1, <2>3, PutterHolds, KeyViews DEF BaseInv, Lock
<1>5. pc[Cleaner].at \notin Putting \cup Batching /\ pc'[Cleaner].at \notin Putting \cup Batching
  BY Zenon, <1>1 DEF Putting, Batching
<1>6. \A j \in Keys : DelsHalf(pc'[Cleaner], j) <=> DelsHalf(pc[Cleaner], j)
  BY Zenon, <1>1 DEF DelsHalf
<1>7. QED
  BY Zenon, <1>1, <1>2, <1>3, <1>4, <1>5, <1>6, QuietData

LEMMA EndClearData ==
  ASSUME BaseInv, DataInv, EndClear
  PROVE  DataInv'
<1>1. /\ Moves(Cleaner) /\ pc[Cleaner].at = "clear" /\ pc'[Cleaner].at = "idle"
      /\ UNCHANGED <<db, meta_db, torn, raced>>
  BY Zenon, EndClearIs, IdleIs
<1>2. Cleaner \in Threads
  BY Zenon DEF Threads
<1>3. QED
  BY Zenon, <1>1, <1>2, QuietData, NoSnapshot
     DEF Putting, Batching, Deleting, Dels, DelsHalf

LEMMA DelDbData ==
  ASSUME BaseInv, DataInv, NEW t \in Threads, DelDb(t)
  PROVE  DataInv'
<1> DEFINE k == pc[t].key
<1>1. /\ Moves(t) /\ pc[t].at = "del_db" /\ k \in Keys
      /\ t = Cleaner => pc'[t].rest = pc[t].rest
      /\ \/ /\ db' = [db EXCEPT ![k] = None]
            /\ pc'[t].at \in {"del_num", "del_meta"} /\ pc'[t].key = k
         \/ db' = db /\ pc'[t].at \in {"clear", "idle"}
      /\ UNCHANGED <<now, meta_db, torn, raced>>
  BY Zenon, DelDbIs
<1>2. pc[t].at \notin Putting \cup Batching /\ pc'[t].at \notin Putting \cup Batching
  BY Zenon, <1>1 DEF Putting, Batching
<1>3. Dels(pc[t], k) /\ \A j : ~DelsHalf(pc[t], j)
  BY Zenon, <1>1 DEF Dels, DelsHalf, Deleting
<1> HIDE DEF k
<1>4. \A j \in Keys : db'[j] = None \/ db'[j] = db[j]
  BY Zenon, <1>1, BaseParts
<1>5. Snapshot'
  <2>1. CASE t = Cleaner
    <3>1. pc'[Cleaner].at # "del_db"
      BY Zenon, <1>1, <2>1
    <3>2. ASSUME NEW e \in pc'[Cleaner].rest
          PROVE  e[2] # 0 /\ (db'[e[1]] # None /\ e[1] \notin torn => db'[e[1]] = e[2])
      <4>1. pc[Cleaner] \in Calls /\ e \in pc[Cleaner].rest
        BY Zenon, <1>1, <2>1, <3>2, BaseParts
      <4>2. e[1] \in Keys
        BY <4>1 DEF Calls
      <4>3. e[2] # 0 /\ (db[e[1]] # None /\ e[1] \notin torn => db[e[1]] = e[2])
        BY Zenon, <1>1, <2>1, <4>1 DEF Snapshot, DataInv
      <4>4. QED
        BY Zenon, <1>4, <4>2, <4>3
    <3>3. QED
      BY Zenon, <1>1, <3>1, <3>2 DEF Snapshot
  <2>2. CASE t # Cleaner
    <3>1. pc'[Cleaner] = pc[Cleaner]
      BY Zenon, <1>1, <2>2 DEF Moves, Threads
    <3>2. QED
      BY Zenon, <1>1, <1>4, <3>1, SnapshotKept DEF DataInv
  <2>3. QED
    BY Zenon, <2>1, <2>2
<1>6. CASE db' = db /\ pc'[t].at \in {"clear", "idle"}
  <2>1. \A j : ~DelsHalf(pc'[t], j) /\ ~Dels(pc'[t], j)
    BY Zenon, <1>6 DEF Dels, DelsHalf, Deleting
  <2>2. QED
    BY Zenon, <1>1, <1>2, <1>3, <1>5, <1>6, <2>1, QuietData
<1>7. CASE /\ db' = [db EXCEPT ![k] = None]
           /\ pc'[t].at \in {"del_num", "del_meta"} /\ pc'[t].key = k
  <2>1. /\ \A j \in Keys : /\ HalfPut(j)' <=> HalfPut(j)
                           /\ PuttingKey(j)' <=> PuttingKey(j)
                           /\ HalfDel(j)' => HalfDel(j) \/ DelsHalf(pc'[t], j)
                           /\ HalfDel(j) => HalfDel(j)' \/ DelsHalf(pc[t], j)
                           /\ DeletingKey(j)' => DeletingKey(j) \/ Dels(pc'[t], j)
        /\ \A u \in Threads, j \in Keys :
             PutsHalf(pc'[u], j) => u # t /\ pc'[u] = pc[u]
    BY Zenon, <1>1, <1>2, OtherView
  <2>2. \A j : (Dels(pc'[t], j) => j = k) /\ (DelsHalf(pc'[t], j) <=> j = k)
    BY Zenon, <1>7 DEF Dels, DelsHalf
  <2>3. DeletingKey(k)
    BY Zenon, <1>3, KeyViews
  <2>4. \A j \in Keys : j = k => HalfDel(j)'
    BY Zenon, <2>2 DEF HalfDel
  <2>5. db'[k] = None /\ \A j \in Keys : j # k => db'[j] = db[j]
    BY Zenon, <1>1, <1>7, BaseParts
  <2>6. HalfValue'
    <3> SUFFICES ASSUME NEW u \in Threads, NEW j \in Keys, PutsHalf(pc'[u], j)
                 PROVE  db'[j] = None \/ db'[j] = NewValue(pc'[u])
      BY Zenon DEF HalfValue
    <3>1. pc'[u] = pc[u]
      BY Zenon, <2>1
    <3>2. PutsHalf(pc[u], j)
      BY Zenon, <3>1
    <3>3. db[j] = None \/ db[j] = NewValue(pc[u])
      BY Zenon, <3>2 DEF HalfValue, DataInv
    <3>4. QED
      BY Zenon, <1>4, <3>1, <3>3
  <2>7. NoMix'
    BY Zenon, <1>1, <2>1, <2>2, <2>3 DEF NoMix, DataInv
  <2>8. Own'
    BY Zenon, <1>1, <2>1, <2>5 DEF Own, DataInv
  <2>9. HalfSeen'
    <3> SUFFICES ASSUME NEW j \in Keys, j \notin raced
                 PROVE  (HalfPut(j)' => db'[j] # None) /\ (HalfDel(j)' => db'[j] = None)
      BY Zenon, <1>1 DEF HalfSeen
    <3>1. CASE j = k
      BY Zenon, <2>1, <2>3, <2>5, <3>1, HalfViews DEF NoMix, DataInv
    <3>2. CASE j # k
      BY Zenon, <2>1, <2>2, <2>5, <3>2 DEF HalfSeen, DataInv
    <3>3. QED
      BY Zenon, <3>1, <3>2
  <2>10. Synced'
    BY ZenonT(60), <1>1, <1>3, <2>1, <2>4, <2>5 DEF Synced, DataInv
  <2>11. QED
    BY Zenon, <1>5, <2>6, <2>7, <2>8, <2>9, <2>10 DEF DataInv
<1>8. QED
  BY Zenon, <1>1, <1>6, <1>7

LEMMA DelMetaData ==
  ASSUME BaseInv, DataInv, NEW t \in Threads, DelMeta(t)
  PROVE  DataInv'
<1> DEFINE k == pc[t].key
<1>1. /\ Moves(t) /\ pc[t].at = "del_meta" /\ k \in Keys
      /\ pc'[t].at \in {"clear", "idle"} /\ (t = Cleaner => pc'[t].rest = pc[t].rest)
      /\ \/ meta_db' = [meta_db EXCEPT ![k] = None] /\ torn' = torn
         \/ meta_db' = meta_db /\ torn' = torn \cup {k}
      /\ UNCHANGED <<now, db, raced>>
  BY Zenon, DelMetaIs
<1>2. pc[t].at \notin Putting \cup Batching /\ pc'[t].at \notin Putting \cup Batching
  BY Zenon, <1>1 DEF Putting, Batching
<1>3. \A j : /\ DelsHalf(pc[t], j) <=> j = k
             /\ ~Dels(pc'[t], j) /\ ~DelsHalf(pc'[t], j)
  BY Zenon, <1>1 DEF Dels, DelsHalf, Deleting
<1> HIDE DEF k
<1>4. torn \subseteq torn' /\ (meta_db'[k] = None \/ k \in torn')
  BY Zenon, <1>1, BaseParts
<1>5. \A j \in Keys : /\ meta_db'[j] = None \/ meta_db'[j] = meta_db[j]
                      /\ j # k => meta_db'[j] = meta_db[j] /\ (j \in torn' => j \in torn)
  BY Zenon, <1>1, BaseParts
<1>6. Snapshot'
  <2>1. CASE t = Cleaner
    BY Zenon, <1>1, <1>4, <2>1 DEF Snapshot, DataInv
  <2>2. CASE t # Cleaner
    <3>1. pc'[Cleaner] = pc[Cleaner]
      BY Zenon, <1>1, <2>2 DEF Moves, Threads
    <3>2. QED
      BY Zenon, <1>1, <1>4, <3>1, SnapshotKept DEF DataInv
  <2>3. QED
    BY Zenon, <2>1, <2>2
<1>7. /\ \A j \in Keys : /\ HalfPut(j)' <=> HalfPut(j)
                         /\ PuttingKey(j)' <=> PuttingKey(j)
                         /\ HalfDel(j)' => HalfDel(j) \/ DelsHalf(pc'[t], j)
                         /\ HalfDel(j) => HalfDel(j)' \/ DelsHalf(pc[t], j)
                         /\ DeletingKey(j)' => DeletingKey(j) \/ Dels(pc'[t], j)
      /\ \A u \in Threads, j \in Keys :
           PutsHalf(pc'[u], j) => u # t /\ pc'[u] = pc[u]
  BY Zenon, <1>1, <1>2, OtherView
<1>8. HalfValue'
  <2> SUFFICES ASSUME NEW u \in Threads, NEW j \in Keys, PutsHalf(pc'[u], j)
               PROVE  db[j] = None \/ db[j] = NewValue(pc'[u])
    BY Zenon, <1>1 DEF HalfValue
  <2>1. pc'[u] = pc[u]
    BY Zenon, <1>7
  <2>2. PutsHalf(pc[u], j)
    BY Zenon, <2>1
  <2>3. db[j] = None \/ db[j] = NewValue(pc[u])
    BY Zenon, <2>2 DEF HalfValue, DataInv
  <2>4. QED
    BY Zenon, <2>1, <2>3
<1>9. NoMix'
  BY Zenon, <1>1, <1>3, <1>7 DEF NoMix, DataInv
<1>10. Own'
  BY Zenon, <1>1, <1>4, <1>5, <1>7 DEF Own, DataInv
<1>11. HalfSeen'
  BY Zenon, <1>1, <1>3, <1>7 DEF HalfSeen, DataInv
<1>12. HalfDel(k)
  BY Zenon, <1>3 DEF HalfDel
<1>13. Synced'
  <2> SUFFICES ASSUME NEW j \in Keys, j \notin torn', j \notin raced, ~HalfPut(j)', ~HalfDel(j)'
               PROVE  db[j] = None <=> meta_db'[j] = None
    BY Zenon, <1>1 DEF Synced
  <2>1. CASE j = k
    BY Zenon, <1>4, <1>12, <2>1 DEF HalfSeen, DataInv
  <2>2. CASE j # k
    BY Zenon, <1>3, <1>4, <1>5, <1>7, <2>2 DEF Synced, DataInv
  <2>3. QED
    BY Zenon, <2>1, <2>2
<1>14. QED
  BY Zenon, <1>6, <1>8, <1>9, <1>10, <1>11, <1>13 DEF DataInv

LEMMA TickData ==
  ASSUME BaseInv, DataInv, Tick
  PROVE  DataInv'
<1>1. now' = now + 1 /\ UNCHANGED <<db, meta_db, pc, torn, raced>>
  BY Zenon DEF Tick, history
<1>2. now \in Nat /\ db \in [Keys -> Nat \cup {None}]
  BY BaseParts DEF StoreOK
<1>3. pc[Cleaner].at = "del_db" => pc[Cleaner].key \in Keys
  BY Zenon, BaseParts DEF Threads, Deleting
<1>4. Snapshot'
  <2>1. ASSUME pc[Cleaner].at = "del_db", NEW v, v = db[pc[Cleaner].key],
               v # None, v <= now
        PROVE  v <= now'
    <3>1. v \in Nat
      BY Zenon, <1>2, <1>3, <2>1
    <3>2. QED
      BY <1>1, <1>2, <2>1, <3>1
  <2>2. QED
    BY Zenon, <1>1, <2>1 DEF Snapshot, DataInv
<1>5. HalfValue' /\ NoMix'
  BY Zenon, <1>1 DEF HalfValue, NoMix, PuttingKey, DeletingKey, DataInv
<1>6. QED
  BY Zenon, <1>1, <1>4, <1>5, DataFrame DEF HalfPut, HalfDel

LEMMA RestartData ==
  ASSUME BaseInv, DataInv, Restart
  PROVE  DataInv'
<1>1. /\ \A t \in Threads : pc'[t] = Idle
      /\ torn' = torn \cup {k \in Keys : HalfDone(k)}
      /\ UNCHANGED <<db, meta_db, raced>>
  BY Zenon, RestartIs
<1>2. \A k : ~PutsHalf(Idle, k) /\ ~Puts(Idle, k) /\ ~DelsHalf(Idle, k)
  BY Zenon, IdleIs DEF PutsHalf, Puts, DelsHalf, Putting, Batching
<1>3. ASSUME NEW k \in Keys
      PROVE  ~HalfPut(k)' /\ ~HalfDel(k)' /\ ~PuttingKey(k)'
  <2>1. PuttingKey(k)' <=> \E t \in Threads : Puts(pc'[t], k)
    BY Zenon DEF PuttingKey, Puts
  <2>2. QED
    BY Zenon, <1>1, <1>2, <2>1 DEF HalfPut, HalfDel
<1>4. ASSUME NEW k \in Keys, k \notin torn'
      PROVE  k \notin torn /\ ~HalfPut(k) /\ ~HalfDel(k)
  <2>1. k \notin torn /\ ~HalfDone(k)
    BY Zenon, <1>1, <1>4
  <2>2. \A t \in Threads : pc[t].at = "batch_meta" => t \in Workers
    BY Zenon, BaseParts DEF Roles, Threads, Deleting
  <2>3. QED
    BY Zenon, <2>1, <2>2 DEF HalfDone, HalfPut, HalfDel, PutsHalf, DelsHalf
<1>5. HalfValue'
  BY Zenon, <1>3 DEF HalfValue, HalfPut
<1>6. Own'
  BY Zenon, <1>1, <1>4 DEF Own, DataInv
<1>7. NoMix' /\ HalfSeen'
  BY Zenon, <1>3 DEF NoMix, HalfSeen
<1>8. Synced'
  BY Zenon, <1>1, <1>4 DEF Synced, DataInv
<1>9. Snapshot'
  BY Zenon, <1>1, IdleIs, NoSnapshot DEF Threads
<1>10. QED
  BY Zenon, <1>5, <1>6, <1>7, <1>8, <1>9 DEF DataInv
-----------------------------------------------------------------------------
(* The counter: a step that leaves key_num alone, one that sets it.        *)
LEMMA CallTypes ==
  ASSUME BaseInv
  PROVE  /\ key_num \in Nat /\ key_num < Modulus /\ MaxNum \in Nat
         /\ \A t \in Threads : pc[t].num \in Nat
<1>1. \A t \in Threads : pc[t] \in Calls
  BY Zenon, BaseParts
<1>2. \A t \in Threads : pc[t].num \in Nat
  BY <1>1 DEF Calls
<1>3. key_num \in Nat /\ key_num < Modulus /\ MaxNum \in Nat
  BY BaseParts, ModulusAssumption, BoundAssumption DEF CountOK
<1>4. QED
  BY Zenon, <1>2, <1>3

LEMMA NumOneKept ==
  ASSUME NumOne, NEW t \in Threads, Moves(t),
         pc'[t].at \in Counting => pc'[t].num <= MaxNum,
         pc'[t].at = "put_db" => pc'[t].num \in {0, 1},
         pc'[t].at = "put_num" => pc'[t].num = 1
  PROVE  NumOne'
BY Zenon DEF NumOne, Moves

LEMMA NumFrame ==
  ASSUME BaseInv, NumFits, NEW t \in Threads, Moves(t), UNCHANGED <<key_num, number>>,
         pc'[t].at \in Adding => key_num + pc'[t].num <= 2 * MaxNum,
         pc'[t].at # "del_num", pc'[t].at = "count" => key_num = 0
  PROVE  NumFits'
<1>1. \A u \in Threads : u # t => pc'[u] = pc[u]
  BY Zenon DEF Moves
<1>2. \A u \in Threads : pc'[u].at \in Adding => key_num + pc'[u].num <= 2 * MaxNum
  BY Zenon, <1>1 DEF NumFits
<1>3. key_num = 0 => ~(key_num > 0)
  OBVIOUS
<1>4. ASSUME NEW u \in Threads, pc'[u].at = "del_num"
      PROVE  key_num > 0 /\ \A v \in Threads \ {u} : pc'[v].at \notin {"del_num", "count"}
  <2>1. u # t /\ pc'[u] = pc[u]
    BY Zenon, <1>1, <1>4
  <2>2. key_num > 0 /\ \A v \in Threads \ {u} : pc[v].at \notin {"del_num", "count"}
    BY Zenon, <1>4, <2>1 DEF NumFits
  <2>3. QED
    BY Zenon, <1>1, <1>3, <2>2
<1>5. QED
  BY Zenon, <1>2, <1>4 DEF NumFits

LEMMA NumSet ==
  ASSUME BaseInv, NumFits, NEW t \in Threads, Moves(t),
         pc'[t].at \in {"idle", "put_meta", "del_meta"},
         number' = number \/ number' = key_num', key_num' <= 2 * MaxNum,
         \A u \in Threads \ {t} : pc[u].at \in Adding => key_num' + pc[u].num <= 2 * MaxNum,
         \A u \in Threads \ {t} : pc[u].at = "del_num" => key_num' > 0
  PROVE  NumFits'
<1>1. \A u \in Threads : u # t => pc'[u] = pc[u]
  BY Zenon DEF Moves
<1>2. pc'[t].at \notin Adding /\ pc'[t].at \notin {"del_num", "count"}
  BY Zenon DEF Adding, Batching
<1>3. \A u \in Threads : pc'[u].at \in Adding => key_num' + pc'[u].num <= 2 * MaxNum
  BY Zenon, <1>1, <1>2
<1>4. ASSUME NEW u \in Threads, pc'[u].at = "del_num"
      PROVE  key_num' > 0 /\ \A v \in Threads \ {u} : pc'[v].at \notin {"del_num", "count"}
  <2>1. u # t /\ pc'[u] = pc[u]
    BY Zenon, <1>1, <1>2, <1>4
  <2>2. key_num' > 0 /\ \A v \in Threads \ {u} : pc[v].at \notin {"del_num", "count"}
    BY Zenon, <1>4, <2>1 DEF NumFits
  <2>3. QED
    BY Zenon, <1>1, <1>2, <2>2
<1>5. QED
  BY Zenon, <1>3, <1>4 DEF NumFits

(* A call that adds to key_num holds clear_lock, so it is the only one.    *)
LEMMA OneAdds ==
  ASSUME BaseInv, NEW t \in Threads, pc[t].at \in Adding
  PROVE  \A u \in Threads \ {t} : pc[u].at \notin Adding
<1>1. \A u \in Threads : pc[u].at \in Adding => Holds(u)
  BY Zenon DEF Adding, Holds, Putting
<1>2. QED
  BY Zenon, <1>1, BaseParts DEF Lock

(* A step that neither counts nor begins to.                               *)
LEMMA NumQuiet ==
  ASSUME BaseInv, NumInv, NEW t \in Threads, Moves(t), UNCHANGED <<key_num, number>>,
         crossed => crossed', pc'[t].at \notin Counting, pc'[t].at # "del_num"
  PROVE  NumInv'
<1>1. pc'[t].at \notin Adding /\ pc'[t].at \notin {"count", "put_db", "put_num"}
  BY Zenon DEF Adding, Counting, Putting, Batching
<1>2. NumOne'
  BY Zenon, <1>1, NumOneKept DEF NumInv
<1>3. ~crossed' => NumFits'
  BY Zenon, <1>1, NumFrame DEF NumInv
<1>4. QED
  BY Zenon, <1>2, <1>3 DEF NumInv

LEMMA BeginPutNum ==
  ASSUME BaseInv, NumInv, NEW w \in Workers, NEW k \in Keys, NEW expire \in Nat,
         BeginPut(w, k, expire)
  PROVE  NumInv'
<1>1. /\ Moves(w) /\ pc'[w].at = "put_db" /\ pc'[w].num \in {0, 1}
      /\ key_num < MaxNum /\ UNCHANGED <<key_num, number, crossed>>
  BY Zenon, BeginPutIs
<1>2. w \in Threads
  BY Zenon DEF Threads
<1>3. pc'[w].num <= MaxNum /\ key_num + pc'[w].num <= 2 * MaxNum
  BY <1>1, CallTypes
<1>4. NumOne'
  BY Zenon, <1>1, <1>2, <1>3, NumOneKept DEF NumInv
<1>5. ~crossed => NumFits'
  BY Zenon, <1>1, <1>2, <1>3, NumFrame DEF NumInv
<1>6. QED
  BY Zenon, <1>1, <1>4, <1>5 DEF NumInv

LEMMA PutDbNum ==
  ASSUME BaseInv, NumInv, NEW w \in Workers, PutDb(w)
  PROVE  NumInv'
<1>1. /\ Moves(w) /\ pc[w].at = "put_db" /\ pc'[w].num = pc[w].num
      /\ pc'[w].at = (IF pc[w].num > 0 THEN "put_num" ELSE "put_meta")
      /\ UNCHANGED <<key_num, number, crossed>>
  BY Zenon, PutDbIs
<1>2. w \in Threads
  BY Zenon DEF Threads
<1>3. pc[w].num <= MaxNum /\ pc[w].num \in {0, 1}
  BY Zenon, <1>1, <1>2 DEF NumInv, NumOne, Counting, Putting
<1>4. pc[w].num > 0 => pc[w].num = 1
  BY <1>3
<1>5. NumOne'
  BY Zenon, <1>1, <1>2, <1>3, <1>4, NumOneKept DEF NumInv
<1>6. ASSUME NumFits
      PROVE  NumFits'
  <2>1. key_num + pc'[w].num <= 2 * MaxNum
    BY Zenon, <1>1, <1>2, <1>6 DEF NumFits, Adding
  <2>2. QED
    BY Zenon, <1>1, <1>2, <1>6, <2>1, NumFrame
<1>7. QED
  BY Zenon, <1>1, <1>5, <1>6 DEF NumInv

LEMMA PutNumNum ==
  ASSUME BaseInv, NumInv, NEW w \in Workers, PutNum(w)
  PROVE  NumInv'
<1>1. /\ Moves(w) /\ pc[w].at = "put_num" /\ pc'[w].at = "put_meta" /\ pc'[w].num = pc[w].num
      /\ key_num' = (key_num + 1) % Modulus /\ (number' = number \/ number' = key_num')
      /\ UNCHANGED crossed
  BY Zenon, PutNumIs
<1>2. w \in Threads
  BY Zenon DEF Threads
<1>3. pc[w].num <= MaxNum /\ pc[w].num = 1
  BY Zenon, <1>1, <1>2 DEF NumInv, NumOne, Counting, Putting
<1>4. NumOne'
  BY Zenon, <1>1, <1>2, <1>3, NumOneKept DEF NumInv
<1>5. ASSUME NumFits
      PROVE  NumFits'
  <2>1. key_num + 1 <= 2 * MaxNum
    <3>1. key_num + pc[w].num <= 2 * MaxNum
      BY Zenon, <1>1, <1>2, <1>5 DEF NumFits, Adding
    <3>2. QED
      BY Zenon, <1>3, <3>1
  <2>2. key_num + 1 \in 0 .. Modulus - 1 /\ key_num + 1 \in Int
    BY <2>1, CallTypes, ModulusAssumption
  <2>3. key_num' = key_num + 1
    BY Zenon, <1>1, <2>2, Wrapped
  <2>4. key_num' <= 2 * MaxNum /\ key_num' > 0
    BY <2>1, <2>3, CallTypes
  <2>5. \A u \in Threads \ {w} : pc[u].at \notin Adding
    BY Zenon, <1>1, <1>2, OneAdds DEF Adding
  <2>6. QED
    BY Zenon, <1>1, <1>2, <1>5, <2>4, <2>5, NumSet
<1>6. QED
  BY Zenon, <1>1, <1>4, <1>5 DEF NumInv

LEMMA BatchWriteNum ==
  ASSUME BaseInv, NumInv, NEW w \in Workers, NEW K \in SUBSET Keys, BatchWrite(w, K)
  PROVE  NumInv'
<1>1. /\ Moves(w) /\ pc'[w].at = "batch_meta" /\ pc'[w].num <= MaxNum /\ pc'[w].num \in Nat
      /\ key_num + pc'[w].num <= MaxNum /\ UNCHANGED <<key_num, number, crossed>>
  BY Zenon, BatchWriteIs
<1>2. w \in Threads
  BY Zenon DEF Threads
<1>3. key_num + pc'[w].num <= 2 * MaxNum
  BY <1>1, CallTypes
<1>4. NumOne'
  BY Zenon, <1>1, <1>2, NumOneKept DEF NumInv
<1>5. ~crossed => NumFits'
  BY Zenon, <1>1, <1>2, <1>3, NumFrame DEF NumInv
<1>6. QED
  BY Zenon, <1>1, <1>4, <1>5 DEF NumInv

LEMMA BatchMetaNum ==
  ASSUME BaseInv, NumInv, NEW w \in Workers, BatchMeta(w)
  PROVE  NumInv'
<1>1. /\ Moves(w) /\ pc[w].at = "batch_meta" /\ pc'[w].at \in Batching /\ pc'[w].num = pc[w].num
      /\ UNCHANGED <<key_num, number, crossed>>
  BY Zenon, BatchMetaIs
<1>2. w \in Threads
  BY Zenon DEF Threads
<1>3. pc'[w].at \notin {"put_db", "put_num", "count", "del_num"}
  BY Zenon, <1>1 DEF Batching
<1>4. pc[w].num <= MaxNum
  BY Zenon, <1>1, <1>2 DEF NumInv, NumOne, Counting, Batching
<1>5. NumOne'
  BY Zenon, <1>1, <1>2, <1>3, <1>4, NumOneKept DEF NumInv
<1>6. ASSUME NumFits
      PROVE  NumFits'
  <2>1. key_num + pc'[w].num <= 2 * MaxNum
    BY Zenon, <1>1, <1>2, <1>6 DEF NumFits, Adding, Batching
  <2>2. QED
    BY Zenon, <1>1, <1>2, <1>3, <1>6, <2>1, NumFrame
<1>7. QED
  BY Zenon, <1>1, <1>5, <1>6 DEF NumInv

LEMMA BatchNumNum ==
  ASSUME BaseInv, NumInv, NEW w \in Workers, BatchNum(w)
  PROVE  NumInv'
<1>1. /\ Moves(w) /\ pc[w].at = "batch_num" /\ pc'[w] = Idle
      /\ key_num' = (key_num + pc[w].num) % Modulus
      /\ (number' = number \/ number' = key_num') /\ UNCHANGED crossed
  BY Zenon, BatchNumIs
<1>2. w \in Threads /\ pc'[w].at = "idle"
  BY Zenon, <1>1, IdleIs DEF Threads
<1>3. NumOne'
  BY Zenon, <1>1, <1>2, NumOneKept DEF NumInv, Counting, Putting, Batching
<1>4. ASSUME NumFits
      PROVE  NumFits'
  <2>1. key_num + pc[w].num <= 2 * MaxNum
    BY Zenon, <1>1, <1>2, <1>4 DEF NumFits, Adding, Batching
  <2>2. pc[w].num \in Nat
    BY Zenon, <1>2, CallTypes
  <2>3. key_num + pc[w].num \in 0 .. Modulus - 1 /\ key_num + pc[w].num \in Int
    BY <2>1, <2>2, CallTypes, ModulusAssumption
  <2>4. key_num' = key_num + pc[w].num
    BY Zenon, <1>1, <2>3, Wrapped
  <2>5. key_num' <= 2 * MaxNum /\ (key_num > 0 => key_num' > 0)
    BY <2>1, <2>2, <2>4, CallTypes
  <2>6. \A u \in Threads \ {w} : pc[u].at \notin Adding
    BY Zenon, <1>1, <1>2, OneAdds DEF Adding, Batching
  <2>7. \A u \in Threads : pc[u].at = "del_num" => key_num > 0
    BY Zenon, <1>4 DEF NumFits
  <2>8. QED
    BY Zenon, <1>1, <1>2, <1>4, <2>5, <2>6, <2>7, NumSet
<1>5. QED
  BY Zenon, <1>1, <1>3, <1>4 DEF NumInv

LEMMA BeginCountNum ==
  ASSUME BaseInv, NumInv, NEW w \in Workers, BeginCount(w)
  PROVE  NumInv'
<1>1. /\ Moves(w) /\ pc'[w].at = "count" /\ key_num = 0 /\ pc'[w].num <= MaxNum
      /\ UNCHANGED <<key_num, number, crossed>>
  BY Zenon, BeginCountIs
<1>2. w \in Threads /\ pc'[w].at \notin Adding
  BY Zenon, <1>1 DEF Threads, Adding, Batching
<1>3. NumOne'
  BY Zenon, <1>1, <1>2, NumOneKept DEF NumInv
<1>4. ~crossed => NumFits'
  BY Zenon, <1>1, <1>2, NumFrame DEF NumInv
<1>5. QED
  BY Zenon, <1>1, <1>3, <1>4 DEF NumInv

LEMMA CountNumNum ==
  ASSUME BaseInv, NumInv, NEW w \in Workers, CountNum(w)
  PROVE  NumInv' /\ pc[w].num <= MaxNum
<1>1. w \in Threads /\ pc[w].at = "count"
  BY Zenon DEF Threads, CountNum
<1>2. pc[w].num <= MaxNum
  BY Zenon, <1>1 DEF NumInv, NumOne, Counting
<1>3. /\ Moves(w) /\ pc'[w] = Idle /\ key_num' = pc[w].num
      /\ (number' = number \/ number' = key_num') /\ UNCHANGED crossed
  BY Zenon, <1>2, CountNumIs
<1>4. pc'[w].at = "idle"
  BY Zenon, <1>3, IdleIs
<1>5. NumOne'
  BY Zenon, <1>1, <1>3, <1>4, NumOneKept DEF NumInv, Counting, Putting, Batching
<1>6. ASSUME NumFits
      PROVE  NumFits'
  <2>1. key_num' <= 2 * MaxNum
    BY <1>1, <1>2, <1>3, CallTypes
  <2>2. \A u \in Threads : pc[u].at \in Adding => pc[u].num <= MaxNum
    BY Zenon DEF NumInv, NumOne, Counting, Adding, Putting
  <2>3. \A u \in Threads \ {w} : pc[u].at \in Adding => key_num' + pc[u].num <= 2 * MaxNum
    BY <1>1, <1>2, <1>3, <2>2, CallTypes
  <2>4. \A u \in Threads \ {w} : pc[u].at # "del_num"
    BY Zenon, <1>1, <1>6 DEF NumFits
  <2>5. QED
    BY ZenonT(60), <1>1, <1>3, <1>4, <1>6, <2>1, <2>3, <2>4, NumSet
<1>7. QED
  BY Zenon, <1>2, <1>3, <1>5, <1>6 DEF NumInv

LEMMA DelDbNum ==
  ASSUME BaseInv, NumInv, NEW t \in Threads, DelDb(t)
  PROVE  NumInv'
<1>1. /\ Moves(t) /\ pc[t].at = "del_db" /\ UNCHANGED <<key_num, number>>
      /\ \/ pc'[t].at = (IF key_num > 0 THEN "del_num" ELSE "del_meta")
         \/ pc'[t].at = (IF t = Cleaner THEN "clear" ELSE "idle")
      /\ crossed' = (crossed \/ \E u \in Threads \ {t} : pc[u].at \in {"del_num", "count"})
  BY Zenon, DelDbIs
<1>2. pc'[t].at \notin Counting /\ pc'[t].at \notin Adding
  BY Zenon, <1>1 DEF Counting, Adding, Putting, Batching
<1>3. NumOne'
  BY Zenon, <1>1, <1>2, NumOneKept DEF NumInv, Counting, Putting
<1>4. ASSUME ~crossed', pc'[t].at = "del_num"
      PROVE  NumFits'
  <2>1. ~crossed /\ \A u \in Threads \ {t} : pc[u].at \notin {"del_num", "count"}
    BY Zenon, <1>1, <1>4
  <2>2. key_num > 0
    BY Zenon, <1>1, <1>4
  <2>3. \A u \in Threads : u # t => pc'[u] = pc[u]
    BY Zenon, <1>1 DEF Moves
  <2>4. NumFits
    BY Zenon, <2>1 DEF NumInv
  <2>5. \A u \in Threads : pc'[u].at \in Adding => key_num + pc'[u].num <= 2 * MaxNum
    BY Zenon, <1>2, <2>3, <2>4 DEF NumFits
  <2>6. \A u \in Threads : pc'[u].at = "del_num" =>
          \A v \in Threads \ {u} : pc'[v].at \notin {"del_num", "count"}
    BY Zenon, <2>1, <2>3
  <2>7. QED
    BY Zenon, <1>1, <2>2, <2>4, <2>5, <2>6 DEF NumFits
<1>5. ASSUME ~crossed', pc'[t].at # "del_num"
      PROVE  NumFits'
  <2>1. NumFits
    BY Zenon, <1>1, <1>5 DEF NumInv
  <2>2. pc'[t].at # "count"
    BY Zenon, <1>2 DEF Counting
  <2>3. QED
    BY Zenon, <1>1, <1>2, <1>5, <2>1, <2>2, NumFrame
<1>6. QED
  BY Zenon, <1>3, <1>4, <1>5 DEF NumInv

LEMMA DelNumNum ==
  ASSUME BaseInv, NumInv, NEW t \in Threads, DelNum(t)
  PROVE  NumInv'
<1>1. /\ Moves(t) /\ pc[t].at = "del_num" /\ pc'[t].at = "del_meta"
      /\ key_num' = (key_num - 1) % Modulus /\ (number' = number \/ number' = key_num')
      /\ UNCHANGED crossed
  BY Zenon, DelNumIs
<1>2. NumOne'
  BY Zenon, <1>1, NumOneKept DEF NumInv, Counting, Putting, Batching
<1>3. ASSUME NumFits
      PROVE  NumFits'
  <2>1. key_num > 0 /\ \A u \in Threads \ {t} : pc[u].at # "del_num"
    BY Zenon, <1>1, <1>3 DEF NumFits
  <2>2. key_num - 1 \in 0 .. Modulus - 1 /\ key_num - 1 \in Int
    BY <2>1, CallTypes, ModulusAssumption
  <2>3. key_num' = key_num - 1
    BY Zenon, <1>1, <2>2, Wrapped
  <2>4. key_num <= 2 * MaxNum
    BY Zenon, <1>3 DEF NumFits
  <2>5. key_num' <= 2 * MaxNum
    BY <2>3, <2>4, CallTypes
  <2>6. \A u \in Threads : pc[u].at \in Adding => key_num + pc[u].num <= 2 * MaxNum
    BY Zenon, <1>3 DEF NumFits
  <2>7. \A u \in Threads : pc[u].at \in Adding => key_num' + pc[u].num <= 2 * MaxNum
    BY <2>3, <2>6, CallTypes
  <2>8. QED
    BY Zenon, <1>1, <1>3, <2>1, <2>5, <2>7, NumSet
<1>4. QED
  BY Zenon, <1>1, <1>2, <1>3 DEF NumInv

LEMMA RestartNum ==
  ASSUME BaseInv, NumInv, Restart
  PROVE  NumInv'
<1>1. /\ \A t \in Threads : pc'[t] = Idle
      /\ key_num' = IF number = None THEN 0 ELSE number
      /\ UNCHANGED <<number, crossed>>
  BY Zenon, RestartIs
<1>2. 0 <= 2 * MaxNum
  BY BoundAssumption
<1>3. NumOne'
  BY Zenon, <1>1, IdleIs DEF NumOne, Counting, Putting, Batching
<1>4. ~crossed => NumFits'
  BY Zenon, <1>1, <1>2, IdleIs DEF NumInv, NumFits, Adding, Batching
<1>5. QED
  BY Zenon, <1>1, <1>3, <1>4 DEF NumInv
-----------------------------------------------------------------------------
(* The inductive invariant, and what follows from it.                      *)
StoreInv == BaseInv /\ DataInv /\ NumInv

LEMMA InitInv == Init => StoreInv
<1> SUFFICES ASSUME Init
             PROVE  StoreInv
  OBVIOUS
<1> USE DEF Init
<1>1. \A t \in Threads : pc[t] = Idle
  BY Zenon
<1>2. BaseInv
  <2>1. CountOK
    BY ModulusAssumption, BoundAssumption DEF CountOK
  <2>2. now \in 1 .. MaxTime /\ starting \in 0 .. MaxStarting /\ crashes \in 0 .. MaxCrash
    BY BoundAssumption
  <2>3. StoreOK
    BY Zenon, <2>2 DEF StoreOK
  <2>4. CallsOK
    BY Zenon, IdleIs DEF CallsOK, Putting, Deleting
  <2>5. Roles /\ Lock
    BY Zenon, <1>1, IdleIs DEF Roles, Lock, Holds, Threads, Putting, Batching
  <2>6. QED
    BY Zenon, <2>1, <2>3, <2>4, <2>5, TypeParts DEF BaseInv
<1>3. DataInv
  <2>1. \A k : ~PutsHalf(Idle, k) /\ ~Puts(Idle, k) /\ ~DelsHalf(Idle, k)
    BY Zenon, IdleIs DEF PutsHalf, Puts, DelsHalf, Putting, Batching
  <2>2. \A k \in Keys : ~HalfPut(k) /\ ~HalfDel(k) /\ ~PuttingKey(k)
    BY Zenon, <1>1, <2>1, KeyViews DEF HalfPut, HalfDel
  <2>3. HalfValue
    BY Zenon, <1>1, <2>1 DEF HalfValue
  <2>4. Snapshot
    BY Zenon, <1>1, IdleIs DEF Snapshot, Threads
  <2>5. \A k \in Keys : db[k] = None /\ meta_db[k] = None
    BY Zenon
  <2>6. Own /\ NoMix /\ HalfSeen /\ Synced
    BY Zenon, <2>2, <2>5 DEF Own, NoMix, HalfSeen, Synced
  <2>7. QED
    BY Zenon, <2>3, <2>4, <2>6 DEF DataInv
<1>4. NumInv
  <2>1. 0 <= 2 * MaxNum
    BY BoundAssumption
  <2>2. NumOne /\ NumFits
    BY Zenon, <1>1, <2>1, IdleIs DEF NumOne, NumFits, Counting, Adding, Putting, Batching
  <2>3. QED
    BY Zenon, <2>2 DEF NumInv
<1>5. QED
  BY Zenon, <1>2, <1>3, <1>4 DEF StoreInv

LEMMA WorkerKeeps ==
  ASSUME StoreInv, NEW w \in Workers, WorkerStep(w)
  PROVE  StoreInv'
<1>0. BaseInv /\ DataInv /\ NumInv /\ w \in Threads
  BY Zenon DEF StoreInv, Threads
<1>1. ASSUME NEW k \in Keys, NEW expire \in Nat, BeginPut(w, k, expire)
      PROVE  StoreInv'
  BY Zenon, <1>0, <1>1, BeginPutIs, BeginPutData, BeginPutNum DEF StoreInv
<1>2. CASE PutDb(w)
  BY Zenon, <1>0, <1>2, PutDbIs, PutDbData, PutDbNum DEF StoreInv
<1>3. CASE PutNum(w)
  BY Zenon, <1>0, <1>3, PutNumIs, PutNumData, PutNumNum DEF StoreInv
<1>4. CASE PutMeta(w)
  <2>1. /\ BaseInv' /\ Moves(w) /\ pc'[w] = Idle /\ UNCHANGED <<key_num, number, crossed>>
    BY Zenon, <1>0, <1>4, PutMetaIs
  <2>2. pc'[w].at \notin Counting /\ pc'[w].at # "del_num"
    BY Zenon, <2>1, IdleIs DEF Counting, Putting, Batching
  <2>3. NumInv'
    BY Zenon, <1>0, <2>1, <2>2, NumQuiet
  <2>4. QED
    BY Zenon, <1>0, <1>4, <2>1, <2>3, PutMetaData DEF StoreInv
<1>5. ASSUME NEW K \in SUBSET Keys, BatchWrite(w, K)
      PROVE  StoreInv'
  BY Zenon, <1>0, <1>5, BatchWriteIs, BatchWriteData, BatchWriteNum DEF StoreInv
<1>6. CASE BatchMeta(w)
  BY Zenon, <1>0, <1>6, BatchMetaIs, BatchMetaData, BatchMetaNum DEF StoreInv
<1>7. CASE BatchNum(w)
  BY Zenon, <1>0, <1>7, BatchNumIs, BatchNumData, BatchNumNum DEF StoreInv
<1>8. ASSUME NEW k \in Keys, BeginDel(w, k)
      PROVE  StoreInv'
  <2>1. /\ BaseInv' /\ Moves(w) /\ pc'[w].at = "get" /\ UNCHANGED <<key_num, number, crossed>>
    BY Zenon, <1>0, <1>8, BeginDelIs
  <2>2. NumInv'
    BY Zenon, <1>0, <2>1, NumQuiet DEF Counting, Putting, Batching
  <2>3. QED
    BY Zenon, <1>0, <1>8, <2>1, <2>2, BeginDelData DEF StoreInv
<1>9. CASE GetDb(w)
  <2>1. /\ BaseInv' /\ Moves(w) /\ pc'[w].at \in {"idle", "del_db"}
        /\ UNCHANGED <<key_num, number, crossed>>
    BY Zenon, <1>0, <1>9, GetDbIs
  <2>2. NumInv'
    BY Zenon, <1>0, <2>1, NumQuiet DEF Counting, Putting, Batching
  <2>3. QED
    BY Zenon, <1>0, <1>9, <2>1, <2>2, GetDbData DEF StoreInv
<1>10. CASE BeginCount(w)
  BY Zenon, <1>0, <1>10, BeginCountIs, BeginCountData, BeginCountNum DEF StoreInv
<1>11. CASE CountNum(w)
  BY Zenon, <1>0, <1>11, CountNumIs, CountNumData, CountNumNum DEF StoreInv
<1>12. 0 \in Nat /\ now + Ttl \in Nat
  BY <1>0, BaseParts, ModulusAssumption DEF StoreOK
<1>13. QED
  BY ZenonT(60), <1>1, <1>2, <1>3, <1>4, <1>5, <1>6, <1>7, <1>8, <1>9, <1>10, <1>11, <1>12
     DEF WorkerStep

LEMMA DelKeeps ==
  ASSUME StoreInv, NEW t \in Threads, DelStep(t)
  PROVE  StoreInv'
<1>0. BaseInv /\ DataInv /\ NumInv
  BY Zenon DEF StoreInv
<1>1. CASE DelDb(t)
  BY Zenon, <1>0, <1>1, DelDbIs, DelDbData, DelDbNum DEF StoreInv
<1>2. CASE DelNum(t)
  BY Zenon, <1>0, <1>2, DelNumIs, DelNumData, DelNumNum DEF StoreInv
<1>3. CASE DelMeta(t)
  <2>1. /\ BaseInv' /\ Moves(t) /\ pc'[t].at \in {"idle", "clear"}
        /\ UNCHANGED <<key_num, number, crossed>>
    BY Zenon, <1>0, <1>3, DelMetaIs
  <2>2. NumInv'
    BY Zenon, <1>0, <2>1, NumQuiet DEF Counting, Putting, Batching
  <2>3. QED
    BY Zenon, <1>0, <1>3, <2>1, <2>2, DelMetaData DEF StoreInv
<1>4. QED
  BY Zenon, <1>1, <1>2, <1>3 DEF DelStep

LEMMA ClearKeeps ==
  ASSUME StoreInv, BeginClear \/ ClearStep
  PROVE  StoreInv'
<1>0. BaseInv /\ DataInv /\ NumInv /\ Cleaner \in Threads
  BY Zenon DEF StoreInv, Threads
<1>1. ASSUME BaseInv', DataInv', Moves(Cleaner), pc'[Cleaner].at \in {"idle", "clear", "del_db"},
             UNCHANGED <<key_num, number, crossed>>
      PROVE  StoreInv'
  <2>1. NumInv'
    BY Zenon, <1>0, <1>1, NumQuiet DEF Counting, Putting, Batching
  <2>2. QED
    BY Zenon, <1>1, <2>1 DEF StoreInv
<1>2. CASE BeginClear
  BY Zenon, <1>0, <1>1, <1>2, BeginClearIs, BeginClearData
<1>3. CASE ClearKey
  BY Zenon, <1>0, <1>1, <1>3, ClearKeyIs, ClearKeyData
<1>4. CASE EndClear
  BY Zenon, <1>0, <1>1, <1>4, EndClearIs, EndClearData, IdleIs
<1>5. QED
  BY Zenon, <1>2, <1>3, <1>4 DEF ClearStep

LEMMA NextInv ==
  ASSUME StoreInv, [Next]_vars
  PROVE  StoreInv'
<1>0. BaseInv /\ DataInv /\ NumInv
  BY Zenon DEF StoreInv
<1>1. CASE Tick
  <2>1. UNCHANGED <<key_num, number, crossed, pc>>
    BY Zenon, <1>1 DEF Tick, counters, history
  <2>2. NumInv'
    BY Zenon, <1>0, <2>1 DEF NumInv, NumOne, NumFits
  <2>3. QED
    BY Zenon, <1>0, <1>1, <2>2, TickIs, TickData DEF StoreInv
<1>2. CASE Restart
  BY Zenon, <1>0, <1>2, RestartIs, RestartData, RestartNum DEF StoreInv
<1>3. CASE UNCHANGED vars
  <2> USE DEF vars, counters, history
  <2>1. BaseInv'
    BY ZenonT(60), <1>0, <1>3 DEF BaseInv, TypeOK, Roles, Lock, Holds
  <2>2. HalfValue' /\ NoMix'
    BY ZenonT(60), <1>0, <1>3 DEF DataInv, HalfValue, NoMix, PuttingKey, DeletingKey
  <2>3. \A k \in Keys : (HalfPut(k)' <=> HalfPut(k)) /\ (HalfDel(k)' <=> HalfDel(k))
    BY Zenon, <1>3 DEF HalfPut, HalfDel
  <2>4. Snapshot'
    BY Zenon, <1>0, <1>3 DEF DataInv, Snapshot
  <2>5. DataInv'
    BY ZenonT(60), <1>0, <1>3, <2>2, <2>3, <2>4, DataFrame
  <2>6. NumInv'
    BY Zenon, <1>0, <1>3 DEF NumInv, NumOne, NumFits
  <2>7. QED
    BY Zenon, <2>1, <2>5, <2>6 DEF StoreInv
<1>4. QED
  BY Zenon, <1>1, <1>2, <1>3, WorkerKeeps, DelKeeps, ClearKeeps DEF Next

(* In every reachable state the thread that puts holds clear_lock alone,   *)
(* what the two databases hold follows from what the threads are doing,    *)
(* and the additions to key_num that are under way fit.                    *)
THEOREM StoreInvariance == Spec => []StoreInv
BY InitInv, NextInv, PTL DEF Spec

(* A value never has the expiry of another write to its key, whatever puts *)
(* and deletions overlap.                                                  *)
THEOREM ExpiryAlwaysOwn == Spec => []ExpiryIsOwn
<1>1. StoreInv => ExpiryIsOwn
  BY Zenon, HalfViews DEF StoreInv, DataInv, Own, ExpiryIsOwn
<1>2. QED
  BY <1>1, StoreInvariance, PTL

(* A key is in both databases or in none unless a put and a del of it      *)
(* overlapped or a write was lost, also across restarts.                   *)
THEOREM OrphanAlwaysNeedsRace == Spec => []OrphanNeedsRace
<1>1. StoreInv => OrphanNeedsRace
  BY Zenon, HalfViews DEF StoreInv, DataInv, Synced, OrphanNeedsRace
<1>2. QED
  BY <1>1, StoreInvariance, PTL

(* key_num does not fall below 0 unless a deletion looked at it while      *)
(* another deletion or a recount was about to change it.                   *)
THEOREM WrapAlwaysNeedsCrossing == Spec => []WrapNeedsCrossing
<1>1. StoreInv => WrapNeedsCrossing
  BY Zenon DEF StoreInv, NumInv, NumFits, WrapNeedsCrossing
<1>2. QED
  BY <1>1, StoreInvariance, PTL

(* ClearExpireKey deletes no value that is still alive: the snapshot it    *)
(* works from stays true while it holds clear_lock.                        *)
THEOREM ClearAlwaysSparesLive == Spec => ClearSparesLive
<1> DEFINE Spares == \A k \in Keys :
                       /\ pc[Cleaner].at = "del_db" /\ pc[Cleaner].key = k
                       /\ pc'[Cleaner].at # "del_db" /\ pc'[Cleaner].at # "idle"
                       /\ db[k] # None /\ k \notin torn
                       => db[k] # 0 /\ db[k] <= now
<1>1. StoreInv => Spares
  BY Zenon DEF StoreInv, DataInv, Snapshot
<1>2. ClearSparesLive <=> [][Spares]_vars
  BY PTL DEF ClearSparesLive
<1> HIDE DEF Spares
<1>3. QED
  BY <1>1, <1>2, StoreInvariance, PTL
=============================================================================
