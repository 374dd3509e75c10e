------------------------------- MODULE GentDb -------------------------------
(***************************************************************************)
(* The store: a value lives in one leveldb database, its expiry in a       *)
(* second one (meta_db), the number of keys in a counter that is saved to  *)
(* the file NUMBER now and then.  Every write takes several steps.  Put,   *)
(* BatchPut and ClearExpireKey hold clear_lock, Del does not.              *)
(*                                                                         *)
(* A value is represented by the expiry it was written with (0: none), so  *)
(* that db tells which expiry a value should have and meta_db which it     *)
(* has.  The databases themselves are external: a call to one is a step,   *)
(* and may fail.                                                           *)
(***************************************************************************)
EXTENDS Integers, FiniteSets

CONSTANTS
  Workers,          \* worker threads
  Cleaner,          \* the thread that runs ClearExpireKey
  Keys,
  None,             \* no entry
  MaxWriteClear,    \* MAX_WRITE_CLEAR: writes between two clearings
  SaveEvery,        \* writes between two savings of key_num (100)
  Modulus,          \* key_num is unsigned
  Ttl,              \* seconds a setex asks for
  MayFail,          \* may a call to leveldb fail
  MaxTime, MaxNum, MaxStarting, MaxCrash   \* bounds

ASSUME WorkersAssumption == Cleaner \notin Workers
ASSUME NoneAssumption == None \notin Int
ASSUME ModulusAssumption ==
  /\ {Modulus, SaveEvery, Ttl} \subseteq Nat \ {0}
  /\ MaxWriteClear \in Nat
  /\ 2 * MaxNum < Modulus - 1
ASSUME KeysAssumption == \A K \in SUBSET Keys : Cardinality(K) \in 0 .. MaxNum
ASSUME BoundAssumption ==
  /\ MayFail \in BOOLEAN
  /\ {MaxTime, MaxNum, MaxStarting, MaxCrash} \subseteq Nat
  /\ MaxTime >= 1

VARIABLES
  now,
  db, meta_db,
  key_num, number,  \* the counter and the file NUMBER
  write_num, trigger_num_save,
  is_clear,
  starting,         \* clear threads that wait for clear_lock
  pc,               \* what each thread is doing
  crashes,
  torn,             \* history: keys with one of two writes missing
  raced,            \* history: keys put and deleted at the same time
  crossed           \* history: key_num was checked while another
                    \* thread was about to change it

counters == <<key_num, number, write_num, trigger_num_save>>
history == <<torn, raced, crossed>>
vars == <<now, db, meta_db, counters, is_clear, starting, pc, crashes, history>>
-----------------------------------------------------------------------------
Threads == Workers \cup {Cleaner}
Putting == {"put_db", "put_num", "put_meta"}
Batching == {"batch_meta", "batch_num"}
Deleting == {"del_db", "del_num", "del_meta"}
Steps == {"idle", "get", "count", "clear"} \cup Putting \cup Batching \cup Deleting

Calls ==
  [at : Steps, key : Keys \cup {None}, expire : Nat,
   num : Nat,                        \* what key_num grows by
   ok : BOOLEAN,                     \* status of the write to db
   rest : SUBSET (Keys \X Nat)]      \* entries still to be written or looked at
Idle == [at |-> "idle", key |-> None, expire |-> 0, num |-> 0, ok |-> TRUE,
         rest |-> {}]

TypeOK ==
  /\ now \in 1 .. MaxTime
  /\ db \in [Keys -> Nat \cup {None}]
  /\ meta_db \in [Keys -> Nat \cup {None}]
  /\ key_num \in 0 .. Modulus - 1
  /\ number \in (0 .. Modulus - 1) \cup {None}
  /\ write_num \in 0 .. MaxWriteClear + 1
  /\ trigger_num_save \in 0 .. SaveEvery
  /\ is_clear \in BOOLEAN
  /\ starting \in 0 .. MaxStarting
  /\ pc \in [Threads -> Calls]
  /\ \A t \in Threads :
       pc[t].at \in {"get"} \cup Putting \cup Deleting => pc[t].key \in Keys
  /\ crashes \in 0 .. MaxCrash
  /\ torn \subseteq Keys /\ raced \subseteq Keys /\ crossed \in BOOLEAN

Init ==
  /\ now = 1
  /\ db = [k \in Keys |-> None] /\ meta_db = [k \in Keys |-> None]
  /\ key_num = 0 /\ number = None
  /\ write_num = 0 /\ trigger_num_save = 0
  /\ is_clear = FALSE /\ starting = 0
  /\ pc = [t \in Threads |-> Idle]
  /\ crashes = 0
  /\ torn = {} /\ raced = {} /\ crossed = FALSE
-----------------------------------------------------------------------------
Outcomes == IF MayFail THEN BOOLEAN ELSE {TRUE}

PuttingKey(k) == \E t \in Threads : \/ pc[t].at \in Putting /\ pc[t].key = k
                                    \/ \E e \in pc[t].rest : /\ e[1] = k
                                                             /\ pc[t].at \in Batching
DeletingKey(k) == \E t \in Threads : pc[t].at \in Deleting /\ pc[t].key = k

(* clear_lock is held from the first step of Put, BatchPut and             *)
(* ClearExpireKey to the last; ClearExpireKey calls Del while holding it.  *)
IgnoreLock == TRUE  \* a mutant
LockFree ==
  /\ \A w \in Workers : pc[w].at \notin Putting \cup Batching
  /\ pc[Cleaner].at = "idle"

(* SetNum, called after key_num has been given the value n.                *)
SetNum(n) ==
  IF trigger_num_save < SaveEvery
    THEN UNCHANGED <<number, trigger_num_save>>
    ELSE number' = n /\ trigger_num_save' = 0

(* The two other counters are only compared with a limit, and stop there.  *)
Saturate(n, limit) == IF n > limit THEN limit ELSE n

Goto(t, step) == pc' = [pc EXCEPT ![t].at = step]
Return(t) == pc' = [pc EXCEPT ![t] = Idle]
-----------------------------------------------------------------------------
(* Put: clear_lock is taken, a clearing is started when it is due, the old *)
(* entry is looked up.  expire is now + seconds for setex, 0 for set.      *)
BeginPut(w, k, expire) ==
  LET due == write_num > MaxWriteClear /\ ~is_clear
  IN  /\ pc[w].at = "idle"
      /\ LockFree
      /\ key_num < MaxNum
      /\ due => starting < MaxStarting
      /\ starting' = IF due THEN starting + 1 ELSE starting
      /\ write_num' = IF due THEN 0 ELSE write_num
      /\ pc' = [pc EXCEPT ![w] =
                  [Idle EXCEPT !.at = "put_db", !.key = k, !.expire = expire,
                               !.num = IF meta_db[k] = None THEN 1 ELSE 0]]
      /\ raced' = IF DeletingKey(k) THEN raced \cup {k} ELSE raced
      /\ UNCHANGED <<now, db, meta_db, key_num, number, trigger_num_save,
                     is_clear, crashes, torn, crossed>>

PutDb(w) ==
  \E ok \in Outcomes :
    /\ pc[w].at = "put_db"
    /\ db' = IF ok THEN [db EXCEPT ![pc[w].key] = pc[w].expire] ELSE db
    /\ pc' = [pc EXCEPT ![w].ok = ok,
                        ![w].at = IF pc[w].num > 0 THEN "put_num" ELSE "put_meta"]
    /\ UNCHANGED <<now, meta_db, counters, is_clear, starting, crashes, history>>

PutNum(w) ==
  /\ pc[w].at = "put_num"
  /\ key_num' = (key_num + 1) % Modulus
  /\ SetNum(key_num')
  /\ Goto(w, "put_meta")
  /\ UNCHANGED <<now, db, meta_db, write_num, is_clear, starting, crashes, history>>

(* MetaSerialize and the write to meta_db, whose status is not looked at.  *)
PutMeta(w) ==
  \E written \in Outcomes :
    LET k == pc[w].key
    IN  /\ pc[w].at = "put_meta"
        /\ meta_db' = IF pc[w].ok /\ written
                        THEN [meta_db EXCEPT ![k] = pc[w].expire] ELSE meta_db
        /\ torn' = IF pc[w].ok THEN IF written THEN torn \ {k} ELSE torn \cup {k}
                               ELSE torn
        /\ write_num' = Saturate(write_num + 1, MaxWriteClear + 1)
        /\ trigger_num_save' = Saturate(trigger_num_save + 1, SaveEvery)
        /\ Return(w)
        /\ UNCHANGED <<now, db, key_num, number, is_clear, starting, crashes,
                       raced, crossed>>
-----------------------------------------------------------------------------
(* BatchPut: one write of all values, then one write to meta_db per key.   *)
(* All keys are counted, the ones that existed too.  A batch that fails    *)
(* changes nothing.                                                        *)
BatchWrite(w, K) ==
  /\ pc[w].at = "idle"
  /\ LockFree
  /\ key_num + Cardinality(K) <= MaxNum
  /\ db' = [k \in Keys |-> IF k \in K THEN 0 ELSE db[k]]
  /\ pc' = [pc EXCEPT ![w] =
              [Idle EXCEPT !.at = "batch_meta", !.num = Cardinality(K),
                           !.rest = K \X {0}]]
  /\ raced' = raced \cup {k \in K : DeletingKey(k)}
  /\ UNCHANGED <<now, meta_db, counters, is_clear, starting, crashes, torn, crossed>>

BatchMeta(w) ==
  \E e \in pc[w].rest, written \in Outcomes :
    LET k == e[1]
        rest == pc[w].rest \ {e}
    IN  /\ pc[w].at = "batch_meta"
        /\ meta_db' = IF written THEN [meta_db EXCEPT ![k] = e[2]] ELSE meta_db
        /\ torn' = IF written THEN torn \ {k} ELSE torn \cup {k}
        /\ write_num' = Saturate(write_num + 1, MaxWriteClear + 1)
        /\ trigger_num_save' = Saturate(trigger_num_save + 1, SaveEvery)
        /\ pc' = [pc EXCEPT ![w].rest = rest,
                            ![w].at = IF rest = {} THEN "batch_num" ELSE @]
        /\ UNCHANGED <<now, db, key_num, number, is_clear, starting, crashes,
                       raced, crossed>>

BatchNum(w) ==
  /\ pc[w].at = "batch_num"
  /\ key_num' = (key_num + pc[w].num) % Modulus
  /\ SetNum(key_num')
  /\ Return(w)
  /\ UNCHANGED <<now, db, meta_db, write_num, is_clear, starting, crashes, history>>
-----------------------------------------------------------------------------
(* The command del looks the key up first: GentDb::Get reads the expiry,   *)
(* then the value.                                                         *)
Expired(e) == e # None /\ e # 0 /\ e < now
BeginDel(w, k) ==
  /\ pc[w].at = "idle"
  /\ ~Expired(meta_db[k])
  /\ pc' = [pc EXCEPT ![w] = [Idle EXCEPT !.at = "get", !.key = k]]
  /\ UNCHANGED <<now, db, meta_db, counters, is_clear, starting, crashes, history>>

GetDb(w) ==
  LET k == pc[w].key
  IN  /\ pc[w].at = "get"
      /\ IF db[k] = None
           THEN Return(w) /\ UNCHANGED raced
           ELSE /\ Goto(w, "del_db")
                /\ raced' = IF PuttingKey(k) THEN raced \cup {k} ELSE raced
      /\ UNCHANGED <<now, db, meta_db, counters, is_clear, starting, crashes,
                     torn, crossed>>

(* Del: the value, the counter if it was not 0 a moment ago, the expiry.   *)
DelReturns(t) == IF t = Cleaner THEN Goto(t, "clear") ELSE Return(t)

AlwaysCounts == TRUE  \* a mutant: no look at key_num
NumPositive == key_num > 0

DelDb(t) ==
  \E ok \in Outcomes :
    /\ pc[t].at = "del_db"
    /\ db' = IF ok THEN [db EXCEPT ![pc[t].key] = None] ELSE db
    /\ IF ok THEN Goto(t, IF NumPositive THEN "del_num" ELSE "del_meta")
             ELSE DelReturns(t)
    /\ crossed' = (crossed \/ \E u \in Threads \ {t} : pc[u].at \in {"del_num", "count"})
    /\ UNCHANGED <<now, meta_db, counters, is_clear, starting, crashes, torn, raced>>

DelNum(t) ==
  /\ pc[t].at = "del_num"
  /\ key_num' = (key_num - 1) % Modulus
  /\ SetNum(key_num')
  /\ Goto(t, "del_meta")
  /\ UNCHANGED <<now, db, meta_db, write_num, is_clear, starting, crashes, history>>

DelMetaKept(t) ==  \* a mutant: the expiry stays
  /\ pc[t].at = "del_meta"
  /\ DelReturns(t)
  /\ UNCHANGED <<now, db, meta_db, counters, is_clear, starting, crashes, history>>
DelMeta(t) ==
  \E written \in Outcomes :
    LET k == pc[t].key
    IN  /\ pc[t].at = "del_meta"
        /\ meta_db' = IF written THEN [meta_db EXCEPT ![k] = None] ELSE meta_db
        /\ torn' = IF written THEN torn ELSE torn \cup {k}
        /\ DelReturns(t)
        /\ UNCHANGED <<now, db, counters, is_clear, starting, crashes,
                       raced, crossed>>
-----------------------------------------------------------------------------
(* Count("") with key_num = 0: the keys of a snapshot become the counter.  *)
BeginCount(w) ==
  /\ pc[w].at = "idle"
  /\ key_num = 0
  /\ pc' = [pc EXCEPT ![w] =
              [Idle EXCEPT !.at = "count",
                           !.num = Cardinality({k \in Keys : meta_db[k] # None})]]
  /\ UNCHANGED <<now, db, meta_db, counters, is_clear, starting, crashes, history>>

CountNum(w) ==
  /\ pc[w].at = "count"
  /\ key_num' = pc[w].num
  /\ SetNum(key_num')
  /\ Return(w)
  /\ UNCHANGED <<now, db, meta_db, write_num, is_clear, starting, crashes, history>>
-----------------------------------------------------------------------------
(* ClearExpireKey: the entries of a snapshot that have an expiry.          *)
BeginClear ==
  /\ starting > 0
  /\ LockFree
  /\ starting' = starting - 1
  /\ is_clear' = TRUE
  /\ pc' = [pc EXCEPT ![Cleaner] =
              [Idle EXCEPT !.at = "clear",
                           !.rest = {<<k, meta_db[k]>> : k \in
                                       {j \in Keys : meta_db[j] \notin {None, 0}}}]]
  /\ UNCHANGED <<now, db, meta_db, counters, crashes, history>>

ClearKey ==
  \E e \in pc[Cleaner].rest :
    LET rest == pc[Cleaner].rest \ {e}
    IN  /\ pc[Cleaner].at = "clear"
        /\ pc' = [pc EXCEPT ![Cleaner] =
                    IF e[2] > now THEN [@ EXCEPT !.rest = rest]
                    ELSE [@ EXCEPT !.rest = rest, !.at = "del_db", !.key = e[1]]]
        /\ UNCHANGED <<now, db, meta_db, counters, is_clear, starting, crashes,
                       history>>

EndClear ==
  /\ pc[Cleaner].at = "clear"
  /\ pc[Cleaner].rest = {}
  /\ is_clear' = FALSE
  /\ Return(Cleaner)
  /\ UNCHANGED <<now, db, meta_db, counters, starting, crashes, history>>
-----------------------------------------------------------------------------
Tick ==
  /\ now < MaxTime
  /\ now' = now + 1
  /\ UNCHANGED <<db, meta_db, counters, is_clear, starting, pc, crashes, history>>

(* The process dies and is started again: Init and LoadNum.                *)
HalfDone(k) ==
  \/ \E t \in Threads : pc[t].key = k
       /\ \/ pc[t].at \in {"put_num", "put_meta"} /\ pc[t].ok
          \/ pc[t].at \in {"del_num", "del_meta"}
  \/ \E t \in Workers : pc[t].at = "batch_meta" /\ <<k, 0>> \in pc[t].rest

Restart ==
  /\ crashes < MaxCrash
  /\ crashes' = crashes + 1
  /\ key_num' = IF number = None THEN 0 ELSE number
  /\ write_num' = 0 /\ trigger_num_save' = 0
  /\ is_clear' = FALSE /\ starting' = 0
  /\ pc' = [t \in Threads |-> Idle]
  /\ torn' = torn \cup {k \in Keys : HalfDone(k)}
  /\ UNCHANGED <<now, db, meta_db, number, raced, crossed>>

WorkerStep(w) ==
  \/ \E k \in Keys : BeginPut(w, k, 0) \/ BeginPut(w, k, now + Ttl)
  \/ PutDb(w) \/ PutNum(w) \/ PutMeta(w)
  \/ \E K \in (SUBSET Keys) \ {{}} : BatchWrite(w, K)
  \/ BatchMeta(w) \/ BatchNum(w)
  \/ \E k \in Keys : BeginDel(w, k)
  \/ GetDb(w)
  \/ BeginCount(w) \/ CountNum(w)
DelStep(t) == DelDb(t) \/ DelNum(t) \/ DelMeta(t)
ClearStep == ClearKey \/ EndClear

Next ==
  \/ \E w \in Workers : WorkerStep(w)
  \/ \E t \in Threads : DelStep(t)
  \/ BeginClear \/ ClearStep
  \/ Tick \/ Restart

Spec == Init /\ [][Next]_vars
-----------------------------------------------------------------------------
(* A value is never subject to the expiry of another write to its key:     *)
(* when the key has a value and an expiry and nobody is between the two    *)
(* writes, they belong together, unless the second write was lost.         *)
ExpiryIsOwn ==
  \A k \in Keys :
    db[k] # None /\ meta_db[k] # None /\ ~PuttingKey(k) /\ k \notin torn
      => meta_db[k] = db[k]

(* Clearing expired keys deletes no value that is still alive: a key that  *)
(* was expired in the snapshot has not been written again.                 *)
ClearSparesLive ==
  [][\A k \in Keys :
       /\ pc[Cleaner].at = "del_db" /\ pc[Cleaner].key = k
       /\ pc'[Cleaner].at # "del_db" /\ pc'[Cleaner].at # "idle"
       /\ db[k] # None /\ k \notin torn
       => db[k] # 0 /\ db[k] <= now]_vars

(* A key at rest is in both databases or in none, unless a put and a del   *)
(* of it overlapped or a write was lost.                                   *)
OrphanNeedsRace ==
  \A k \in Keys :
    ~PuttingKey(k) /\ ~DeletingKey(k) /\ k \notin torn \cup raced
      => (db[k] = None <=> meta_db[k] = None)

(* key_num falls below 0 only when a deletion looked at it while another   *)
(* deletion or a recount was about to change it, also when the file NUMBER *)
(* was behind at the start: otherwise it stays below the largest value     *)
(* that a stale recount and a batch counted after it may add up to.        *)
WrapNeedsCrossing == ~crossed => key_num <= 2 * MaxNum
=============================================================================
