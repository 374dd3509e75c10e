--------------------------- MODULE ConnPoolProofs ---------------------------
(***************************************************************************)
(* Proofs about the pool of connections and commands, for any numbers of   *)
(* objects, descriptors and worker threads and any factor of free objects. *)
(***************************************************************************)
EXTENDS ConnPool, FiniteSetTheorems, TLAPS

(* The inductive invariant.  A descriptor that an object has not closed    *)
(* yet is open, is on its way to no worker and belongs to no other object; *)
(* the free list holds the free objects, each once.                        *)
Holding == InState("run") \cup InState("destroyed")
OwnFd ==
  /\ \A c \in Holding : fd[c] \in open /\ accepted[fd[c]] = 0
  /\ \A c, d \in Holding : fd[c] = fd[d] => c = d

OneEach(s) == \A i, j \in 1 .. Len(s) : s[i] = s[j] => i = j
Members(s) == {s[i] : i \in 1 .. Len(s)}
Before(c, s) == <<c>> \o s
Rest(s, n) == SubSeq(s, n + 1, Len(s))
FirstOf(s, n) == {s[i] : i \in 1 .. n}
FreeList ==
  /\ OneEach(free_conn_mgr)
  /\ Members(free_conn_mgr) = InState("free")
  /\ total_conn = Cardinality(InUse) + Len(free_conn_mgr)

PoolInv ==
  /\ TypeOK
  /\ OwnFd
  /\ FreeList
  /\ RegisteredInUse
  /\ OwnCommand
  /\ MissNeedsReuse
-----------------------------------------------------------------------------
(* A list without repetitions has as many members as entries.              *)
LEMMA MembersCount ==
  ASSUME NEW S, NEW s \in Seq(S), OneEach(s)
  PROVE  IsFiniteSet(Members(s)) /\ Cardinality(Members(s)) = Len(s)
<1>1. IsFiniteSet(1 .. Len(s)) /\ Cardinality(1 .. Len(s)) = Len(s)
  <2>1. Len(s) \in Nat
    OBVIOUS
  <2>2. \A n \in Nat : IsFiniteSet(1 .. n) /\ Cardinality(1 .. n) = n
    BY FS_Interval
  <2> QED
    BY Zenon, <2>1, <2>2
<1>2. s \in Bijection(1 .. Len(s), Members(s))
  BY DEF Bijection, Injection, Surjection, IsInjective, OneEach, Members
<1>3. ExistsBijection(1 .. Len(s), Members(s))
  BY Zenon, <1>2 DEF ExistsBijection
<1> QED
  BY Zenon, <1>1, <1>3, FS_Bijection

(* A set of objects is finite.                                             *)
LEMMA FiniteConns ==
  ASSUME NEW T \in SUBSET Conns
  PROVE  IsFiniteSet(T) /\ Cardinality(T) \in Nat
BY Zenon, PoolAssumption, FS_Subset, FS_CardinalityType

(* What the free list is after Front: the last object is taken out.        *)
LEMMA FrontTakesLast ==
  ASSUME NEW s \in Seq(Conns), OneEach(s), s # <<>>
  PROVE  /\ Front(s) \in Seq(Conns) /\ OneEach(Front(s))
         /\ Len(Front(s)) = Len(s) - 1
         /\ s[Len(s)] \in Members(s)
         /\ Members(Front(s)) = Members(s) \ {s[Len(s)]}
<1>1. Len(s) \in Nat \ {0}
  OBVIOUS
<1>2. /\ Front(s) \in Seq(Conns)
      /\ Len(Front(s)) = Len(s) - 1
      /\ \A i \in 1 .. Len(s) - 1 : Front(s)[i] = s[i]
  <2>1. Front(s) = [i \in 1 .. Len(s) - 1 |-> s[i]]
    <3>1. Len(s) - 1 \in Nat /\ 1 .. Len(s) - 1 \subseteq 1 .. Len(s)
      BY <1>1
    <3> QED
      BY <1>1, <3>1 DEF Front
  <2> QED
    BY <1>1, <2>1
<1>3. OneEach(Front(s))
  BY <1>1, <1>2 DEF OneEach
<1>4. s[Len(s)] \in Members(s)
  BY <1>1 DEF Members
<1>5. ASSUME NEW x \in Members(Front(s)) PROVE x \in Members(s) \ {s[Len(s)]}
  BY <1>1, <1>2, <1>5 DEF Members, OneEach
<1>6. ASSUME NEW x \in Members(s) \ {s[Len(s)]} PROVE x \in Members(Front(s))
  <2>1. PICK i \in 1 .. Len(s) : x = s[i] /\ i # Len(s)
    BY Zenon, <1>6 DEF Members
  <2>2. i \in 1 .. Len(Front(s)) /\ x = Front(s)[i]
    BY <1>1, <1>2, <2>1
  <2> QED
    BY Zenon, <2>2 DEF Members
<1> QED
  BY Zenon, <1>2, <1>3, <1>4, <1>5, <1>6

(* What the free list is after an object c was put before it and the first *)
(* n entries were deleted.                                                 *)
LEMMA CutList ==
  ASSUME NEW s \in Seq(Conns), OneEach(s), NEW c \in Conns, c \notin Members(s),
         NEW n \in 0 .. Len(Before(c, s))
  PROVE  /\ Rest(Before(c, s), n) \in Seq(Conns)
         /\ OneEach(Rest(Before(c, s), n))
         /\ Len(Rest(Before(c, s), n)) = Len(s) + 1 - n
         /\ FirstOf(Before(c, s), n) \subseteq Members(s) \cup {c}
         /\ Members(Rest(Before(c, s), n)) =
              (Members(s) \cup {c}) \ FirstOf(Before(c, s), n)
<1> DEFINE list == Before(c, s)
           rest == Rest(list, n)
<1>1. /\ list \in Seq(Conns) /\ Len(list) = Len(s) + 1 /\ Len(s) \in Nat
      /\ list[1] = c
      /\ \A i \in 2 .. Len(list) : list[i] = s[i - 1]
  BY DEF Before
<1>2. OneEach(list)
  <2>1. \A i \in 2 .. Len(list) : i - 1 \in 1 .. Len(s) /\ list[i] = s[i - 1] /\ list[i] # c
    BY <1>1 DEF Members
  <2>2. \A i, j \in 2 .. Len(list) : list[i] = list[j] => i - 1 = j - 1
    BY Zenon, <2>1 DEF OneEach
  <2>3. \A i \in 1 .. Len(list) : i = 1 \/ i \in 2 .. Len(list)
    BY <1>1
  <2> QED
    BY <1>1, <2>1, <2>2, <2>3 DEF OneEach
<1>3. Members(list) = Members(s) \cup {c}
  <2>1. ASSUME NEW x \in Members(list) PROVE x \in Members(s) \cup {c}
    <3>1. PICK i \in 1 .. Len(list) : x = list[i]
      BY Zenon, <2>1 DEF Members
    <3>2. CASE i = 1
      BY Zenon, <1>1, <3>1, <3>2
    <3>3. CASE i # 1
      <4>1. i - 1 \in 1 .. Len(s) /\ x = s[i - 1]
        BY <1>1, <3>1, <3>3
      <4> QED
        BY Zenon, <4>1 DEF Members
    <3> QED
      BY Zenon, <3>2, <3>3
  <2>2. ASSUME NEW x \in Members(s) PROVE x \in Members(list)
    <3>1. PICK i \in 1 .. Len(s) : x = s[i]
      BY Zenon, <2>2 DEF Members
    <3>2. i + 1 \in 2 .. Len(list) /\ (i + 1) - 1 = i
      BY <1>1
    <3>3. i + 1 \in 1 .. Len(list) /\ list[i + 1] = x
      BY <1>1, <3>1, <3>2
    <3> QED
      BY Zenon, <3>3 DEF Members
  <2>3. c \in Members(list)
    <3>1. 1 \in 1 .. Len(list)
      BY <1>1
    <3> QED
      BY Zenon, <1>1, <3>1 DEF Members
  <2> QED
    BY Zenon, <2>1, <2>2, <2>3
<1>4. /\ rest \in Seq(Conns) /\ Len(rest) = Len(list) - n
      /\ \A i \in 1 .. Len(rest) : i + n \in 1 .. Len(list) /\ rest[i] = list[i + n]
  BY <1>1 DEF Rest
<1>0. n \in 0 .. Len(list)
  BY Zenon
<1> HIDE DEF list, rest
<1>5. OneEach(rest)
  <2>1. \A i, j \in 1 .. Len(rest) : rest[i] = rest[j] => i + n = j + n
    BY Zenon, <1>2, <1>4 DEF OneEach
  <2> QED
    BY <1>4, <2>1 DEF OneEach
<1>6. ASSUME NEW x \in Members(rest)
      PROVE  x \in Members(list) \ FirstOf(list, n)
  <2>1. PICK i \in 1 .. Len(rest) : x = rest[i]
    BY Zenon, <1>6 DEF Members
  <2>2. i + n \in 1 .. Len(list) /\ x = list[i + n] /\ i + n \notin 1 .. n
    BY <1>4, <2>1
  <2>3. \A j \in 1 .. n : j \in 1 .. Len(list)
    BY <1>0, <1>1
  <2> QED
    BY ZenonT(40), <1>2, <2>2, <2>3 DEF Members, OneEach, FirstOf
<1>7. ASSUME NEW x \in Members(list) \ FirstOf(list, n)
      PROVE  x \in Members(rest)
  <2>1. PICK i \in 1 .. Len(list) : x = list[i] /\ i \notin 1 .. n
    BY Zenon, <1>7 DEF Members, FirstOf
  <2>2. i - n \in 1 .. Len(rest) /\ (i - n) + n = i
    BY <1>1, <1>4, <2>1
  <2>3. rest[i - n] = x
    BY Zenon, <1>4, <2>1, <2>2
  <2> QED
    BY Zenon, <2>2, <2>3 DEF Members
<1>8. \A i \in 1 .. n : list[i] \in Members(list)
  BY <1>0, <1>1 DEF Members
<1>9. Members(rest) = Members(list) \ FirstOf(list, n)
  BY Zenon, <1>6, <1>7
<1>10. FirstOf(list, n) \subseteq Members(list)
  BY Zenon, <1>8 DEF FirstOf
<1>11. Len(rest) = Len(s) + 1 - n
  BY <1>1, <1>4
<1> QED
  BY Zenon, <1>3, <1>4, <1>5, <1>9, <1>10, <1>11 DEF list, rest
-----------------------------------------------------------------------------
(* Taking an object out of the sets of objects in use, or adding one,      *)
(* changes their number by one.                                            *)
LEMMA OneMore ==
  ASSUME NEW T \in SUBSET Conns, NEW c \in Conns \ T
  PROVE  Cardinality(T \cup {c}) = Cardinality(T) + 1
BY Zenon, FiniteConns, FS_AddElement

LEMMA OneLess ==
  ASSUME NEW T \in SUBSET Conns, NEW c \in T
  PROVE  Cardinality(T \ {c}) = Cardinality(T) - 1 /\ Cardinality(T) >= 1
<1>1. T \ {c} \in SUBSET Conns /\ c \in Conns \ (T \ {c}) /\ (T \ {c}) \cup {c} = T
  BY Zenon
<1>2. Cardinality(T) = Cardinality(T \ {c}) + 1
  BY Zenon, <1>1, OneMore
<1>3. Cardinality(T \ {c}) \in Nat
  BY Zenon, <1>1, FiniteConns
<1> QED
  BY <1>2, <1>3

(* Nothing is in use and nothing free when the server starts.              *)
LEMMA PoolInit == Init => PoolInv
<1> SUFFICES ASSUME Init PROVE PoolInv
  BY Zenon
<1> USE DEF Init
<1>1. InUse = {} /\ InState("free") = {} /\ Holding = {} /\ InState("run") = {}
  BY Zenon DEF InUse, InState, Holding
<1>2. TypeOK
  <2>1. 1 \in Threads
    BY PoolAssumption DEF Threads
  <2>2. worker \in [Conns -> Threads] /\ accepted \in [Fds -> Threads \cup {0}]
    BY Zenon, <2>1
  <2>3. \A c \in Conns : fd[c] # NoFd <=> c \in InUse
    BY Zenon, <1>1
  <2>4. free_conn_mgr \in Seq(Conns) /\ total_conn \in Nat
    OBVIOUS
  <2>5. \A f \in Fds : accepted[f] # 0 => f \in open
    BY Zenon
  <2> QED
    BY Zenon, <2>2, <2>3, <2>4, <2>5 DEF TypeOK, States
<1>3. OwnFd
  BY Zenon, <1>1 DEF OwnFd
<1>4. FreeList
  <2>1. Len(free_conn_mgr) = 0 /\ Cardinality(InUse) = 0
    BY Zenon, <1>1, FS_EmptySet
  <2>2. OneEach(free_conn_mgr) /\ Members(free_conn_mgr) = {}
    BY <2>1 DEF OneEach, Members
  <2>3. total_conn = Cardinality(InUse) + Len(free_conn_mgr)
    BY <2>1
  <2> QED
    BY Zenon, <1>1, <2>2, <2>3 DEF FreeList
<1>5. RegisteredInUse
  BY Zenon DEF RegisteredInUse
<1>6. OwnCommand /\ MissNeedsReuse
  BY Zenon, <1>1 DEF OwnCommand, MissNeedsReuse
<1> QED
  BY Zenon, <1>2, <1>3, <1>4, <1>5, <1>6 DEF PoolInv

(* A worker number is never 0: SendThread skips it.                        *)
LEMMA SendThreadType ==
  ASSUME lastid_ \in Threads \cup {0}, NEW f, SendThread(f)
  PROVE  lastid_' \in Threads
<1>1. lastid_ \in Nat /\ ThreadCount \in Nat \ {0}
  BY PoolAssumption DEF Threads
<1>2. (lastid_ + 1) % (ThreadCount + 1) \in 0 .. ThreadCount
  BY <1>1
<1> QED
  BY <1>1, <1>2 DEF SendThread, Threads

(* A descriptor that was just accepted belongs to no object yet.           *)
LEMMA AcceptKeeps ==
  ASSUME PoolInv, NEW f \in Fds, Accept(f)
  PROVE  PoolInv'
<1> USE DEF Accept
<1>1. /\ InUse' = InUse /\ Holding' = Holding
      /\ \A s \in States : InState(s)' = InState(s)
  BY Zenon DEF InUse, InState, Holding
<1>2. lastid_' \in Threads
  BY Zenon, SendThreadType DEF PoolInv, TypeOK
<1>3. TypeOK'
  <2>1. accepted' \in [Fds -> Threads \cup {0}]
    BY Zenon, <1>2 DEF PoolInv, TypeOK, SendThread
  <2>2. \A g \in Fds : accepted'[g] # 0 => g \in open'
    BY Zenon, <1>2 DEF PoolInv, TypeOK, SendThread
  <2> QED
    BY Zenon, <1>1, <1>2, <2>1, <2>2 DEF PoolInv, TypeOK
<1>4. OwnFd'
  <2>1. \A c \in Holding : fd[c] \in Fds /\ fd[c] # f
    BY Zenon DEF PoolInv, TypeOK, OwnFd
  <2> QED
    BY Zenon, <1>1, <2>1 DEF PoolInv, OwnFd, TypeOK, SendThread
<1>5. FreeList'
  BY Zenon, <1>1 DEF PoolInv, FreeList, States
<1>6. RegisteredInUse' /\ MissNeedsReuse'
  BY Zenon, <1>1 DEF PoolInv, RegisteredInUse, MissNeedsReuse
<1>7. OwnCommand'
  BY Zenon, <1>1 DEF PoolInv, OwnCommand, States
<1> QED
  BY Zenon, <1>3, <1>4, <1>5, <1>6, <1>7 DEF PoolInv

(* GetConnect takes the object from the free list or makes a new one: in   *)
(* both cases nobody used it, and the count and the list stay in step.     *)
LEMMA GetConnectList ==
  ASSUME PoolInv, NEW c \in Conns,
         IF free_conn_mgr # <<>>
           THEN /\ c = free_conn_mgr[Len(free_conn_mgr)]
                /\ free_conn_mgr' = Front(free_conn_mgr)
                /\ UNCHANGED total_conn
           ELSE /\ state[c] = "none"
                /\ total_conn' = total_conn + 1
                /\ UNCHANGED free_conn_mgr
  PROVE  /\ c \notin InUse
         /\ free_conn_mgr' \in Seq(Conns) /\ OneEach(free_conn_mgr')
         /\ Members(free_conn_mgr') = InState("free") \ {c}
         /\ total_conn' = Cardinality(InUse) + 1 + Len(free_conn_mgr')
<1>0. Cardinality(InUse) \in Nat /\ free_conn_mgr \in Seq(Conns)
      /\ Len(free_conn_mgr) \in Nat
  BY FiniteConns DEF InUse, InState, PoolInv, TypeOK
<1>1. CASE free_conn_mgr # <<>>
  <2>1. /\ free_conn_mgr' \in Seq(Conns) /\ OneEach(free_conn_mgr')
        /\ Len(free_conn_mgr') = Len(free_conn_mgr) - 1
        /\ c \in Members(free_conn_mgr)
        /\ Members(free_conn_mgr') = Members(free_conn_mgr) \ {c}
    BY Zenon, <1>0, <1>1, FrontTakesLast DEF PoolInv, FreeList
  <2>2. c \in InState("free") /\ Members(free_conn_mgr') = InState("free") \ {c}
    BY Zenon, <2>1 DEF PoolInv, FreeList
  <2>3. c \notin InUse
    BY Zenon, <2>2 DEF InUse, InState
  <2>4. total_conn' = Cardinality(InUse) + 1 + Len(free_conn_mgr')
    BY <1>0, <1>1, <2>1 DEF PoolInv, FreeList
  <2> QED
    BY Zenon, <2>1, <2>2, <2>3, <2>4
<1>2. CASE free_conn_mgr = <<>>
  <2>1. c \notin InUse /\ c \notin InState("free")
    BY Zenon, <1>2 DEF InUse, InState
  <2>2. InState("free") \ {c} = InState("free")
    BY Zenon, <2>1
  <2>3. total_conn' = Cardinality(InUse) + 1 + Len(free_conn_mgr')
    BY <1>0, <1>2 DEF PoolInv, FreeList
  <2> QED
    BY Zenon, <1>0, <1>2, <2>1, <2>2, <2>3 DEF PoolInv, FreeList
<1> QED
  BY Zenon, <1>1, <1>2

(* A new connection gets a descriptor that no open object holds, and an    *)
(* object that nobody uses.                                                *)
LEMMA GetConnectKeeps ==
  ASSUME PoolInv, NEW f \in Fds, GetConnect(f)
  PROVE  PoolInv'
<1>1. PICK c \in Conns :
        /\ accepted[f] # 0
        /\ IF free_conn_mgr # <<>>
             THEN /\ c = free_conn_mgr[Len(free_conn_mgr)]
                  /\ free_conn_mgr' = Front(free_conn_mgr)
                  /\ UNCHANGED total_conn
             ELSE /\ state[c] = "none"
                  /\ total_conn' = total_conn + 1
                  /\ UNCHANGED free_conn_mgr
        /\ accepted' = [accepted EXCEPT ![f] = 0]
        /\ worker' = [worker EXCEPT ![c] = accepted[f]]
        /\ state' = [state EXCEPT ![c] = "run"]
        /\ fd' = [fd EXCEPT ![c] = f]
        /\ live' = [live EXCEPT ![c] = TRUE]
        /\ plus_mgr' = [plus_mgr EXCEPT ![f] = c]
        /\ conn_mgr' = [conn_mgr EXCEPT ![f] = c]
        /\ reused' = (reused \/ conn_mgr[f] # NoConn)
        /\ UNCHANGED <<open, lastid_, exited>>
  BY Zenon DEF GetConnect
<1>2. TypeOK
  BY Zenon DEF PoolInv
<1>3. /\ c \notin InUse
      /\ free_conn_mgr' \in Seq(Conns) /\ OneEach(free_conn_mgr')
      /\ Members(free_conn_mgr') = InState("free") \ {c}
      /\ total_conn' = Cardinality(InUse) + 1 + Len(free_conn_mgr')
  BY Zenon, <1>1, GetConnectList
<1>4. /\ InUse' = InUse \cup {c}
      /\ Holding' = Holding \cup {c}
      /\ InState("run")' = InState("run") \cup {c}
      /\ InState("free")' = InState("free") \ {c}
  BY Zenon, <1>1, <1>2 DEF TypeOK, InUse, Holding, InState
<1>5. Holding \subseteq InUse /\ InUse \subseteq Conns /\ InState("run") \subseteq Holding
  BY Zenon DEF InUse, Holding, InState
<1>6. \A d \in Holding : d # c /\ fd'[d] = fd[d] /\ fd[d] # f /\ fd[d] \in Fds
  BY Zenon, <1>1, <1>2, <1>3, <1>5 DEF TypeOK, PoolInv, OwnFd
<1>7. NoFd # f /\ c # NoConn
  BY Zenon, PoolAssumption
<1>8. TypeOK'
  <2>1. \A g \in Fds : accepted'[g] # 0 => g \in open'
    BY Zenon, <1>1, <1>2 DEF TypeOK
  <2>2. \A d \in Conns : fd'[d] # NoFd <=> d \in InUse'
    BY Zenon, <1>1, <1>2, <1>4, <1>7 DEF TypeOK
  <2>3. total_conn' \in Nat
    <3>1. Cardinality(InUse) \in Nat /\ Len(free_conn_mgr') \in Nat
      BY <1>3, <1>5, FiniteConns
    <3> QED
      BY <1>3, <3>1
  <2>4. /\ accepted' \in [Fds -> Threads \cup {0}] /\ worker' \in [Conns -> Threads]
        /\ state' \in [Conns -> States] /\ fd' \in [Conns -> Fds \cup {NoFd}]
    BY Zenon, <1>1, <1>2 DEF TypeOK, States
  <2>5. /\ live' \in [Conns -> BOOLEAN] /\ conn_mgr' \in [Fds -> Conns \cup {NoConn}]
        /\ plus_mgr' \in [Fds -> Conns \cup {NoConn}]
        /\ reused' \in BOOLEAN
    BY Zenon, <1>1, <1>2 DEF TypeOK
  <2>6. open' \subseteq Fds /\ lastid_' \in Threads \cup {0} /\ exited' \in BOOLEAN
    BY Zenon, <1>1, <1>2 DEF TypeOK
  <2> QED
    BY Zenon, <1>3, <2>1, <2>2, <2>3, <2>4, <2>5, <2>6 DEF TypeOK
<1>9. OwnFd'
  <2>1. fd'[c] = f /\ f \in open' /\ accepted'[f] = 0
    BY Zenon, <1>1, <1>2 DEF TypeOK
  <2>2. \A d \in Holding : fd'[d] \in open' /\ accepted'[fd'[d]] = 0
    BY <1>1, <1>2, <1>6 DEF TypeOK, PoolInv, OwnFd
  <2>3. \A d, e \in Holding : fd'[d] = fd'[e] => d = e
    BY Zenon, <1>6 DEF PoolInv, OwnFd
  <2>4. \A d \in Holding : fd'[d] # f
    BY Zenon, <1>6
  <2> QED
    BY Zenon, <1>4, <2>1, <2>2, <2>3, <2>4 DEF OwnFd
<1>10. FreeList'
  <2>1. Cardinality(InUse') = Cardinality(InUse) + 1
    BY Zenon, <1>3, <1>4, <1>5, OneMore
  <2> QED
    BY Zenon, <1>3, <1>4, <2>1 DEF FreeList
<1>11. RegisteredInUse'
  BY Zenon, <1>1, <1>2, <1>3, <1>4 DEF TypeOK, PoolInv, RegisteredInUse
<1>12. OwnCommand'
  <2>1. live'[c] /\ fd'[c] = f /\ plus_mgr'[f] = c
    BY Zenon, <1>1, <1>2 DEF TypeOK
  <2>2. \A d \in InState("run") : live'[d] /\ plus_mgr'[fd'[d]] = d
    BY Zenon, <1>1, <1>2, <1>5, <1>6 DEF TypeOK, PoolInv, OwnCommand
  <2> QED
    BY Zenon, <1>4, <2>1, <2>2 DEF OwnCommand
<1>13. MissNeedsReuse'
  <2>1. CASE reused \/ conn_mgr[f] # NoConn
    BY Zenon, <1>1, <2>1 DEF MissNeedsReuse
  <2>2. CASE ~reused /\ conn_mgr[f] = NoConn
    <3>1. \A d \in InUse : conn_mgr[fd[d]] = d /\ fd[d] \in Fds /\ d # NoConn
      BY Zenon, <1>2, <1>5, <2>2, PoolAssumption DEF TypeOK, PoolInv, MissNeedsReuse
    <3>2. \A d \in InUse : fd[d] # f /\ d # c
      BY Zenon, <1>3, <2>2, <3>1
    <3>3. \A d \in InUse : conn_mgr'[fd'[d]] = d
      BY Zenon, <1>1, <1>2, <1>5, <3>1, <3>2 DEF TypeOK
    <3>4. conn_mgr'[fd'[c]] = c
      BY Zenon, <1>1, <1>2 DEF TypeOK
    <3> QED
      BY Zenon, <1>4, <3>3, <3>4 DEF MissNeedsReuse
  <2> QED
    BY Zenon, <2>1, <2>2
<1> QED
  BY Zenon, <1>8, <1>9, <1>10, <1>11, <1>12, <1>13 DEF PoolInv

(* Destruct deletes the command of its own object, since the descriptor is *)
(* still open and cannot have been registered by another one, and closes   *)
(* its own descriptor only.                                                *)
LEMMA DestructKeeps ==
  ASSUME PoolInv, NEW c \in Conns, Destruct(c)
  PROVE  PoolInv'
<1>1. PICK first \in BOOLEAN :
        /\ state[c] = IF first THEN "run" ELSE "destroyed"
        /\ state' = [state EXCEPT ![c] = IF first THEN "destroyed" ELSE "closed"]
        /\ DestructHalf(c, first)
        /\ UNCHANGED <<accepted, lastid_, worker, fd, conn_mgr, plus_mgr,
                       free_conn_mgr, total_conn, exited, reused>>
  BY Zenon DEF Destruct
<1>2. TypeOK
  BY Zenon DEF PoolInv
<1>3. /\ c \in Holding /\ c \in InUse
      /\ InUse' = InUse /\ InState("free")' = InState("free")
      /\ Holding' = IF first THEN Holding ELSE Holding \ {c}
      /\ InState("run")' = InState("run") \ {c}
  BY Zenon, <1>1, <1>2 DEF TypeOK, InUse, Holding, InState
<1>4. Holding \subseteq InUse /\ InUse \subseteq Conns /\ InState("run") \subseteq Holding
  BY Zenon DEF InUse, Holding, InState
<1>5. fd[c] \in Fds
  BY Zenon, <1>2, <1>3 DEF TypeOK
<1>6. \A d \in Holding' : d \in Holding /\ fd[d] \in open'
  <2>1. CASE first
    BY Zenon, <1>1, <1>3, <2>1 DEF DestructHalf, DeleteCommand, PoolInv, OwnFd
  <2>2. CASE ~first
    BY Zenon, <1>1, <1>3, <2>2 DEF DestructHalf, CloseFd, PoolInv, OwnFd
  <2> QED
    BY Zenon, <2>1, <2>2
<1>7. /\ live' \in [Conns -> BOOLEAN] /\ open' \subseteq open
      /\ \A d \in InState("run") \ {c} : live'[d] = live[d]
  <2>1. CASE first
    <3>1. plus_mgr[fd[c]] = c /\ c # NoConn
      BY Zenon, <1>1, <2>1, PoolAssumption DEF PoolInv, OwnCommand, InState
    <3>2. live' = [live EXCEPT ![c] = FALSE] /\ open' = open
      BY Zenon, <1>1, <2>1, <3>1 DEF DestructHalf, DeleteCommand
    <3> QED
      BY Zenon, <1>2, <3>2 DEF TypeOK, InState
  <2>2. CASE ~first
    BY Zenon, <1>1, <1>2, <2>2 DEF DestructHalf, CloseFd, TypeOK
  <2> QED
    BY Zenon, <2>1, <2>2
<1>8. TypeOK'
  <2>1. state' \in [Conns -> States]
    BY Zenon, <1>1, <1>2 DEF TypeOK, States
  <2>2. \A f \in Fds : accepted'[f] # 0 => f \in open'
    <3>1. CASE first
      BY Zenon, <1>1, <1>2, <3>1 DEF DestructHalf, DeleteCommand, TypeOK
    <3>2. CASE ~first
      BY ZenonT(40), <1>1, <1>2, <1>3, <3>2 DEF DestructHalf, CloseFd, TypeOK, PoolInv, OwnFd
    <3> QED
      BY Zenon, <3>1, <3>2
  <2>3. \A d \in Conns : fd'[d] # NoFd <=> d \in InUse'
    BY Zenon, <1>1, <1>2, <1>3 DEF TypeOK
  <2> QED
    BY Zenon, <1>1, <1>2, <1>7, <2>1, <2>2, <2>3 DEF TypeOK
<1>9. OwnFd'
  BY Zenon, <1>1, <1>6 DEF PoolInv, OwnFd
<1>10. FreeList'
  BY Zenon, <1>1, <1>3 DEF PoolInv, FreeList
<1>11. RegisteredInUse'
  BY Zenon, <1>1, <1>3 DEF PoolInv, RegisteredInUse
<1>12. OwnCommand'
  BY Zenon, <1>1, <1>3, <1>7 DEF PoolInv, OwnCommand
<1>13. MissNeedsReuse'
  BY Zenon, <1>1, <1>3 DEF PoolInv, MissNeedsReuse
<1> QED
  BY Zenon, <1>8, <1>9, <1>10, <1>11, <1>12, <1>13 DEF PoolInv

(* The list is cut by no more entries than it has: the objects in use are  *)
(* never fewer than 0, so the number of free objects to keep is a number.  *)
LEMMA SurplusInList ==
  ASSUME NEW list \in Seq(Conns), total_conn \in Nat, Len(list) <= total_conn
  PROVE  Surplus(list) \in 0 .. Len(list)
<1>1. total_conn - Len(list) \in Nat /\ Len(list) \in Nat /\ Factor \in Nat
  BY PoolAssumption
<1>2. \A m, n \in Nat : m * n \in Nat
  OBVIOUS
<1>3. (total_conn - Len(list)) * Factor \in Nat
  BY Zenon, <1>1, <1>2
<1> QED
  BY <1>1, <1>3 DEF Surplus

(* RetConnect puts the object back: it is erased from conn_mgr, and only   *)
(* objects that nobody uses are deleted.                                   *)
LEMMA PooledKeeps ==
  ASSUME PoolInv, NEW c \in Conns, state[c] = "closed", Pooled(c)
  PROVE  PoolInv'
<1> DEFINE list == Before(c, free_conn_mgr)
           cut == Surplus(list)
           deleted == FirstOf(list, cut)
<1>1. /\ conn_mgr' = [conn_mgr EXCEPT ![fd[c]] = NoConn]
      /\ fd' = [fd EXCEPT ![c] = NoFd]
      /\ free_conn_mgr' = SubSeq(list, cut + 1, Len(list))
      /\ total_conn' = total_conn - cut
      /\ state' = [d \in Conns |-> IF d \in deleted THEN "none"
                                   ELSE IF d = c THEN "free" ELSE state[d]]
      /\ worker' = [worker EXCEPT ![c] = 1]
      /\ UNCHANGED <<open, accepted, lastid_, live, plus_mgr, exited, reused>>
  BY Zenon DEF Pooled, Erased, Unset, Uncounted, FirstOf, Before
<1>2. TypeOK /\ free_conn_mgr \in Seq(Conns) /\ OneEach(free_conn_mgr)
  BY Zenon DEF PoolInv, TypeOK, FreeList
<1>3. /\ c \in InUse /\ c \notin InState("free") /\ c \notin InState("run")
      /\ c \notin InState("destroyed")
      /\ InUse \subseteq Conns /\ InUse \cap InState("free") = {}
      /\ Holding \subseteq InUse /\ InState("run") \subseteq Holding /\ c \notin Holding
  BY Zenon DEF InUse, InState, Holding
<1>4. /\ list \in Seq(Conns) /\ Len(list) = Len(free_conn_mgr) + 1
      /\ Len(free_conn_mgr) \in Nat
  BY <1>2 DEF Before
<1>5. /\ Cardinality(InUse) \in Nat /\ Cardinality(InUse) >= 1
      /\ Cardinality(InUse \ {c}) = Cardinality(InUse) - 1
  BY Zenon, <1>3, OneLess, FiniteConns
<1>6. cut \in 0 .. Len(list)
  <2>1. total_conn \in Nat /\ Len(list) <= total_conn
    BY <1>2, <1>4, <1>5 DEF PoolInv, FreeList, TypeOK
  <2> QED
    BY Zenon, <1>4, <2>1, SurplusInList
<1>7. /\ free_conn_mgr' \in Seq(Conns) /\ OneEach(free_conn_mgr')
      /\ Len(free_conn_mgr') = Len(free_conn_mgr) + 1 - cut
      /\ deleted \subseteq InState("free") \cup {c}
      /\ Members(free_conn_mgr') = (InState("free") \cup {c}) \ deleted
  <2>1. c \notin Members(free_conn_mgr) /\ Members(free_conn_mgr) = InState("free")
    BY Zenon, <1>3 DEF PoolInv, FreeList
  <2>2. free_conn_mgr \in Seq(Conns) /\ OneEach(free_conn_mgr)
    BY Zenon, <1>2
  <2>3. free_conn_mgr' = Rest(list, cut)
    BY Zenon, <1>1 DEF Rest
  <2> HIDE DEF cut
  <2>4. /\ Rest(list, cut) \in Seq(Conns) /\ OneEach(Rest(list, cut))
        /\ Len(Rest(list, cut)) = Len(free_conn_mgr) + 1 - cut
        /\ FirstOf(list, cut) \subseteq Members(free_conn_mgr) \cup {c}
        /\ Members(Rest(list, cut)) =
             (Members(free_conn_mgr) \cup {c}) \ FirstOf(list, cut)
    BY <1>6, <2>1, <2>2, CutList
  <2> HIDE DEF list
  <2> QED
    BY Zenon, <2>1, <2>3, <2>4
<1> HIDE DEF list, cut, deleted
<1>8. /\ InUse' = InUse \ {c}
      /\ InState("free")' = (InState("free") \cup {c}) \ deleted
      /\ InState("run")' = InState("run")
      /\ Holding' = Holding
  <2>1. \A d \in Conns : state'[d] = IF d \in deleted THEN "none"
                                     ELSE IF d = c THEN "free" ELSE state[d]
    BY Zenon, <1>1
  <2>2. \A d \in deleted : d = c \/ state[d] = "free"
    BY Zenon, <1>7 DEF InState
  <2>3. InState("run")' = InState("run") /\ InState("destroyed")' = InState("destroyed")
    BY Zenon, <2>1, <2>2 DEF InState
  <2>4. InState("closed")' = InState("closed") \ {c}
    BY Zenon, <2>1, <2>2 DEF InState
  <2>5. InState("free")' = (InState("free") \cup {c}) \ deleted
    BY Zenon, <2>1, <2>2 DEF InState
  <2> QED
    BY Zenon, <1>3, <2>3, <2>4, <2>5 DEF InUse, Holding
<1>9. fd[c] \in Fds
  BY Zenon, <1>2, <1>3 DEF TypeOK
<1>10. \A d \in Conns \ {c} : fd'[d] = fd[d]
  BY Zenon, <1>1, <1>2 DEF TypeOK
<1>11. TypeOK'
  <2>1. state' \in [Conns -> States]
    BY Zenon, <1>1, <1>2 DEF TypeOK, States
  <2>2. \A d \in Conns : fd'[d] # NoFd <=> d \in InUse'
    BY Zenon, <1>1, <1>2, <1>8 DEF TypeOK
  <2>3. total_conn' \in Nat
    BY <1>1, <1>4, <1>5, <1>6 DEF PoolInv, FreeList
  <2>4. /\ worker' \in [Conns -> Threads] /\ fd' \in [Conns -> Fds \cup {NoFd}]
        /\ conn_mgr' \in [Fds -> Conns \cup {NoConn}]
    <3>1. 1 \in Threads
      BY PoolAssumption DEF Threads
    <3> QED
      BY Zenon, <1>1, <1>2, <3>1 DEF TypeOK
  <2> QED
    BY Zenon, <1>1, <1>2, <1>7, <2>1, <2>2, <2>3, <2>4 DEF TypeOK
<1>12. OwnFd'
  BY <1>1, <1>3, <1>8, <1>10 DEF PoolInv, OwnFd
<1>13. FreeList'
  <2>1. total_conn' = Cardinality(InUse') + Len(free_conn_mgr')
    <3>1. Cardinality(InUse') = Cardinality(InUse) - 1
      BY Zenon, <1>5, <1>8
    <3> QED
      BY <1>1, <1>4, <1>5, <1>6, <1>7, <3>1 DEF PoolInv, FreeList
  <2> QED
    BY Zenon, <1>7, <1>8, <2>1 DEF FreeList
<1>14. RegisteredInUse'
  <2> SUFFICES ASSUME NEW f \in Fds, conn_mgr'[f] # NoConn
               PROVE  conn_mgr'[f] \in InUse' /\ fd'[conn_mgr'[f]] = f
    BY Zenon DEF RegisteredInUse
  <2>1. f # fd[c] /\ conn_mgr'[f] = conn_mgr[f]
    BY Zenon, <1>1, <1>2 DEF TypeOK
  <2>2. conn_mgr[f] \in InUse /\ fd[conn_mgr[f]] = f
    BY Zenon, <2>1 DEF PoolInv, RegisteredInUse
  <2> QED
    BY Zenon, <1>3, <1>8, <1>10, <2>1, <2>2
<1>15. OwnCommand'
  BY ZenonT(40), <1>1, <1>3, <1>8, <1>10 DEF PoolInv, OwnCommand
<1>16. MissNeedsReuse'
  <2>1. CASE reused
    BY Zenon, <1>1, <2>1 DEF MissNeedsReuse
  <2>2. CASE ~reused
    <3> SUFFICES ASSUME NEW d \in InUse' PROVE conn_mgr'[fd'[d]] = d
      BY Zenon DEF MissNeedsReuse
    <3>1. d \in InUse /\ d # c /\ fd'[d] = fd[d] /\ fd[d] \in Fds
      BY Zenon, <1>2, <1>3, <1>8, <1>10 DEF TypeOK
    <3>2. conn_mgr[fd[d]] = d /\ conn_mgr[fd[c]] = c
      BY Zenon, <1>3, <2>2, <3>1 DEF PoolInv, MissNeedsReuse
    <3> QED
      BY Zenon, <1>1, <1>2, <3>1, <3>2 DEF TypeOK
  <2> QED
    BY Zenon, <2>1, <2>2
<1> QED
  BY Zenon, <1>11, <1>12, <1>13, <1>14, <1>15, <1>16 DEF PoolInv

(* A miss changes nothing but the exit of the process.                     *)
LEMMA RetConnectKeeps ==
  ASSUME PoolInv, NEW c \in Conns, RetConnect(c)
  PROVE  PoolInv'
<1>1. CASE NotFound(c)
  <2>1. InUse' = InUse /\ Holding' = Holding
        /\ InState("free")' = InState("free") /\ InState("run")' = InState("run")
    BY Zenon, <1>1 DEF NotFound, InUse, Holding, InState
  <2>2. TypeOK'
    BY Zenon, <1>1, <2>1 DEF NotFound, PoolInv, TypeOK
  <2>3. OwnFd' /\ FreeList'
    BY Zenon, <1>1, <2>1 DEF NotFound, PoolInv, OwnFd, FreeList
  <2>4. RegisteredInUse' /\ OwnCommand' /\ MissNeedsReuse'
    BY Zenon, <1>1, <2>1 DEF NotFound, PoolInv, RegisteredInUse, OwnCommand, MissNeedsReuse
  <2> QED
    BY Zenon, <2>2, <2>3, <2>4 DEF PoolInv
<1>2. CASE Pooled(c)
  BY Zenon, <1>2, PooledKeeps DEF RetConnect
<1> QED
  BY Zenon, <1>1, <1>2 DEF RetConnect

(* Steps that change nothing keep it.                                      *)
LEMMA PoolStutter == PoolInv /\ UNCHANGED vars => PoolInv'
BY DEF PoolInv, vars, TypeOK, OwnFd, FreeList, RegisteredInUse, OwnCommand,
       MissNeedsReuse, InUse, Holding, InState
-----------------------------------------------------------------------------
(* PoolInv holds in every state the pool reaches.                          *)
THEOREM PoolInvariant == Spec => []PoolInv
<1>1. PoolInv /\ [Next]_vars => PoolInv'
  <2> SUFFICES ASSUME PoolInv, [Next]_vars PROVE PoolInv'
    BY Zenon
  <2>1. ASSUME NEW f \in Fds, Accept(f) PROVE PoolInv'
    BY Zenon, <2>1, AcceptKeeps
  <2>2. ASSUME NEW f \in Fds, GetConnect(f) PROVE PoolInv'
    BY Zenon, <2>2, GetConnectKeeps
  <2>3. ASSUME NEW c \in Conns, Destruct(c) PROVE PoolInv'
    BY Zenon, <2>3, DestructKeeps
  <2>4. ASSUME NEW c \in Conns, RetConnect(c) PROVE PoolInv'
    BY Zenon, <2>4, RetConnectKeeps
  <2>5. CASE UNCHANGED vars
    BY Zenon, <2>5, PoolStutter
  <2> QED
    BY Zenon, <2>1, <2>2, <2>3, <2>4, <2>5 DEF Next
<1> QED
  BY PoolInit, <1>1, PTL DEF Spec

(* Type correctness of the pool.                                           *)
THEOREM PoolTypeCorrect == Spec => []TypeOK
<1>1. PoolInv => TypeOK
  BY Zenon DEF PoolInv
<1> QED
  BY PoolInvariant, <1>1, PTL

(* GetConnCount never wraps around: total_conn is the number of objects in *)
(* use and free, and the free list of GetConnect and RetConnect holds each *)
(* free object once.                                                       *)
THEOREM PoolCountsAddUp == Spec => []CountsAddUp
<1>1. PoolInv => CountsAddUp
  <2> SUFFICES ASSUME PoolInv PROVE CountsAddUp
    BY Zenon
  <2>1. free_conn_mgr \in Seq(Conns) /\ OneEach(free_conn_mgr)
        /\ Members(free_conn_mgr) = InState("free")
    BY Zenon DEF PoolInv, TypeOK, FreeList
  <2>2. Cardinality(InState("free")) = Len(free_conn_mgr)
    BY Zenon, <2>1, MembersCount
  <2> QED
    BY Zenon, <2>1, <2>2 DEF PoolInv, FreeList, CountsAddUp, Members
<1> QED
  BY PoolInvariant, <1>1, PTL

(* conn_mgr never holds a pointer to an object that is free or deleted:    *)
(* RetConnect erases the entry before it pools the object.                 *)
THEOREM NoDanglingConnect == Spec => []RegisteredInUse
<1>1. PoolInv => RegisteredInUse
  BY Zenon DEF PoolInv
<1> QED
  BY PoolInvariant, <1>1, PTL

(* A connection that a worker handles has its command object, and it is    *)
(* the one Destruct will find under the descriptor, however the workers    *)
(* interleave GetConnect, Destruct and RetConnect.                         *)
THEOREM CommandIsOwn == Spec => []OwnCommand
<1>1. PoolInv => OwnCommand
  BY Zenon DEF PoolInv
<1> QED
  BY PoolInvariant, <1>1, PTL

(* RetConnect finds its object under its descriptor unless a descriptor    *)
(* was registered again between a Destruct and its RetConnect.             *)
THEOREM ExitNeedsReuse == Spec => []MissNeedsReuse
<1>1. PoolInv => MissNeedsReuse
  BY Zenon DEF PoolInv
<1> QED
  BY PoolInvariant, <1>1, PTL
=============================================================================
