------------------------------- MODULE Levels -------------------------------
(***************************************************************************)
(* The levels of a leveldb database: the memtable is flushed to a table at *)
(* a level that PickLevelForMemTableOutput chooses, compactions move and   *)
(* merge tables downwards and drop entries that no snapshot needs, and     *)
(* reads search level by level or merge everything.  An entry is <<user    *)
(* key, sequence, type>>, a table a non-empty set of entries.  Level 0 is  *)
(* the sequence of its tables from the oldest to the newest file number.   *)
(***************************************************************************)
EXTENDS Integers, Sequences, FiniteSets, SequencesExt

CONSTANTS
  Keys,         \* user keys, integers
  NumLevels,    \* kNumLevels
  MaxMemLevel,  \* kMaxMemCompactLevel
  MaxSeq,       \* bound: writes
  MaxDels,      \* bound: deletions among them
  MaxSnaps      \* bound: snapshots held at once

ASSUME LevelsAssumption ==
  /\ Keys \subseteq Int
  /\ NumLevels \in Nat \ {0, 1}
  /\ MaxMemLevel \in 0..(NumLevels - 2)
  /\ MaxSeq \in Nat /\ MaxDels \in Nat /\ MaxSnaps \in Nat

VARIABLES
  mem,     \* entries of the memtable
  l0,      \* tables of level 0, oldest first
  lev,     \* level -> tables, for the levels below 0
  seq,     \* LastSequence
  snaps,   \* sequence numbers of the live snapshots
  comp,    \* the compaction in progress
  hist,    \* history: all entries written
  parted   \* history: keys of which a newer entry went down a level, or a
           \* deletion was dropped, while an older one stayed where it was

vars == <<mem, l0, lev, seq, snaps, comp, hist, parted>>

NoComp == [on |-> FALSE]
Lower == 1..(NumLevels - 1)

Init ==
  /\ mem = {} /\ l0 = <<>> /\ lev = [i \in Lower |-> {}]
  /\ seq = 0 /\ snaps = {} /\ comp = NoComp
  /\ hist = {} /\ parted = {}
-----------------------------------------------------------------------------
KeyOf(e) == e[1]
SeqNo(e) == e[2]

\* InternalKeyComparator: by key, and the newest entry of a key first.
Before(a, b) == KeyOf(a) < KeyOf(b) \/ (KeyOf(a) = KeyOf(b) /\ SeqNo(a) > SeqNo(b))
Smallest(f) == CHOOSE e \in f : \A x \in f : ~Before(x, e)
Largest(f) == CHOOSE e \in f : \A x \in f : ~Before(e, x)
RECURSIVE Sorted(_)
Sorted(E) == LET From(e) == <<e>> \o Sorted(E \ {e})
             IN IF E = {} THEN <<>> ELSE From(Smallest(E))
MinKey(f) == KeyOf(Smallest(f))
MaxKey(f) == KeyOf(Largest(f))

TablesAt(i) == IF i = 0 THEN ToSet(l0) ELSE lev[i]

\* The tables of T whose user keys overlap the range lo..hi.
InRange(T, lo, hi) == {f \in T : MinKey(f) <= hi /\ MaxKey(f) >= lo}
Overlap(T, S) == InRange(T, MinKey(UNION S), MaxKey(UNION S))

RECURSIVE OverlapAll(_, _)
\* GetOverlappingInputs at level 0 restarts when a table widens the range.
OverlapAll(T, S) == IF Overlap(T, S) \subseteq S THEN S
                    ELSE OverlapAll(T, S \cup Overlap(T, S))
GetOverlappingInputs(i, S) ==
  IF i = 0 THEN Overlap(TablesAt(0), OverlapAll(TablesAt(0), S))
  ELSE Overlap(TablesAt(i), S)
-----------------------------------------------------------------------------
Deletions == {e \in hist : e[3] = "del"}

Put(k, t) ==
  /\ seq < MaxSeq
  /\ t = "del" => Cardinality(Deletions) < MaxDels
  /\ seq' = seq + 1
  /\ mem' = mem \cup {<<k, seq + 1, t>>}
  /\ hist' = hist \cup {<<k, seq + 1, t>>}
  /\ UNCHANGED <<l0, lev, snaps, comp, parted>>

GetSnapshot ==
  /\ Cardinality(snaps) < MaxSnaps
  /\ snaps' = snaps \cup {seq}
  /\ UNCHANGED <<mem, l0, lev, seq, comp, hist, parted>>

ReleaseSnapshot(s) ==
  /\ s \in snaps
  /\ snaps' = snaps \ {s}
  /\ UNCHANGED <<mem, l0, lev, seq, comp, hist, parted>>

PickLevelAbove(f) ==  \* a mutant: the chosen level itself is not looked at
  {i \in 0..MaxMemLevel :
     i = 0 \/ \A j \in 0..(i - 1) : Overlap(TablesAt(j), {f}) = {}}

\* PickLevelForMemTableOutput: below level 0 only if no level down to the
\* chosen one overlaps; too much overlap two levels down may stop it earlier.
PickLevel(f) ==
  {i \in 0..MaxMemLevel :
     i = 0 \/ \A j \in 0..i : Overlap(TablesAt(j), {f}) = {}}

\* The memtable becomes a table, also in the middle of a compaction.
Flush ==
  /\ mem # {}
  /\ \E i \in PickLevel(mem) :
       /\ l0' = IF i = 0 THEN Append(l0, mem) ELSE l0
       /\ lev' = IF i = 0 THEN lev ELSE [lev EXCEPT ![i] = @ \cup {mem}]
  /\ mem' = {}
  /\ UNCHANGED <<seq, snaps, comp, hist, parted>>

OneInput(i, f) == {f}  \* a mutant: level 0 is treated like the others
\* PickCompaction takes any table of a level above the last: by size and the
\* compaction pointer, or because it was searched too often.
FirstInputs(i, f) == IF i = 0 THEN GetOverlappingInputs(0, {f}) ELSE {f}

\* SetupOtherInputs: the tables one level down, and, if they fit, more tables
\* of the same level when those bring in no more below.
AllInputs(i, in0) ==
  LET in1 == GetOverlappingInputs(i + 1, in0)
      more0 == GetOverlappingInputs(i, in0 \cup in1)
      more1 == GetOverlappingInputs(i + 1, more0)
  IN {<<in0, in1>>}
     \cup (IF in1 # {} /\ more0 # in0 /\ Cardinality(more1) = Cardinality(in1)
           THEN {<<more0, more1>>} ELSE {})

\* Keys with an older entry in the tables U than among the entries E.
Parted(E, U) ==
  {KeyOf(e) : e \in {x \in E : \E y \in UNION U :
                       KeyOf(x) = KeyOf(y) /\ SeqNo(x) > SeqNo(y)}}

\* LogAndApply of a compaction from level i: in0 and in1 go, out comes in.
Install(i, in0, in1, out) ==
  /\ l0' = IF i = 0 THEN SelectSeq(l0, LAMBDA f : f \notin in0) ELSE l0
  /\ lev' = [j \in Lower |->
       CASE j = i -> lev[j] \ in0
         [] j = i + 1 -> (lev[j] \ in1) \cup out
         [] OTHER -> lev[j]]
  /\ parted' = parted
       \cup (IF i = 0 THEN {} ELSE Parted(UNION in0, lev[i] \ in0))
       \cup Parted({e \in UNION (in0 \cup in1) \ UNION out : e[3] = "del"},
                   lev[i + 1] \ in1)

\* IsTrivialMove: one table that overlaps nothing one level down.
MoveTable(i, f) ==
  /\ ~comp.on
  /\ FirstInputs(i, f) = {f} /\ GetOverlappingInputs(i + 1, {f}) = {}
  /\ Install(i, {f}, {}, {f})
  /\ UNCHANGED <<mem, seq, snaps, comp, hist>>

\* IsBaseLevelForKey, in the version the compaction starts from.
BaseKeys(i) == {k \in Keys : \A j \in Lower : j >= i + 2 => InRange(lev[j], k, k) = {}}
SmallestSnapshot == IF snaps = {} THEN seq
                    ELSE CHOOSE s \in snaps : \A x \in snaps : s <= x

StartCompaction(i, f) ==
  /\ ~comp.on
  /\ \E in \in AllInputs(i, FirstInputs(i, f)) :
       comp' = [on |-> TRUE, level |-> i, in0 |-> in[1], in1 |-> in[2],
                smallest |-> SmallestSnapshot, base |-> BaseKeys(i)]
  /\ UNCHANGED <<mem, l0, lev, seq, snaps, hist, parted>>

\* DoCompactionWork: an entry hidden by a newer one that every snapshot sees
\* is dropped, and so is a deletion with nothing left to delete.
HiddenForAll(e, E) == \E x \in E : /\ KeyOf(x) = KeyOf(e)  \* a mutant
                                   /\ SeqNo(x) > SeqNo(e)
Hidden(e, E) == \E x \in E : /\ KeyOf(x) = KeyOf(e) /\ SeqNo(x) > SeqNo(e)
                             /\ SeqNo(x) <= comp.smallest
Obsolete(e) == e[3] = "del" /\ SeqNo(e) <= comp.smallest /\ KeyOf(e) \in comp.base
Kept(E) == {e \in E : ~Hidden(e, E) /\ ~Obsolete(e)}

\* An output is closed when it is big enough, wherever that is; two outputs.
Outputs(E) ==
  IF E = {} THEN {{}}
  ELSE {{{x \in E : ~Before(e, x)}, {x \in E : Before(e, x)}} \ {{}} : e \in E}

FinishCompaction ==
  /\ comp.on
  /\ \E out \in Outputs(Kept(UNION (comp.in0 \cup comp.in1))) :
       Install(comp.level, comp.in0, comp.in1, out)
  /\ comp' = NoComp
  /\ UNCHANGED <<mem, seq, snaps, hist>>

Next ==
  \/ \E k \in Keys, t \in {"val", "del"} : Put(k, t)
  \/ GetSnapshot \/ \E s \in snaps : ReleaseSnapshot(s)
  \/ Flush
  \/ \E i \in 0..(NumLevels - 2) : \E f \in TablesAt(i) :
       MoveTable(i, f) \/ StartCompaction(i, f)
  \/ FinishCompaction

Spec == Init /\ [][Next]_vars
-----------------------------------------------------------------------------
(* Reads *)

\* The first entry of a table or memtable at or after the lookup key.
Lookup(f, k, s) ==
  LET after == {e \in f : ~Before(e, <<k, s>>)}
  IN IF after = {} THEN {} ELSE {Smallest(after)} \cap {e \in f : KeyOf(e) = k}

\* FindFile: of a sorted level, the first table that ends at or after the key.
FindFile(T, k, s) ==
  LET after == {f \in T : ~Before(Largest(f), <<k, s>>)}
  IN IF after = {} THEN {}
     ELSE CHOOSE f \in after : \A g \in after : ~Before(Largest(g), Largest(f))

\* DBImpl::Get and Version::Get: the memtable, level 0 from the newest table,
\* then level by level; the first table with an entry of the key decides.
\* The answer is the entry, or {} for NotFound.
Get(k, s) ==
  LET tabs == <<mem>> \o Reverse(l0) \o [i \in Lower |-> FindFile(lev[i], k, s)]
      hits == {i \in 1..Len(tabs) : Lookup(tabs[i], k, s) # {}}
      first == CHOOSE i \in hits : \A j \in hits : i <= j
  IN IF hits = {} THEN {} ELSE {e \in Lookup(tabs[first], k, s) : e[3] = "val"}

AllEntries == mem \cup UNION ToSet(l0) \cup UNION UNION {lev[i] : i \in Lower}

RECURSIVE FindNextUserEntry(_, _, _)
NotSkipped(es, skip, s) ==  \* a mutant: a deletion does not hide what follows
  IF es = <<>> THEN <<>>
  ELSE IF SeqNo(Head(es)) > s \/ Head(es)[3] = "del" \/ KeyOf(Head(es)) \in skip
  THEN FindNextUserEntry(Tail(es), skip, s)
  ELSE <<Head(es)>> \o FindNextUserEntry(Tail(es), {k \in Keys : k <= KeyOf(Head(es))}, s)
\* DBIter from SeekToFirst with Next to the end, over the merged entries.
FindNextUserEntry(es, skip, s) ==
  IF es = <<>> THEN <<>>
  ELSE IF SeqNo(Head(es)) > s \/ (Head(es)[3] = "val" /\ KeyOf(Head(es)) \in skip)
  THEN FindNextUserEntry(Tail(es), skip, s)
  ELSE (IF Head(es)[3] = "val" THEN <<Head(es)>> ELSE <<>>)
       \o FindNextUserEntry(Tail(es), {k \in Keys : k <= KeyOf(Head(es))}, s)
\* es are all entries in the order of the merging iterator.
Scan(es, s) == FindNextUserEntry(es, {}, s)

RECURSIVE FindPrevUserEntry(_, _, _)
\* DBIter::SeekToLast: from the last entry back, found is the candidate.
FindPrevUserEntry(es, found, s) ==
  IF es = <<>> THEN found
  ELSE IF SeqNo(Last(es)) > s THEN FindPrevUserEntry(Front(es), found, s)
  ELSE IF found # <<>> /\ KeyOf(Last(es)) < KeyOf(Head(found)) THEN found
  ELSE FindPrevUserEntry(Front(es), IF Last(es)[3] = "del" THEN <<>> ELSE <<Last(es)>>, s)
ScanLast(es, s) == FindPrevUserEntry(es, <<>>, s)
-----------------------------------------------------------------------------
(* Properties *)

\* No table is empty or holds what was not written, and no snapshot is ahead.
TypeOK ==
  /\ mem \subseteq hist /\ AllEntries \subseteq hist
  /\ {} \notin ToSet(l0) /\ \A i \in Lower : {} \notin lev[i]
  /\ \A s \in snaps : s <= seq

\* What a reader at sequence number s should see.
Visible(s) ==
  {e \in hist : /\ e[3] = "val" /\ SeqNo(e) <= s
                /\ ~\E x \in hist : KeyOf(x) = KeyOf(e) /\ SeqNo(x) \in SeqNo(e)+1 .. s}
Times == snaps \cup {seq}

\* Below level 0 the tables of a level do not overlap, although a memtable may
\* be flushed below level 0 while a compaction writes tables there.
LevelsDisjoint ==
  \A i \in Lower : \A f, g \in lev[i] :
    f # g => Before(Largest(f), Smallest(g)) \/ Before(Largest(g), Smallest(f))

\* All tables in the order in which Get reads them.
Order == <<mem>> \o Reverse(l0) \o [i \in Lower |-> UNION lev[i]]
Ordered(order, K) ==
  \A j \in 2..Len(order) : \A i \in 1..(j - 1) : \A x \in order[j], e \in order[i] :
    KeyOf(e) = KeyOf(x) /\ KeyOf(e) \in K => SeqNo(e) > SeqNo(x)

\* Data in a smaller level, or in a newer table of level 0, is newer than data
\* of the same key further down, unless the entries of the key were parted.
NewerFirst == Ordered(Order, Keys \ parted)

\* Get at the present and at every live snapshot returns the newest write of
\* then, for every key whose entries were not parted.
GetExact ==
  \A s \in Times : LET v == Visible(s) IN
    \A k \in Keys \ parted : Get(k, s) = {e \in v : KeyOf(e) = k}

\* A scan returns exactly the live keys with their newest values, in order, and
\* SeekToLast finds the last of them, as long as no entries were parted.
ScanExact ==
  parted = {} =>
    LET es == Sorted(AllEntries)
    IN  \A s \in Times : LET v == Sorted(Visible(s))
                         IN /\ Scan(es, s) = v
                            /\ ScanLast(es, s) = IF v = <<>> THEN v ELSE <<Last(v)>>
=============================================================================
