------------------------------ MODULE StringMap ------------------------------
(***************************************************************************)
(* llvm::StringMap (llvm/StringMap.h, cpp/llvm/StringMap.cpp): a table of  *)
(* buckets with quadratic probing.  An erased entry leaves a tombstone,    *)
(* so that the probes for other keys go on behind it.                      *)
(***************************************************************************)
EXTENDS Integers, FiniteSetsExt

CONSTANTS
  Keys, Values,
  Hashes,      \* bound: what HashString may return
  Sizes,       \* bound: how many buckets a constructor asks for, powers of 2
  DefaultSize  \* bound: how many a map has that was not given a size; 16 in the code

(* nothing odd divides it but 1 *)
IsPowerOf2(n) == n \in Nat \ {0} /\ \A d \in 2 .. n : n % d = 0 => d % 2 = 0

ASSUME MapAssumption ==
  Hashes \subseteq Nat /\ \A size \in Sizes \cup {DefaultSize} : IsPowerOf2(size)

VARIABLES
  hash,           \* HashString, some function of the keys
  TheTable,       \* a function of the bucket numbers
  NumTombstones,
  NumItems

mapVars == <<hash, TheTable, NumTombstones, NumItems>>

Bucket == [kind : {"empty", "tombstone"}] \cup [kind : {"entry"}, key : Keys, value : Values]
NoEntry == [kind |-> "empty"]
Tombstone == [kind |-> "tombstone"]
Entry(k, v) == [kind |-> "entry", key |-> k, value |-> v]

NumBuckets == Cardinality(DOMAIN TheTable)
Unallocated == [b \in {} |-> NoEntry]
Fresh(size) == [b \in 0 .. size - 1 |-> NoEntry]

(* a map that was not given a size allocates its buckets on first use *)
MapInit ==
  /\ hash \in [Keys -> Hashes]
  /\ TheTable \in {Unallocated} \cup {Fresh(size) : size \in Sizes}
  /\ NumTombstones = 0
  /\ NumItems = 0

(* a map that is not used *)
MapIdle ==
  /\ hash = [k \in Keys |-> 0]
  /\ TheTable = Unallocated
  /\ NumTombstones = 0
  /\ NumItems = 0

-----------------------------------------------------------------------------
(* Probing.  The i-th probe adds i; in a table whose size is a power of 2  *)
(* the first size probes visit every bucket.                               *)

Probe(t, h, i) == (h + (i * (i + 1)) \div 2) % Cardinality(DOMAIN t)
Probes(t) == DOMAIN t

Holds(b, k) == b.kind = "entry" /\ b.key = k

(* where the loops of LookupBucketFor and FindKey end; never, if nowhere *)
Ends(t, k) ==
  {i \in Probes(t) : LET b == t[Probe(t, hash[k], i)] IN b.kind = "empty" \/ Holds(b, k)}

(* FindKey: the bucket of the key, or -1 *)
FindKey(t, k) ==
  IF DOMAIN t = {} \/ Ends(t, k) = {} THEN -1
  ELSE LET b == Probe(t, hash[k], Min(Ends(t, k))) IN IF Holds(t[b], k) THEN b ELSE -1

(* LookupBucketFor: the bucket of the key or one for it, the first         *)
(* tombstone that was met if there is one                                  *)
LookupBucketFor(t, k) ==
  LET last == Min(Ends(t, k))
      end == Probe(t, hash[k], last)
      tombs == {i \in 0 .. last : t[Probe(t, hash[k], i)] = Tombstone}
  IN  IF Holds(t[end], k) \/ tombs = {} THEN end ELSE Probe(t, hash[k], Min(tombs))

-----------------------------------------------------------------------------
(* RehashTable: the entries of t in a table of size buckets, one by one, *)
(* each in the first empty bucket that is probed for it                    *)
Place(t, b) ==
  LET free == {i \in Probes(t) : t[Probe(t, hash[b.key], i)] = NoEntry}
  IN  IF b.kind = "entry" THEN [t EXCEPT ![Probe(t, hash[b.key], Min(free))] = b] ELSE t

Rehashed(t, size) ==
  LET moved[n \in 0 .. Cardinality(DOMAIN t)] ==
        IF n = 0 THEN Fresh(size) ELSE Place(moved[n - 1], t[n - 1])
  IN  moved[Cardinality(DOMAIN t)]

(* init(16), on the first lookup of a bucket to write to *)
Allocated == IF TheTable = Unallocated THEN Fresh(DefaultSize) ELSE TheTable

(* bug: tombstones are not counted as used *)
RehashForItems(t, items, tombs) ==
  LET size == Cardinality(DOMAIN t) IN
  IF items * 4 > size * 3 THEN [table |-> Rehashed(t, size * 2), tombs |-> 0]
  ELSE [table |-> t, tombs |-> tombs]

(* RehashTable: more room when the table is 3/4 full, fewer tombstones     *)
(* when less than 1/8 of it is empty                                       *)
RehashTable(t, items, tombs) ==
  LET size == Cardinality(DOMAIN t) IN
  IF items * 4 > size * 3 THEN [table |-> Rehashed(t, size * 2), tombs |-> 0]
  ELSE IF size - (items + tombs) <= size \div 8 THEN [table |-> Rehashed(t, size), tombs |-> 0]
  ELSE [table |-> t, tombs |-> tombs]

(* emplace_second, which insert and operator[] call *)
Insert(k, v) ==
  LET t == Allocated
      b == LookupBucketFor(t, k)
      tombs == NumTombstones - (IF t[b] = Tombstone THEN 1 ELSE 0)
      after == RehashTable([t EXCEPT ![b] = Entry(k, v)], NumItems + 1, tombs)
  IN  /\ IF Holds(t[b], k)
         THEN TheTable' = t /\ UNCHANGED <<NumTombstones, NumItems>>
         ELSE /\ TheTable' = after.table
              /\ NumTombstones' = after.tombs
              /\ NumItems' = NumItems + 1
      /\ UNCHANGED hash

(* bug: the bucket is emptied *)
EraseWithoutTombstone(k) ==
  LET b == FindKey(TheTable, k) IN
  /\ b # -1
  /\ TheTable' = [TheTable EXCEPT ![b] = NoEntry]
  /\ NumItems' = NumItems - 1
  /\ UNCHANGED <<hash, NumTombstones>>

(* erase, by RemoveKey; a key that is not there changes nothing *)
RemoveKey(k) ==
  LET b == FindKey(TheTable, k) IN
  /\ b # -1
  /\ TheTable' = [TheTable EXCEPT ![b] = Tombstone]
  /\ NumTombstones' = NumTombstones + 1
  /\ NumItems' = NumItems - 1
  /\ UNCHANGED hash

(* clear, which leaves a table that has only tombstones as it is *)
Clear ==
  /\ NumItems # 0
  /\ TheTable' = Fresh(NumBuckets)
  /\ NumTombstones' = 0
  /\ NumItems' = 0
  /\ UNCHANGED hash

(* The copy constructor, whose result operator= swaps in: the table with   *)
(* its tombstones, or none when there are no entries.                      *)
Copy ==
  /\ NumItems = 0
  /\ TheTable' = Unallocated
  /\ NumTombstones' = 0
  /\ UNCHANGED <<hash, NumItems>>

MapNext ==
  \/ \E k \in Keys, v \in Values : Insert(k, v)
  \/ \E k \in Keys : RemoveKey(k)
  \/ Clear
  \/ Copy

MapSpec == MapInit /\ [][MapNext]_mapVars

-----------------------------------------------------------------------------
(* Every lookup ends: whatever was inserted and erased before, some bucket *)
(* is empty, and the counts the table is grown by are exact.               *)
NeverFull ==
  /\ TheTable # Unallocated => \E b \in DOMAIN TheTable : TheTable[b] = NoEntry
  /\ NumItems = Cardinality({b \in DOMAIN TheTable : TheTable[b].kind = "entry"})
  /\ NumTombstones = Cardinality({b \in DOMAIN TheTable : TheTable[b] = Tombstone})

(* what find answers for each key *)
Found == [k \in {j \in Keys : FindKey(TheTable, j) # -1} |->
            TheTable[FindKey(TheTable, k)].value]

AM == INSTANCE AbstractMap WITH map <- Found

(* Probing past tombstones, reusing them and moving everything to another  *)
(* table never hides a key or gives it another value: find answers as the  *)
(* map that insert, erase and clear build, each of which does to it what   *)
(* it says, while a copy has all of it.                                    *)
MapImplements ==
  /\ AM!Spec
  /\ [][/\ \A k \in Keys, v \in Values : Insert(k, v) => AM!Insert(k, v)
        /\ \A k \in Keys : RemoveKey(k) => AM!Erase(k)
        /\ Clear => AM!Clear
        /\ Copy => UNCHANGED Found]_mapVars
=============================================================================
