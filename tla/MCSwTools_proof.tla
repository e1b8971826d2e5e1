-------------------------- MODULE MCSwTools_proof --------------------------
(* The command line tools that write tables and registers, for every size of  *)
(* them: the hash table tool, the limiters, the profile swap and the           *)
(* transceivers of the F-Tile.  Each has a part of its own: lemmas, the        *)
(* inductive invariant (stated in the module of the tool) and a theorem about  *)
(* its Spec.  The last part composes them: every run of MCSwTools takes one    *)
(* tool, so an invariant of each under its name is one of all of them.         *)
EXTENDS MCSwTools, WellFoundedInduction, TLAPS

(* ---- The hash table tool ------------------------------------------------ *)
\* s1 the tables, s2 the hash key of the tool and s3 of its hash functions, s4 the
\* number of tables, s5 connected, s6 the file, s7 the component, s8 where the
\* upload is, s9 what a sound upload promised, s10 whether the last command had
\* arguments it may rely on, s11 the commands given.

\* A set of numbers has a least member: the form in which induction is used here.
LEMMA LeastNatural == ASSUME NEW S \in SUBSET Nat, S # {} PROVE \E n \in S : \A m \in S : n <= m
<1> DEFINE R == OpToRel(<, Nat)
<1>1. IsWellFoundedOn(R, Nat)
  BY NatLessThanWellFounded, Zenon
<1>2. R = {ss \in Nat \X Nat : ss[1] < ss[2]}
  BY DEF OpToRel
<1> HIDE DEF R
<1>3. PICK n \in S : \A m \in S : <<m, n>> \notin R
  BY <1>1, WFMin
<1>4. \A m \in S : ~(m < n)
  BY <1>2, <1>3
<1> QED
  BY <1>4

\* Min of the community modules returns the least member.
LEMMA MinIsLeast ==
    ASSUME NEW S \in SUBSET Nat, S # {}
    PROVE  Hash!Min(S) \in S /\ \A m \in S : Hash!Min(S) <= m
<1>1. \E n \in S : \A m \in S : n <= m
  BY LeastNatural
<1> QED
  BY <1>1 DEF Hash!Min

\* And Max of a set of positions its greatest member.
LEMMA MaxIsGreatest ==
    ASSUME NEW n \in Nat, NEW S \in SUBSET (1..n), S # {}
    PROVE  Hash!Max(S) \in S /\ \A m \in S : m <= Hash!Max(S)
<1> DEFINE D == {n - m : m \in S}
<1>1. D \in SUBSET Nat /\ D # {}
  OBVIOUS
<1>2. PICK d \in D : \A e \in D : d <= e
  BY <1>1, LeastNatural
<1>3. PICK x \in S : d = n - x
  BY <1>2
<1>4. \A m \in S : n - m \in D
  OBVIOUS
<1> HIDE DEF D
<1>5. ASSUME NEW m \in S PROVE m <= x
  BY <1>2, <1>3, <1>4
<1>6. \E y \in S : \A m \in S : y >= m
  BY <1>5
<1>7. Hash!Max(S) \in S /\ \A m \in S : Hash!Max(S) >= m
  BY <1>6 DEF Hash!Max
<1> QED
  BY <1>7

\* The items of a concatenation.
LEMMA ConcatItems ==
    ASSUME NEW T, NEW a \in Seq(T), NEW b \in Seq(T)
    PROVE  /\ a \o b \in Seq(T) /\ Len(a \o b) = Len(a) + Len(b)
           /\ \A j \in 1..(Len(a) + Len(b)) : (a \o b)[j] = IF j <= Len(a) THEN a[j] ELSE b[j - Len(a)]
OBVIOUS

\* The items of a list with one removed.
LEMMA RemoveAtItems ==
    ASSUME NEW T, NEW s \in Seq(T), NEW i \in 1..Len(s)
    PROVE  /\ Hash!RemoveAt(s, i) \in Seq(T) /\ Len(Hash!RemoveAt(s, i)) = Len(s) - 1
           /\ \A j \in 1..(Len(s) - 1) : Hash!RemoveAt(s, i)[j] = IF j < i THEN s[j] ELSE s[j + 1]
<1> DEFINE a == SubSeq(s, 1, i - 1)
           b == SubSeq(s, i + 1, Len(s))
<1>1. a \in Seq(T) /\ Len(a) = i - 1 /\ \A j \in 1..(i - 1) : a[j] = s[j]
  OBVIOUS
<1>2. b \in Seq(T) /\ Len(b) = Len(s) - i /\ \A j \in 1..(Len(s) - i) : b[j] = s[i + j]
  OBVIOUS
<1>3. Hash!RemoveAt(s, i) = a \o b
  BY DEF Hash!RemoveAt
<1> HIDE DEF a, b
<1>4. a \o b \in Seq(T) /\ Len(a \o b) = Len(s) - 1
  <2>1. a \in Seq(T) /\ b \in Seq(T) /\ Len(a) + Len(b) = Len(s) - 1
    BY <1>1, <1>2
  <2>2. a \o b \in Seq(T) /\ Len(a \o b) = Len(a) + Len(b)
    BY <2>1, ConcatItems
  <2> QED
    BY <2>1, <2>2
<1>5. ASSUME NEW j \in 1..(Len(s) - 1) PROVE (a \o b)[j] = IF j < i THEN s[j] ELSE s[j + 1]
  <2>1. (a \o b)[j] = IF j <= i - 1 THEN a[j] ELSE b[j - (i - 1)]
    BY <1>1, <1>2, ConcatItems
  <2>2. CASE j < i
    BY <1>1, <2>1, <2>2
  <2>3. CASE ~(j < i)
    <3>1. j - (i - 1) \in 1..(Len(s) - i) /\ i + (j - (i - 1)) = j + 1
      BY <2>3
    <3>2. b[j - (i - 1)] = s[j + 1]
      BY <1>2, <3>1
    <3> QED
      BY <2>1, <2>3, <3>2
  <2> QED
    BY <2>2, <2>3
<1> QED
  BY <1>3, <1>4, <1>5

\* The items of a list with one inserted.
LEMMA InsertAtItems ==
    ASSUME NEW T, NEW s \in Seq(T), NEW i \in 1..(Len(s) + 1), NEW e \in T
    PROVE  /\ Hash!InsertAt(s, i, e) \in Seq(T) /\ Len(Hash!InsertAt(s, i, e)) = Len(s) + 1
           /\ \A j \in 1..(Len(s) + 1) :
                 Hash!InsertAt(s, i, e)[j] = IF j < i THEN s[j] ELSE IF j = i THEN e ELSE s[j - 1]
<1> DEFINE a == SubSeq(s, 1, i - 1)
           b == SubSeq(s, i, Len(s))
<1>1. a \in Seq(T) /\ Len(a) = i - 1 /\ \A j \in 1..(i - 1) : a[j] = s[j]
  OBVIOUS
<1>2. b \in Seq(T) /\ Len(b) = Len(s) - i + 1 /\ \A j \in 1..(Len(s) - i + 1) : b[j] = s[i + j - 1]
  OBVIOUS
<1>3. Hash!InsertAt(s, i, e) = a \o <<e>> \o b
  BY DEF Hash!InsertAt
<1> HIDE DEF a, b
<1>4. a \o <<e>> \in Seq(T) /\ Len(a \o <<e>>) = i /\ \A j \in 1..i : (a \o <<e>>)[j] = IF j < i THEN s[j]
        ELSE e
  BY <1>1
<1> DEFINE c == a \o <<e>>
<1> HIDE DEF c
<1>5. c \in Seq(T) /\ Len(c) = i /\ \A j \in 1..i : c[j] = IF j < i THEN s[j] ELSE e
  BY <1>4 DEF c
<1>6. c \o b \in Seq(T) /\ Len(c \o b) = Len(s) + 1
  <2>1. c \in Seq(T) /\ b \in Seq(T) /\ Len(c) + Len(b) = Len(s) + 1
    BY <1>2, <1>5
  <2>2. c \o b \in Seq(T) /\ Len(c \o b) = Len(c) + Len(b)
    BY <2>1, ConcatItems
  <2> QED
    BY <2>1, <2>2
<1>7. ASSUME NEW j \in 1..(Len(s) + 1)
      PROVE  (c \o b)[j] = IF j < i THEN s[j] ELSE IF j = i THEN e ELSE s[j - 1]
  <2>1. (c \o b)[j] = IF j <= i THEN c[j] ELSE b[j - i]
    BY <1>2, <1>5, ConcatItems
  <2>2. CASE j <= i
    BY <1>5, <2>1, <2>2
  <2>3. CASE ~(j <= i)
    <3>1. j - i \in 1..(Len(s) - i + 1) /\ i + (j - i) - 1 = j - 1
      BY <2>3
    <3>2. b[j - i] = s[j - 1]
      BY <1>2, <3>1
    <3> QED
      BY <2>1, <2>3, <3>2
  <2> QED
    BY <2>2, <2>3
<1> QED
  BY <1>3, <1>6, <1>7 DEF c

\* A file without malformed records is read whole (toolkit.py, comm_load).
LEMMA ReadableFront ==
    ASSUME Hash!MarkAssumption, NEW T, NEW recs \in Seq(T)
    PROVE  /\ Hash!Readable(recs) \in Seq(T)
           /\ (\A i \in DOMAIN recs : recs[i].data # Miss) => Hash!Readable(recs) = recs
<1> DEFINE S == {i \in DOMAIN recs : recs[i].data = Miss} \cup {Len(recs) + 1}
<1>1. S \in SUBSET Nat /\ S # {} /\ Len(recs) + 1 \in S
  OBVIOUS
<1>2. Hash!Min(S) \in S /\ Hash!Min(S) <= Len(recs) + 1
  BY <1>1, MinIsLeast
<1>3. Hash!Readable(recs) = SubSeq(recs, 1, Hash!Min(S) - 1)
  BY DEF Hash!Readable
<1>4. Hash!Min(S) - 1 \in 0..Len(recs)
  BY <1>2
<1>5. ASSUME \A i \in DOMAIN recs : recs[i].data # Miss PROVE Hash!Readable(recs) = recs
  <2>1. S = {Len(recs) + 1}
    BY <1>5
  <2>2. Hash!Min(S) = Len(recs) + 1
    BY <1>2, <2>1
  <2> HIDE DEF S
  <2> QED
    BY <1>3, <2>2
<1> HIDE DEF S
<1> QED
  BY <1>3, <1>4, <1>5

\* A hash is the number of a slot.
LEMMA HashSlot ==
    ASSUME Hash!HashAssumption, NEW t \in Hash!Tables, NEW k \in Hash!Keys, NEW h \in Hash!HKeys
    PROVE  Hash!Hash(t, k, h) \in Hash!Slots
BY DEF Hash!HashAssumption, Hash!PowerAssumption

\* The sizes that follow from the widths.
LEMMA Sizes ==
    ASSUME Hash!HashAssumption
    PROVE  /\ 2^KeyWidth \in Nat \ {0} /\ 2^DataWidth \in Nat \ {0} /\ Hash!Capacity \in Nat \ {0}
           /\ 2^(DataWidth + 1) = 2 * 2^DataWidth
BY DEF Hash!HashAssumption, Hash!PowerAssumption, Hash!Capacity

\* A number put together from a high and a low part comes apart again.
LEMMA Quotient ==
    ASSUME NEW b \in Nat \ {0}, NEW q \in Nat, NEW r \in 0..(b - 1)
    PROVE  (q * b + r) \div b = q /\ (q * b + r) % b = r
<1> DEFINE n == q * b + r
           p == n \div b
           s == n % b
<1>1. n \in Nat
  OBVIOUS
<1>2. p \in Int /\ s \in 0..(b - 1) /\ n = b * p + s
  BY <1>1, SMT
<1> HIDE DEF p, s
<1>3. b * (q - p) = s - r
  BY <1>2, SMT
<1>4. CASE q >= p + 1
  <2>1. b * (q - p) >= b
    BY <1>2, <1>4, SMT
  <2> QED
    BY <1>2, <1>3, <2>1, SMT
<1>5. CASE p >= q + 1
  <2>1. b * (p - q) >= b
    BY <1>2, <1>5, SMT
  <2>2. b * (q - p) = -(b * (p - q))
    BY <1>2, SMT
  <2> QED
    BY <1>2, <1>3, <2>1, <2>2, SMT
<1>6. CASE p = q
  BY <1>2, <1>3, <1>6 DEF p, s
<1> QED
  BY <1>2, <1>4, <1>5, <1>6, SMT

\* The word a record is written as holds its key and its data, side by side.
LEMMA EntryHolds ==
    ASSUME Hash!HashAssumption, NEW k \in Hash!Keys, NEW d, Hash!GoodData(d)
    PROVE  Hash!Entry(k, d) = [vld |-> TRUE, key |-> k, data |-> d]
<1> DEFINE D == 2^DataWidth
           K == 2^KeyWidth
           word == k * (2 * D) + d * 2 + 1
<1>1. D \in Nat \ {0} /\ K \in Nat \ {0} /\ 2^(DataWidth + 1) = 2 * D
  BY Sizes
<1>2. k \in 0..(K - 1) /\ d \in 0..(D - 1)
  BY DEF Hash!Keys, Hash!GoodData
<1>3. Hash!Entry(k, d) = [vld |-> TRUE, key |-> (word \div (2 * D)) % K, data |-> (word \div 2) % D]
  BY <1>1 DEF Hash!Entry
<1> HIDE DEF D, K
<1>4. word \div (2 * D) = k
  <2>1. 2 * D \in Nat \ {0} /\ d * 2 + 1 \in 0..(2 * D - 1) /\ word = k * (2 * D) + (d * 2 + 1) /\ k \in Nat
    BY <1>1, <1>2
  <2> HIDE DEF word
  <2> DEFINE DD == 2 * D
             r == d * 2 + 1
  <2>2. DD \in Nat \ {0} /\ r \in 0..(DD - 1) /\ word = k * DD + r /\ k \in Nat
    BY <2>1
  <2> HIDE DEF DD, r
  <2>3. (k * DD + r) \div DD = k
    BY <2>2, Quotient
  <2> QED
    BY <2>2, <2>3 DEF DD
<1>5. word \div 2 = k * D + d
  <2>1. word = (k * D + d) * 2 + 1 /\ k * D + d \in Nat
    BY <1>1, <1>2
  <2> QED
    BY <2>1, Quotient
<1>6. k % K = k
  BY <1>1, <1>2
<1>7. (k * D + d) % D = d
  <2>1. k \in Nat
    BY <1>1, <1>2
  <2> QED
    BY <1>1, <1>2, <2>1, Quotient
<1> QED
  BY <1>3, <1>4, <1>5, <1>6, <1>7

\* A session starts with two empty tables and nothing uploaded.
LEMMA HashInit == ASSUME Hash!HashAssumption, Hash!Init PROVE Hash!HashInv
<1>1. Hash!EmptyTable \in Hash!TableRecords
  BY DEF Hash!EmptyTable, Hash!TableRecords, Hash!Blank, Hash!Values
<1>2. Len(Hash!EmptyTable.keys) = 0 /\ Hash!EmptyTable.used = 0
  BY DEF Hash!EmptyTable
<1>3. s1 = [t \in Hash!Tables |-> Hash!EmptyTable] /\ s11 = 0 /\ s8 = NoUpload /\ s9 = Miss
        /\ s2 \in Hash!HKeys /\ s3 = s2
      /\ s4 = 2 /\ s5 \in BOOLEAN /\ s6 = NoFile
  BY DEF Hash!Init, Hash!HashAssumption, Hash!FileAssumption
<1>4. Hash!HashTyped
  BY <1>1, <1>2, <1>3 DEF Hash!HashTyped, Hash!HashAssumption, Hash!MarkAssumption
<1> QED
  BY <1>3, <1>4 DEF Hash!HashInv, Hash!UploadKept

\* A cleared table is a table.
LEMMA EmptyTyped ==
    /\ Hash!EmptyTable \in Hash!TableRecords /\ Hash!EmptyTable.keys = <<>> /\ Hash!EmptyTable.used = 0
    /\ \A s \in Hash!Slots : ~Hash!EmptyTable.slot[s].vld
BY DEF Hash!EmptyTable, Hash!TableRecords, Hash!Blank, Hash!Values

\* What a command starts from and leaves alone.
\* What every command leaves alone.
LEMMA CommandKeeps ==
    ASSUME Hash!HashAssumption, Hash!HashTyped, NEW sound, Hash!Command(sound)
    PROVE  s8 = NoUpload /\ s11 \in Nat /\ s11' = s11 + 1 /\ s11' \in 0..MaxCommands /\ s5' = s5
         /\ s10' = sound
BY DEF Hash!Command, Hash!HashTyped, Hash!HashAssumption, Hash!MarkAssumption

\* A command that edits one table keeps the types when the new table has them.
\* A command that puts a well-formed table in the place of one keeps the types.
LEMMA OneTableTyped ==
    ASSUME Hash!HashAssumption, Hash!HashTyped, NEW sound, Hash!Command(sound), NEW t \in Hash!Tables,
           NEW r \in Hash!TableRecords,
           s1' = [s1 EXCEPT ![t] = r] \/ s1' = s1, UNCHANGED <<Hash!Tool, Hash!Rest>>,
           r.used <= Len(r.keys), r.used >= s1[t].used - 1 \/ r.used >= 0
    PROVE  Hash!HashTyped'
<1>1. s8 = NoUpload /\ s11 \in Nat /\ s11' = s11 + 1 /\ s11' \in 0..MaxCommands /\ s5' = s5
  BY CommandKeeps
<1>2. UNCHANGED <<s2, s3, s4, s6, s7, s8, s9>>
  BY DEF Hash!Tool, Hash!Rest
<1>3. s1[t] \in Hash!TableRecords /\ s1[t].used >= -s11 /\ s1[t].used \in Int /\ r.used \in Int
  BY DEF Hash!HashTyped, Hash!TableRecords
<1>4. r.used >= -s11'
  BY <1>1, <1>3
<1>5. \A u \in Hash!Tables : s1[u].used \in Int /\ s1[u].used >= -s11 /\ s1[u].used <= Len(s1[u].keys)
  BY DEF Hash!HashTyped, Hash!TableRecords
<1>6. s1' \in [Hash!Tables -> Hash!TableRecords]
  BY DEF Hash!HashTyped
<1>7. \A u \in Hash!Tables : s1'[u].used <= Len(s1'[u].keys) /\ s1'[u].used >= -s11'
  <2> TAKE u \in Hash!Tables
  <2>1. s1'[u] = s1[u] \/ s1'[u] = r
    BY DEF Hash!HashTyped
  <2>2. s1[u].used >= -s11'
    BY <1>1, <1>5
  <2> QED
    BY <1>4, <1>5, <2>1, <2>2
<1> QED
  BY <1>1, <1>2, <1>6, <1>7 DEF Hash!HashTyped

\* What the types say of one table.
LEMMA TabFacts ==
    ASSUME Hash!HashAssumption, Hash!HashTyped, NEW t \in Hash!Tables
    PROVE  /\ s1[t] \in Hash!TableRecords /\ s1[t].keys \in Seq(Hash!Keys) /\ s1[t].used \in Int
           /\ s1[t].slot \in [Hash!Slots -> [vld : BOOLEAN, data : Hash!Values]]
           /\ s1[t] = [keys |-> s1[t].keys, slot |-> s1[t].slot, used |-> s1[t].used]
           /\ s1[t].used <= Len(s1[t].keys) /\ Len(s1[t].keys) \in Nat
           /\ \A i \in 1..Len(s1[t].keys) : s1[t].keys[i] \in Hash!Keys
                 /\ Hash!Hash(t, s1[t].keys[i], s3) \in Hash!Slots
           /\ DOMAIN s1[t].keys = 1..Len(s1[t].keys)
<1>1. s1[t] \in Hash!TableRecords /\ s1[t].used <= Len(s1[t].keys)
  BY DEF Hash!HashTyped
<1>2. s3 \in Hash!HKeys
  BY DEF Hash!HashTyped
<1>3. s1[t].keys \in Seq(Hash!Keys)
  BY <1>1 DEF Hash!TableRecords
<1>4. \A i \in 1..Len(s1[t].keys) : s1[t].keys[i] \in Hash!Keys
  BY <1>3
<1>5. \A i \in 1..Len(s1[t].keys) : Hash!Hash(t, s1[t].keys[i], s3) \in Hash!Slots
  BY <1>2, <1>4, HashSlot
<1> QED
  BY <1>1, <1>3, <1>4, <1>5 DEF Hash!TableRecords

\* The array of slots after one was freed.
LEMMA SlotFreed ==
    ASSUME NEW V, NEW D, NEW sl \in [D -> [vld : BOOLEAN, data : V]], NEW h \in D
    PROVE  /\ [sl EXCEPT ![h].vld = FALSE] \in [D -> [vld : BOOLEAN, data : V]]
           /\ \A s \in D : [sl EXCEPT ![h].vld = FALSE][s].data = sl[s].data
           /\ \A s \in D : [sl EXCEPT ![h].vld = FALSE][s].vld <=> (s # h /\ sl[s].vld)
<1> DEFINE q == [sl EXCEPT ![h].vld = FALSE]
<1>1. q \in [D -> [vld : BOOLEAN, data : V]]
  OBVIOUS
<1>2. q[h].vld = FALSE
  OBVIOUS
<1>3. q[h].data = sl[h].data
  OBVIOUS
<1>4. \A s \in D : s # h => q[s] = sl[s]
  OBVIOUS
<1> HIDE DEF q
<1>5. \A s \in D : q[s].data = sl[s].data
  BY <1>3, <1>4
<1>6. \A s \in D : q[s].vld <=> (s # h /\ sl[s].vld)
  <2> TAKE s \in D
  <2>1. CASE s = h
    BY <1>2, <2>1
  <2>2. CASE s # h
    <3>1. q[s] = sl[s] /\ sl[s].vld \in BOOLEAN
      BY <1>4, <2>2
    <3> QED
      BY <2>2, <3>1
  <2> QED
    BY <2>1, <2>2
<1> QED
  BY <1>1, <1>5, <1>6 DEF q

\* The table after a record was removed.
LEMMA RemovedIs ==
    ASSUME Hash!HashAssumption, Hash!HashTyped, NEW t \in Hash!Tables, NEW i \in 1..Len(s1[t].keys)
    PROVE  /\ Hash!Removed(t, i) \in Hash!TableRecords
           /\ Hash!Removed(t, i).keys = Hash!RemoveAt(s1[t].keys, i)
                 /\ Len(Hash!Removed(t, i).keys) = Len(s1[t].keys) - 1
           /\ Hash!Removed(t, i).used = s1[t].used - 1
           /\ \A s \in Hash!Slots : Hash!Removed(t, i).slot[s].data = s1[t].slot[s].data
           /\ \A s \in Hash!Slots : Hash!Removed(t, i).slot[s].vld <=> (s # Hash!Hash(t, s1[t].keys[i], s3) /\ s1[t].slot[s].vld)
<1> DEFINE h == Hash!Hash(t, s1[t].keys[i], s3)
           r == s1[t]
           q == [r.slot EXCEPT ![h].vld = FALSE]
<1>1. r = [keys |-> r.keys, slot |-> r.slot, used |-> r.used] /\ r.keys \in Seq(Hash!Keys) /\ r.used \in Int
      /\ r.slot \in [Hash!Slots -> [vld : BOOLEAN, data : Hash!Values]] /\ i \in 1..Len(r.keys)
  BY TabFacts
<1>2. h \in Hash!Slots
  BY TabFacts
<1>3. Hash!Removed(t, i) = [r EXCEPT !.slot[h].vld = FALSE, !.keys = Hash!RemoveAt(@, i), !.used = @ - 1]
  BY DEF Hash!Removed
<1> HIDE DEF r, h
<1>4. Hash!Removed(t, i) = [keys |-> Hash!RemoveAt(r.keys, i), slot |-> q, used |-> r.used - 1]
  <2> DEFINE a == r.keys
             b == r.slot
             c == r.used
  <2>1. r = [keys |-> a, slot |-> b, used |-> c]
    BY <1>1
  <2> HIDE DEF a, b, c
  <2>2. Hash!Removed(t, i) = [keys |-> Hash!RemoveAt(a, i), slot |-> [b EXCEPT ![h].vld = FALSE], used |-> c - 1]
    BY <1>3, <2>1
  <2> QED
    BY <2>2 DEF a, b, c
<1>5. Hash!RemoveAt(r.keys, i) \in Seq(Hash!Keys) /\ Len(Hash!RemoveAt(r.keys, i)) = Len(r.keys) - 1
  BY <1>1, RemoveAtItems
<1>6. q \in [Hash!Slots -> [vld : BOOLEAN, data : Hash!Values]]
      /\ \A s \in Hash!Slots : q[s].data = r.slot[s].data /\ (q[s].vld <=> (s # h /\ r.slot[s].vld))
  <2> DEFINE sl == r.slot
             D == Hash!Slots
  <2>1. sl \in [D -> [vld : BOOLEAN, data : Hash!Values]] /\ h \in D
    BY <1>1, <1>2
  <2> HIDE DEF sl, D
  <2>2. [sl EXCEPT ![h].vld = FALSE] \in [D -> [vld : BOOLEAN, data : Hash!Values]]
    BY <2>1, SlotFreed
  <2>3. /\ \A s \in D : [sl EXCEPT ![h].vld = FALSE][s].data = sl[s].data
        /\ \A s \in D : [sl EXCEPT ![h].vld = FALSE][s].vld <=> (s # h /\ sl[s].vld)
    BY <2>1, SlotFreed
  <2> QED
    BY <2>2, <2>3 DEF sl, D
<1> HIDE DEF q
<1>7. r.used - 1 \in Int
  BY <1>1
<1>8. Hash!Removed(t, i) \in Hash!TableRecords
  BY <1>4, <1>5, <1>6, <1>7 DEF Hash!TableRecords
<1> QED
  BY <1>4, <1>5, <1>6, <1>8 DEF h, r

\* Soundness of a table, with the table and the hash key as parameters.
\* What the tool believes of its table t were it r, under the hash key f.
SoundTable(t, r, f) ==
    /\ r.used = Len(r.keys)
    /\ \A i, j \in DOMAIN r.keys : i # j => Hash!Hash(t, r.keys[i], f) # Hash!Hash(t, r.keys[j], f)
    /\ \A i \in DOMAIN r.keys : r.slot[Hash!Hash(t, r.keys[i], f)].vld
    /\ \A i \in DOMAIN r.keys : Hash!GoodData(r.slot[Hash!Hash(t, r.keys[i], f)].data)
    /\ \A s \in Hash!Slots : r.slot[s].vld => \E i \in DOMAIN r.keys : Hash!Hash(t, r.keys[i], f) = s

\* It is what Sound says of the tables as they are.
LEMMA SoundIs == ASSUME NEW t \in Hash!Tables PROVE Hash!Sound(t) <=> SoundTable(t, s1[t], s3)
<1>1. ASSUME Hash!Sound(t) PROVE SoundTable(t, s1[t], s3)
  BY <1>1 DEF Hash!Sound, SoundTable, Hash!SlotOf
<1>2. ASSUME SoundTable(t, s1[t], s3) PROVE Hash!Sound(t)
  BY <1>2 DEF Hash!Sound, SoundTable, Hash!SlotOf
<1> QED
  BY <1>1, <1>2

\* A command that puts a sound table in the place of one, with keys the other does
\* not hold, leaves the tables consistent.
LEMMA OneTableConsistent ==
    ASSUME Hash!HashAssumption, Hash!HashTyped, Hash!Consistent, NEW t \in Hash!Tables, NEW r,
           s1' = [s1 EXCEPT ![t] = r], UNCHANGED Hash!Tool,
           SoundTable(t, r, s3),
           \A i \in DOMAIN r.keys : \A j \in DOMAIN s1[Hash!Other(t)].keys : r.keys[i] # s1[Hash!Other(t)].keys[j]
    PROVE  Hash!Consistent'
<1>1. s2' = s3' /\ s3' = s3 /\ s4' = 2
  BY DEF Hash!Consistent, Hash!Tool
<1>2. Hash!Other(t) \in Hash!Tables /\ Hash!Other(t) # t
        /\ \A u \in Hash!Tables : u = t \/ u = Hash!Other(t)
  BY DEF Hash!Other, Hash!Tables
<1>3. s1'[t] = r /\ s1'[Hash!Other(t)] = s1[Hash!Other(t)] /\ DOMAIN s1' = Hash!Tables
  BY <1>2 DEF Hash!HashTyped
<1>4. \A u \in Hash!Tables : SoundTable(u, s1'[u], s3)
  <2>1. SoundTable(Hash!Other(t), s1[Hash!Other(t)], s3)
    BY <1>2, SoundIs DEF Hash!Consistent
  <2> QED
    BY <1>2, <1>3, <2>1
<1>5. ASSUME NEW u \in Hash!Tables PROVE Hash!Sound(u)'
  <2>1. SoundTable(u, s1'[u], s3')
    BY <1>1, <1>4
  <2> QED
    BY <2>1 DEF Hash!Sound, SoundTable, Hash!SlotOf
<1>6. Hash!Range(s1'[0].keys) \cap Hash!Range(s1'[1].keys) = {}
  <2>1. t = 0 \/ t = 1
    BY DEF Hash!Tables
  <2>2. CASE t = 0
    BY <1>3, <2>2 DEF Hash!Range, Hash!Other
  <2>3. CASE t = 1
    BY <1>3, <2>3 DEF Hash!Range, Hash!Other
  <2> QED
    BY <2>1, <2>2, <2>3
<1> QED
  BY <1>1, <1>5, <1>6 DEF Hash!Consistent

\* A slot that takes a record.
\* The array of slots after one was taken.
LEMMA SlotTaken ==
    ASSUME NEW V, NEW D, NEW sl \in [D -> [vld : BOOLEAN, data : V]], NEW h \in D, NEW d \in V
    PROVE  /\ [sl EXCEPT ![h] = [vld |-> TRUE, data |-> d]] \in [D -> [vld : BOOLEAN, data : V]]
           /\ [sl EXCEPT ![h] = [vld |-> TRUE, data |-> d]][h].data = d
           /\ [sl EXCEPT ![h] = [vld |-> TRUE, data |-> d]][h].vld
           /\ \A s \in D : s # h => [sl EXCEPT ![h] = [vld |-> TRUE, data |-> d]][s] = sl[s]
<1> DEFINE e == [vld |-> TRUE, data |-> d]
           q == [sl EXCEPT ![h] = e]
<1>1. e \in [vld : BOOLEAN, data : V] /\ e.data = d
  OBVIOUS
<1>2. e.vld
  OBVIOUS
<1> HIDE DEF e
<1>3. q \in [D -> [vld : BOOLEAN, data : V]]
  BY <1>1
<1>4. q[h] = e /\ \A s \in D : s # h => q[s] = sl[s]
  OBVIOUS
<1> HIDE DEF q
<1>5. q[h].data = d /\ q[h].vld
  BY <1>1, <1>2, <1>4
<1> QED
  BY <1>3, <1>4, <1>5 DEF e, q

\* A sound table whose free slot takes a new key stays sound.
\* A sound table stays sound when a key whose slot is free is inserted with data
\* that fit.
LEMMA SoundTakes ==
    ASSUME Hash!HashAssumption, NEW t \in Hash!Tables, NEW f \in Hash!HKeys, NEW r \in Hash!TableRecords,
           SoundTable(t, r, f),
           NEW k \in Hash!Keys, NEW d \in Hash!Values, Hash!GoodData(d), ~r.slot[Hash!Hash(t, k, f)].vld,
           NEW n \in Hash!TableRecords, NEW p \in 1..(Len(r.keys) + 1),
           n.used = r.used + 1, Len(n.keys) = Len(r.keys) + 1,
           \A j \in 1..(Len(r.keys) + 1) :
              n.keys[j] = IF j < p THEN r.keys[j] ELSE IF j = p THEN k ELSE r.keys[j - 1],
           n.slot[Hash!Hash(t, k, f)].vld, n.slot[Hash!Hash(t, k, f)].data = d,
           \A s \in Hash!Slots : s # Hash!Hash(t, k, f) => n.slot[s] = r.slot[s]
    PROVE  SoundTable(t, n, f)
<1> DEFINE h == Hash!Hash(t, k, f)
           H(j) == Hash!Hash(t, n.keys[j], f)
           Old(j) == IF j < p THEN j ELSE j - 1
           L == Len(r.keys)
<1>1. L \in Nat /\ DOMAIN r.keys = 1..L /\ DOMAIN n.keys = 1..(L + 1) /\ r.keys \in Seq(Hash!Keys)
        /\ n.keys \in Seq(Hash!Keys)
  BY DEF Hash!TableRecords
<1>2. \A i \in 1..L : r.keys[i] \in Hash!Keys /\ Hash!Hash(t, r.keys[i], f) \in Hash!Slots
  BY <1>1, HashSlot
<1>3. \A i \in 1..L : Hash!Hash(t, r.keys[i], f) # h
  BY <1>1 DEF SoundTable
<1>4. H(p) = h
  OBVIOUS
<1>5. \A j \in 1..(L + 1) : j # p => Old(j) \in 1..L /\ H(j) = Hash!Hash(t, r.keys[Old(j)], f)
  BY <1>1
<1>6. \A i, j \in 1..(L + 1) : i # p /\ j # p /\ i # j => Old(i) # Old(j)
  BY <1>1
<1>7. \A i, j \in 1..L : i # j => Hash!Hash(t, r.keys[i], f) # Hash!Hash(t, r.keys[j], f)
  BY <1>1 DEF SoundTable
<1>8. \A i, j \in 1..(L + 1) : i # j => H(i) # H(j)
  <2> HIDE DEF H, Old, h, L
  <2> TAKE i, j \in 1..(L + 1)
  <2>1. CASE i # p /\ j # p
    BY <1>5, <1>6, <1>7, <2>1
  <2>2. CASE i = p
    BY <1>3, <1>4, <1>5, <2>2
  <2>3. CASE j = p
    BY <1>3, <1>4, <1>5, <2>3
  <2> QED
    BY <2>1, <2>2, <2>3
<1>9. \A i \in 1..L : r.slot[Hash!Hash(t, r.keys[i], f)].vld
        /\ Hash!GoodData(r.slot[Hash!Hash(t, r.keys[i], f)].data)
  BY <1>1 DEF SoundTable
<1>10. ASSUME NEW j \in 1..(L + 1) PROVE n.slot[H(j)].vld /\ Hash!GoodData(n.slot[H(j)].data)
  <2> HIDE DEF H, Old, L
  <2>1. CASE j = p
    BY <1>4, <2>1
  <2>2. CASE j # p
    <3>1. Old(j) \in 1..L /\ H(j) = Hash!Hash(t, r.keys[Old(j)], f)
      BY <1>5, <2>2
    <3>2. n.slot[H(j)] = r.slot[H(j)]
      BY <1>2, <1>3, <3>1
    <3> QED
      BY <1>9, <3>1, <3>2
  <2> QED
    BY <2>1, <2>2
<1>11. ASSUME NEW s \in Hash!Slots, n.slot[s].vld PROVE \E i \in 1..(L + 1) : H(i) = s
  <2>1. CASE s = h
    BY <1>4, <2>1
  <2>2. CASE s # h
    <3>1. r.slot[s].vld
      BY <1>11, <2>2
    <3>2. PICK i \in 1..L : Hash!Hash(t, r.keys[i], f) = s
      BY <1>1, <3>1 DEF SoundTable
    <3> DEFINE j == IF i < p THEN i ELSE i + 1
    <3>3. j \in 1..(L + 1) /\ n.keys[j] = r.keys[i]
      BY <1>1
    <3> QED
      BY <3>2, <3>3
  <2> QED
    BY <2>1, <2>2
<1>12. n.used = Len(n.keys)
  BY DEF SoundTable
<1> QED
  BY <1>1, <1>8, <1>10, <1>11, <1>12 DEF SoundTable

\* A sound table stays sound when a record and its slot go.
\* A sound table stays sound when a record is removed with its slot.
LEMMA SoundDrops ==
    ASSUME Hash!HashAssumption, NEW t \in Hash!Tables, NEW f \in Hash!HKeys, NEW r \in Hash!TableRecords,
           SoundTable(t, r, f),
           NEW n \in Hash!TableRecords, NEW p \in 1..Len(r.keys),
           n.used = r.used - 1, n.keys = Hash!RemoveAt(r.keys, p),
           \A s \in Hash!Slots : n.slot[s].data = r.slot[s].data,
           \A s \in Hash!Slots : n.slot[s].vld <=> (s # Hash!Hash(t, r.keys[p], f) /\ r.slot[s].vld)
    PROVE  SoundTable(t, n, f)
<1> DEFINE L == Len(r.keys)
           G(i) == Hash!Hash(t, r.keys[i], f)
           H(j) == Hash!Hash(t, n.keys[j], f)
           Old(j) == IF j < p THEN j ELSE j + 1
<1>1. L \in Nat /\ DOMAIN r.keys = 1..L /\ r.keys \in Seq(Hash!Keys) /\ p \in 1..L
  BY DEF Hash!TableRecords
<1>2. /\ Len(n.keys) = L - 1
      /\ \A j \in 1..(L - 1) : n.keys[j] = IF j < p THEN r.keys[j] ELSE r.keys[j + 1]
  <2> DEFINE a == r.keys
  <2>1. n.keys = Hash!RemoveAt(a, p) /\ a \in Seq(Hash!Keys) /\ p \in 1..Len(a) /\ L = Len(a)
    BY <1>1
  <2> HIDE DEF a, L
  <2>2. /\ Len(Hash!RemoveAt(a, p)) = Len(a) - 1
        /\ \A j \in 1..(Len(a) - 1) : Hash!RemoveAt(a, p)[j] = IF j < p THEN a[j] ELSE a[j + 1]
    BY <2>1, RemoveAtItems
  <2> QED
    BY <2>1, <2>2 DEF a
<1>3. DOMAIN n.keys = 1..(L - 1)
  BY <1>2 DEF Hash!TableRecords
<1>4. \A i \in 1..L : G(i) \in Hash!Slots
  BY <1>1, HashSlot
<1>5. \A i, j \in 1..L : i # j => G(i) # G(j)
  BY <1>1 DEF SoundTable
<1>6. \A i \in 1..L : r.slot[G(i)].vld /\ Hash!GoodData(r.slot[G(i)].data)
  BY <1>1 DEF SoundTable
<1>7. \A j \in 1..(L - 1) : Old(j) \in 1..L /\ Old(j) # p /\ H(j) = G(Old(j))
  BY <1>1, <1>2
<1>8. \A i, j \in 1..(L - 1) : i # j => Old(i) # Old(j)
  BY <1>1
<1>9. \A i \in 1..L : i # p => \E j \in 1..(L - 1) : Old(j) = i
  <2> TAKE i \in 1..L
  <2> HAVE i # p
  <2> DEFINE j == IF i < p THEN i ELSE i - 1
  <2>1. j \in 1..(L - 1) /\ Old(j) = i
    BY <1>1
  <2> QED
    BY <2>1
<1> HIDE DEF L
<1>10. n.used = Len(n.keys)
  BY <1>2 DEF SoundTable, L
<1>11. \A s \in Hash!Slots : n.slot[s].data = r.slot[s].data
         /\ (n.slot[s].vld <=> (s # G(p) /\ r.slot[s].vld))
  OBVIOUS
<1>12. \A s \in Hash!Slots : r.slot[s].vld => \E i \in 1..L : G(i) = s
  BY <1>1 DEF SoundTable
<1> HIDE DEF G, Old
<1>13. \A i, j \in 1..(L - 1) : i # j => H(i) # H(j)
  <2> HIDE DEF H
  <2> QED
    BY <1>5, <1>7, <1>8
<1>14. \A j \in 1..(L - 1) : n.slot[H(j)].vld /\ Hash!GoodData(n.slot[H(j)].data)
  <2> HIDE DEF H
  <2> TAKE j \in 1..(L - 1)
  <2>1. H(j) \in Hash!Slots /\ H(j) # G(p) /\ r.slot[H(j)].vld /\ Hash!GoodData(r.slot[H(j)].data)
    BY <1>1, <1>4, <1>5, <1>6, <1>7
  <2> QED
    BY <1>11, <2>1
<1>15. \A s \in Hash!Slots : n.slot[s].vld => \E j \in 1..(L - 1) : H(j) = s
  <2> HIDE DEF H
  <2> TAKE s \in Hash!Slots
  <2> HAVE n.slot[s].vld
  <2>1. PICK i \in 1..L : G(i) = s
    BY <1>11, <1>12
  <2>2. i # p
    BY <1>11, <2>1
  <2>3. PICK j \in 1..(L - 1) : Old(j) = i
    BY <1>9, <2>2
  <2> QED
    BY <1>7, <2>1, <2>3
<1> QED
  BY <1>3, <1>10, <1>13, <1>14, <1>15 DEF SoundTable

\* An empty table is sound.
LEMMA EmptySound == ASSUME NEW t \in Hash!Tables, NEW f PROVE SoundTable(t, Hash!EmptyTable, f)
BY EmptyTyped DEF SoundTable

\* One lemma per command: it keeps the types, and the consistency of the tables
\* when its arguments allow.  Clearing a table:
LEMMA ClearStep ==
    ASSUME Hash!HashAssumption, Hash!HashTyped, NEW t \in Hash!Tables, Hash!comm_clear(t)
    PROVE  Hash!HashTyped' /\ (Hash!Consistent => Hash!Consistent')
<1>1. s1' = [s1 EXCEPT ![t] = Hash!EmptyTable] /\ Hash!Command(TRUE) /\ UNCHANGED <<Hash!Tool, Hash!Rest>>
  BY DEF Hash!comm_clear
<1>2. Hash!HashTyped'
  <2>1. Hash!EmptyTable.used <= Len(Hash!EmptyTable.keys) /\ Hash!EmptyTable.used >= 0
          /\ Hash!EmptyTable \in Hash!TableRecords
    BY EmptyTyped
  <2> QED
    BY <1>1, <2>1, OneTableTyped
<1>3. ASSUME Hash!Consistent PROVE Hash!Consistent'
  <2>1. DOMAIN Hash!EmptyTable.keys = {}
    BY EmptyTyped
  <2>2. \A i \in DOMAIN Hash!EmptyTable.keys : \A j \in DOMAIN s1[Hash!Other(t)].keys :
           Hash!EmptyTable.keys[i] # s1[Hash!Other(t)].keys[j]
    BY <2>1
  <2> QED
    BY <1>1, <1>3, <2>2, EmptySound, OneTableConsistent
<1> QED
  BY <1>2, <1>3

\* Adding a record, in the table asked for or in the other one.
LEMMA AddStep ==
    ASSUME Hash!HashAssumption, Hash!HashTyped, NEW k \in Hash!Keys, NEW d \in TableData,
           NEW t \in Hash!Tables, Hash!comm_add(k, d, t)
    PROVE  Hash!HashTyped' /\ (Hash!Consistent => Hash!Consistent')
<1> DEFINE u == Hash!Placed(k, t)
           x == s1[u]
           a == x.keys
           b == x.slot
           c == x.used
           h == Hash!Hash(u, k, s3)
           r == [keys |-> Append(a, k), slot |-> [b EXCEPT ![h] = [vld |-> TRUE, data |-> d]], used |-> c + 1]
<1>1. Hash!Command(TRUE) /\ UNCHANGED <<Hash!Tool, Hash!Rest>>
  BY DEF Hash!comm_add
<1>2. CASE s1' = s1
  <2>1. s1[t] \in Hash!TableRecords /\ s1[t].used <= Len(s1[t].keys) /\ s1[t].used \in Int
    BY TabFacts
  <2>2. s1[t].used >= s1[t].used - 1
    BY <2>1
  <2>3. Hash!HashTyped'
    BY <1>1, <1>2, <2>1, <2>2, OneTableTyped
  <2>4. Hash!Consistent => Hash!Consistent'
    BY <1>1, <1>2 DEF Hash!Consistent, Hash!Sound, Hash!SlotOf, Hash!Tool
  <2> QED
    BY <2>3, <2>4
<1>3. CASE s1' # s1
  <2>1. Hash!GoodData(d) /\ ~Hash!InUse(k) /\ u # Hash!Nowhere
    BY <1>3 DEF Hash!comm_add
  <2>2. u \in Hash!Tables /\ ~Hash!SlotOf(u, k).vld
    BY <2>1 DEF Hash!Placed, Hash!Tables, Hash!Other
  <2>3. x = [keys |-> a, slot |-> b, used |-> c] /\ a \in Seq(Hash!Keys)
          /\ b \in [Hash!Slots -> [vld : BOOLEAN, data : Hash!Values]]
        /\ c \in Int /\ c <= Len(a) /\ h \in Hash!Slots
    <3>1. h \in Hash!Slots
      BY <2>2, HashSlot DEF Hash!HashTyped
    <3> QED
      BY <2>2, <3>1, TabFacts
  <2>4. s1' = [s1 EXCEPT ![u] = r]
    <3>1. s1' = [s1 EXCEPT ![u].keys = Append(@, k), ![u].slot[h] = [vld |-> TRUE, data |-> d], ![u].used = @ + 1]
      BY <2>1 DEF Hash!comm_add
    <3> DEFINE e == [vld |-> TRUE, data |-> d]
    <3>2. s1' = [s1 EXCEPT ![u].keys = Append(@, k), ![u].slot[h] = e, ![u].used = @ + 1]
            /\ s1[u] = [keys |-> a, slot |-> b, used |-> c]
      BY <2>3, <3>1
    <3>3. r = [keys |-> Append(a, k), slot |-> [b EXCEPT ![h] = e], used |-> c + 1]
      OBVIOUS
    <3>4. s1 \in [Hash!Tables -> Hash!TableRecords] /\ u \in Hash!Tables
      BY <2>2 DEF Hash!HashTyped
    <3> HIDE DEF e, a, b, c, h, u, r, x
    <3> DEFINE y == [keys |-> a, slot |-> b, used |-> c]
    <3>7. s1[u] = y
      BY <3>2
    <3>8. [y EXCEPT !.keys = Append(@, k), !.slot[h] = e, !.used = @ + 1]
             = [keys |-> Append(a, k), slot |-> [b EXCEPT ![h] = e], used |-> c + 1]
      <4> DEFINE kk == Append(a, k)
                 uu == c + 1
                 y1 == [y EXCEPT !.keys = kk]
                 y2 == [y1 EXCEPT !.slot[h] = e]
                 y3 == [y2 EXCEPT !.used = uu]
                 q  == [b EXCEPT ![h] = e]
      <4>1. y.keys = a /\ y.used = c
        OBVIOUS
      <4>2. y = [keys |-> a, slot |-> b, used |-> c]
        OBVIOUS
      <4> HIDE DEF y
      <4>3. [y EXCEPT !.keys = Append(@, k), !.slot[h] = e, !.used = @ + 1] = y3
        BY <4>1
      <4>4. y1 = [keys |-> kk, slot |-> b, used |-> c]
        BY <4>2
      <4> HIDE DEF y1, kk, uu
      <4>5. y2 = [keys |-> kk, slot |-> q, used |-> c]
        BY <4>4
      <4> HIDE DEF y2, q
      <4>6. y3 = [keys |-> kk, slot |-> q, used |-> uu]
        BY <4>5
      <4> HIDE DEF y3
      <4> QED
        BY <4>3, <4>6 DEF q, kk, uu
    <3>5. s1[u] = y /\ [y EXCEPT !.keys = Append(@, k), !.slot[h] = e, !.used = @ + 1] = r
      BY <3>7, <3>8, <3>3
    <3>6. s1' = [s1 EXCEPT ![u] = [y EXCEPT !.keys = Append(@, k), !.slot[h] = e, !.used = @ + 1]]
      BY <3>2, <3>4, <3>5
    <3> QED
      BY <3>5, <3>6
  <2>5. d \in Hash!Values
    BY DEF Hash!Values
  <2>6. Append(a, k) \in Seq(Hash!Keys) /\ Len(Append(a, k)) = Len(a) + 1
        /\ \A j \in 1..(Len(a) + 1) : Append(a, k)[j] = IF j < Len(a) + 1 THEN a[j] ELSE k
    BY <2>3
  <2> DEFINE q == [b EXCEPT ![h] = [vld |-> TRUE, data |-> d]]
  <2>7. q \in [Hash!Slots -> [vld : BOOLEAN, data : Hash!Values]] /\ q[h].data = d /\ q[h].vld
          /\ \A s \in Hash!Slots : s # h => q[s] = b[s]
    BY <2>3, <2>5, SlotTaken
  <2>8. r.keys = Append(a, k) /\ r.slot = q /\ r.used = c + 1
    OBVIOUS
  <2>9. r \in Hash!TableRecords
    <3> HIDE DEF q, a, b, c
    <3> QED
      BY <2>3, <2>6, <2>7 DEF Hash!TableRecords, q
  <2>10. Hash!HashTyped'
    <3>1. r.used <= Len(r.keys) /\ r.used >= s1[u].used - 1
      BY <2>3, <2>6
    <3> HIDE DEF r, u
    <3> QED
      BY <1>1, <2>2, <2>4, <2>9, <3>1, OneTableTyped
  <2>11. ASSUME Hash!Consistent PROVE Hash!Consistent'
    <3>1. SoundTable(u, x, s3) /\ x \in Hash!TableRecords /\ s3 \in Hash!HKeys
      BY <2>2, <2>11, SoundIs, TabFacts DEF Hash!Consistent, Hash!HashTyped
    <3>2. ~x.slot[h].vld
      BY <2>2 DEF Hash!SlotOf
    <3> DEFINE p == Len(a) + 1
    <3>3. p \in 1..(Len(x.keys) + 1)
      BY <2>3
    <3>4. \A j \in 1..(Len(x.keys) + 1) :
             r.keys[j] = IF j < p THEN x.keys[j] ELSE IF j = p THEN k ELSE x.keys[j - 1]
      <4> HIDE DEF x, u
      <4> QED
        BY <2>3, <2>6, <2>8
    <3>5. Len(r.keys) = Len(x.keys) + 1 /\ r.used = x.used + 1
      BY <2>6, <2>8
    <3>6. r.slot[h].vld /\ r.slot[h].data = d /\ \A s \in Hash!Slots : s # h => r.slot[s] = x.slot[s]
      BY <2>7, <2>8
    <3>7. SoundTable(u, r, s3)
      <4> HIDE DEF r, x, u, p
      <4> QED
        BY <2>1, <2>2, <2>5, <2>9, <3>1, <3>2, <3>3, <3>4, <3>5, <3>6, SoundTakes
    <3>8. \A i \in DOMAIN r.keys : \A j \in DOMAIN s1[Hash!Other(u)].keys : r.keys[i] # s1[Hash!Other(u)].keys[j]
      <4> TAKE i \in DOMAIN r.keys
      <4> TAKE j \in DOMAIN s1[Hash!Other(u)].keys
      <4>1. Hash!Other(u) \in Hash!Tables /\ Hash!Other(u) # u
        BY <2>2 DEF Hash!Other, Hash!Tables
      <4>2. s1[Hash!Other(u)].keys[j] # k
        BY <2>1, <4>1 DEF Hash!InUse
      <4>3. i \in 1..(Len(a) + 1) /\ (r.keys[i] = k \/ (i \in DOMAIN x.keys /\ r.keys[i] = x.keys[i]))
        BY <2>3, <2>6, <2>8
      <4>4. \A l \in DOMAIN s1[u].keys : \A m \in DOMAIN s1[Hash!Other(u)].keys : s1[u].keys[l] # s1[Hash!Other(u)].keys[m]
        BY <2>2, <2>11, <4>1 DEF Hash!Consistent, Hash!Range, Hash!Tables
      <4> HIDE DEF u, r
      <4> QED
        BY <4>2, <4>3, <4>4
    <3> HIDE DEF r, u
    <3> QED
      BY <1>1, <2>2, <2>4, <2>11, <3>7, <3>8, OneTableConsistent
  <2> QED
    BY <2>10, <2>11
<1> QED
  BY <1>2, <1>3

\* A table that loses one record: types and soundness together.
\* What the two removals share: one key and its slot are gone.
LEMMA DropKeeps ==
    ASSUME Hash!HashAssumption, Hash!HashTyped, NEW sound, Hash!Command(sound), UNCHANGED <<Hash!Tool,
           Hash!Rest>>,
           NEW t \in Hash!Tables, NEW p \in 1..Len(s1[t].keys), NEW r \in Hash!TableRecords,
               s1' = [s1 EXCEPT ![t] = r],
           r.used = s1[t].used - 1, r.keys = Hash!RemoveAt(s1[t].keys, p),
           \A s \in Hash!Slots : r.slot[s].data = s1[t].slot[s].data,
           \A s \in Hash!Slots : r.slot[s].vld <=> (s # Hash!Hash(t, s1[t].keys[p], s3)
               /\ s1[t].slot[s].vld)
    PROVE  Hash!HashTyped' /\ (Hash!Consistent => Hash!Consistent')
<1> DEFINE x == s1[t]
<1>1. x \in Hash!TableRecords /\ x.keys \in Seq(Hash!Keys) /\ x.used \in Int /\ x.used <= Len(x.keys)
        /\ Len(x.keys) \in Nat
  BY TabFacts
<1>2. Len(r.keys) = Len(x.keys) - 1 /\ \A j \in 1..(Len(x.keys) - 1) : r.keys[j] = IF j < p THEN x.keys[j]
        ELSE x.keys[j + 1]
  BY <1>1, RemoveAtItems
<1>3. Hash!HashTyped'
  <2>1. r.used <= Len(r.keys) /\ r.used >= x.used - 1
    BY <1>1, <1>2
  <2> QED
    BY <2>1, OneTableTyped
<1>4. ASSUME Hash!Consistent PROVE Hash!Consistent'
  <2>1. SoundTable(t, x, s3) /\ s3 \in Hash!HKeys
    BY <1>4, SoundIs DEF Hash!Consistent, Hash!HashTyped
  <2>2. SoundTable(t, r, s3)
    <3>1. /\ p \in 1..Len(x.keys) /\ r.used = x.used - 1 /\ r.keys = Hash!RemoveAt(x.keys, p)
          /\ \A s \in Hash!Slots : r.slot[s].data = x.slot[s].data
          /\ \A s \in Hash!Slots : r.slot[s].vld <=> (s # Hash!Hash(t, x.keys[p], s3) /\ x.slot[s].vld)
      OBVIOUS
    <3> HIDE DEF x
    <3> QED
      BY <1>1, <2>1, <3>1, SoundDrops
  <2>3. \A i \in DOMAIN r.keys : \A j \in DOMAIN s1[Hash!Other(t)].keys : r.keys[i] # s1[Hash!Other(t)].keys[j]
    <3> TAKE i \in DOMAIN r.keys
    <3> TAKE j \in DOMAIN s1[Hash!Other(t)].keys
    <3>1. Hash!Other(t) \in Hash!Tables /\ Hash!Other(t) # t
      BY DEF Hash!Other, Hash!Tables
    <3>2. \A l \in DOMAIN x.keys : \A m \in DOMAIN s1[Hash!Other(t)].keys : x.keys[l] # s1[Hash!Other(t)].keys[m]
      BY <1>4, <3>1 DEF Hash!Consistent, Hash!Range, Hash!Tables
    <3>3. i \in 1..(Len(x.keys) - 1)
      BY <1>2 DEF Hash!TableRecords
    <3>4. \E l \in DOMAIN x.keys : r.keys[i] = x.keys[l]
      <4>1. CASE i < p
        BY <1>1, <1>2, <3>3, <4>1
      <4>2. CASE ~(i < p)
        <5>1. i + 1 \in DOMAIN x.keys /\ r.keys[i] = x.keys[i + 1]
          BY <1>1, <1>2, <3>3, <4>2
        <5> QED
          BY <5>1
      <4> QED
        BY <4>1, <4>2
    <3> QED
      BY <3>2, <3>4
  <2> QED
    BY <1>4, <2>2, <2>3, OneTableConsistent DEF Hash!Rest
<1> QED
  BY <1>3, <1>4

\* A command that changes no table.
\* A command refused leaves everything as it was.
LEMMA NothingDone ==
    ASSUME Hash!HashAssumption, Hash!HashTyped, NEW sound, Hash!Command(sound), UNCHANGED <<Hash!Tool,
           Hash!Rest>>, s1' = s1
    PROVE  Hash!HashTyped' /\ (Hash!Consistent => Hash!Consistent')
<1>1. 0 \in Hash!Tables
  BY DEF Hash!Tables
<1>2. s1[0] \in Hash!TableRecords /\ s1[0].used <= Len(s1[0].keys) /\ s1[0].used \in Int
  BY <1>1, TabFacts
<1>3. s1[0].used >= s1[0].used - 1
  BY <1>2
<1>4. Hash!HashTyped'
  BY <1>1, <1>2, <1>3, OneTableTyped
<1>5. Hash!Consistent => Hash!Consistent'
  BY DEF Hash!Consistent, Hash!Sound, Hash!SlotOf, Hash!Tool
<1> QED
  BY <1>4, <1>5

\* Removing the record at a position, from the end when it is negative.
LEMMA RemoveRecordStep ==
    ASSUME Hash!HashAssumption, Hash!HashTyped, NEW t \in Hash!Tables, NEW n, Hash!comm_remove_record(t, n)
    PROVE  Hash!HashTyped' /\ (Hash!Consistent => Hash!Consistent')
<1> DEFINE p == Hash!PyIndex(n, Len(s1[t].keys))
<1>1. Hash!Command(TRUE) /\ UNCHANGED <<Hash!Tool, Hash!Rest>>
  BY DEF Hash!comm_remove_record
<1>2. CASE ~Hash!HasRecord(t, n)
  BY <1>1, <1>2, NothingDone DEF Hash!comm_remove_record
<1>3. CASE Hash!HasRecord(t, n)
  <2>1. s1' = [s1 EXCEPT ![t] = Hash!Removed(t, p)]
    BY <1>3 DEF Hash!comm_remove_record
  <2>2. p \in 1..Len(s1[t].keys)
    BY <1>3, TabFacts DEF Hash!HasRecord
  <2> HIDE DEF p
  <2>3. /\ Hash!Removed(t, p) \in Hash!TableRecords
        /\ Hash!Removed(t, p).keys = Hash!RemoveAt(s1[t].keys, p)
        /\ Hash!Removed(t, p).used = s1[t].used - 1
    BY <2>2, RemovedIs
  <2>4. /\ \A s \in Hash!Slots : Hash!Removed(t, p).slot[s].data = s1[t].slot[s].data
        /\ \A s \in Hash!Slots : Hash!Removed(t, p).slot[s].vld <=> (s # Hash!Hash(t, s1[t].keys[p], s3)
              /\ s1[t].slot[s].vld)
    BY <2>2, RemovedIs
  <2> QED
    BY <1>1, <2>1, <2>2, <2>3, <2>4, DropKeeps
<1> QED
  BY <1>2, <1>3

\* Removing the record of a slot: in a sound table one key owns it.
LEMMA RemoveHashStep ==
    ASSUME Hash!HashAssumption, Hash!HashTyped, NEW t \in Hash!Tables, NEW n \in Int,
           Hash!comm_remove_hash(t, n)
    PROVE  Hash!HashTyped' /\ (Hash!Consistent /\ s10' => Hash!Consistent')
<1> DEFINE s == Hash!PyIndex(n, Hash!Capacity) - 1
           owner == {i \in 1..s1[t].used : Hash!Hash(t, s1[t].keys[i], s3) = n}
           x == s1[t]
           a == x.keys
           b == x.slot
           c == x.used
           q == [b EXCEPT ![s].vld = FALSE]
           k == IF owner = {} THEN a ELSE Hash!RemoveAt(a, Hash!Min(owner))
           r == [keys |-> k, slot |-> q, used |-> c - 1]
<1>1. Hash!Command(n >= 0) /\ UNCHANGED <<Hash!Tool, Hash!Rest>>
  BY DEF Hash!comm_remove_hash
<1>2. CASE ~(s \in Hash!Slots /\ s1[t].slot[s].vld)
  BY <1>1, <1>2, NothingDone DEF Hash!comm_remove_hash
<1>3. CASE s \in Hash!Slots /\ s1[t].slot[s].vld
  <2>1. x = [keys |-> a, slot |-> b, used |-> c] /\ a \in Seq(Hash!Keys)
          /\ b \in [Hash!Slots -> [vld : BOOLEAN, data : Hash!Values]]
        /\ c \in Int /\ c <= Len(a) /\ Len(a) \in Nat
    BY TabFacts
  <2>2. s1' = [s1 EXCEPT ![t] = r]
    <3>1. s1' = [s1 EXCEPT ![t].slot[s].vld = FALSE, ![t].keys = k, ![t].used = @ - 1]
      <4>1. s1' = [s1 EXCEPT ![t].slot[s].vld = FALSE,
                             ![t].keys = IF owner = {} THEN @ ELSE Hash!RemoveAt(@, Hash!Min(owner)),
                             ![t].used = @ - 1]
        BY <1>3 DEF Hash!comm_remove_hash
      <4> QED
        BY <4>1
    <3>2. s1 \in [Hash!Tables -> Hash!TableRecords] /\ r = [keys |-> k, slot |-> q, used |-> c - 1]
      BY DEF Hash!HashTyped
    <3> DEFINE y1 == [x EXCEPT !.slot[s].vld = FALSE]
               y2 == [y1 EXCEPT !.keys = k]
               y3 == [y2 EXCEPT !.used = c - 1]
    <3>3. s1' = [s1 EXCEPT ![t] = [x EXCEPT !.slot[s].vld = FALSE, !.keys = k, !.used = c - 1]]
      <4> HIDE DEF k, s
      <4> QED
        BY <3>1, <3>2
    <3>4. [x EXCEPT !.slot[s].vld = FALSE, !.keys = k, !.used = c - 1] = y3
      <4> HIDE DEF k, s, x
      <4> QED
        OBVIOUS
    <3> HIDE DEF k, s, a, b, c, x, r
    <3>5. y1 = [keys |-> a, slot |-> q, used |-> c]
      <4> DEFINE z == x.slot
                 w == [z EXCEPT ![s].vld = FALSE]
      <4>1. y1 = [x EXCEPT !.slot = w]
        OBVIOUS
      <4>2. x.slot = b
        BY <2>1
      <4>3. w = q
        BY <4>2
      <4> HIDE DEF q, w, y1
      <4>4. y1 = [x EXCEPT !.slot = q]
        BY <4>1, <4>3
      <4> QED
        BY <2>1, <4>4
    <3> HIDE DEF y1, q
    <3>6. y2 = [keys |-> k, slot |-> q, used |-> c]
      BY <3>5
    <3> HIDE DEF y2
    <3>7. y3 = [keys |-> k, slot |-> q, used |-> c - 1]
      BY <3>6
    <3> QED
      BY <3>2, <3>3, <3>4, <3>7
  <2>3. q \in [Hash!Slots -> [vld : BOOLEAN, data : Hash!Values]]
        /\ (\A z \in Hash!Slots : q[z].data = b[z].data)
        /\ (\A z \in Hash!Slots : q[z].vld <=> (z # s /\ b[z].vld))
    <3> HIDE DEF b, s
    <3> QED
      BY <1>3, <2>1, SlotFreed
  <2>4. owner # {} => Hash!Min(owner) \in owner /\ Hash!Min(owner) \in 1..Len(a)
    <3>1. owner \in SUBSET Nat
      BY <2>1
    <3>2. owner # {} => Hash!Min(owner) \in owner
      BY <3>1, MinIsLeast
    <3>3. \A i \in owner : i \in 1..Len(a)
      BY <2>1
    <3> HIDE DEF owner
    <3> QED
      BY <3>2, <3>3
  <2> HIDE DEF owner
  <2>5. k \in Seq(Hash!Keys) /\ Len(k) >= Len(a) - 1 /\ Len(k) \in Nat
    <3>1. CASE owner = {}
      BY <2>1, <3>1
    <3>2. CASE owner # {}
      <4>1. k = Hash!RemoveAt(a, Hash!Min(owner)) /\ Hash!Min(owner) \in 1..Len(a)
        BY <2>4, <3>2
      <4> HIDE DEF a, k
      <4> QED
        BY <2>1, <4>1, RemoveAtItems
    <3> QED
      BY <3>1, <3>2
  <2>6. r \in Hash!TableRecords
    <3> HIDE DEF k, q, c
    <3> QED
      BY <2>1, <2>3, <2>5 DEF Hash!TableRecords
  <2>7. r.keys = k /\ r.slot = q /\ r.used = c - 1
    OBVIOUS
  <2> HIDE DEF r, k
  <2>8. Hash!HashTyped'
    <3>1. r.used <= Len(r.keys) /\ r.used >= s1[t].used - 1
      BY <2>1, <2>5, <2>7
    <3> QED
      BY <1>1, <2>2, <2>6, <3>1, OneTableTyped
  <2>9. ASSUME Hash!Consistent, s10' PROVE Hash!Consistent'
    <3>1. n >= 0
      BY <1>1, <2>9 DEF Hash!Command
    <3>2. s = n
      BY <3>1, Sizes DEF Hash!PyIndex
    <3>3. c = Len(a) /\ \E i \in 1..Len(a) : Hash!Hash(t, a[i], s3) = n
      <4>1. SoundTable(t, x, s3) /\ DOMAIN x.keys = 1..Len(a)
        BY <2>1, <2>9, SoundIs, TabFacts DEF Hash!Consistent
      <4> QED
        BY <1>3, <3>2, <4>1 DEF SoundTable
    <3>4. owner # {}
      BY <3>3 DEF owner
    <3>5. k = Hash!RemoveAt(a, Hash!Min(owner)) /\ Hash!Min(owner) \in 1..Len(a)
            /\ Hash!Hash(t, a[Hash!Min(owner)], s3) = s
      BY <2>4, <3>2, <3>4 DEF k, owner
    <3> DEFINE p == Hash!Min(owner)
    <3>6. p \in 1..Len(s1[t].keys) /\ r.used = s1[t].used - 1 /\ r.keys = Hash!RemoveAt(s1[t].keys, p)
          /\ (\A z \in Hash!Slots : r.slot[z].data = s1[t].slot[z].data)
          /\ (\A z \in Hash!Slots : r.slot[z].vld <=> (z # Hash!Hash(t, s1[t].keys[p], s3)
                /\ s1[t].slot[z].vld))
      <4> HIDE DEF s, p, q
      <4>1. \A z \in Hash!Slots : r.slot[z].vld <=> (z # Hash!Hash(t, s1[t].keys[p], s3)
              /\ s1[t].slot[z].vld)
        BY <2>3, <2>7, <3>5 DEF p
      <4>2. \A z \in Hash!Slots : r.slot[z].data = s1[t].slot[z].data
        BY <2>3, <2>7
      <4>3. p \in 1..Len(s1[t].keys) /\ r.used = s1[t].used - 1 /\ r.keys = Hash!RemoveAt(s1[t].keys, p)
        BY <2>7, <3>5 DEF p
      <4> QED
        BY <4>1, <4>2, <4>3
    <3> HIDE DEF p
    <3> QED
      BY <1>1, <2>2, <2>6, <2>9, <3>6, DropKeeps
  <2> QED
    BY <2>8, <2>9
<1> QED
  BY <1>2, <1>3

\* A Python list inserts at one of its places, or at its end.
LEMMA InsertPlace ==
    ASSUME NEW n \in Int, NEW len \in Nat
    PROVE  Hash!PyInsert(n, len) \in 1..(len + 1)
<1>1. CASE n < 0
  <2>1. Hash!Max({0, len + n}) = IF len + n >= 0 THEN len + n ELSE 0
    <3> DEFINE m == IF len + n >= 0 THEN len + n ELSE 0
               S == {0, len + n}
    <3>1. m \in S /\ \A y \in S : m >= y
      OBVIOUS
    <3>2. \A x \in S : (\A y \in S : x >= y) => x = m
      BY <3>1
    <3>3. Hash!Max(S) \in S /\ \A y \in S : Hash!Max(S) >= y
      <4> HIDE DEF m, S
      <4> QED
        BY <3>1 DEF Hash!Max
    <3> QED
      BY <3>2, <3>3
  <2> QED
    BY <1>1, <2>1 DEF Hash!PyInsert
<1>2. CASE ~(n < 0)
  <2>1. {n, len} \in SUBSET Nat /\ {n, len} # {}
    BY <1>2
  <2>2. Hash!Min({n, len}) \in {n, len} /\ \A m \in {n, len} : Hash!Min({n, len}) <= m
    BY <2>1, MinIsLeast
  <2> QED
    BY <1>2, <2>2 DEF Hash!PyInsert
<1> QED
  BY <1>1, <1>2

\* Replacing a record: the old one is removed before the new one is inserted.
LEMMA ReplaceStep ==
    ASSUME Hash!HashAssumption, Hash!HashTyped, NEW t \in Hash!Tables, NEW n \in Int, NEW k \in Hash!Keys,
           NEW d \in TableData,
           Hash!comm_replace(t, n, k, d)
    PROVE  Hash!HashTyped' /\ (Hash!Consistent /\ s10' => Hash!Consistent')
<1> DEFINE p == Hash!PyIndex(n, Len(s1[t].keys))
           r == Hash!Removed(t, p)
           h == Hash!Hash(t, k, s3)
           pos == Hash!PyInsert(n, Len(r.keys))
           q == [r.slot EXCEPT ![h] = [vld |-> TRUE, data |-> d]]
           w == [keys |-> Hash!InsertAt(r.keys, pos, k), slot |-> q, used |-> r.used + 1]
           good == Hash!GoodData(d) /\ ~r.slot[h].vld
               /\ k \notin Hash!Range(r.keys) \cup Hash!Range(s1[Hash!Other(t)].keys)
<1>1. UNCHANGED <<Hash!Tool, Hash!Rest>>
  BY DEF Hash!comm_replace
<1>2. CASE ~Hash!HasRecord(t, n)
  BY <1>1, <1>2, NothingDone DEF Hash!comm_replace
<1>3. CASE Hash!HasRecord(t, n)
  <2>1. p \in 1..Len(s1[t].keys)
    BY <1>3, TabFacts DEF Hash!HasRecord
  <2>2. s1' = [s1 EXCEPT ![t] = w] /\ Hash!Command(good)
    BY <1>3 DEF Hash!comm_replace
  <2>3. s10' = good
    BY <2>2 DEF Hash!Command
  <2>4. h \in Hash!Slots /\ d \in Hash!Values /\ s3 \in Hash!HKeys
    BY HashSlot DEF Hash!HashTyped, Hash!Values
  <2> HIDE DEF p
  <2>5. r \in Hash!TableRecords /\ r.keys = Hash!RemoveAt(s1[t].keys, p)
          /\ Len(r.keys) = Len(s1[t].keys) - 1 /\ r.used = s1[t].used - 1
        /\ (\A s \in Hash!Slots : r.slot[s].data = s1[t].slot[s].data)
        /\ (\A s \in Hash!Slots : r.slot[s].vld <=> (s # Hash!Hash(t, s1[t].keys[p], s3)
              /\ s1[t].slot[s].vld))
    BY <2>1, RemovedIs
  <2> HIDE DEF r
  <2>6. r.keys \in Seq(Hash!Keys) /\ r.used \in Int
          /\ r.slot \in [Hash!Slots -> [vld : BOOLEAN, data : Hash!Values]] /\ Len(r.keys) \in Nat
    BY <2>5 DEF Hash!TableRecords
  <2>7. pos \in 1..(Len(r.keys) + 1)
    BY <2>6, InsertPlace
  <2>8. Hash!InsertAt(r.keys, pos, k) \in Seq(Hash!Keys)
          /\ Len(Hash!InsertAt(r.keys, pos, k)) = Len(r.keys) + 1
        /\ \A j \in 1..(Len(r.keys) + 1) : Hash!InsertAt(r.keys, pos, k)[j] =
               IF j < pos THEN r.keys[j] ELSE IF j = pos THEN k ELSE r.keys[j - 1]
    <3> DEFINE a == r.keys
    <3>1. a \in Seq(Hash!Keys) /\ pos \in 1..(Len(a) + 1)
      BY <2>6, <2>7
    <3> HIDE DEF a, pos
    <3>2. Hash!InsertAt(a, pos, k) \in Seq(Hash!Keys) /\ Len(Hash!InsertAt(a, pos, k)) = Len(a) + 1
          /\ \A j \in 1..(Len(a) + 1) : Hash!InsertAt(a, pos, k)[j] =
                 IF j < pos THEN a[j] ELSE IF j = pos THEN k ELSE a[j - 1]
      BY <3>1, InsertAtItems
    <3> QED
      BY <3>2 DEF a
  <2>9. q \in [Hash!Slots -> [vld : BOOLEAN, data : Hash!Values]] /\ q[h].data = d /\ q[h].vld
          /\ \A s \in Hash!Slots : s # h => q[s] = r.slot[s]
    <3> DEFINE b == r.slot
    <3>1. b \in [Hash!Slots -> [vld : BOOLEAN, data : Hash!Values]]
      BY <2>6
    <3> HIDE DEF b, h
    <3>2. [b EXCEPT ![h] = [vld |-> TRUE, data |-> d]] \in [Hash!Slots -> [vld : BOOLEAN, data : Hash!Values]]
          /\ [b EXCEPT ![h] = [vld |-> TRUE, data |-> d]][h].data = d
          /\ [b EXCEPT ![h] = [vld |-> TRUE, data |-> d]][h].vld
          /\ \A s \in Hash!Slots : s # h => [b EXCEPT ![h] = [vld |-> TRUE, data |-> d]][s] = b[s]
      BY <2>4, <3>1, SlotTaken
    <3> QED
      BY <3>2 DEF b
  <2>10. w.keys = Hash!InsertAt(r.keys, pos, k) /\ w.slot = q /\ w.used = r.used + 1
    OBVIOUS
  <2>11. w \in Hash!TableRecords
    <3> HIDE DEF q, pos
    <3> QED
      BY <2>6, <2>8, <2>9 DEF Hash!TableRecords
  <2> HIDE DEF w, q, pos
  <2>12. s1[t].used <= Len(s1[t].keys) /\ s1[t].used \in Int /\ Len(s1[t].keys) \in Nat
    BY TabFacts
  <2>13. Hash!HashTyped'
    <3>1. w.used <= Len(w.keys) /\ w.used >= s1[t].used - 1
      BY <2>5, <2>6, <2>8, <2>10, <2>12
    <3> HIDE DEF good
    <3> QED
      BY <1>1, <2>2, <2>11, <3>1, OneTableTyped
  <2>14. ASSUME Hash!Consistent, s10' PROVE Hash!Consistent'
    <3>1. Hash!GoodData(d) /\ ~r.slot[h].vld /\ k \notin Hash!Range(r.keys)
            /\ k \notin Hash!Range(s1[Hash!Other(t)].keys)
      BY <2>3, <2>14
    <3>2. SoundTable(t, s1[t], s3) /\ s1[t] \in Hash!TableRecords
      BY <2>14, SoundIs, TabFacts DEF Hash!Consistent
    <3>3. SoundTable(t, r, s3)
      <4> DEFINE x == s1[t]
      <4>1. x \in Hash!TableRecords /\ SoundTable(t, x, s3) /\ p \in 1..Len(x.keys) /\ r.used = x.used - 1
              /\ r.keys = Hash!RemoveAt(x.keys, p)
            /\ (\A s \in Hash!Slots : r.slot[s].data = x.slot[s].data)
            /\ (\A s \in Hash!Slots : r.slot[s].vld <=> (s # Hash!Hash(t, x.keys[p], s3) /\ x.slot[s].vld))
        BY <2>1, <2>5, <3>2
      <4> HIDE DEF x
      <4> QED
        BY <2>4, <2>5, <4>1, SoundDrops
    <3>4. SoundTable(t, w, s3)
      <4>1. w.slot[h].vld /\ w.slot[h].data = d /\ \A s \in Hash!Slots : s # h => w.slot[s] = r.slot[s]
        BY <2>9, <2>10
      <4>2. Len(w.keys) = Len(r.keys) + 1
        BY <2>8, <2>10
      <4>3. \A j \in 1..(Len(r.keys) + 1) :
               w.keys[j] = IF j < pos THEN r.keys[j] ELSE IF j = pos THEN k ELSE r.keys[j - 1]
        BY <2>8, <2>10
      <4> QED
        BY <2>4, <2>5, <2>7, <2>10, <2>11, <3>1, <3>3, <4>1, <4>2, <4>3, SoundTakes
    <3>5. \A i \in DOMAIN w.keys : \A j \in DOMAIN s1[Hash!Other(t)].keys : w.keys[i] # s1[Hash!Other(t)].keys[j]
      <4> TAKE i \in DOMAIN w.keys
      <4> TAKE j \in DOMAIN s1[Hash!Other(t)].keys
      <4> DEFINE x == s1[t]
                 y == s1[Hash!Other(t)].keys[j]
      <4>1. Hash!Other(t) \in Hash!Tables /\ Hash!Other(t) # t
        BY DEF Hash!Other, Hash!Tables
      <4>2. y # k
        BY <3>1 DEF Hash!Range
      <4>3. \A l \in DOMAIN x.keys : x.keys[l] # y
        BY <2>14, <4>1 DEF Hash!Consistent, Hash!Range, Hash!Tables
      <4>4. x.keys \in Seq(Hash!Keys) /\ Len(x.keys) \in Nat
        BY TabFacts
      <4>5. \A l \in 1..Len(r.keys) : r.keys[l] # y
        <5> TAKE l \in 1..Len(r.keys)
        <5>1. \A m \in 1..(Len(x.keys) - 1) : r.keys[m] = IF m < p THEN x.keys[m] ELSE x.keys[m + 1]
          <6>1. p \in 1..Len(x.keys) /\ r.keys = Hash!RemoveAt(x.keys, p)
            BY <2>1, <2>5
          <6> HIDE DEF x
          <6> QED
            BY <4>4, <6>1, RemoveAtItems
        <5>2. l \in 1..(Len(x.keys) - 1)
          BY <2>5
        <5> HIDE DEF x, y
        <5>3. CASE l < p
          BY <4>3, <4>4, <5>1, <5>2, <5>3
        <5>4. CASE ~(l < p)
          <6>1. l + 1 \in DOMAIN x.keys /\ r.keys[l] = x.keys[l + 1]
            BY <4>4, <5>1, <5>2, <5>4
          <6> QED
            BY <4>3, <6>1
        <5> QED
          BY <5>3, <5>4
      <4>6. i \in 1..(Len(r.keys) + 1)
        BY <2>6, <2>8, <2>10
      <4>7. w.keys[i] = IF i < pos THEN r.keys[i] ELSE IF i = pos THEN k ELSE r.keys[i - 1]
        BY <2>8, <2>10, <4>6
      <4> HIDE DEF x, y
      <4>8. w.keys[i] # y
        BY <2>6, <2>7, <4>2, <4>5, <4>6, <4>7
      <4> QED
        BY <4>8 DEF y
    <3> HIDE DEF good
    <3> QED
      BY <1>1, <2>2, <2>14, <3>4, <3>5, OneTableConsistent DEF Hash!Rest
  <2> QED
    BY <2>13, <2>14
<1> QED
  BY <1>2, <1>3

\* A record of the configuration file.
FileRecord == [key : Hash!Keys, data : Hash!Values]

\* What is saved of a table are records.
LEMMA RecordsTyped ==
    ASSUME Hash!HashAssumption, Hash!HashTyped, NEW t \in Hash!Tables
    PROVE  Hash!Records(t) \in Seq(FileRecord)
<1> DEFINE x == s1[t]
           n == IF x.used >= 0 THEN x.used ELSE 0
           v(i) == [key |-> x.keys[i], data |-> Hash!SlotOf(t, x.keys[i]).data]
<1>1. x.used \in Int /\ x.used <= Len(x.keys) /\ Len(x.keys) \in Nat
      /\ x.slot \in [Hash!Slots -> [vld : BOOLEAN, data : Hash!Values]]
      /\ \A i \in 1..Len(x.keys) : x.keys[i] \in Hash!Keys /\ Hash!Hash(t, x.keys[i], s3) \in Hash!Slots
  BY TabFacts
<1>2. n \in Nat /\ 1..x.used = 1..n /\ \A i \in 1..n : i \in 1..Len(x.keys)
  BY <1>1
<1>3. Hash!Records(t) = [i \in 1..n |-> v(i)]
  BY <1>2 DEF Hash!Records
<1>4. \A i \in 1..n : v(i) \in FileRecord
  <2> TAKE i \in 1..n
  <2>1. x.keys[i] \in Hash!Keys /\ Hash!Hash(t, x.keys[i], s3) \in Hash!Slots
    BY <1>1, <1>2
  <2>2. Hash!SlotOf(t, x.keys[i]).data \in Hash!Values
    BY <1>1, <2>1 DEF Hash!SlotOf
  <2> QED
    BY <2>1, <2>2 DEF FileRecord
<1> HIDE DEF n, v
<1> QED
  BY <1>2, <1>3, <1>4

\* Saving: the file written from consistent tables is a sound one.
LEMMA SaveStep ==
    ASSUME Hash!HashAssumption, Hash!HashTyped, Hash!comm_save
    PROVE  Hash!HashTyped' /\ (Hash!Consistent => Hash!Consistent' /\ Hash!FileSound(s6'))
<1> DEFINE g == [t \in Hash!Tables |-> IF t < s4 THEN Hash!Records(t) ELSE <<>>]
<1>1. /\ s8 = NoUpload /\ s11 \in Nat /\ s11' = s11 + 1 /\ s11' \in 0..MaxCommands /\ s5' = s5
      /\ UNCHANGED <<s1, s2, s3, s4, s7, s8, s9>>
      /\ s6' = [hash_key |-> s2, fits |-> TRUE, tabs |-> s4, rec |-> g]
  BY CommandKeeps DEF Hash!comm_save, Hash!Tool
<1>2. Hash!HashTyped'
  <2>1. g \in [Hash!Tables -> Seq(FileRecord)]
    BY RecordsTyped
  <2> HIDE DEF g
  <2>2. s6' \in Hash!Files
    BY <1>1, <2>1 DEF Hash!Files, Hash!HashTyped, FileRecord
  <2>3. \A u \in Hash!Tables : s1[u].used \in Int /\ s1[u].used >= -s11 /\ s1[u].used <= Len(s1[u].keys)
    BY DEF Hash!HashTyped, Hash!TableRecords
  <2>4. \A u \in Hash!Tables : s1[u].used >= -s11'
    BY <1>1, <2>3
  <2> QED
    BY <1>1, <2>2, <2>3, <2>4 DEF Hash!HashTyped
<1>3. ASSUME Hash!Consistent PROVE Hash!Consistent' /\ Hash!FileSound(s6')
  <2>1. Hash!Consistent'
    BY <1>1, <1>3 DEF Hash!Consistent, Hash!Sound, Hash!SlotOf
  <2> DEFINE f == s6'
             K(t) == s1[t].keys
  <2>2. f.fits /\ f.tabs = 2 /\ f.hash_key = s3
    BY <1>1, <1>3 DEF Hash!Consistent
  <2>3. \A t \in Hash!Tables : DOMAIN f.rec[t] = DOMAIN K(t)
    <3> TAKE t \in Hash!Tables
    <3>1. f.rec[t] = Hash!Records(t)
      BY <1>1, <1>3 DEF Hash!Consistent, Hash!Tables
    <3>2. SoundTable(t, s1[t], s3) /\ DOMAIN K(t) = 1..Len(K(t))
      BY <1>3, SoundIs, TabFacts DEF Hash!Consistent
    <3> QED
      BY <3>1, <3>2 DEF Hash!Records, SoundTable
  <2>4. \A t \in Hash!Tables : \A i \in DOMAIN K(t) :
           f.rec[t][i].key = K(t)[i] /\ f.rec[t][i].data = Hash!SlotOf(t, K(t)[i]).data
    <3> TAKE t \in Hash!Tables
    <3> TAKE i \in DOMAIN K(t)
    <3>1. f.rec[t] = Hash!Records(t)
      BY <1>1, <1>3 DEF Hash!Consistent, Hash!Tables
    <3>2. DOMAIN K(t) = 1..s1[t].used
      BY <1>3, TabFacts DEF Hash!Consistent, Hash!Sound
    <3> QED
      BY <3>1, <3>2 DEF Hash!Records
  <2>5. \A t \in Hash!Tables : \A i \in DOMAIN K(t) : Hash!GoodData(Hash!SlotOf(t, K(t)[i]).data)
    BY <1>3 DEF Hash!Consistent, Hash!Sound
  <2>6. \A t \in Hash!Tables : \A i, j \in DOMAIN K(t) : i # j
          => Hash!Hash(t, K(t)[i], s3) # Hash!Hash(t, K(t)[j], s3)
    BY <1>3 DEF Hash!Consistent, Hash!Sound
  <2>7. \A i \in DOMAIN K(0), j \in DOMAIN K(1) : K(0)[i] # K(1)[j]
    BY <1>3 DEF Hash!Consistent, Hash!Range
  <2>8. 0 \in Hash!Tables /\ 1 \in Hash!Tables
    BY DEF Hash!Tables
  <2> HIDE DEF f, K
  <2>9. \A t \in Hash!Tables : \A i, j \in DOMAIN f.rec[t] :
           i # j => Hash!Hash(t, f.rec[t][i].key, f.hash_key) # Hash!Hash(t, f.rec[t][j].key, f.hash_key)
    BY <2>2, <2>3, <2>4, <2>6
  <2>10. \A t \in Hash!Tables : \A r \in Hash!Range(f.rec[t]) : Hash!GoodData(r.data)
    BY <2>3, <2>4, <2>5 DEF Hash!Range
  <2>11. \A r \in Hash!Range(f.rec[0]), q \in Hash!Range(f.rec[1]) : r.key # q.key
    BY <2>3, <2>4, <2>7, <2>8 DEF Hash!Range
  <2>12. Hash!FileSound(f)
    BY <2>2, <2>9, <2>10, <2>11 DEF Hash!FileSound
  <2> QED
    BY <2>1, <2>12 DEF f
<1> QED
  BY <1>2, <1>3

\* The table loaded from a list of records: its keys are theirs, and a slot is
\* taken when one of them hashes to it.
LEMMA LoadedTyped ==
    ASSUME Hash!HashAssumption, NEW t \in Hash!Tables, NEW recs \in Seq(FileRecord), NEW f \in Hash!HKeys
    PROVE  /\ Hash!Loaded(t, recs, f) \in Hash!TableRecords /\ Hash!Loaded(t, recs, f).used = Len(recs)
           /\ Len(Hash!Loaded(t, recs, f).keys) = Len(recs)
           /\ DOMAIN Hash!Loaded(t, recs, f).keys = DOMAIN recs
           /\ \A i \in DOMAIN recs : Hash!Loaded(t, recs, f).keys[i] = recs[i].key
           /\ \A s \in Hash!Slots : Hash!Loaded(t, recs, f).slot[s].vld <=> \E i \in DOMAIN recs : Hash!Hash(t, recs[i].key, f) = s
           /\ \A s \in Hash!Slots : Hash!Loaded(t, recs, f).slot[s].vld =>
                 \E i \in DOMAIN recs : Hash!Hash(t, recs[i].key, f) = s
                     /\ Hash!Loaded(t, recs, f).slot[s].data = recs[i].data
<1> DEFINE At(s) == {i \in DOMAIN recs : Hash!Hash(t, recs[i].key, f) = s}
           ks == [i \in DOMAIN recs |-> recs[i].key]
           c(s) == IF At(s) = {} THEN Hash!Blank ELSE [vld |-> TRUE, data |-> recs[Hash!Max(At(s))].data]
           sl == [s \in Hash!Slots |-> c(s)]
           r == Hash!Loaded(t, recs, f)
<1>1. r = [keys |-> ks, slot |-> sl, used |-> Len(recs)]
  BY DEF Hash!Loaded
<1>2. DOMAIN recs = 1..Len(recs) /\ Len(recs) \in Nat /\ \A i \in 1..Len(recs) : recs[i] \in FileRecord
  OBVIOUS
<1>3. ks \in Seq(Hash!Keys) /\ Len(ks) = Len(recs)
  BY <1>2 DEF FileRecord
<1>4. \A s : At(s) # {} => Hash!Max(At(s)) \in At(s)
  BY <1>2, MaxIsGreatest
<1>5. \A s : At(s) = {} => c(s) = Hash!Blank
  OBVIOUS
<1>6. \A s : At(s) # {} => c(s) \in [vld : BOOLEAN, data : Hash!Values]
        /\ c(s).data = recs[Hash!Max(At(s))].data
  <2> TAKE s
  <2> HAVE At(s) # {}
  <2>1. Hash!Max(At(s)) \in 1..Len(recs)
    BY <1>2, <1>4
  <2>2. recs[Hash!Max(At(s))].data \in Hash!Values
    BY <1>2, <2>1 DEF FileRecord
  <2> DEFINE d == recs[Hash!Max(At(s))].data
  <2>3. c(s) = [vld |-> TRUE, data |-> d]
    OBVIOUS
  <2> HIDE DEF d, c
  <2>4. d \in Hash!Values
    BY <2>2 DEF d
  <2>5. c(s) \in [vld : BOOLEAN, data : Hash!Values] /\ c(s).data = d
    BY <2>3, <2>4
  <2> QED
    BY <2>5 DEF d
<1>7. \A s : At(s) # {} => c(s).vld
  OBVIOUS
<1>8. Hash!Blank \in [vld : BOOLEAN, data : Hash!Values] /\ ~Hash!Blank.vld
  BY DEF Hash!Blank, Hash!Values
<1>9. \A s : At(s) # {} <=> \E i \in DOMAIN recs : Hash!Hash(t, recs[i].key, f) = s
  OBVIOUS
<1>10. \A s : \A i \in At(s) : i \in DOMAIN recs /\ Hash!Hash(t, recs[i].key, f) = s
  OBVIOUS
<1> HIDE DEF At, c
<1>11. sl \in [Hash!Slots -> [vld : BOOLEAN, data : Hash!Values]]
  BY <1>5, <1>6, <1>8
<1>12. \A s \in Hash!Slots : sl[s].vld <=> \E i \in DOMAIN recs : Hash!Hash(t, recs[i].key, f) = s
  <2> TAKE s \in Hash!Slots
  <2>1. sl[s] = c(s)
    OBVIOUS
  <2> HIDE DEF sl
  <2>2. CASE At(s) = {}
    BY <1>5, <1>8, <1>9, <2>1, <2>2
  <2>3. CASE At(s) # {}
    BY <1>7, <1>9, <2>1, <2>3
  <2> QED
    BY <2>2, <2>3
<1>13. \A s \in Hash!Slots : sl[s].vld => \E i \in DOMAIN recs : Hash!Hash(t, recs[i].key, f) = s
         /\ sl[s].data = recs[i].data
  <2> TAKE s \in Hash!Slots
  <2> HAVE sl[s].vld
  <2>1. At(s) # {}
    BY <1>9, <1>12
  <2>2. sl[s].data = recs[Hash!Max(At(s))].data
    BY <1>6, <2>1
  <2> QED
    BY <1>4, <1>10, <2>1, <2>2
<1>14. r.keys = ks /\ r.slot = sl /\ r.used = Len(recs)
  BY <1>1
<1>15. DOMAIN ks = DOMAIN recs /\ \A i \in DOMAIN recs : ks[i] = recs[i].key
  OBVIOUS
<1> HIDE DEF ks, sl, r
<1>16. r \in Hash!TableRecords
  BY <1>1, <1>2, <1>3, <1>11 DEF Hash!TableRecords
<1>17. r.keys = ks /\ r.slot = sl /\ r.used = Len(recs) /\ Len(r.keys) = Len(recs)
         /\ DOMAIN r.keys = DOMAIN recs
  BY <1>3, <1>14, <1>15
<1>18. \A i \in DOMAIN recs : r.keys[i] = recs[i].key
  BY <1>15, <1>17
<1>19. \A s \in Hash!Slots : r.slot[s].vld <=> \E i \in DOMAIN recs : Hash!Hash(t, recs[i].key, f) = s
  BY <1>12, <1>17
<1>20. \A s \in Hash!Slots : r.slot[s].vld =>
          \E i \in DOMAIN recs : Hash!Hash(t, recs[i].key, f) = s /\ r.slot[s].data = recs[i].data
  BY <1>13, <1>17
<1> QED
  BY <1>16, <1>17, <1>18, <1>19, <1>20 DEF r

\* Loading: a sound file leaves consistent tables, whatever they were before.
LEMMA LoadStep ==
    ASSUME Hash!HashAssumption, Hash!HashTyped, NEW f \in HandFiles \cup {s6}, Hash!comm_load(f)
    PROVE  Hash!HashTyped' /\ (Hash!Consistent /\ s10' => Hash!Consistent')
<1> DEFINE Done(t) == t < f.tabs /\ \A u \in 0..(t - 1) : Hash!Readable(f.rec[u]) = f.rec[u]
           l(t) == Hash!Loaded(t, Hash!Readable(f.rec[t]), f.hash_key)
<1>1. f \in Hash!Files
  BY DEF Hash!comm_load, Hash!HashTyped, Hash!HashAssumption, Hash!FileAssumption
<1>2. f.hash_key \in Hash!HKeys /\ f.tabs \in {1, 2} /\ \A t \in Hash!Tables : f.rec[t] \in Seq(FileRecord)
  BY <1>1 DEF Hash!Files, FileRecord
<1>3. Hash!MarkAssumption
  BY DEF Hash!HashAssumption
<1>4. /\ s8 = NoUpload /\ s11 \in Nat /\ s11' = s11 + 1 /\ s11' \in 0..MaxCommands /\ s5' = s5
      /\ UNCHANGED <<s6, s7, s8, s9>> /\ s2' = f.hash_key /\ s10' = Hash!FileSound(f)
  BY CommandKeeps DEF Hash!comm_load, Hash!Rest
<1>5. \A t \in Hash!Tables : l(t) \in Hash!TableRecords /\ l(t).used = Len(l(t).keys) /\ l(t).used \in Nat
  <2> TAKE t \in Hash!Tables
  <2> DEFINE recs == Hash!Readable(f.rec[t])
  <2>1. recs \in Seq(FileRecord)
    BY <1>2, <1>3, ReadableFront
  <2>2. Len(recs) \in Nat
    BY <2>1
  <2> HIDE DEF recs
  <2>3. LET r == Hash!Loaded(t, recs, f.hash_key) IN r \in Hash!TableRecords /\ r.used = Len(recs)
          /\ Len(r.keys) = Len(recs)
    BY <1>2, <2>1, LoadedTyped
  <2> QED
    BY <2>2, <2>3 DEF recs
<1>6. CASE s5 /\ ~f.fits
  <2>1. UNCHANGED <<s1, s3, s4>>
    BY <1>6 DEF Hash!comm_load
  <2>2. \A u \in Hash!Tables : s1[u].used \in Int /\ s1[u].used >= -s11 /\ s1[u].used <= Len(s1[u].keys)
    BY DEF Hash!HashTyped, Hash!TableRecords
  <2>3. \A u \in Hash!Tables : s1[u].used >= -s11'
    BY <1>4, <2>2
  <2>4. Hash!HashTyped'
    BY <1>2, <1>4, <2>1, <2>2, <2>3 DEF Hash!HashTyped
  <2>5. ~Hash!FileSound(f)
    BY <1>6 DEF Hash!FileSound
  <2> QED
    BY <1>4, <2>4, <2>5
<1>7. CASE ~(s5 /\ ~f.fits)
  <2>1. s3' = f.hash_key /\ s4' = f.tabs /\ s1' = [t \in Hash!Tables |-> IF Done(t) THEN l(t) ELSE s1[t]]
    BY <1>7 DEF Hash!comm_load
  <2> HIDE DEF l, Done
  <2>2. Hash!HashTyped'
    <3>1. s1' \in [Hash!Tables -> Hash!TableRecords]
      BY <1>5, <2>1 DEF Hash!HashTyped
    <3>2. \A u \in Hash!Tables : s1[u].used \in Int /\ s1[u].used >= -s11 /\ s1[u].used <= Len(s1[u].keys)
      BY DEF Hash!HashTyped, Hash!TableRecords
    <3>3. \A u \in Hash!Tables : s1'[u].used <= Len(s1'[u].keys) /\ s1'[u].used >= -s11'
      <4> TAKE u \in Hash!Tables
      <4>1. s1'[u] = s1[u] \/ s1'[u] = l(u)
        BY <2>1
      <4>2. s1[u].used >= -s11'
        BY <1>4, <3>2
      <4>3. l(u).used >= -s11' /\ l(u).used <= Len(l(u).keys)
        BY <1>4, <1>5
      <4> QED
        BY <3>2, <4>1, <4>2, <4>3
    <3> QED
      BY <1>2, <1>4, <2>1, <3>1, <3>3 DEF Hash!HashTyped
  <2>3. ASSUME s10' PROVE Hash!Consistent'
    <3>1. Hash!FileSound(f)
      BY <1>4, <2>3
    <3>2. \A t \in Hash!Tables : \A i \in DOMAIN f.rec[t] : Hash!GoodData(f.rec[t][i].data)
      BY <3>1 DEF Hash!FileSound, Hash!Range
    <3>3. \A t \in Hash!Tables : Hash!Readable(f.rec[t]) = f.rec[t]
      <4> TAKE t \in Hash!Tables
      <4>1. \A i \in DOMAIN f.rec[t] : f.rec[t][i].data # Miss
        <5> TAKE i \in DOMAIN f.rec[t]
        <5>1. f.rec[t][i].data \in 0..(2^DataWidth - 1)
          BY <3>2 DEF Hash!GoodData
        <5>2. 2^DataWidth \in Nat
          BY Sizes
        <5> DEFINE d == f.rec[t][i].data
                   D == 2^DataWidth
        <5>3. d \in 0..(D - 1) /\ D \in Nat
          BY <5>1, <5>2
        <5> HIDE DEF d, D
        <5>4. d \in Nat
          BY <5>3
        <5> QED
          BY <1>3, <5>4 DEF Hash!MarkAssumption, d
      <4> QED
        BY <1>2, <1>3, <4>1, ReadableFront
    <3>4. f.tabs = 2
      BY <3>1 DEF Hash!FileSound
    <3>5. \A t \in Hash!Tables : Done(t)
      <4> TAKE t \in Hash!Tables
      <4>1. t < f.tabs /\ 0..(t - 1) \subseteq Hash!Tables
        BY <3>4 DEF Hash!Tables
      <4> QED
        BY <3>3, <4>1 DEF Done
    <3>6. \A t \in Hash!Tables : s1'[t] = Hash!Loaded(t, f.rec[t], f.hash_key)
      BY <2>1, <3>3, <3>5 DEF l
    <3>7. ASSUME NEW t \in Hash!Tables PROVE SoundTable(t, s1'[t], s3')
      <4> DEFINE recs == f.rec[t]
                 h == f.hash_key
                 r == Hash!Loaded(t, recs, h)
      <4>1. recs \in Seq(FileRecord) /\ h \in Hash!HKeys /\ s1'[t] = r /\ s3' = h
        BY <1>2, <2>1, <3>6
      <4>2. \A i, j \in DOMAIN recs : i # j => Hash!Hash(t, recs[i].key, h) # Hash!Hash(t, recs[j].key, h)
        BY <3>1 DEF Hash!FileSound
      <4>3. \A i \in DOMAIN recs : Hash!GoodData(recs[i].data)
        BY <3>2
      <4> HIDE DEF recs, h
      <4>4. r.used = Len(recs) /\ Len(r.keys) = Len(recs) /\ DOMAIN r.keys = DOMAIN recs
            /\ \A i \in DOMAIN recs : r.keys[i] = recs[i].key
        BY <4>1, LoadedTyped
      <4>5. \A s \in Hash!Slots : r.slot[s].vld <=> \E i \in DOMAIN recs : Hash!Hash(t, recs[i].key, h) = s
        BY <4>1, LoadedTyped
      <4>6. \A s \in Hash!Slots : r.slot[s].vld =>
               \E i \in DOMAIN recs : Hash!Hash(t, recs[i].key, h) = s /\ r.slot[s].data = recs[i].data
        BY <4>1, LoadedTyped
      <4>7. \A i \in DOMAIN recs : Hash!Hash(t, recs[i].key, h) \in Hash!Slots
        <5> TAKE i \in DOMAIN recs
        <5>1. recs[i] \in FileRecord
          BY <4>1
        <5>2. recs[i].key \in Hash!Keys
          BY <5>1 DEF FileRecord
        <5> QED
          BY <4>1, <5>2, HashSlot
      <4> HIDE DEF r
      <4>8. \A i \in DOMAIN r.keys : r.slot[Hash!Hash(t, r.keys[i], h)].vld
        BY <4>4, <4>5, <4>7
      <4>9. \A i \in DOMAIN r.keys : Hash!GoodData(r.slot[Hash!Hash(t, r.keys[i], h)].data)
        BY <4>3, <4>4, <4>6, <4>7, <4>8
      <4> QED
        BY <4>1, <4>2, <4>4, <4>5, <4>8, <4>9 DEF SoundTable
    <3>8. ASSUME NEW t \in Hash!Tables PROVE Hash!Sound(t)'
      <4>1. SoundTable(t, s1'[t], s3')
        BY <3>7
      <4> QED
        BY <4>1 DEF Hash!Sound, SoundTable, Hash!SlotOf
    <3>9. Hash!Range(s1'[0].keys) \cap Hash!Range(s1'[1].keys) = {}
      <4> DEFINE a == f.rec[0]
                 b == f.rec[1]
      <4>1. \A r \in Hash!Range(a), q \in Hash!Range(b) : r.key # q.key
        BY <3>1 DEF Hash!FileSound
      <4>2. 0 \in Hash!Tables /\ 1 \in Hash!Tables
        BY DEF Hash!Tables
      <4>3. a \in Seq(FileRecord) /\ b \in Seq(FileRecord) /\ f.hash_key \in Hash!HKeys
            /\ s1'[0] = Hash!Loaded(0, a, f.hash_key) /\ s1'[1] = Hash!Loaded(1, b, f.hash_key)
        BY <1>2, <3>6, <4>2
      <4> HIDE DEF a, b
      <4>4. DOMAIN s1'[0].keys = DOMAIN a /\ \A i \in DOMAIN a : s1'[0].keys[i] = a[i].key
        BY <4>2, <4>3, LoadedTyped
      <4>5. DOMAIN s1'[1].keys = DOMAIN b /\ \A i \in DOMAIN b : s1'[1].keys[i] = b[i].key
        BY <4>2, <4>3, LoadedTyped
      <4>6. \A i \in DOMAIN a, j \in DOMAIN b : a[i].key # b[j].key
        BY <4>1 DEF Hash!Range
      <4> QED
        BY <4>4, <4>5, <4>6 DEF Hash!Range
    <3> QED
      BY <1>4, <2>1, <3>4, <3>8, <3>9 DEF Hash!Consistent
  <2> QED
    BY <2>2, <2>3
<1> QED
  BY <1>6, <1>7

\* What the memory of the component says of a key while records are being written.
\* During a sound upload the component holds a key exactly when its record has
\* been written, with the data the tool has for it.
LEMMA LookupFacts ==
    ASSUME Hash!HashAssumption, Hash!HashTyped, Hash!RecordsWritten, NEW k \in Hash!Keys,
           NEW t \in Hash!Tables
    PROVE  LET e == s7.mem[t][Hash!Hash(t, k, s7.hash_key)]
           IN  /\ e.vld /\ e.key = k =>
                     (\E i \in DOMAIN s1[t].keys : s1[t].keys[i] = k) /\ e.data = Hash!SlotOf(t, k).data
               /\ (\E i \in Hash!Written(t) : s1[t].keys[i] = k) => e.vld /\ e.key = k
<1> DEFINE h == Hash!Hash(t, k, s3)
           e == s7.mem[t][h]
<1>1. h \in Hash!Slots /\ s7.hash_key = s3
  BY HashSlot DEF Hash!HashTyped, Hash!RecordsWritten
<1>2. \A i \in Hash!Written(t) : i \in DOMAIN s1[t].keys
  BY DEF Hash!Written
<1>3. ASSUME NEW i \in Hash!Written(t), Hash!Hash(t, s1[t].keys[i], s3) = h
      PROVE  e.key = s1[t].keys[i] /\ e.data = Hash!SlotOf(t, s1[t].keys[i]).data /\ e.vld
  <2> DEFINE y == s1[t].keys[i]
             d == Hash!SlotOf(t, y).data
  <2>1. e = [vld |-> TRUE, key |-> y, data |-> d]
    BY <1>3 DEF Hash!RecordsWritten
  <2> HIDE DEF e, y, d
  <2>2. e.key = y /\ e.data = d
    BY <2>1
  <2>3. e.vld
    BY <2>1
  <2> QED
    BY <2>2, <2>3 DEF y, d
<1>4. e.vld => \E i \in Hash!Written(t) : Hash!Hash(t, s1[t].keys[i], s3) = h
  BY <1>1 DEF Hash!RecordsWritten
<1> HIDE DEF e, h
<1>5. ASSUME e.vld, e.key = k PROVE (\E i \in DOMAIN s1[t].keys : s1[t].keys[i] = k)
        /\ e.data = Hash!SlotOf(t, k).data
  <2>1. PICK i \in Hash!Written(t) : Hash!Hash(t, s1[t].keys[i], s3) = h
    BY <1>4, <1>5
  <2>2. s1[t].keys[i] = k /\ e.data = Hash!SlotOf(t, s1[t].keys[i]).data
    BY <1>3, <1>5, <2>1
  <2> QED
    BY <1>2, <2>2
<1>6. ASSUME NEW i \in Hash!Written(t), s1[t].keys[i] = k PROVE e.vld /\ e.key = k
  BY <1>3, <1>6 DEF h
<1> QED
  BY <1>1, <1>5, <1>6 DEF e, h

\* So it answers with what was promised or not at all, and with what was promised
\* once every record is written.
LEMMA RecordsAnswer ==
    ASSUME Hash!HashAssumption, Hash!HashTyped, Hash!RecordsWritten, NEW k \in Hash!Keys
    PROVE  /\ Hash!HwLookup(k) = s9[k] \/ Hash!HwLookup(k) = Miss
           /\ (\A t \in Hash!Tables : Hash!Written(t) = DOMAIN s1[t].keys) => Hash!HwLookup(k) = s9[k]
<1> DEFINE e(t) == s7.mem[t][Hash!Hash(t, k, s7.hash_key)]
           in(t) == \E i \in DOMAIN s1[t].keys : s1[t].keys[i] = k
           d(t) == Hash!SlotOf(t, k).data
<1>1. 0 \in Hash!Tables /\ 1 \in Hash!Tables
  BY DEF Hash!Tables
<1>2. \A t \in Hash!Tables : e(t).vld /\ e(t).key = k => in(t) /\ e(t).data = d(t)
  BY LookupFacts
<1>3. \A t \in Hash!Tables : Hash!Written(t) = DOMAIN s1[t].keys /\ in(t) => e(t).vld /\ e(t).key = k
  BY LookupFacts
<1>4. ~(in(0) /\ in(1))
  BY DEF Hash!RecordsWritten, Hash!Consistent, Hash!Range
<1>5. s9[k] = IF in(0) THEN d(0) ELSE IF in(1) THEN d(1) ELSE Miss
  BY DEF Hash!RecordsWritten, Hash!ToolLookup
<1>6. Hash!HwLookup(k) = IF e(0).vld /\ e(0).key = k THEN e(0).data
                         ELSE IF e(1).vld /\ e(1).key = k THEN e(1).data ELSE Miss
  BY DEF Hash!HwLookup
<1> HIDE DEF e, in, d
<1>7. Hash!HwLookup(k) = s9[k] \/ Hash!HwLookup(k) = Miss
  BY <1>1, <1>2, <1>4, <1>5, <1>6
<1>8. ASSUME \A t \in Hash!Tables : Hash!Written(t) = DOMAIN s1[t].keys PROVE Hash!HwLookup(k) = s9[k]
  BY <1>1, <1>2, <1>3, <1>4, <1>5, <1>6, <1>8
<1> QED
  BY <1>7, <1>8

\* The inductive invariant implies the type invariant and the property.
LEMMA HashFromInv ==
    ASSUME Hash!HashAssumption, Hash!HashInv
    PROVE  Hash!TypeOK /\ Hash!CommitAnswers
<1>1. Hash!HashTyped /\ Hash!UploadKept
  BY DEF Hash!HashInv
<1>2. Hash!TypeOK
  <2>1. \A t \in Hash!Tables : s1[t].used \in -MaxCommands..Len(s1[t].keys)
          /\ Hash!Range(s1[t].keys) \subseteq Hash!Keys
    <3> TAKE t \in Hash!Tables
    <3>1. s1[t].used \in Int /\ s1[t].used >= -s11 /\ s1[t].used <= Len(s1[t].keys)
            /\ s11 \in 0..MaxCommands /\ MaxCommands \in Nat
          /\ Len(s1[t].keys) \in Nat
      BY <1>1, TabFacts DEF Hash!HashTyped, Hash!HashAssumption, Hash!MarkAssumption
    <3>2. Hash!Range(s1[t].keys) \subseteq Hash!Keys
      BY <1>1, TabFacts DEF Hash!Range
    <3> QED
      BY <3>1, <3>2
  <2>2. {s2, s3} \subseteq 0..(2^HashKeyWidth - 1) /\ s4 \in {1, 2} /\ (s8 = NoUpload \/ s5)
    BY <1>1 DEF Hash!HashTyped, Hash!HKeys
  <2> QED
    BY <2>1, <2>2 DEF Hash!TypeOK
<1>3. Hash!CommitAnswers
  <2> SUFFICES ASSUME s9 # Miss, NEW k \in Hash!Keys
               PROVE  Hash!HwLookup(k) = s9[k] \/ (s8 # NoUpload /\ Hash!HwLookup(k) = Miss)
    BY DEF Hash!CommitAnswers
  <2>1. CASE s8 = NoUpload
    BY <1>1, <2>1 DEF Hash!UploadKept
  <2>2. CASE s8 # NoUpload
    <3>1. Hash!RecordsWritten
      BY <1>1, <2>2 DEF Hash!UploadKept
    <3> QED
      BY <1>1, <2>2, <3>1, RecordsAnswer
  <2> QED
    BY <2>1, <2>2
<1> QED
  BY <1>2, <1>3

\* A command other than the upload keeps what the component answers.
\* A command other than an upload writes nothing to the component.
LEMMA EditKeepsUpload ==
    ASSUME Hash!HashAssumption, Hash!HashInv, s8 = NoUpload, UNCHANGED <<s7, s8, s9>>
    PROVE  Hash!UploadKept'
BY DEF Hash!HashInv, Hash!UploadKept, Hash!HwLookup

\* The start of an upload: the memories are emptied and the promise is taken.
LEMMA CommitStep ==
    ASSUME Hash!HashAssumption, Hash!HashInv, Hash!comm_commit
    PROVE  Hash!HashInv' /\ (Hash!Consistent => Hash!Consistent')
<1> DEFINE blank == [t \in Hash!Tables |-> Hash!EmptyMemory]
           lookups == [k \in Hash!Keys |-> Hash!ToolLookup(k)]
<1>1. Hash!HashTyped
  BY DEF Hash!HashInv
<1>2. /\ s8 = NoUpload /\ s11 \in Nat /\ s11' = s11 + 1 /\ s11' \in 0..MaxCommands /\ s5' = s5 /\ s5
      /\ UNCHANGED <<s1, s2, s3, s4, s6>> /\ s8' = [t |-> 0, j |-> 1]
      /\ s7' = [hash_key |-> s2, mem |-> blank]
      /\ s9' = IF Hash!Consistent THEN lookups ELSE Miss
  BY <1>1, CommandKeeps DEF Hash!comm_commit, Hash!Tool
<1>3. s8' \in [t : Hash!Tables, j : Nat \ {0}] /\ s8' # NoUpload /\ s8'.t = 0 /\ s8'.j = 1
  BY <1>2 DEF Hash!HashAssumption, Hash!MarkAssumption, Hash!Tables
<1>4. Hash!HashTyped'
  <2>1. \A u \in Hash!Tables : s1[u].used \in Int /\ s1[u].used >= -s11 /\ s1[u].used <= Len(s1[u].keys)
    BY <1>1 DEF Hash!HashTyped, Hash!TableRecords
  <2>2. \A u \in Hash!Tables : s1[u].used >= -s11'
    BY <1>2, <2>1
  <2> QED
    BY <1>1, <1>2, <1>3, <2>1, <2>2 DEF Hash!HashTyped
<1>5. Hash!Consistent => Hash!Consistent'
  BY <1>2 DEF Hash!Consistent, Hash!Sound, Hash!SlotOf
<1>6. ASSUME s9' # Miss PROVE Hash!RecordsWritten'
  <2>1. Hash!Consistent /\ Hash!Consistent' /\ s9' = lookups
    BY <1>2, <1>5, <1>6
  <2>2. lookups = [k \in Hash!Keys |-> Hash!ToolLookup(k)'] /\ s2 = s3
    BY <1>2, <2>1 DEF Hash!ToolLookup, Hash!SlotOf, Hash!Consistent
  <2>3. \A t \in Hash!Tables : Hash!Written(t)' = {}
    <3> TAKE t \in Hash!Tables
    <3>1. DOMAIN s1[t].keys = 1..Len(s1[t].keys)
      BY <1>1, TabFacts
    <3> QED
      BY <1>2, <1>3, <3>1 DEF Hash!Written, Hash!Tables
  <2>4. s7'.hash_key = s3' /\ s7'.mem = blank /\ s7' = [hash_key |-> s7'.hash_key, mem |-> s7'.mem]
    <3> HIDE DEF blank
    <3> QED
      BY <1>2, <2>2
  <2>5. DOMAIN s7'.mem = Hash!Tables /\ \A t \in Hash!Tables : DOMAIN s7'.mem[t] = Hash!Slots
    BY <2>4 DEF Hash!EmptyMemory
  <2>6. \A t \in Hash!Tables, s \in Hash!Slots : ~s7'.mem[t][s].vld
    BY <2>4 DEF Hash!EmptyMemory, Hash!EmptyEntry
  <2> QED
    BY <2>1, <2>2, <2>3, <2>4, <2>5, <2>6 DEF Hash!RecordsWritten
<1>7. Hash!UploadKept'
  BY <1>3, <1>6 DEF Hash!UploadKept
<1> QED
  BY <1>4, <1>5, <1>7 DEF Hash!HashInv

\* The upload goes to the second table, or ends with every record written.
LEMMA NextTableStep ==
    ASSUME Hash!HashAssumption, Hash!HashInv, Hash!CommitNextTable
    PROVE  Hash!HashInv' /\ (Hash!Consistent => Hash!Consistent')
<1>1. Hash!HashTyped /\ Hash!UploadKept
  BY DEF Hash!HashInv
<1>2. UNCHANGED <<s1, s2, s3, s4, s5, s6, s7, s9, s10, s11>> /\ s8 # NoUpload
      /\ s8.j > Len(s1[s8.t].keys)
      /\ s8' = IF s8.t + 1 < s4 THEN [t |-> s8.t + 1, j |-> 1] ELSE NoUpload
  BY DEF Hash!CommitNextTable, Hash!Tool
<1>3. s8.t \in Hash!Tables /\ s8.j \in Nat \ {0}
  BY <1>1, <1>2 DEF Hash!HashTyped
<1>4. Hash!HashTyped'
  <2>1. s8' \in [t : Hash!Tables, j : Nat \ {0}] \cup {NoUpload}
    <3>1. s8.t + 1 < s4 => s8.t + 1 \in Hash!Tables
      BY <1>1, <1>3 DEF Hash!HashTyped, Hash!Tables
    <3> QED
      BY <1>2, <3>1
  <2>2. s5
    BY <1>1, <1>2 DEF Hash!HashTyped
  <2> QED
    BY <1>1, <1>2, <2>1, <2>2 DEF Hash!HashTyped
<1>5. Hash!Consistent => Hash!Consistent'
  BY <1>2 DEF Hash!Consistent, Hash!Sound, Hash!SlotOf
<1>6. ASSUME s9 # Miss PROVE IF s8' = NoUpload THEN \A k \in Hash!Keys : Hash!HwLookup(k)' = s9'[k]
        ELSE Hash!RecordsWritten'
  <2>1. Hash!RecordsWritten
    BY <1>1, <1>2, <1>6 DEF Hash!UploadKept
  <2>2. s4 = 2
    BY <2>1 DEF Hash!RecordsWritten, Hash!Consistent
  <2>3. \A t \in Hash!Tables : DOMAIN s1[t].keys = 1..Len(s1[t].keys) /\ Len(s1[t].keys) \in Nat
    BY <1>1, TabFacts
  <2>4. CASE s8.t = 0
    <3>1. s8' = [t |-> 1, j |-> 1] /\ s8' # NoUpload /\ s8'.t = 1 /\ s8'.j = 1
      BY <1>2, <2>2, <2>4 DEF Hash!HashAssumption, Hash!MarkAssumption, Hash!Tables
    <3>2. \A t \in Hash!Tables : Hash!Written(t)' = Hash!Written(t)
      <4> TAKE t \in Hash!Tables
      <4>1. CASE t = 0
        BY <1>2, <1>3, <2>3, <2>4, <3>1, <4>1 DEF Hash!Written
      <4>2. CASE t = 1
        BY <1>2, <1>3, <2>3, <2>4, <3>1, <4>2 DEF Hash!Written
      <4> QED
        BY <4>1, <4>2 DEF Hash!Tables
    <3>3. s9' = [k \in Hash!Keys |-> Hash!ToolLookup(k)']
      BY <1>2, <2>1 DEF Hash!RecordsWritten, Hash!ToolLookup, Hash!SlotOf
    <3>4. Hash!RecordsWritten'
      BY <1>2, <1>5, <2>1, <3>2, <3>3 DEF Hash!RecordsWritten, Hash!SlotOf
    <3> QED
      BY <3>1, <3>4
  <2>5. CASE s8.t = 1
    <3>1. s8' = NoUpload
      BY <1>2, <2>2, <2>5
    <3>2. \A t \in Hash!Tables : Hash!Written(t) = DOMAIN s1[t].keys
      <4> TAKE t \in Hash!Tables
      <4>1. CASE t = 0
        BY <2>5, <4>1 DEF Hash!Written
      <4>2. CASE t = 1
        BY <1>2, <1>3, <2>3, <2>5, <4>2 DEF Hash!Written
      <4> QED
        BY <4>1, <4>2 DEF Hash!Tables
    <3>3. \A k \in Hash!Keys : Hash!HwLookup(k) = s9[k]
      BY <1>1, <2>1, <3>2, RecordsAnswer
    <3>4. \A k \in Hash!Keys : Hash!HwLookup(k)' = Hash!HwLookup(k)
      BY <1>2 DEF Hash!HwLookup
    <3> QED
      BY <1>2, <3>1, <3>3, <3>4
  <2> QED
    BY <1>3, <2>4, <2>5 DEF Hash!Tables
<1>7. Hash!UploadKept'
  BY <1>2, <1>6 DEF Hash!UploadKept
<1> QED
  BY <1>4, <1>5, <1>7 DEF Hash!HashInv

\* The upload writes one record, or ends at data that are no number.
LEMMA RecordStep ==
    ASSUME Hash!HashAssumption, Hash!HashInv, Hash!CommitRecord
    PROVE  Hash!HashInv' /\ (Hash!Consistent => Hash!Consistent')
<1> DEFINE T == s8.t
           k == s1[T].keys[s8.j]
           d == Hash!SlotOf(T, k).data
           h == Hash!Hash(T, k, s3)
<1>1. Hash!HashTyped /\ Hash!UploadKept
  BY DEF Hash!HashInv
<1>2. UNCHANGED <<s1, s2, s3, s4, s5, s6, s9, s10, s11>> /\ s8 # NoUpload
      /\ s8.j <= Len(s1[T].keys)
  BY DEF Hash!CommitRecord, Hash!Tool
<1>3. \/ d \in Nat /\ s7' = [s7 EXCEPT !.mem[T][h] = Hash!Entry(k, d)] /\ s8' = [s8 EXCEPT !.j = @ + 1]
      \/ d \notin Nat /\ s8' = NoUpload /\ UNCHANGED s7
  BY DEF Hash!CommitRecord
<1>4. T \in Hash!Tables /\ s8.j \in Nat \ {0} /\ s8 \in [t : Hash!Tables, j : Nat \ {0}] /\ s5
  BY <1>1, <1>2 DEF Hash!HashTyped
<1>5. ASSUME d \in Nat PROVE s8' = [t |-> T, j |-> s8.j + 1] /\ s8' # NoUpload /\ s8'.t = T
        /\ s8'.j = s8.j + 1
  <2>1. s8' = [s8 EXCEPT !.j = @ + 1]
    BY <1>3, <1>5
  <2>2. s8 = [t |-> T, j |-> s8.j]
    BY <1>4
  <2>3. s8' = [t |-> T, j |-> s8.j + 1]
    BY <2>1, <2>2
  <2>4. s8' \in [t : Hash!Tables, j : Nat]
    BY <1>4, <2>3
  <2> QED
    BY <2>3, <2>4 DEF Hash!HashAssumption, Hash!MarkAssumption
<1>6. Hash!HashTyped'
  <2>1. s8' \in [t : Hash!Tables, j : Nat \ {0}] \cup {NoUpload}
    <3>1. CASE d \in Nat
      BY <1>4, <1>5, <3>1
    <3>2. CASE d \notin Nat
      BY <1>3, <3>2
    <3> QED
      BY <3>1, <3>2
  <2> QED
    BY <1>1, <1>2, <1>4, <2>1 DEF Hash!HashTyped
<1>7. Hash!Consistent => Hash!Consistent'
  BY <1>2 DEF Hash!Consistent, Hash!Sound, Hash!SlotOf
<1>8. ASSUME s9 # Miss PROVE s8' # NoUpload /\ Hash!RecordsWritten'
  <2>1. Hash!RecordsWritten
    BY <1>1, <1>2, <1>8 DEF Hash!UploadKept
  <2>2. s8.j \in DOMAIN s1[T].keys /\ DOMAIN s1[T].keys = 1..Len(s1[T].keys) /\ k \in Hash!Keys
          /\ h \in Hash!Slots
    <3> HIDE DEF T
    <3>1. /\ DOMAIN s1[T].keys = 1..Len(s1[T].keys) /\ Len(s1[T].keys) \in Nat
          /\ \A i \in 1..Len(s1[T].keys) : s1[T].keys[i] \in Hash!Keys
                /\ Hash!Hash(T, s1[T].keys[i], s3) \in Hash!Slots
      BY <1>1, <1>4, TabFacts
    <3>2. s8.j \in 1..Len(s1[T].keys)
      BY <1>2, <1>4, <3>1
    <3> QED
      BY <3>1, <3>2
  <2>3. Hash!GoodData(d)
    BY <1>4, <2>1, <2>2 DEF Hash!RecordsWritten, Hash!Consistent, Hash!Sound
  <2>4. d \in Nat
    <3> DEFINE D == 2^DataWidth
    <3>1. d \in 0..(D - 1) /\ D \in Nat
      BY <2>3, Sizes DEF Hash!GoodData
    <3> HIDE DEF d, D
    <3> QED
      BY <3>1
  <2> DEFINE new == [vld |-> TRUE, key |-> k, data |-> d]
             m == s7.mem
             m1 == s7'.mem
  <2>5. s7' = [s7 EXCEPT !.mem[T][h] = new]
    BY <1>3, <2>2, <2>3, <2>4, EntryHolds
  <2> HIDE DEF new
  <2>6. s7' = [hash_key |-> s7.hash_key, mem |-> m1] /\ s7'.hash_key = s7.hash_key
          /\ m1 = [m EXCEPT ![T][h] = new]
    BY <2>1, <2>5 DEF Hash!RecordsWritten
  <2>7. DOMAIN m = Hash!Tables /\ \A t \in Hash!Tables : DOMAIN m[t] = Hash!Slots
    BY <2>1 DEF Hash!RecordsWritten
  <2> HIDE DEF m, m1, h, d, k, T
  <2>8. /\ DOMAIN m1 = Hash!Tables /\ \A t \in Hash!Tables : DOMAIN m1[t] = Hash!Slots
        /\ m1[T][h] = new
        /\ \A t \in Hash!Tables : \A s \in Hash!Slots : ~(t = T /\ s = h) => m1[t][s] = m[t][s]
    BY <1>4, <2>2, <2>6, <2>7
  <2>9. \A t \in Hash!Tables : \A i : i \in Hash!Written(t)' <=> i \in Hash!Written(t) \/ (t = T
          /\ i = s8.j)
    <3> TAKE t \in Hash!Tables
    <3> TAKE i
    <3>5. DOMAIN s1[t].keys = 1..Len(s1[t].keys) /\ Len(s1[t].keys) \in Nat
      BY <1>1, TabFacts
    <3>1. \A n \in DOMAIN s1[t].keys : n \in Nat
      BY <3>5
    <3>2. i \in Hash!Written(t)' <=> i \in DOMAIN s1[t].keys /\ (t < T \/ (t = T /\ i < s8.j + 1))
      BY <1>2, <1>5, <2>4 DEF Hash!Written
    <3>3. i \in Hash!Written(t) <=> i \in DOMAIN s1[t].keys /\ (t < T \/ (t = T /\ i < s8.j))
      BY DEF Hash!Written, T
    <3>4. t = T => ~(t < T)
      BY <1>4 DEF Hash!Tables
    <3> QED
      BY <1>4, <2>2, <3>1, <3>2, <3>3, <3>4
  <2>10. \A i \in DOMAIN s1[T].keys : i # s8.j => Hash!Hash(T, s1[T].keys[i], s3) # h
    BY <1>4, <2>1, <2>2 DEF Hash!RecordsWritten, Hash!Consistent, Hash!Sound, h, k
  <2>11. \A t \in Hash!Tables : \A i \in Hash!Written(t) :
            m[t][Hash!Hash(t, s1[t].keys[i], s3)] =
               [vld |-> TRUE, key |-> s1[t].keys[i], data |-> Hash!SlotOf(t, s1[t].keys[i]).data]
    BY <2>1 DEF Hash!RecordsWritten, m
  <2>12. \A t \in Hash!Tables : \A i \in Hash!Written(t) : i \in DOMAIN s1[t].keys
           /\ Hash!Hash(t, s1[t].keys[i], s3) \in Hash!Slots
    BY <1>1, TabFacts DEF Hash!Written
  <2>13. \A i \in Hash!Written(T) : i # s8.j
    BY <1>4 DEF Hash!Written, T, Hash!Tables
  <2>14. ASSUME NEW t \in Hash!Tables, NEW i \in Hash!Written(t)'
         PROVE  m1[t][Hash!Hash(t, s1[t].keys[i], s3)] =
                   [vld |-> TRUE, key |-> s1[t].keys[i], data |-> Hash!SlotOf(t, s1[t].keys[i]).data]
    <3>1. CASE i \in Hash!Written(t)
      <4> DEFINE x == [vld |-> TRUE, key |-> s1[t].keys[i], data |-> Hash!SlotOf(t, s1[t].keys[i]).data]
                 g == Hash!Hash(t, s1[t].keys[i], s3)
      <4>1. m[t][g] = x /\ g \in Hash!Slots /\ ~(t = T /\ g = h)
        BY <2>10, <2>11, <2>12, <2>13, <3>1
      <4> HIDE DEF x, g
      <4>2. m1[t][g] = x
        BY <2>8, <4>1
      <4> QED
        BY <4>2 DEF x, g
    <3>2. CASE i \notin Hash!Written(t)
      <4>1. t = T /\ i = s8.j
        BY <2>9, <2>14, <3>2
      <4> QED
        BY <2>8, <4>1 DEF new, h, k, d
    <3> QED
      BY <3>1, <3>2
  <2>15. ASSUME NEW t \in Hash!Tables, NEW s \in Hash!Slots, m1[t][s].vld
         PROVE  \E i \in Hash!Written(t)' : Hash!Hash(t, s1[t].keys[i], s3) = s
    <3>1. CASE t = T /\ s = h
      <4>1. s8.j \in Hash!Written(t)'
        BY <2>9, <3>1
      <4> QED
        BY <3>1, <4>1 DEF h, k
    <3>2. CASE ~(t = T /\ s = h)
      <4>1. m[t][s].vld
        BY <2>8, <2>15, <3>2
      <4>2. PICK i \in Hash!Written(t) : Hash!Hash(t, s1[t].keys[i], s3) = s
        BY <2>1, <4>1 DEF Hash!RecordsWritten, m
      <4> QED
        BY <2>9, <4>2
    <3> QED
      BY <3>1, <3>2
  <2>16. s9' = [x \in Hash!Keys |-> Hash!ToolLookup(x)']
    BY <1>2, <2>1 DEF Hash!RecordsWritten, Hash!ToolLookup, Hash!SlotOf
  <2>17. Hash!Consistent' /\ s7'.hash_key = s3'
    BY <1>2, <1>7, <2>1, <2>6 DEF Hash!RecordsWritten
  <2>18. \A t \in Hash!Tables : \A i \in Hash!Written(t)' :
            LET kk == s1'[t].keys[i]
            IN  s7'.mem[t][Hash!Hash(t, kk, s3')] =
                   [vld |-> TRUE, key |-> kk, data |-> s1'[t].slot[Hash!Hash(t, kk, s3')].data]
    <3> TAKE t \in Hash!Tables
    <3> TAKE i \in Hash!Written(t)'
    <3>1. s1' = s1 /\ s3' = s3
      BY <1>2
    <3> DEFINE x == s1[t].keys[i]
               g == Hash!Hash(t, x, s3)
               y == s1[t].slot[g].data
               z == [vld |-> TRUE, key |-> x, data |-> y]
    <3>2. m1[t][g] = z
      BY <2>14 DEF Hash!SlotOf
    <3>3. (LET kk == s1'[t].keys[i]
           IN  s7'.mem[t][Hash!Hash(t, kk, s3')] =
                  [vld |-> TRUE, key |-> kk, data |-> s1'[t].slot[Hash!Hash(t, kk, s3')].data])
          <=> m1[t][g] = z
      BY <3>1, Zenon DEF m1
    <3> QED
      BY <3>2, <3>3
  <2>19. \A t \in Hash!Tables, s \in Hash!Slots :
            s7'.mem[t][s].vld => \E i \in Hash!Written(t)' : Hash!Hash(t, s1'[t].keys[i], s3') = s
    BY <1>2, <2>15 DEF m1
  <2>20. Hash!RecordsWritten'
    <3>1. s7' = [hash_key |-> s7'.hash_key, mem |-> s7'.mem]
      BY <2>6 DEF m1
    <3>2. DOMAIN s7'.mem = Hash!Tables /\ \A t \in Hash!Tables : DOMAIN s7'.mem[t] = Hash!Slots
      BY <2>8 DEF m1
    <3> QED
      BY <2>16, <2>17, <2>18, <2>19, <3>1, <3>2 DEF Hash!RecordsWritten, Hash!SlotOf
  <2> QED
    BY <1>5, <2>4, <2>20
<1>9. Hash!UploadKept'
  BY <1>2, <1>8 DEF Hash!UploadKept
<1> QED
  BY <1>6, <1>7, <1>9 DEF Hash!HashInv

\* Every step keeps the inductive invariant, and leaves consistent tables and a
\* file that loads back when its command had arguments it may rely on.
LEMMA HashStep ==
    ASSUME Hash!HashAssumption, Hash!HashInv, [Hash!Next]_(Hash!vars)
    PROVE  Hash!HashInv' /\ Hash!StaysConsistent
<1>1. Hash!HashTyped
  BY DEF Hash!HashInv
<1>2. ASSUME Hash!HashTyped', s8 = NoUpload, UNCHANGED <<s7, s8, s9>> PROVE Hash!HashInv'
  BY <1>2, EditKeepsUpload DEF Hash!HashInv
<1>3. ASSUME NEW k \in Hash!Keys, NEW d \in TableData, NEW t \in Hash!Tables, Hash!comm_add(k, d, t)
        PROVE Hash!HashInv' /\ Hash!StaysConsistent
  <2>1. s8 = NoUpload /\ UNCHANGED <<s7, s8, s9, s6>>
    BY <1>3 DEF Hash!comm_add, Hash!Command, Hash!Rest
  <2> QED
    BY <1>1, <1>2, <1>3, <2>1, AddStep DEF Hash!StaysConsistent
<1>4. ASSUME NEW t \in Hash!Tables, NEW n \in Hash!Numbers, Hash!comm_remove_record(t, n)
        PROVE Hash!HashInv' /\ Hash!StaysConsistent
  <2>1. s8 = NoUpload /\ UNCHANGED <<s7, s8, s9, s6>>
    BY <1>4 DEF Hash!comm_remove_record, Hash!Command, Hash!Rest
  <2> QED
    BY <1>1, <1>2, <1>4, <2>1, RemoveRecordStep DEF Hash!StaysConsistent
<1>5. Hash!Numbers \subseteq Int
  BY DEF Hash!Numbers
<1>6. ASSUME NEW t \in Hash!Tables, NEW n \in Hash!Numbers, Hash!comm_remove_hash(t, n)
        PROVE Hash!HashInv' /\ Hash!StaysConsistent
  <2>1. s8 = NoUpload /\ UNCHANGED <<s7, s8, s9, s6>>
    BY <1>6 DEF Hash!comm_remove_hash, Hash!Command, Hash!Rest
  <2> QED
    BY <1>1, <1>2, <1>5, <1>6, <2>1, RemoveHashStep DEF Hash!StaysConsistent
<1>7. ASSUME NEW t \in Hash!Tables, NEW n \in Hash!Numbers, NEW k \in Hash!Keys, NEW d \in TableData,
        Hash!comm_replace(t, n, k, d)
      PROVE  Hash!HashInv' /\ Hash!StaysConsistent
  <2>1. s8 = NoUpload /\ UNCHANGED <<s7, s8, s9, s6>>
    BY <1>7 DEF Hash!comm_replace, Hash!Command, Hash!Rest
  <2> QED
    BY <1>1, <1>2, <1>5, <1>7, <2>1, ReplaceStep DEF Hash!StaysConsistent
<1>8. ASSUME NEW t \in Hash!Tables, Hash!comm_clear(t) PROVE Hash!HashInv' /\ Hash!StaysConsistent
  <2>1. s8 = NoUpload /\ UNCHANGED <<s7, s8, s9, s6>>
    BY <1>8 DEF Hash!comm_clear, Hash!Command, Hash!Rest
  <2> QED
    BY <1>1, <1>2, <1>8, <2>1, ClearStep DEF Hash!StaysConsistent
<1>9. ASSUME Hash!comm_save PROVE Hash!HashInv' /\ Hash!StaysConsistent
  <2>1. s8 = NoUpload /\ UNCHANGED <<s7, s8, s9>>
    BY <1>9 DEF Hash!comm_save, Hash!Command
  <2> QED
    BY <1>1, <1>2, <1>9, <2>1, SaveStep DEF Hash!StaysConsistent
<1>10. ASSUME NEW f \in HandFiles \cup {s6}, Hash!comm_load(f) PROVE Hash!HashInv' /\ Hash!StaysConsistent
  <2>1. s8 = NoUpload /\ UNCHANGED <<s7, s8, s9, s6>>
    BY <1>10 DEF Hash!comm_load, Hash!Command, Hash!Rest
  <2> QED
    BY <1>1, <1>2, <1>10, <2>1, LoadStep DEF Hash!StaysConsistent
<1>11. ASSUME Hash!comm_commit PROVE Hash!HashInv' /\ Hash!StaysConsistent
  <2>1. UNCHANGED s6
    BY <1>11 DEF Hash!comm_commit
  <2> QED
    BY <1>11, <2>1, CommitStep DEF Hash!StaysConsistent
<1>12. ASSUME Hash!CommitRecord PROVE Hash!HashInv' /\ Hash!StaysConsistent
  <2>1. UNCHANGED s6
    BY <1>12 DEF Hash!CommitRecord
  <2> QED
    BY <1>12, <2>1, RecordStep DEF Hash!StaysConsistent
<1>13. ASSUME Hash!CommitNextTable PROVE Hash!HashInv' /\ Hash!StaysConsistent
  <2>1. UNCHANGED s6
    BY <1>13 DEF Hash!CommitNextTable
  <2> QED
    BY <1>13, <2>1, NextTableStep DEF Hash!StaysConsistent
<1>14. ASSUME UNCHANGED Hash!vars PROVE Hash!HashInv' /\ Hash!StaysConsistent
  <2>1. UNCHANGED <<s1, s2, s3, s4, s5, s6, s7, s8, s9, s10, s11>>
    BY <1>14 DEF Hash!vars
  <2>2. Hash!HashTyped'
    BY <1>1, <2>1 DEF Hash!HashTyped
  <2>3. Hash!Consistent => Hash!Consistent'
    BY <2>1 DEF Hash!Consistent, Hash!Sound, Hash!SlotOf
  <2>4. Hash!UploadKept'
    <3>1. \A k \in Hash!Keys : Hash!HwLookup(k)' = Hash!HwLookup(k)
            /\ Hash!ToolLookup(k)' = Hash!ToolLookup(k)
      BY <2>1 DEF Hash!HwLookup, Hash!ToolLookup, Hash!SlotOf
    <3>2. \A t \in Hash!Tables : Hash!Written(t)' = Hash!Written(t)
      BY <2>1 DEF Hash!Written
    <3>3. Hash!RecordsWritten => Hash!RecordsWritten'
      BY <2>1, <2>3, <3>1, <3>2 DEF Hash!RecordsWritten, Hash!SlotOf
    <3> QED
      BY <2>1, <3>1, <3>3 DEF Hash!HashInv, Hash!UploadKept
  <2> QED
    BY <2>1, <2>2, <2>3, <2>4 DEF Hash!HashInv, Hash!StaysConsistent
<1> QED
  BY <1>3, <1>4, <1>6, <1>7, <1>8, <1>9, <1>10, <1>11, <1>12, <1>13, <1>14 DEF Hash!Next

\* For every width of keys, data and hashes: the tables stay consistent through
\* every command, a file that was saved loads back, and while a sound upload runs
\* the component answers what the tool held or nothing (toolkit.py).
THEOREM TablesKept ==
    ASSUME Hash!HashAssumption PROVE Hash!Spec => [](Hash!TypeOK /\ Hash!CommitAnswers)
           /\ [][Hash!StaysConsistent]_(Hash!vars)
<1>1. Hash!Init => Hash!HashInv
  BY HashInit
<1>2. Hash!HashInv /\ [Hash!Next]_(Hash!vars) => Hash!HashInv' /\ Hash!StaysConsistent
  BY HashStep
<1>3. Hash!HashInv => Hash!TypeOK /\ Hash!CommitAnswers
  BY HashFromInv
<1> QED
  BY <1>1, <1>2, <1>3, PTL DEF Hash!Spec

(* ---- The rate limiter, the time stamp limiter and the speed meter ------- *)
\* s1 the registers of the rate limiter, s2 the configuration asked for, s3 the
\* time stamp limiter, s4 the speed meter, s5 a speed asked from it, s6 the methods
\* called.

\* Quotient and remainder.
LEMMA Division ==
    ASSUME NEW a \in Nat, NEW b \in Nat \ {0}
    PROVE  /\ a \div b \in Nat /\ a % b \in 0..(b - 1)
           /\ a = b * (a \div b) + (a % b)
<1>1. a \div b \in Int /\ a % b \in 0..(b - 1) /\ a = b * (a \div b) + (a % b)
  BY SMT
<1>2. a \div b >= 0
  BY SMT
<1> QED
  BY <1>1, <1>2

\* Division rounded up.
LEMMA CeilDivFact ==
    ASSUME NEW a \in Nat, NEW b \in Nat \ {0}
    PROVE  Limiter!CeilDiv(a, b) \in Nat /\ Limiter!CeilDiv(a, b) * b - a \in 0..(b - 1)
<1> DEFINE c == a + b - 1
           q == c \div b
           r == c % b
<1>1. c \in Nat
  OBVIOUS
<1>2. q \in Nat /\ r \in 0..(b - 1) /\ c = b * q + r
  BY <1>1, Division
<1>3. q = Limiter!CeilDiv(a, b)
  BY DEF Limiter!CeilDiv
<1> HIDE DEF q, r
<1>4. q * b - a = b - 1 - r
  BY <1>2, SMT
<1>5. QED
  BY <1>2, <1>3, <1>4

\* The section length that suits one speed, rounded to whole clock ticks.
LEMMA FixNat ==
    ASSUME Limiter!LimiterAssumption, NEW speed \in Nat \ {0}, NEW sec \in Nat
    PROVE  Limiter!_fix_sec_len(speed, sec) \in Nat
<1>1. MinSpeed * TicksPerSec \in Nat
  BY DEF Limiter!LimiterAssumption
<1>2. (MinSpeed * TicksPerSec) \div speed \in Nat
  BY <1>1, Division
<1> QED
  BY <1>2 DEF Limiter!_fix_sec_len

\* A register word is the speed asked for, rounded up by less than one byte.
LEMMA ConvExact ==
    ASSUME Limiter!LimiterAssumption, NEW speed \in Nat \ {0}, NEW sec \in Nat
    PROVE  /\ Limiter!_conv_Gbs2Bscn(speed, sec) \in Nat
           /\ Limiter!_conv_Gbs2Bscn(speed, sec) * TicksPerSec - speed * Limiter!_fix_sec_len(speed, sec)
                 \in 0..(TicksPerSec - 1)
<1> DEFINE f == Limiter!_fix_sec_len(speed, sec)
<1>1. f \in Nat
  BY FixNat
<1>2. speed * f \in Nat
  BY <1>1
<1>3. TicksPerSec \in Nat \ {0}
  BY DEF Limiter!LimiterAssumption
<1> HIDE DEF f
<1>4. Limiter!CeilDiv(speed * f, TicksPerSec) \in Nat
        /\ Limiter!CeilDiv(speed * f, TicksPerSec) * TicksPerSec - speed * f \in 0..(TicksPerSec - 1)
  BY <1>2, <1>3, CeilDivFact
<1> QED
  BY <1>4 DEF Limiter!_conv_Gbs2Bscn, f

\* What a register word is printed as is never below the speed it was set for.
LEMMA PrintedEnough ==
    ASSUME Limiter!LimiterAssumption, NEW speed \in Nat \ {0}, NEW sec \in Nat \ {0}, NEW reg \in Nat,
           reg * TicksPerSec - speed * sec \in 0..(TicksPerSec - 1)
    PROVE  Limiter!_conv_Bscn2Gbs(reg, sec) >= speed
<1> DEFINE p == reg * TicksPerSec
           d == speed * sec
           n == 2 * reg * TicksPerSec + sec
           m == 2 * sec
           q == n \div m
           r == n % m
<1>1. TicksPerSec \in Nat \ {0}
  BY DEF Limiter!LimiterAssumption
<1>2. p \in Nat /\ d \in Nat /\ p >= d
  BY <1>1
<1>3. n = 2 * p + sec
  BY <1>1
<1>4. n \in Nat /\ m \in Nat \ {0}
  BY <1>2, <1>3
<1>5. q \in Nat /\ r \in 0..(m - 1) /\ n = m * q + r
  BY <1>4, Division
<1>6. m * q >= 2 * d + sec - m + 1
  BY <1>2, <1>3, <1>5
<1>7. ASSUME q <= speed - 1 PROVE FALSE
  <2>1. m * q <= m * (speed - 1)
    <3> HIDE DEF q, m
    <3> QED
      BY <1>4, <1>5, <1>7
  <2>2. m * (speed - 1) = 2 * d - m
    OBVIOUS
  <2> QED
    BY <1>2, <1>4, <1>5, <1>6, <2>1, <2>2
<1> QED
  BY <1>5, <1>7 DEF Limiter!_conv_Bscn2Gbs

\* The speeds of a configuration are cut to the number of intervals.
LEMMA KeptType ==
    ASSUME Limiter!LimiterAssumption, NEW cfg \in Limiter!Cfgs
    PROVE  Limiter!Kept(cfg) \in Seq(Nat \ {0}) /\ Len(Limiter!Kept(cfg)) \in 0..IntervalCount
         /\ cfg.sec \in Nat \ {0}
           /\ cfg.int \in Nat /\ cfg.pkts \in BOOLEAN
<1>1. cfg.speed \in Seq(Nat \ {0}) /\ cfg.sec \in Nat \ {0} /\ cfg.int \in Nat /\ cfg.pkts \in BOOLEAN
  BY DEF Limiter!LimiterAssumption, Limiter!Cfgs
<1>2. IntervalCount \in Nat \ {0}
  BY DEF Limiter!LimiterAssumption
<1>3. CASE Len(cfg.speed) > IntervalCount
  BY <1>1, <1>2, <1>3 DEF Limiter!Kept
<1>4. CASE ~(Len(cfg.speed) > IntervalCount)
  BY <1>1, <1>2, <1>4 DEF Limiter!Kept
<1> QED
  BY <1>1, <1>3, <1>4

\* A configuration writes registers of their types whatever fails on the way.
LEMMA ConfiguredType ==
    ASSUME Limiter!LimiterAssumption, s1 \in Limiter!Regs, NEW cfg \in Limiter!Cfgs,
           NEW fail \in Limiter!Fails
    PROVE  /\ Limiter!Configured(cfg, fail) \in Limiter!Regs
           /\ Len(Limiter!Configured(cfg, fail).speeds) \in 1..IntervalCount
<1> DEFINE speeds == Limiter!Kept(cfg)
           written == CASE fail = "output_speed" \/ speeds = <<>> -> 0
                     [] fail = "last_speed" /\ speeds # <<>>  -> Len(speeds) - 1
                     [] OTHER -> Len(speeds)
           conv == [i \in 1..written |-> Limiter!_conv_Gbs2Bscn(speeds[i], cfg.sec)]
<1>1. /\ speeds \in Seq(Nat \ {0}) /\ Len(speeds) \in 0..IntervalCount
      /\ cfg.sec \in Nat \ {0} /\ cfg.int \in Nat /\ cfg.pkts \in BOOLEAN
  BY KeptType
<1>2. IntervalCount \in Nat \ {0}
  BY DEF Limiter!LimiterAssumption
<1>3. written \in 0..Len(speeds)
  BY <1>1 DEF Limiter!Fails
<1>4. \A i \in 1..written : speeds[i] \in Nat \ {0}
  BY <1>1, <1>3
<1>5. \A i \in 1..written : Limiter!_conv_Gbs2Bscn(speeds[i], cfg.sec) \in Nat
  BY <1>1, <1>4, ConvExact
<1>6. conv \in Seq(Nat) /\ Len(conv) = written
  BY <1>1, <1>3, <1>5
<1>7. ASSUME written # 0 PROVE Limiter!_fix_sec_len(speeds[written], cfg.sec) \in Nat
  <2>1. written \in 1..written /\ cfg.sec \in Nat
    <3> HIDE DEF written
    <3> QED
      BY <1>1, <1>3, <1>7
  <2>2. speeds[written] \in Nat \ {0}
    BY <1>4, <2>1
  <2> QED
    BY <2>1, <2>2, FixNat
<1>8. DefaultRegs.speeds \in Seq(Nat) /\ Len(DefaultRegs.speeds) \in 1..IntervalCount
  BY DEF Limiter!LimiterAssumption
<1> HIDE DEF speeds
<1>9. Limiter!Configured(cfg, fail) =
       [state   |-> "CONF",
         sec_len |-> IF fail = "interval_length" \/ written = 0 THEN cfg.sec
                     ELSE Limiter!_fix_sec_len(speeds[written], cfg.sec),
         int_len |-> IF fail = "interval_length" THEN s1.int_len ELSE cfg.int,
         speeds  |-> IF fail = "interval_length" \/ written = 0 THEN DefaultRegs.speeds
                     ELSE conv,
         pkts    |-> cfg.pkts]
  BY DEF Limiter!Configured, speeds
<1> HIDE DEF written, conv
<1>10. s1.int_len \in Nat
  BY DEF Limiter!Regs
<1> QED
  BY <1>1, <1>2, <1>3, <1>6, <1>7, <1>8, <1>9, <1>10 DEF Limiter!Regs

\* A configuration nothing failed in writes one register word per speed, and the
\* section length that suits the last.
LEMMA ConfiguredProgrammed ==
    ASSUME Limiter!LimiterAssumption, NEW cfg \in Limiter!Cfgs, Limiter!Kept(cfg) # <<>>
    PROVE  /\ Limiter!Configured(cfg, "none").speeds = [i \in 1..Len(Limiter!Kept(cfg)) |-> Limiter!_conv_Gbs2Bscn(Limiter!Kept(cfg)[i], cfg.sec)]
           /\ Limiter!Configured(cfg, "none").sec_len = Limiter!_fix_sec_len(Limiter!Kept(cfg)[Len(Limiter!Kept(cfg))], cfg.sec)
<1>1. Limiter!Kept(cfg) \in Seq(Nat \ {0})
  BY KeptType
<1>2. Len(Limiter!Kept(cfg)) # 0
  BY <1>1
<1> QED
  BY <1>2 DEF Limiter!Configured

\* The limiter starts idle with the registers of its reset.
LEMMA LimiterInit == ASSUME Limiter!LimiterAssumption, Limiter!Init PROVE Limiter!LimiterInv
<1>1. s1 \in Limiter!Regs
  BY DEF Limiter!LimiterAssumption, Limiter!Init, Limiter!Regs
<1>2. Limiter!TypeOK
  <2>1. 0 # MeterTicks /\ 0 \in 0..MeterTicks
    BY DEF Limiter!LimiterAssumption
  <2>2. /\ s4.done = FALSE /\ s4.ticks = 0 /\ s5.pc = "idle"
        /\ s3.select \subseteq Queues /\ s3.was_reset \subseteq Queues
    BY DEF Limiter!Init
  <2>3. s1.state \in {"IDLE", "CONF", "RUN"} /\ s1.sec_len \in Nat /\ Len(s1.speeds) \in 1..IntervalCount
    BY DEF Limiter!Init, Limiter!LimiterAssumption
  <2> QED
    BY <2>1, <2>2, <2>3 DEF Limiter!TypeOK
<1>3. Limiter!LimiterTyped
  BY <1>1 DEF Limiter!LimiterAssumption, Limiter!Init, Limiter!LimiterTyped
<1> QED
  BY <1>2, <1>3 DEF Limiter!Init, Limiter!LimiterInv, Limiter!Programmed

\* Every method keeps the registers in the state asked for.
LEMMA LimiterStep ==
    ASSUME Limiter!LimiterAssumption, Limiter!LimiterInv, [Limiter!Next]_(Limiter!vars)
    PROVE  Limiter!LimiterInv'
<1> USE DEF Limiter!LimiterInv, Limiter!LimiterTyped
<1>0. None \notin Limiter!Cfgs /\ Partial \notin Limiter!Cfgs
  BY DEF Limiter!LimiterAssumption
<1>1. ASSUME NEW cfg \in Limiter!Cfgs, NEW fail \in Limiter!Fails, Limiter!configure(cfg, fail)
        PROVE Limiter!LimiterInv'
  <2>1. CASE fail = "section_length" \/ cfg.sec >= TicksPerSec
    <3>1. s1' = [s1 EXCEPT !.pkts = cfg.pkts] /\ UNCHANGED <<s2, s3, s4, s5>>
      BY <1>1, <2>1 DEF Limiter!configure
    <3>2. cfg.pkts \in BOOLEAN
      BY KeptType
    <3>3. s1' \in Limiter!Regs /\ s1'.state = s1.state /\ s1'.speeds = s1.speeds /\ s1'.sec_len = s1.sec_len
      BY <3>1, <3>2 DEF Limiter!Regs
    <3>4. Limiter!TypeOK'
      BY <3>1, <3>3 DEF Limiter!TypeOK
    <3>5. Limiter!Programmed'
      BY <3>1, <3>3 DEF Limiter!Programmed, Limiter!Kept
    <3> QED
      BY <3>1, <3>3, <3>4, <3>5
  <2>2. CASE ~(fail = "section_length" \/ cfg.sec >= TicksPerSec)
    <3>1. /\ s1' = Limiter!Configured(cfg, fail) /\ s2' = IF fail = "none" THEN cfg ELSE Partial
          /\ UNCHANGED <<s3, s4, s5>>
      BY <1>1, <2>2 DEF Limiter!configure
    <3>2. s1' \in Limiter!Regs /\ Len(s1'.speeds) \in 1..IntervalCount
      BY <3>1, ConfiguredType
    <3>3. Limiter!TypeOK'
      BY <3>1, <3>2 DEF Limiter!TypeOK, Limiter!Regs
    <3>4. Limiter!Programmed'
      <4>1. CASE fail # "none"
        BY <3>1, <4>1 DEF Limiter!Programmed
      <4>2. CASE fail = "none"
        <5>1. s2' = cfg /\ cfg.sec < TicksPerSec
          <6>1. cfg.sec \in Nat /\ TicksPerSec \in Nat
            BY KeptType DEF Limiter!LimiterAssumption
          <6> QED
            BY <2>2, <3>1, <4>2, <6>1
        <5>2. CASE Limiter!Kept(cfg) = <<>>
          BY <5>1, <5>2 DEF Limiter!Programmed, Limiter!Kept
        <5>3. CASE Limiter!Kept(cfg) # <<>>
          BY <3>1, <4>2, <5>1, <5>3, ConfiguredProgrammed DEF Limiter!Programmed, Limiter!Kept
        <5> QED
          BY <5>2, <5>3
      <4> QED
        BY <4>1, <4>2
    <3> QED
      BY <3>1, <3>2, <3>3, <3>4
  <2> QED
    BY <2>1, <2>2
<1>2. CASE Limiter!start_shaping
  <2>1. s1' \in Limiter!Regs /\ s1'.state = "RUN" /\ s1'.speeds = s1.speeds /\ s1'.sec_len = s1.sec_len
    BY <1>2 DEF Limiter!start_shaping, Limiter!Regs
  <2>2. UNCHANGED <<s2, s3, s4, s5>>
    BY <1>2 DEF Limiter!start_shaping
  <2> QED
    BY <2>1, <2>2 DEF Limiter!TypeOK, Limiter!Programmed, Limiter!Kept
<1>3. CASE Limiter!stop_shaping
  <2>1. s1' \in Limiter!Regs /\ s1'.state = "IDLE" /\ Len(s1'.speeds) \in 1..IntervalCount
    BY <1>3 DEF Limiter!stop_shaping, Limiter!LimiterAssumption, Limiter!Regs
  <2>2. UNCHANGED <<s3, s4, s5>> /\ s2' = None
    BY <1>3 DEF Limiter!stop_shaping
  <2> QED
    BY <2>1, <2>2 DEF Limiter!TypeOK, Limiter!Programmed, Limiter!Regs
<1>4. ASSUME NEW q \in SUBSET Queues, NEW top \in BOOLEAN, NEW fail \in {"none", "bad"},
        Limiter!configure_ts(q, top, fail)
      PROVE  Limiter!LimiterInv'
  <2>1. Limiter!LimiterTyped'
    BY <1>4 DEF Limiter!configure_ts, Limiter!LimiterAssumption
  <2>2. Limiter!Programmed'
    BY <1>4 DEF Limiter!configure_ts, Limiter!Programmed, Limiter!Kept
  <2>3. Limiter!TypeOK'
    BY <1>4, <2>1 DEF Limiter!configure_ts, Limiter!TypeOK, Limiter!LimiterAssumption
  <2> QED
    BY <2>1, <2>2, <2>3
<1>5. CASE Limiter!reset
  <2>1. Limiter!LimiterTyped'
    BY <1>5 DEF Limiter!reset, Limiter!LimiterAssumption
  <2>2. Limiter!Programmed'
    BY <1>5 DEF Limiter!reset, Limiter!Programmed, Limiter!Kept
  <2>3. Limiter!TypeOK'
    BY <1>5, <2>1 DEF Limiter!reset, Limiter!TypeOK, Limiter!LimiterAssumption
  <2> QED
    BY <2>1, <2>2, <2>3
<1>6. CASE Limiter!MeterCount
  <2>1. Limiter!LimiterTyped'
    BY <1>6 DEF Limiter!MeterCount, Limiter!LimiterAssumption
  <2>2. Limiter!Programmed'
    BY <1>6 DEF Limiter!MeterCount, Limiter!Programmed, Limiter!Kept
  <2>3. Limiter!TypeOK'
    BY <1>6, <2>1 DEF Limiter!MeterCount, Limiter!TypeOK, Limiter!LimiterAssumption
  <2> QED
    BY <2>1, <2>2, <2>3
<1>7. CASE Limiter!clear_data
  <2>1. Limiter!LimiterTyped'
    BY <1>7 DEF Limiter!clear_data, Limiter!LimiterAssumption
  <2>2. Limiter!Programmed'
    BY <1>7 DEF Limiter!clear_data, Limiter!Programmed, Limiter!Kept
  <2>3. Limiter!TypeOK'
    BY <1>7, <2>1 DEF Limiter!clear_data, Limiter!TypeOK, Limiter!LimiterAssumption
  <2> QED
    BY <2>1, <2>2, <2>3
<1>8. CASE Limiter!get_speed \/ Limiter!WaitDone \/ Limiter!ReadTicks \/ Limiter!ReadBytes
  <2>1. UNCHANGED <<s1, s2, s3, s4>>
    BY <1>8 DEF Limiter!get_speed, Limiter!WaitDone, Limiter!ReadTicks, Limiter!ReadBytes
  <2>2. s5' \in [pc : {"idle", "wait", "ticks", "bytes"}, ticks : Nat, bytes : Nat]
    <3>1. s4.ticks \in Nat /\ s4.bytes \in Nat
      BY DEF Limiter!LimiterAssumption
    <3>2. CASE Limiter!get_speed
      BY <3>2 DEF Limiter!get_speed
    <3>3. CASE Limiter!WaitDone
      BY <3>3 DEF Limiter!WaitDone
    <3>4. CASE Limiter!ReadTicks
      BY <3>1, <3>4 DEF Limiter!ReadTicks
    <3>5. CASE Limiter!ReadBytes
      BY <3>1, <3>5 DEF Limiter!ReadBytes
    <3> QED
      BY <1>8, <3>2, <3>3, <3>4, <3>5
  <2>3. Limiter!Programmed'
    BY <2>1 DEF Limiter!Programmed, Limiter!Kept
  <2>4. Limiter!TypeOK'
    BY <2>1, <2>2 DEF Limiter!TypeOK
  <2> QED
    BY <2>1, <2>2, <2>3, <2>4
<1>9. CASE UNCHANGED Limiter!vars
  BY <1>9 DEF Limiter!vars, Limiter!TypeOK, Limiter!Programmed, Limiter!Kept
<1> QED
  BY <1>1, <1>2, <1>3, <1>4, <1>5, <1>6, <1>7, <1>8, <1>9 DEF Limiter!Next

\* The registers that the last configuration left let through what was asked for.
LEMMA RateFromInv == ASSUME Limiter!LimiterAssumption, Limiter!LimiterInv PROVE Limiter!RateAsAsked
<1> DEFINE speeds == Limiter!Kept(s2)
           Exact(i) == s1.speeds[i] * TicksPerSec - speeds[i] * s1.sec_len \in 0..(TicksPerSec - 1)
           fixed == \E i \in DOMAIN speeds : Limiter!_fix_sec_len(speeds[i], s2.sec) # s2.sec
<1> SUFFICES ASSUME s2 \notin {None, Partial}, speeds # <<>>
             PROVE  /\ Len(s1.speeds) = Len(speeds)
                    /\ Exact(Len(speeds))
                    /\ ~fixed => /\ \A i \in DOMAIN speeds : Exact(i) /\ Limiter!print_cfg[i] >= speeds[i]
                                 /\ s1.sec_len = s2.sec
  BY DEF Limiter!RateAsAsked
<1>1. /\ s2 \in Limiter!Cfgs
      /\ s1.speeds = [i \in 1..Len(speeds) |-> Limiter!_conv_Gbs2Bscn(speeds[i], s2.sec)]
      /\ s1.sec_len = Limiter!_fix_sec_len(speeds[Len(speeds)], s2.sec)
  BY DEF Limiter!LimiterInv, Limiter!Programmed
<1>2. speeds \in Seq(Nat \ {0}) /\ s2.sec \in Nat \ {0}
  BY <1>1, KeptType
<1>3. Len(speeds) \in DOMAIN speeds /\ DOMAIN speeds = 1..Len(speeds)
  BY <1>2
<1>4. DOMAIN s1.speeds = 1..Len(speeds) /\ Len(s1.speeds) = Len(speeds)
  BY <1>1, <1>2 
<1> HIDE DEF speeds
<1>5. \A i \in DOMAIN speeds : speeds[i] \in Nat \ {0}
  BY <1>2
<1>6. ASSUME NEW i \in DOMAIN speeds
      PROVE  /\ s1.speeds[i] \in Nat
             /\ s1.speeds[i] * TicksPerSec - speeds[i] * Limiter!_fix_sec_len(speeds[i], s2.sec) \in 0..(TicksPerSec - 1)
  <2>1. s1.speeds[i] = Limiter!_conv_Gbs2Bscn(speeds[i], s2.sec)
    BY <1>1, <1>3
  <2> QED
    BY <2>1, <1>2, <1>5, ConvExact
<1>7. Exact(Len(speeds))
  BY <1>1, <1>3, <1>6
<1>8. ASSUME ~fixed
      PROVE  /\ \A i \in DOMAIN speeds : Exact(i) /\ Limiter!print_cfg[i] >= speeds[i]
             /\ s1.sec_len = s2.sec
  <2>1. \A i \in DOMAIN speeds : Limiter!_fix_sec_len(speeds[i], s2.sec) = s2.sec
    BY <1>8
  <2>2. s1.sec_len = s2.sec
    BY <1>1, <1>3, <2>1
  <2>3. ASSUME NEW i \in DOMAIN speeds PROVE Exact(i) /\ Limiter!print_cfg[i] >= speeds[i]
    <3>1. Exact(i)
      BY <1>6, <2>1, <2>2
    <3>2. Limiter!print_cfg[i] = Limiter!_conv_Bscn2Gbs(s1.speeds[i], s1.sec_len)
      BY <1>3, <1>4 DEF Limiter!print_cfg
    <3>3. s1.speeds[i] * TicksPerSec - speeds[i] * s2.sec \in 0..(TicksPerSec - 1)
      BY <2>2, <3>1
    <3>4. speeds[i] \in Nat \ {0} /\ s1.speeds[i] \in Nat
      BY <1>5, <1>6
    <3>5. Limiter!_conv_Bscn2Gbs(s1.speeds[i], s2.sec) >= speeds[i]
      BY <1>2, <3>3, <3>4, PrintedEnough
    <3> QED
      BY <2>2, <3>1, <3>2, <3>5
  <2> QED
    BY <2>2, <2>3
<1> QED
  BY <1>4, <1>7, <1>8

\* For every clock, number of intervals and list of speeds: a rate limiter that
\* shapes lets through the last speed asked for, rounded up by less than one unit
\* per section, and if the tool lengthened no section every speed, and prints no
\* less (rate_limiter.py, configure, print_cfg).
THEOREM RatesShaped ==
    ASSUME Limiter!LimiterAssumption
    PROVE  Limiter!Spec => [](Limiter!TypeOK /\ Limiter!RateAsAsked)
<1>1. Limiter!Spec => []Limiter!LimiterInv
  BY LimiterInit, LimiterStep, PTL DEF Limiter!Spec
<1>2. Limiter!LimiterInv => Limiter!TypeOK /\ Limiter!RateAsAsked
  BY RateFromInv DEF Limiter!LimiterInv
<1> QED
  BY <1>1, <1>2, PTL

(* ---- The F-Tile profile swap -------------------------------------------- *)
\* s1 the script and its call, s2 the reconfiguration controller, s3 the enabled
\* groups, s4 the line registers of each channel, s5 the calls made.

\* The tables of the two cores: every profile has its FEC and its speed.
LEMMA ProfileTables ==
    ASSUME NEW core \in Swap!Cores
    PROVE  /\ Len(Swap!FEC_TYPE[core]) \in {2, 4} /\ Swap!Profiles(core) \subseteq 1 .. 4
           /\ \A p \in Swap!Profiles(core) : Swap!FEC_TYPE[core][p] \in 0 .. 3
                 /\ Swap!ETH_SPEED[core][p] \in 0 .. 1
<1>1. CASE core = "2x100G-4"
  <2>1. Swap!FEC_TYPE[core] = <<2, 0>> /\ Swap!ETH_SPEED[core] = <<0, 0>>
    BY <1>1 DEF Swap!FEC_TYPE, Swap!ETH_SPEED
  <2> QED
    BY <2>1 DEF Swap!Profiles
<1>2. CASE core = "8x25G-1"
  <2>1. Swap!FEC_TYPE[core] = <<0, 2, 3, 0>> /\ Swap!ETH_SPEED[core] = <<0, 0, 0, 1>>
    BY <1>2 DEF Swap!FEC_TYPE, Swap!ETH_SPEED
  <2> QED
    BY <2>1 DEF Swap!Profiles
<1> QED
  BY <1>1, <1>2 DEF Swap!Cores, Swap!FEC_TYPE

\* No two profiles of a core or two channels share a DR group.
LEMMA GroupsApart ==
    ASSUME NEW core \in Swap!Cores, NEW p \in Swap!Profiles(core), NEW q \in Swap!Profiles(core),
           NEW c \in Nat, NEW d \in Nat,
           Swap!PROFILES_GROUPS(core, p, c) = Swap!PROFILES_GROUPS(core, q, d)
    PROVE  p = q /\ c = d
<1>1. CASE Len(Swap!FEC_TYPE[core]) = 2
  BY <1>1 DEF Swap!Profiles, Swap!PROFILES_GROUPS
<1>2. CASE Len(Swap!FEC_TYPE[core]) = 4
  BY <1>2 DEF Swap!Profiles, Swap!PROFILES_GROUPS
<1> QED
  BY <1>1, <1>2, ProfileTables

\* The channel in turn is one of the channels asked for.
\* The channel a swap is at is one that was asked for, and the core has it.
LEMMA ChannelAsked ==
    ASSUME Swap!SwapAssumption, Swap!SwapTyped, Swap!Called
    PROVE  /\ Swap!Channel \in Nat /\ Swap!Channel \in Swap!AskedChannels(s1.call)
                 /\ Swap!Channel \in Swap!Channels(Implemented)
           /\ Swap!AskedChannels(s1.call) \subseteq Swap!Channels(Implemented)
<1>1. ChannelCount[Implemented] \in Nat
  BY DEF Swap!SwapAssumption
<1>2. /\ s1.call.first \in Nat /\ s1.call.count \in Nat \ {0} /\ s1.i \in Nat
      /\ s1.i < s1.call.count /\ s1.call.first + s1.call.count <= ChannelCount[Implemented]
  BY DEF Swap!Called, Swap!SwapTyped
<1> QED
  BY <1>1, <1>2 DEF Swap!Channel, Swap!AskedChannels, Swap!Channels

\* The core starts in the profile of its build, with no channel in reset.
LEMMA SwapInit == ASSUME Swap!SwapAssumption, Swap!Init PROVE Swap!SwapInv
<1>1. Swap!FEC_TYPE[Implemented][1] \in 0 .. 3
  <2>1. 1 \in Swap!Profiles(Implemented)
    <3>1. Implemented \in Swap!Cores
      BY DEF Swap!SwapAssumption
    <3>2. Len(Swap!FEC_TYPE[Implemented]) \in {2, 4}
      BY <3>1, ProfileTables
    <3>3. \A n \in {2, 4} : 1 \in 1 .. n
      OBVIOUS
    <3>4. Swap!Profiles(Implemented) = 1 .. Len(Swap!FEC_TYPE[Implemented])
      BY DEF Swap!Profiles
    <3> QED
      BY <3>2, <3>3, <3>4, Zenon
  <2> QED
    BY <2>1, ProfileTables DEF Swap!SwapAssumption
<1> QED
  BY <1>1 DEF Swap!Init, Swap!Idle, Swap!SwapInv, Swap!SwapTyped, Swap!LineHeld, Swap!Progress, Swap!Pcs,
       Swap!Lines, Swap!SwapAssumption

\* A write of the line in turn.
\* One write to the line registers changes one field of one channel.
LEMMA LineWritten ==
    ASSUME Swap!SwapAssumption, Swap!SwapTyped, s1.pc # "idle",
           NEW field \in {"reset", "select", "fec", "speed"}, NEW value,
           Swap!SetLine(field, value),
           field = "reset" => value \in BOOLEAN, field = "select" => value = 0,
           field = "fec" => value \in 0 .. 3, field = "speed" => value \in 0 .. 1
    PROVE  /\ s4' \in [Swap!Channels(Implemented) -> Swap!Lines]
           /\ \A ch \in Swap!Channels(Implemented) : ch # Swap!Channel => s4'[ch] = s4[ch]
           /\ s4'[Swap!Channel] = [s4[Swap!Channel] EXCEPT ![field] = value]
<1>1. Swap!Channel \in Swap!Channels(Implemented)
  BY ChannelAsked DEF Swap!SwapTyped
<1>2. s4[Swap!Channel] \in Swap!Lines
  BY <1>1 DEF Swap!SwapTyped
<1>3. [s4[Swap!Channel] EXCEPT ![field] = value] \in Swap!Lines
  BY <1>2 DEF Swap!Lines
<1> QED
  BY <1>1, <1>3 DEF Swap!SetLine, Swap!SwapTyped

\* A step of the script within the turn of a channel.
\* What a step of the script leaves of its call.
LEMMA TurnKept ==
    ASSUME Swap!SwapTyped, NEW from \in Swap!Pcs \ {"idle"}, NEW to \in Swap!Pcs \ {"idle"},
           Swap!Then(from, to)
    PROVE  /\ s1' = [ pc |-> to, call |-> s1.call, i |-> s1.i, truthful |-> s1.truthful,
                      others |-> s1.others ]
           /\ s1.pc = from /\ Swap!Channel' = Swap!Channel /\ Swap!Called /\ Swap!Called'
<1>1. s1' = [ pc |-> to, call |-> s1.call, i |-> s1.i, truthful |-> s1.truthful,
               others |-> s1.others ] /\ s1.pc = from
  BY DEF Swap!Then, Swap!SwapTyped
<1>2. Swap!Called
  BY <1>1 DEF Swap!SwapTyped
<1> QED
  BY <1>1, <1>2 DEF Swap!Channel, Swap!Called

\* What was said of the channels, when neither their lines nor the profiles change.
\* A step of the script that writes no line register: what it has to show.
LEMMA SwapQuiet ==
    ASSUME Swap!SwapAssumption, Swap!SwapInv, NEW from \in Swap!Pcs \ {"idle"},
           NEW to \in Swap!Pcs \ {"idle"}, Swap!Then(from, to),
           UNCHANGED <<s3, s4, s5>>,
           s2' \in [old : Nat, new : Nat, busy : BOOLEAN],
           Swap!LineHeld',
           s1.truthful =>
              /\ s2'.busy => to = "settle"
              /\ to \in {"new", "trigger", "settle"} =>
                     s2'.old = Swap!PROFILES_GROUPS(Implemented, s1.call.from, Swap!Channel)
              /\ to \in {"trigger", "settle"} =>
                     s2'.new = Swap!PROFILES_GROUPS(Implemented, s1.call.to, Swap!Channel)
              /\ to \in {"speed", "clear"} =>
                     s4[Swap!Channel].fec = Swap!FEC_TYPE[Implemented][s1.call.to]
              /\ to = "clear" => s4[Swap!Channel].speed = Swap!ETH_SPEED[Implemented][s1.call.to]
              /\ Swap!InTurn' = Swap!InTurn
    PROVE  Swap!SwapInv'
<1>1. /\ s1' = [ pc |-> to, call |-> s1.call, i |-> s1.i, truthful |-> s1.truthful,
                        others |-> s1.others ]
      /\ s1.pc = from /\ Swap!Channel' = Swap!Channel /\ Swap!Called'
  BY TurnKept DEF Swap!SwapInv
<1>2. Swap!SwapTyped'
  BY <1>1 DEF Swap!SwapInv, Swap!SwapTyped
<1>3. Swap!Progress'
  BY <1>1 DEF Swap!SwapInv, Swap!Progress, Swap!Swapped, Swap!OnlyEnabled, Swap!AskedChannels
<1> QED
  BY <1>2, <1>3 DEF Swap!SwapInv

\* A DR group is a number.
LEMMA GroupNat ==
    ASSUME NEW core \in Swap!Cores, NEW p \in Swap!Profiles(core), NEW ch \in Nat
    PROVE  Swap!PROFILES_GROUPS(core, p, ch) \in Nat
BY ProfileTables DEF Swap!PROFILES_GROUPS

\* The steps towards the reconfiguration controller: wait until it is ready, name
\* the old and the new group, trigger, wait until it settled.
LEMMA SwapScript ==
    ASSUME Swap!SwapAssumption, Swap!SwapInv,
           Swap!WaitReady \/ Swap!DisableProfile \/ Swap!EnableProfile \/ Swap!Trigger \/ Swap!Settled
    PROVE  Swap!SwapInv'
<1> USE DEF Swap!SwapInv
<1>0. Swap!Pcs = {"idle", "ready", "reset", "old", "new", "trigger", "settle", "select", "fec", "speed", "clear"}
  BY DEF Swap!Pcs
<1>1. CASE Swap!WaitReady
  <2>1. Swap!Then("ready", "reset") /\ ~s2.busy /\ UNCHANGED <<s2, s3, s4, s5>>
    BY <1>1 DEF Swap!WaitReady
  <2>2. s1.pc = "ready" /\ s1'.pc = "reset" /\ Swap!Channel' = Swap!Channel /\ s1'.call = s1.call
    BY <1>0, <2>1, TurnKept
  <2>3. Swap!LineHeld'
    BY <2>1, <2>2 DEF Swap!LineHeld
  <2>4. Swap!InTurn' = Swap!InTurn
    BY <2>1, <2>2 DEF Swap!InTurn
  <2> QED
    BY <1>0, <2>1, <2>2, <2>3, <2>4, SwapQuiet DEF Swap!Progress, Swap!SwapTyped
<1>2. CASE Swap!DisableProfile
  <2>1. /\ Swap!Then("old", "new") /\ UNCHANGED <<s3, s4, s5>>
        /\ s2' = [s2 EXCEPT !.old = Swap!PROFILES_GROUPS(s1.call.core, s1.call.from, Swap!Channel)]
    BY <1>2 DEF Swap!DisableProfile
  <2>2. s1.pc = "old" /\ s1'.pc = "new" /\ Swap!Channel' = Swap!Channel /\ s1'.call = s1.call /\ Swap!Called
    BY <1>0, <2>1, TurnKept
  <2>3. Swap!LineHeld'
    BY <1>0, <2>1, <2>2 DEF Swap!LineHeld
  <2>4. Swap!InTurn' = Swap!InTurn
    BY <2>1, <2>2 DEF Swap!InTurn
  <2>5. Swap!PROFILES_GROUPS(s1.call.core, s1.call.from, Swap!Channel) \in Nat
    BY <2>2, ChannelAsked, GroupNat DEF Swap!Called
  <2>6. s2' \in [old : Nat, new : Nat, busy : BOOLEAN] /\ s2'.busy = s2.busy
        /\ s2'.old = Swap!PROFILES_GROUPS(s1.call.core, s1.call.from, Swap!Channel)
    BY <2>1, <2>5 DEF Swap!SwapTyped
  <2> QED
    BY <1>0, <2>1, <2>2, <2>3, <2>4, <2>6, SwapQuiet DEF Swap!Progress
<1>3. CASE Swap!EnableProfile
  <2>1. /\ Swap!Then("new", "trigger") /\ UNCHANGED <<s3, s4, s5>>
        /\ s2' = [s2 EXCEPT !.new = Swap!PROFILES_GROUPS(s1.call.core, s1.call.to, Swap!Channel)]
    BY <1>3 DEF Swap!EnableProfile
  <2>2. s1.pc = "new" /\ s1'.pc = "trigger" /\ Swap!Channel' = Swap!Channel /\ s1'.call = s1.call
          /\ Swap!Called
    BY <1>0, <2>1, TurnKept
  <2>3. Swap!LineHeld'
    BY <1>0, <2>1, <2>2 DEF Swap!LineHeld
  <2>4. Swap!InTurn' = Swap!InTurn
    BY <2>1, <2>2 DEF Swap!InTurn
  <2>5. Swap!PROFILES_GROUPS(s1.call.core, s1.call.to, Swap!Channel) \in Nat
    BY <2>2, ChannelAsked, GroupNat DEF Swap!Called
  <2>6. s2' \in [old : Nat, new : Nat, busy : BOOLEAN] /\ s2'.busy = s2.busy /\ s2'.old = s2.old
        /\ s2'.new = Swap!PROFILES_GROUPS(s1.call.core, s1.call.to, Swap!Channel)
    BY <2>1, <2>5 DEF Swap!SwapTyped
  <2> QED
    BY <1>0, <2>1, <2>2, <2>3, <2>4, <2>6, SwapQuiet DEF Swap!Progress
<1>4. CASE Swap!Trigger
  <2>1. /\ Swap!Then("trigger", "settle") /\ UNCHANGED <<s3, s4, s5>>
        /\ s2' = [s2 EXCEPT !.busy = TRUE]
    BY <1>4 DEF Swap!Trigger
  <2>2. s1.pc = "trigger" /\ s1'.pc = "settle" /\ Swap!Channel' = Swap!Channel /\ s1'.call = s1.call
    BY <1>0, <2>1, TurnKept
  <2>3. Swap!LineHeld'
    BY <1>0, <2>1, <2>2 DEF Swap!LineHeld
  <2>4. s2' = [old |-> s2.old, new |-> s2.new, busy |-> TRUE] /\ s2.old \in Nat /\ s2.new \in Nat
    BY <2>1 DEF Swap!SwapTyped
  <2>5. Swap!InTurn' = Swap!InTurn
    BY <2>2, <2>4 DEF Swap!InTurn
  <2> QED
    BY <1>0, <2>1, <2>2, <2>3, <2>4, <2>5, SwapQuiet DEF Swap!Progress
<1>5. CASE Swap!Settled
  <2>1. Swap!Then("settle", "select") /\ ~s2.busy /\ UNCHANGED <<s2, s3, s4, s5>>
    BY <1>5 DEF Swap!Settled
  <2>2. s1.pc = "settle" /\ s1'.pc = "select" /\ Swap!Channel' = Swap!Channel /\ s1'.call = s1.call
    BY <1>0, <2>1, TurnKept
  <2>3. Swap!LineHeld'
    BY <1>0, <2>1, <2>2 DEF Swap!LineHeld
  <2>4. Swap!InTurn' = Swap!InTurn
    BY <2>1, <2>2 DEF Swap!InTurn
  <2> QED
    BY <1>0, <2>1, <2>2, <2>3, <2>4, SwapQuiet DEF Swap!Progress, Swap!SwapTyped
<1> QED
  BY <1>1, <1>2, <1>3, <1>4, <1>5

\* A write of the line in turn leaves what was said of the other channels.
\* A step of the script that writes one line register: what it has to show.
LEMMA SwapLine ==
    ASSUME Swap!SwapAssumption, Swap!SwapInv, NEW from \in Swap!Pcs \ {"idle"},
           NEW to \in Swap!Pcs \ {"idle", "ready"}, Swap!Then(from, to),
           NEW field \in {"reset", "select", "fec", "speed"}, NEW value, Swap!SetLine(field, value),
           field = "reset" => value = TRUE, field = "select" => value = 0,
           field = "fec" => value \in 0 .. 3, field = "speed" => value \in 0 .. 1,
           UNCHANGED <<s2, s3, s5>>,
           from = "reset" => field = "reset",
           from # "reset" => field # "reset" /\ from \in {"select", "fec", "speed"},
           from = "reset" => to = "old",
           s1.truthful =>
              /\ to \notin {"new", "trigger", "settle"} 
              /\ to \in {"speed", "clear"} =>
                     s4'[Swap!Channel].fec = Swap!FEC_TYPE[Implemented][s1.call.to]
              /\ to = "clear" => s4'[Swap!Channel].speed = Swap!ETH_SPEED[Implemented][s1.call.to]
              /\ Swap!InTurn' = Swap!InTurn
    PROVE  Swap!SwapInv'
<1> USE DEF Swap!SwapInv
<1>1. /\ s1' = [ pc |-> to, call |-> s1.call, i |-> s1.i, truthful |-> s1.truthful,
                        others |-> s1.others ]
      /\ s1.pc = from /\ Swap!Channel' = Swap!Channel /\ Swap!Called /\ Swap!Called'
  BY TurnKept
<1>2. /\ s4' \in [Swap!Channels(Implemented) -> Swap!Lines]
      /\ \A ch \in Swap!Channels(Implemented) : ch # Swap!Channel => s4'[ch] = s4[ch]
      /\ s4'[Swap!Channel] = [s4[Swap!Channel] EXCEPT ![field] = value]
  BY <1>1, LineWritten
<1>3. /\ Swap!Channel \in Nat /\ Swap!Channel \in Swap!AskedChannels(s1.call)
            /\ Swap!Channel \in Swap!Channels(Implemented)
      /\ Swap!AskedChannels(s1.call) \subseteq Swap!Channels(Implemented)
            /\ Swap!AskedChannels(s1.call) \subseteq Nat
  <2>1. Swap!AskedChannels(s1.call) \subseteq Nat
    BY <1>1 DEF Swap!AskedChannels, Swap!Called
  <2> QED
    BY <1>1, <2>1, ChannelAsked
<1>4. Swap!SwapTyped'
  BY <1>1, <1>2 DEF Swap!SwapTyped
<1>5. s4[Swap!Channel] \in Swap!Lines
  BY <1>3 DEF Swap!SwapTyped
<1>6. s4'[Swap!Channel].reset
  BY <1>1, <1>2, <1>5 DEF Swap!LineHeld, Swap!Lines, Swap!Pcs
<1>7. Swap!LineHeld'
  BY <1>1, <1>6 DEF Swap!LineHeld, Swap!Pcs
<1>8. Swap!Progress'
  <2> SUFFICES ASSUME s1.truthful PROVE Swap!Progress'
    BY <1>1 DEF Swap!Progress
  <2>1. Swap!OnlyEnabled(Swap!Channel, Swap!InTurn)'
    BY <1>1 DEF Swap!Progress, Swap!OnlyEnabled
  <2>2. \A ch \in Swap!AskedChannels(s1.call) : /\ ch < Swap!Channel => Swap!Swapped(s1.call, ch)'
                                                /\ ch > Swap!Channel => Swap!OnlyEnabled(ch, s1.call.from)'
    <3> TAKE ch \in Swap!AskedChannels(s1.call)
    <3>1. CASE ch = Swap!Channel
      BY <1>3, <3>1
    <3>2. CASE ch # Swap!Channel
      <4>1. s4'[ch] = s4[ch]
        BY <1>2, <1>3, <3>2
      <4> QED
        BY <1>1, <4>1 DEF Swap!Progress, Swap!Swapped, Swap!OnlyEnabled
    <3> QED
      BY <3>1, <3>2
  <2>3. \A ch \in DOMAIN s1.others : s4'[ch] = s1.others[ch]
    <3> TAKE ch \in DOMAIN s1.others
    <3>1. ch \in Swap!Channels(Implemented) /\ ch # Swap!Channel
      BY <1>3 DEF Swap!Progress
    <3> QED
      BY <1>2, <3>1 DEF Swap!Progress
  <2> QED
    BY <1>1, <2>1, <2>2, <2>3 DEF Swap!Progress, Swap!Pcs, Swap!AskedChannels
<1> QED
  BY <1>4, <1>7, <1>8

\* The writes to the line registers: reset, FEC, speed.
LEMMA SwapWrites ==
    ASSUME Swap!SwapAssumption, Swap!SwapInv,
           Swap!set_reset \/ Swap!WriteSelect \/ Swap!WriteFec \/ Swap!WriteSpeed
    PROVE  Swap!SwapInv'
<1> USE DEF Swap!SwapInv
<1>0. Swap!Pcs = {"idle", "ready", "reset", "old", "new", "trigger", "settle", "select", "fec", "speed", "clear"}
  BY DEF Swap!Pcs
<1>1. CASE Swap!set_reset
  <2>1. Swap!Then("reset", "old") /\ Swap!SetLine("reset", TRUE) /\ UNCHANGED <<s2, s3, s5>>
    BY <1>1 DEF Swap!set_reset
  <2>2. s1.pc = "reset" /\ s1'.pc = "old" /\ Swap!Channel' = Swap!Channel /\ s1'.call = s1.call
          /\ Swap!Called
    BY <1>0, <2>1, TurnKept
  <2>3. Swap!InTurn' = Swap!InTurn
    BY <2>1, <2>2 DEF Swap!InTurn
  <2> QED
    BY <1>0, <2>1, <2>2, <2>3, SwapLine
<1>2. CASE Swap!WriteSelect
  <2>1. Swap!Then("select", "fec") /\ Swap!SetLine("select", 0) /\ UNCHANGED <<s2, s3, s5>>
    BY <1>2 DEF Swap!WriteSelect
  <2>2. s1.pc = "select" /\ s1'.pc = "fec" /\ Swap!Channel' = Swap!Channel /\ s1'.call = s1.call
          /\ Swap!Called
    BY <1>0, <2>1, TurnKept
  <2>3. Swap!InTurn' = Swap!InTurn
    BY <2>1, <2>2 DEF Swap!InTurn
  <2> QED
    BY <1>0, <2>1, <2>2, <2>3, SwapLine
<1>3. CASE Swap!WriteFec
  <2> DEFINE value == Swap!FEC_TYPE[s1.call.core][s1.call.to]
  <2>1. Swap!Then("fec", "speed") /\ Swap!SetLine("fec", value) /\ UNCHANGED <<s2, s3, s5>>
    BY <1>3 DEF Swap!WriteFec
  <2>2. s1.pc = "fec" /\ s1'.pc = "speed" /\ Swap!Channel' = Swap!Channel /\ s1'.call = s1.call
          /\ Swap!Called
    BY <1>0, <2>1, TurnKept
  <2>3. Swap!InTurn' = Swap!InTurn
    BY <2>1, <2>2 DEF Swap!InTurn
  <2>4. value \in 0 .. 3
    BY <2>2, ProfileTables DEF Swap!Called
  <2>5. s4[Swap!Channel] \in Swap!Lines /\ s4'[Swap!Channel] = [s4[Swap!Channel] EXCEPT !["fec"] = value]
    BY <1>0, <2>1, <2>2, <2>4, LineWritten, ChannelAsked DEF Swap!SwapTyped
  <2>6. s4'[Swap!Channel].fec = Swap!FEC_TYPE[s1.call.core][s1.call.to]
    BY <2>5 DEF Swap!Lines
  <2>7. s1.truthful => s4'[Swap!Channel].fec = Swap!FEC_TYPE[Implemented][s1.call.to]
    BY <2>6 DEF Swap!Progress
  <2> HIDE DEF value
  <2> QED
    BY <1>0, <2>1, <2>2, <2>3, <2>4, <2>7, SwapLine
<1>4. CASE Swap!WriteSpeed
  <2> DEFINE value == Swap!ETH_SPEED[s1.call.core][s1.call.to]
  <2>1. Swap!Then("speed", "clear") /\ Swap!SetLine("speed", value) /\ UNCHANGED <<s2, s3, s5>>
    BY <1>4 DEF Swap!WriteSpeed
  <2>2. s1.pc = "speed" /\ s1'.pc = "clear" /\ Swap!Channel' = Swap!Channel /\ s1'.call = s1.call
          /\ Swap!Called
    BY <1>0, <2>1, TurnKept
  <2>3. Swap!InTurn' = Swap!InTurn
    BY <2>1, <2>2 DEF Swap!InTurn
  <2>4. value \in 0 .. 1
    BY <2>2, ProfileTables DEF Swap!Called
  <2>5. s4[Swap!Channel] \in Swap!Lines /\ s4'[Swap!Channel] = [s4[Swap!Channel] EXCEPT !["speed"] = value]
    BY <1>0, <2>1, <2>2, <2>4, LineWritten, ChannelAsked DEF Swap!SwapTyped
  <2>6. s4'[Swap!Channel].speed = Swap!ETH_SPEED[s1.call.core][s1.call.to]
          /\ s4'[Swap!Channel].fec = s4[Swap!Channel].fec
    BY <2>5 DEF Swap!Lines
  <2>7. s1.truthful => /\ s4'[Swap!Channel].fec = Swap!FEC_TYPE[Implemented][s1.call.to]
                       /\ s4'[Swap!Channel].speed = Swap!ETH_SPEED[Implemented][s1.call.to]
    BY <2>2, <2>6 DEF Swap!Progress
  <2> HIDE DEF value
  <2> QED
    BY <1>0, <2>1, <2>2, <2>3, <2>4, <2>7, SwapLine
<1> QED
  BY <1>1, <1>2, <1>3, <1>4

\* The line leaves reset: the channel in turn is swapped.
\* The reset is released and the call goes to its next channel, or ends.
LEMMA SwapClear == ASSUME Swap!SwapAssumption, Swap!SwapInv, Swap!clr_reset PROVE Swap!SwapInv'
<1> USE DEF Swap!SwapInv
<1>1. s1.pc = "clear" /\ Swap!SetLine("reset", FALSE) /\ UNCHANGED <<s2, s3, s5>> /\ Swap!Called
  BY DEF Swap!clr_reset, Swap!SwapTyped
<1>2. /\ s4' \in [Swap!Channels(Implemented) -> Swap!Lines]
      /\ \A ch \in Swap!Channels(Implemented) : ch # Swap!Channel => s4'[ch] = s4[ch]
      /\ s4'[Swap!Channel] = [s4[Swap!Channel] EXCEPT !["reset"] = FALSE]
  BY <1>1, LineWritten
<1>3. /\ Swap!Channel \in Nat /\ Swap!Channel \in Swap!AskedChannels(s1.call)
            /\ Swap!Channel \in Swap!Channels(Implemented)
      /\ Swap!AskedChannels(s1.call) \subseteq Swap!Channels(Implemented)
            /\ Swap!AskedChannels(s1.call) \subseteq Nat
  <2>1. Swap!AskedChannels(s1.call) \subseteq Nat
    BY <1>1 DEF Swap!AskedChannels, Swap!Called
  <2> QED
    BY <1>1, <2>1, ChannelAsked
<1>4. /\ s1.call.first \in Nat /\ s1.call.count \in Nat \ {0} /\ s1.i \in Nat
      /\ s1.i < s1.call.count
  BY <1>1 DEF Swap!Called, Swap!SwapTyped
<1>5. s1' = [ pc |-> s1'.pc, call |-> s1.call, i |-> s1'.i, truthful |-> s1.truthful,
              others |-> s1.others ]
      /\ \/ s1'.pc = "ready" /\ s1'.i = s1.i + 1 /\ s1.i + 1 < s1.call.count
         \/ s1'.pc = "idle" /\ s1'.i = s1.i /\ s1.i + 1 = s1.call.count
  <2>1. CASE s1.i + 1 < s1.call.count
    <3>1. s1' = [s1 EXCEPT !.pc = "ready", !.i = @ + 1]
      BY <2>1 DEF Swap!clr_reset
    <3> QED
      BY <2>1, <3>1 DEF Swap!SwapTyped
  <2>2. CASE ~(s1.i + 1 < s1.call.count)
    <3>1. s1' = [s1 EXCEPT !.pc = "idle"]
      BY <2>2 DEF Swap!clr_reset
    <3>2. s1.i + 1 = s1.call.count
      BY <1>4, <2>2
    <3> QED
      BY <3>1, <3>2 DEF Swap!SwapTyped
  <2> QED
    BY <2>1, <2>2
<1>6. Swap!Called'
  BY <1>1, <1>4, <1>5 DEF Swap!Called
<1>7. Swap!SwapTyped'
  BY <1>1, <1>2, <1>4, <1>5, <1>6 DEF Swap!SwapTyped, Swap!Pcs
<1>8. Swap!LineHeld'
  BY <1>5 DEF Swap!LineHeld, Swap!Pcs
<1>9. Swap!Progress'
  <2> SUFFICES ASSUME s1.truthful PROVE Swap!Progress'
    BY <1>5 DEF Swap!Progress
  <2>1. s1.call.core = Implemented /\ ~s2.busy /\ Swap!OnlyEnabled(Swap!Channel, s1.call.to)
    BY <1>1 DEF Swap!Progress, Swap!InTurn
  <2>2. s4[Swap!Channel] \in Swap!Lines
    BY <1>3 DEF Swap!SwapTyped
  <2>3. s4[Swap!Channel].fec = Swap!FEC_TYPE[Implemented][s1.call.to]
          /\ s4[Swap!Channel].speed = Swap!ETH_SPEED[Implemented][s1.call.to]
    BY <1>1 DEF Swap!Progress
  <2>4. s4'[Swap!Channel] = Swap!EndLine(s1.call)
    BY <1>2, <2>2, <2>3 DEF Swap!Lines, Swap!EndLine
  <2>5. \A ch \in Swap!AskedChannels(s1.call) : /\ ch <= Swap!Channel => Swap!OnlyEnabled(ch, s1.call.to)
                                                      /\ s4'[ch] = Swap!EndLine(s1.call)
                                                /\ ch > Swap!Channel => Swap!OnlyEnabled(ch, s1.call.from)
    <3> TAKE ch \in Swap!AskedChannels(s1.call)
    <3>1. CASE ch = Swap!Channel
      BY <1>3, <2>1, <2>4, <3>1
    <3>2. CASE ch # Swap!Channel
      <4>1. s4'[ch] = s4[ch]
        BY <1>2, <1>3, <3>2
      <4>2. ch <= Swap!Channel => ch < Swap!Channel
        BY <1>3, <3>2
      <4> QED
        BY <4>1, <4>2 DEF Swap!Progress, Swap!Swapped
    <3> QED
      BY <3>1, <3>2
  <2>6. \A ch \in DOMAIN s1.others : s4'[ch] = s1.others[ch]
    <3> TAKE ch \in DOMAIN s1.others
    <3>1. ch \in Swap!Channels(Implemented) /\ ch # Swap!Channel
      BY <1>3 DEF Swap!Progress
    <3> QED
      BY <1>2, <3>1 DEF Swap!Progress
  <2>7. /\ \A ch : Swap!OnlyEnabled(ch, s1.call.to) /\ s4'[ch] = Swap!EndLine(s1.call)
              => Swap!Swapped(s1.call, ch)'
        /\ \A ch, p : Swap!OnlyEnabled(ch, p) => Swap!OnlyEnabled(ch, p)'
    BY <1>1, <1>5 DEF Swap!Swapped, Swap!OnlyEnabled
  <2>8. DOMAIN s1.others = Swap!Channels(Implemented) \ Swap!AskedChannels(s1.call)
    BY DEF Swap!Progress
  <2>9. CASE s1'.pc = "ready"
    <3>1. Swap!Channel' = Swap!Channel + 1 /\ Swap!Channel + 1 \in Swap!AskedChannels(s1.call)
      BY <1>4, <1>5, <2>9 DEF Swap!Channel, Swap!AskedChannels
    <3>2. Swap!OnlyEnabled(Swap!Channel + 1, s1.call.from)
      BY <1>3, <2>5, <3>1
    <3>3. Swap!InTurn' = s1.call.from
      BY <1>5, <2>9 DEF Swap!InTurn
    <3>4. Swap!OnlyEnabled(Swap!Channel, Swap!InTurn)'
      BY <1>1, <3>1, <3>2, <3>3 DEF Swap!OnlyEnabled
    <3>5. \A ch \in Swap!AskedChannels(s1.call) : /\ ch < Swap!Channel + 1 => Swap!Swapped(s1.call, ch)'
                                                  /\ ch > Swap!Channel + 1
                                                        => Swap!OnlyEnabled(ch, s1.call.from)'
      <4> TAKE ch \in Swap!AskedChannels(s1.call)
      <4>1. ch \in Nat
        BY <1>3
      <4>2. ch < Swap!Channel + 1 => Swap!OnlyEnabled(ch, s1.call.to) /\ s4'[ch] = Swap!EndLine(s1.call)
        BY <1>3, <2>5, <4>1
      <4>3. ch > Swap!Channel + 1 => Swap!OnlyEnabled(ch, s1.call.from)
        BY <1>3, <2>5, <4>1
      <4> QED
        <5>1. s1'.call = s1.call
          BY <1>5
        <5>2. \A k : Swap!OnlyEnabled(k, s1.call.from) => Swap!OnlyEnabled(k, s1.call.from)'
          BY <1>1, <5>1 DEF Swap!OnlyEnabled
        <5> QED
          BY <2>7, <4>2, <4>3, <5>2
    <3> QED
      BY <1>1, <1>5, <2>1, <2>6, <2>8, <2>9, <3>1, <3>4, <3>5 DEF Swap!Progress, Swap!AskedChannels
  <2>10. CASE s1'.pc = "idle"
    <3>1. Swap!Channel' = Swap!Channel /\ \A ch \in Swap!AskedChannels(s1.call) : ch <= Swap!Channel
      BY <1>4, <1>5, <2>10 DEF Swap!Channel, Swap!AskedChannels
    <3>2. Swap!InTurn' = s1.call.to
      BY <1>5, <2>10 DEF Swap!InTurn
    <3>3. \A ch \in Swap!AskedChannels(s1.call) : Swap!Swapped(s1.call, ch)'
      BY <2>5, <2>7, <3>1
    <3>4. Swap!Swapped(s1.call, Swap!Channel)' /\ Swap!OnlyEnabled(Swap!Channel, Swap!InTurn)'
      BY <1>3, <1>5, <3>1, <3>2, <3>3 DEF Swap!Swapped, Swap!OnlyEnabled
    <3>5. \A ch \in Swap!AskedChannels(s1.call) : ~(ch > Swap!Channel)
      BY <1>3, <3>1
    <3> QED
      BY <1>1, <1>5, <2>1, <2>6, <2>8, <2>10, <3>1, <3>3, <3>4, <3>5 DEF Swap!Progress, Swap!AskedChannels
  <2> QED
    BY <1>5, <2>9, <2>10
<1> QED
  BY <1>7, <1>8, <1>9

\* A call that is truthful finds its channels on the start profile.
\* A call starts: it is truthful when the channels run the profile it names.
LEMMA SwapStart == ASSUME Swap!SwapAssumption, Swap!SwapInv, Swap!Start PROVE Swap!SwapInv'
<1> USE DEF Swap!SwapInv
<1>1. s1.pc = "idle" /\ s5' = s5 + 1 /\ s5 < MaxSwaps /\ UNCHANGED <<s2, s3, s4>>
  BY DEF Swap!Start
<1>2. PICK core \in Swap!Cores, first \in 0 .. 8, count \in 1 .. 8, from \in 1 .. 4, to \in 1 .. 4 :
         LET c == Swap!Call(core, first, count, from, to)
         IN /\ Swap!Accepted(c) /\ Swap!Opens(c)
            /\ s1' = [ Swap!Idle EXCEPT !.pc = "ready", !.call = c, !.truthful = Swap!Truthful(c)
                  /\ ~s2.busy,
                           !.others = [ ch \in Swap!Channels(Implemented) \ Swap!AskedChannels(c) |-> s4[ch] ] ]
  BY DEF Swap!Start
<1> DEFINE c == Swap!Call(core, first, count, from, to)
           left == [ ch \in Swap!Channels(Implemented) \ Swap!AskedChannels(c) |-> s4[ch] ]
           truth == Swap!Truthful(c) /\ ~s2.busy
<1>3. s1' = [ pc |-> "ready", call |-> c, i |-> 0, truthful |-> truth, others |-> left ]
  BY <1>2 DEF Swap!Idle
<1>4. /\ c.core = core /\ c.first = first /\ c.count = count /\ c.from = from /\ c.to = to
      /\ c \in [core : Swap!Cores, first : Nat, count : Nat \ {0}, from : Nat, to : Nat]
  BY DEF Swap!Call
<1>5. Swap!Accepted(c) /\ Swap!Opens(c) /\ truth \in BOOLEAN
  BY <1>2 DEF Swap!Truthful, Swap!OnlyEnabled
<1> HIDE DEF c, left, truth
<1>6. ChannelCount[core] \in Nat /\ ChannelCount[Implemented] \in Nat
  BY DEF Swap!SwapAssumption
<1>7. s1'.i = 0 /\ s1'.call = c /\ s1'.pc = "ready"
  BY <1>3
<1>8. Swap!Called'
  BY <1>4, <1>5, <1>6, <1>7 DEF Swap!Called, Swap!Accepted, Swap!Opens
<1>9. Swap!SwapTyped'
  BY <1>1, <1>3, <1>5, <1>8 DEF Swap!SwapTyped, Swap!Pcs, Swap!SwapAssumption
<1>10. Swap!LineHeld'
  BY <1>7 DEF Swap!LineHeld
<1>11. Swap!Channel' = first
  BY <1>4, <1>7 DEF Swap!Channel
<1>12. Swap!Progress'
  <2> SUFFICES ASSUME truth PROVE Swap!Progress'
    BY <1>3 DEF Swap!Progress
  <2>1. core = Implemented /\ (\A ch \in Swap!AskedChannels(c) : Swap!OnlyEnabled(ch, from)) /\ ~s2.busy
    BY <1>4 DEF truth, Swap!Truthful
  <2>2. first \in Swap!AskedChannels(c) /\ \A ch \in Swap!AskedChannels(c) : ~(ch < first)
    BY <1>4 DEF Swap!AskedChannels
  <2>3. Swap!InTurn' = from
    BY <1>4, <1>7 DEF Swap!InTurn
  <2>4. \A ch \in Swap!AskedChannels(c) : Swap!OnlyEnabled(ch, from)'
    BY <1>1, <2>1 DEF Swap!OnlyEnabled
  <2>5. Swap!OnlyEnabled(Swap!Channel, Swap!InTurn)'
    BY <1>1, <1>11, <2>1, <2>2, <2>3 DEF Swap!OnlyEnabled
  <2>6. /\ DOMAIN left = Swap!Channels(Implemented) \ Swap!AskedChannels(c)
        /\ \A ch \in DOMAIN left : s4'[ch] = left[ch]
    BY <1>1 DEF left
  <2>7. s1'.others = left /\ Swap!AskedChannels(s1'.call) = Swap!AskedChannels(c)
    BY <1>3
  <2> QED
    BY <1>1, <1>4, <1>7, <1>11, <2>1, <2>2, <2>4, <2>5, <2>6, <2>7 DEF Swap!Progress, Swap!AskedChannels
<1> QED
  BY <1>9, <1>10, <1>12

\* The controller takes the old profile away and puts the new one in its place.
\* The controller exchanges the groups it was given.
LEMMA SwapReconfigured ==
    ASSUME Swap!SwapAssumption, Swap!SwapInv, Swap!Reconfigured
    PROVE  Swap!SwapInv'
<1> USE DEF Swap!SwapInv
<1>1. /\ s2.busy /\ s2' = [s2 EXCEPT !.busy = FALSE] /\ UNCHANGED <<s1, s4, s5>>
      /\ s3' = (s3 \ {s2.old}) \union {s2.new}
  BY DEF Swap!Reconfigured
<1>2. s2' = [old |-> s2.old, new |-> s2.new, busy |-> FALSE] /\ s2.old \in Nat /\ s2.new \in Nat
  BY <1>1 DEF Swap!SwapTyped
<1>3. Swap!SwapTyped'
  BY <1>1, <1>2 DEF Swap!SwapTyped, Swap!Called
<1>4. Swap!LineHeld'
  BY <1>1, <1>2 DEF Swap!LineHeld, Swap!Channel
<1>5. Swap!Progress'
  <2> SUFFICES ASSUME s1.truthful PROVE Swap!Progress'
    BY <1>1 DEF Swap!Progress
  <2>1. s1.pc = "settle" /\ s1.call.core = Implemented /\ Swap!Called
    BY <1>1 DEF Swap!Progress, Swap!SwapTyped
  <2>2. /\ s2.old = Swap!PROFILES_GROUPS(Implemented, s1.call.from, Swap!Channel)
        /\ s2.new = Swap!PROFILES_GROUPS(Implemented, s1.call.to, Swap!Channel)
        /\ Swap!OnlyEnabled(Swap!Channel, s1.call.from)
    BY <1>1, <2>1 DEF Swap!Progress, Swap!InTurn
  <2>3. Implemented \in Swap!Cores /\ s1.call.from \in Swap!Profiles(Implemented)
          /\ s1.call.to \in Swap!Profiles(Implemented)
    BY <2>1 DEF Swap!SwapAssumption, Swap!Called
  <2>4. Swap!Channel \in Nat /\ Swap!Channel \in Swap!AskedChannels(s1.call)
          /\ Swap!AskedChannels(s1.call) \subseteq Nat
    <3>1. Swap!AskedChannels(s1.call) \subseteq Nat
      BY <2>1 DEF Swap!AskedChannels, Swap!Called
    <3> QED
      BY <2>1, <3>1, ChannelAsked
  <2>5. \A p \in Swap!Profiles(Implemented) : Swap!PROFILES_GROUPS(Implemented, p, Swap!Channel) \in s3' <=> p = s1.call.to
    <3> TAKE p \in Swap!Profiles(Implemented)
    <3>1. Swap!PROFILES_GROUPS(Implemented, p, Swap!Channel) = s2.new => p = s1.call.to
      BY <2>2, <2>3, <2>4, GroupsApart
    <3>2. Swap!PROFILES_GROUPS(Implemented, p, Swap!Channel) \in s3
            => Swap!PROFILES_GROUPS(Implemented, p, Swap!Channel) = s2.old
      BY <2>2 DEF Swap!OnlyEnabled
    <3> QED
      BY <1>1, <2>2, <3>1, <3>2
  <2>6. \A p : \A ch \in Nat : ch # Swap!Channel /\ Swap!OnlyEnabled(ch, p) => Swap!OnlyEnabled(ch, p)'
    <3> SUFFICES ASSUME NEW ch \in Nat, NEW p, ch # Swap!Channel, Swap!OnlyEnabled(ch, p),
        NEW q \in Swap!Profiles(Implemented)
                 PROVE  Swap!PROFILES_GROUPS(Implemented, q, ch) \in s3' <=> q = p
      BY DEF Swap!OnlyEnabled
    <3>1. Swap!PROFILES_GROUPS(Implemented, q, ch) # s2.new
            /\ Swap!PROFILES_GROUPS(Implemented, q, ch) # s2.old
      BY <2>2, <2>3, <2>4, GroupsApart
    <3> QED
      BY <1>1, <3>1 DEF Swap!OnlyEnabled
  <2>7. Swap!InTurn' = s1.call.to /\ Swap!Channel' = Swap!Channel
    BY <1>1, <1>2, <2>1 DEF Swap!InTurn, Swap!Channel
  <2>8. Swap!OnlyEnabled(Swap!Channel, Swap!InTurn)'
    BY <2>5, <2>7 DEF Swap!OnlyEnabled
  <2>9. \A ch \in Swap!AskedChannels(s1.call) :
               /\ ch < Swap!Channel => Swap!Swapped(s1.call, ch)'
               /\ ch > Swap!Channel => Swap!OnlyEnabled(ch, s1.call.from)'
    <3> TAKE ch \in Swap!AskedChannels(s1.call)
    <3>1. ch \in Nat
      BY <2>4
    <3>2. ch < Swap!Channel => Swap!Swapped(s1.call, ch) /\ ch # Swap!Channel
      BY <2>4, <3>1 DEF Swap!Progress
    <3>3. ch > Swap!Channel => Swap!OnlyEnabled(ch, s1.call.from) /\ ch # Swap!Channel
      BY <2>4, <3>1 DEF Swap!Progress
    <3> QED
      BY <1>1, <2>6, <3>1, <3>2, <3>3 DEF Swap!Swapped
  <2> QED
    BY <1>1, <1>2, <2>1, <2>2, <2>7, <2>8, <2>9 DEF Swap!Progress, Swap!AskedChannels
<1> QED
  BY <1>3, <1>4, <1>5

\* Every step of the script and of the core keeps the inductive invariant.
LEMMA SwapStep ==
    ASSUME Swap!SwapAssumption, Swap!SwapInv, [Swap!Next]_(Swap!vars)
    PROVE  Swap!SwapInv'
<1>1. CASE Swap!Kill
  BY <1>1 DEF Swap!Kill, Swap!Idle, Swap!SwapInv, Swap!SwapTyped, Swap!LineHeld, Swap!Progress, Swap!Pcs
<1>2. CASE UNCHANGED Swap!vars
  BY <1>2 DEF Swap!vars, Swap!SwapInv, Swap!SwapTyped, Swap!LineHeld, Swap!Progress, Swap!Called,
       Swap!Channel, Swap!InTurn, Swap!Swapped, Swap!OnlyEnabled
<1> QED
  BY <1>1, <1>2, SwapStart, SwapScript, SwapWrites, SwapClear, SwapReconfigured DEF Swap!Next

\* The inductive invariant implies the type invariant and the property.
LEMMA SwapFromInv ==
    ASSUME Swap!SwapAssumption, Swap!SwapInv
    PROVE  Swap!TypeOK /\ Swap!ProfilesAsAsked
<1> USE DEF Swap!SwapInv
<1>1. Swap!TypeOK
  BY ChannelAsked DEF Swap!SwapTyped, Swap!TypeOK, Swap!Pcs, Swap!Lines
<1>2. ASSUME s1.pc = "idle", s1.truthful
      PROVE  /\ \A ch \in Swap!AskedChannels(s1.call) : Swap!Swapped(s1.call, ch)
             /\ \A ch \in DOMAIN s1.others : s4[ch] = s1.others[ch]
  <2>1. Swap!Called
    BY <1>2 DEF Swap!SwapTyped
  <2>2. \A ch \in Swap!AskedChannels(s1.call) : ch < Swap!Channel \/ ch = Swap!Channel
    BY <1>2, <2>1 DEF Swap!Called, Swap!AskedChannels, Swap!Channel, Swap!SwapTyped
  <2> QED
    BY <1>2, <2>2 DEF Swap!Progress
<1> QED
  BY <1>1, <1>2 DEF Swap!ProfilesAsAsked, Swap!LineHeld, Swap!Pcs

\* For every number of channels and both cores: a swap called with the profile
\* that runs leaves every channel asked for with the profile, the FEC and the
\* speed asked for and out of reset, and the other channels as they were
\* (profile_swap.py).
THEOREM ProfilesSwapped ==
    ASSUME Swap!SwapAssumption
    PROVE  Swap!Spec => [](Swap!TypeOK /\ Swap!ProfilesAsAsked)
<1>1. Swap!Spec => []Swap!SwapInv
  BY SwapInit, SwapStep, PTL DEF Swap!Spec
<1> QED
  BY <1>1, SwapFromInv, PTL

(* ---- The transceivers of the F-Tile ------------------------------------- *)
\* s1 the running call, s2 the reset, s3 the requests, s4 the answers and s5 the
\* work of the firmware for each lane, s6 the attributes, s7 the calls made.

\* The registers of every lane are at rest when the tile starts.
LEMMA PmaInit == ASSUME Pma!PmaAssumption, Pma!Init PROVE Pma!PmaInv
<1> USE DEF Pma!PmaAssumption, Pma!Init, Pma!Lanes, Pma!Opcodes, Pma!Values, Pma!Request
<1>1. \A l \in Pma!Lanes : s3[l] \in Pma!Requests /\ ~s3[l].service /\ s3[l].data \in Pma!Values
  <2> TAKE l \in Pma!Lanes
  <2>1. PICK m \in Media : s3[l] = [service |-> FALSE, op |-> "media", data |-> m]
    OBVIOUS
  <2>2. QED
    BY <2>1 DEF Pma!Requests
<1>2. s6 \in [Pma!Lanes -> Pma!Attributes]
    BY <1>1 DEF Pma!Attributes
<1>3. Pma!TypeOK
  <2>1. s3 \in [Pma!Lanes -> Pma!Requests]
    BY <1>1
  <2>2. s1.was \in [Pma!Lanes -> Pma!Attributes] /\ 0 \in Pma!Lanes /\ 0 \in Pma!Values
    BY <1>2
  <2>3. QED
    BY <1>2, <2>1, <2>2 DEF Pma!TypeOK
<1>4. Pma!Calm
    BY <1>1 DEF Pma!Calm, Pma!Rest
<1>5. QED
    BY <1>1, <1>3, <1>4 DEF Pma!PmaInv, Pma!ResetInv, Pma!RestInv, Pma!CalmInv, Pma!InLanes, Pma!LoopOpen

\* A lane at rest stays so under the firmware, and the firmware changes nothing
\* but the lane it works for.
LEMMA FirmwareLeavesRest ==
    ASSUME Pma!PmaAssumption, Pma!TypeOK, NEW l \in Pma!Lanes, Pma!Serve(l) \/ Pma!Answer(l)
    PROVE  /\ ~Pma!Rest(l)
           /\ \A k \in Pma!Lanes : k # l => /\ s5'[k] = s5[k] /\ s4'[k] = s4[k]
                                            /\ s6'[k] = s6[k]
           /\ UNCHANGED <<s1, s2, s3, s7>>
<1>1. s3[l].service \in BOOLEAN /\ s4[l] \in BOOLEAN
    BY DEF Pma!TypeOK, Pma!Requests
<1>2. ~Pma!Rest(l)
    BY <1>1, Zenon DEF Pma!Serve, Pma!Answer, Pma!Rest
<1>3. CASE Pma!Serve(l)
    BY <1>2, <1>3 DEF Pma!Serve, Pma!TypeOK
<1>4. CASE Pma!Answer(l)
    BY <1>2, <1>4 DEF Pma!Answer, Pma!TypeOK
<1>5. QED
    BY <1>3, <1>4

\* Every step keeps the types.
LEMMA PmaType == ASSUME Pma!PmaAssumption, Pma!TypeOK, [Pma!Next]_(Pma!vars) PROVE Pma!TypeOK'
<1> USE DEF Pma!PmaAssumption
<1>1. ASSUME NEW enable \in BOOLEAN, Pma!pma_loopback(enable) PROVE Pma!TypeOK'
  <2>1. Pma!LoopData(enable) \in Pma!Values /\ 0 \in Pma!Lanes /\ Pma!Calm \in BOOLEAN
    BY DEF Pma!LoopData, Pma!Values, Pma!Lanes, Pma!Calm
  <2>2. QED
    BY <2>1, <1>1 DEF Pma!pma_loopback, Pma!Begin, Pma!TypeOK, Pma!Opcodes
<1>2. ASSUME NEW mode \in Media, Pma!set_mode(mode) PROVE Pma!TypeOK'
  <2>1. mode \in Pma!Values /\ 0 \in Pma!Lanes /\ Pma!Calm \in BOOLEAN
    BY DEF Pma!Values, Pma!Lanes, Pma!Calm
  <2>2. QED
    BY <2>1, <1>2 DEF Pma!set_mode, Pma!Begin, Pma!TypeOK, Pma!Opcodes
<1>3. CASE Pma!set_rxreset
    BY <1>3 DEF Pma!set_rxreset, Pma!TypeOK
<1>4. CASE Pma!cpi_request
    BY <1>4 DEF Pma!cpi_request, Pma!TypeOK, Pma!Requests, Pma!Request, Pma!Values
<1>5. CASE Pma!Poll
  <2>1. s1.lane + 1 < LaneCount => s1.lane + 1 \in Pma!Lanes
    BY DEF Pma!TypeOK, Pma!Lanes
  <2>2. QED
    BY <2>1, <1>5 DEF Pma!Poll, Pma!AfterPoll, Pma!TypeOK
<1>6. CASE Pma!clr_rxreset
    BY <1>6 DEF Pma!clr_rxreset, Pma!TypeOK
<1>7. CASE Pma!Kill
    BY <1>7 DEF Pma!Kill, Pma!TypeOK
<1>8. ASSUME NEW l \in Pma!Lanes, Pma!Serve(l) PROVE Pma!TypeOK'
    BY <1>8 DEF Pma!Serve, Pma!TypeOK
<1>9. ASSUME NEW l \in Pma!Lanes, Pma!Answer(l) PROVE Pma!TypeOK'
  <2>1. s5[l] \in Pma!Requests
    BY <1>9 DEF Pma!Answer, Pma!TypeOK
  <2>2. [s6[l] EXCEPT ![s5[l].op] = s5[l].data] \in Pma!Attributes
    BY <2>1 DEF Pma!Attributes, Pma!Requests, Pma!Values, Pma!TypeOK
  <2>3. s6' \in [Pma!Lanes -> Pma!Attributes]
    BY <2>2, <1>9 DEF Pma!Answer, Pma!TypeOK
  <2>4. QED
    BY <2>1, <2>3, <1>9 DEF Pma!Answer, Pma!TypeOK, Pma!Requests
<1>10. CASE UNCHANGED Pma!vars
    BY <1>10 DEF Pma!vars, Pma!TypeOK
<1>11. QED
    BY <1>1, <1>2, <1>3, <1>4, <1>5, <1>6, <1>7, <1>8, <1>9, <1>10 DEF Pma!Next

\* What the steps of the script leave alone, so that the lanes it has passed and
\* those it has not reached are as they were.
LEMMA OtherLanes ==
    ASSUME Pma!PmaAssumption, Pma!TypeOK, Pma!cpi_request, NEW l \in Pma!Lanes, l # s1.lane
    PROVE  /\ Pma!Rest(l) => Pma!Rest(l)'
           /\ Pma!Was(l) => Pma!Was(l)'
           /\ Pma!Set(l) => Pma!Set(l)'
           /\ Pma!LoopOpen(l)' => Pma!LoopOpen(l)
BY DEF Pma!cpi_request, Pma!TypeOK, Pma!Rest, Pma!Was, Pma!Set, Pma!LoopOpen

\* The lanes a call has passed are at rest, and all of them when it has ended.
LEMMA PmaRest == ASSUME Pma!PmaAssumption, Pma!PmaInv, [Pma!Next]_(Pma!vars) PROVE Pma!RestInv'
<1> USE DEF Pma!PmaAssumption, Pma!PmaInv, Pma!InLanes
<1>1. ASSUME NEW enable \in BOOLEAN, Pma!pma_loopback(enable) PROVE Pma!RestInv'
    BY <1>1 DEF Pma!pma_loopback, Pma!Begin, Pma!RestInv, Pma!TypeOK, Pma!Lanes
<1>2. ASSUME NEW mode \in Media, Pma!set_mode(mode) PROVE Pma!RestInv'
    BY <1>2 DEF Pma!set_mode, Pma!Begin, Pma!RestInv, Pma!TypeOK, Pma!Lanes
<1>3. CASE Pma!set_rxreset
    BY <1>3 DEF Pma!set_rxreset, Pma!RestInv, Pma!TypeOK, Pma!Lanes
<1>4. CASE Pma!cpi_request
  <2>1. \A l \in Pma!Lanes : l < s1.lane => Pma!Rest(l)'
    BY <1>4, OtherLanes DEF Pma!RestInv, Pma!cpi_request, Pma!TypeOK, Pma!Lanes
  <2>2. s3'[s1.lane] = Pma!Request(s1.service, s1.op, s1.data)
    BY <1>4 DEF Pma!cpi_request, Pma!TypeOK
  <2>3. QED
    BY <1>4, <2>1, <2>2 DEF Pma!cpi_request, Pma!RestInv, Pma!TypeOK, Pma!Asked
<1>5. CASE Pma!Poll
  <2>1. s3[s1.lane].service = s1.service
    BY <1>5 DEF Pma!Poll, Pma!RestInv, Pma!Asked, Pma!Request
  <2>2. ~s1.service => Pma!Rest(s1.lane)
    BY <1>5, <2>1 DEF Pma!Poll, Pma!Rest
  <2>3. \A l \in Pma!Lanes : l < s1.lane => Pma!Rest(l)
    BY <1>5 DEF Pma!Poll, Pma!RestInv
  <2>4. \A l \in Pma!Lanes : Pma!Rest(l)' <=> Pma!Rest(l)
    BY <1>5 DEF Pma!Poll, Pma!Rest
  <2>5. CASE s1.service
    BY <1>5, <2>3, <2>4, <2>5 DEF Pma!Poll, Pma!AfterPoll, Pma!RestInv, Pma!TypeOK
  <2>6. CASE ~s1.service /\ s1.lane + 1 < LaneCount
    <3>1. \A l \in Pma!Lanes : l < s1.lane + 1 => Pma!Rest(l)
      BY <2>2, <2>3, <2>6 DEF Pma!TypeOK, Pma!Lanes
    <3>2. s1' = [s1 EXCEPT !.pc = "request", !.service = TRUE, !.lane = @ + 1]
      BY <1>5, <2>6 DEF Pma!Poll, Pma!AfterPoll
    <3>3. s1'.pc = "request" /\ s1'.lane = s1.lane + 1 /\ s1'.whole = s1.whole
      BY <3>2 DEF Pma!TypeOK
    <3>4. QED
      BY <1>5, <2>4, <3>1, <3>3 DEF Pma!Poll, Pma!RestInv
  <2>7. CASE ~s1.service /\ ~(s1.lane + 1 < LaneCount)
    <3>1. \A l \in Pma!Lanes : Pma!Rest(l)
      BY <2>2, <2>3, <2>7 DEF Pma!TypeOK, Pma!Lanes
    <3>2. Pma!Calm'
      BY <2>4, <3>1 DEF Pma!Calm
    <3>3. QED
      BY <1>5, <2>7, <3>2 DEF Pma!Poll, Pma!AfterPoll, Pma!RestInv, Pma!TypeOK
  <2>8. QED
    BY <2>5, <2>6, <2>7 DEF Pma!TypeOK
<1>6. CASE Pma!clr_rxreset
    BY <1>6 DEF Pma!clr_rxreset, Pma!RestInv, Pma!TypeOK, Pma!Calm, Pma!Rest
<1>7. CASE Pma!Kill
    BY <1>7 DEF Pma!Kill, Pma!RestInv, Pma!TypeOK
<1>8. ASSUME NEW l \in Pma!Lanes, Pma!Serve(l) \/ Pma!Answer(l) PROVE Pma!RestInv'
  <2>1. \A k \in Pma!Lanes : Pma!Rest(k) => Pma!Rest(k)'
    BY <1>8, FirmwareLeavesRest DEF Pma!Rest
  <2>2. Pma!Calm => Pma!Calm'
    BY <2>1 DEF Pma!Calm
  <2>3. UNCHANGED <<s1, s3>>
    BY <1>8, FirmwareLeavesRest
  <2>4. QED
    BY <2>1, <2>2, <2>3 DEF Pma!RestInv, Pma!Asked, Pma!Request
<1>9. CASE UNCHANGED Pma!vars
    BY <1>9 DEF Pma!vars, Pma!RestInv, Pma!Calm, Pma!Rest, Pma!Asked, Pma!Request
<1>10. QED
    BY <1>1, <1>2, <1>3, <1>4, <1>5, <1>6, <1>7, <1>8, <1>9 DEF Pma!Next

\* A change of the loop mode is asked for by a call of pma_loopback alone, which
\* holds the reset; the reset ends when every lane is at rest.
LEMMA PmaReset == ASSUME Pma!PmaAssumption, Pma!PmaInv, [Pma!Next]_(Pma!vars) PROVE Pma!ResetInv'
<1> USE DEF Pma!PmaAssumption, Pma!PmaInv, Pma!InLanes
<1>1. ASSUME NEW enable \in BOOLEAN, Pma!pma_loopback(enable) PROVE Pma!ResetInv'
  <2>1. \A l \in Pma!Lanes : Pma!LoopOpen(l)' <=> Pma!LoopOpen(l)
    BY <1>1 DEF Pma!pma_loopback, Pma!Begin, Pma!LoopOpen
  <2>2. s1'.pc = "reset" /\ s1'.op = "loop" /\ ~s1'.whole /\ s2' = s2
    BY <1>1 DEF Pma!pma_loopback, Pma!Begin
  <2>3. QED
    BY <2>1, <2>2 DEF Pma!ResetInv
<1>2. ASSUME NEW mode \in Media, Pma!set_mode(mode) PROVE Pma!ResetInv'
  <2>1. \A l \in Pma!Lanes : Pma!LoopOpen(l)' <=> Pma!LoopOpen(l)
    BY <1>2 DEF Pma!set_mode, Pma!Begin, Pma!LoopOpen
  <2>2. s1'.pc = "request" /\ s1'.op = "media" /\ s2' = s2
    BY <1>2 DEF Pma!set_mode, Pma!Begin
  <2>3. QED
    BY <2>1, <2>2 DEF Pma!ResetInv
<1>3. CASE Pma!set_rxreset
    BY <1>3 DEF Pma!set_rxreset, Pma!ResetInv, Pma!RestInv, Pma!TypeOK
<1>4. CASE Pma!cpi_request
  <2>1. s1.op = "loop" => s2
    BY <1>4 DEF Pma!cpi_request, Pma!ResetInv
  <2>2. s5' = s5 /\ s3'[s1.lane] = Pma!Request(s1.service, s1.op, s1.data)
    BY <1>4 DEF Pma!cpi_request, Pma!TypeOK
  <2>3. \A l \in Pma!Lanes : l = s1.lane /\ Pma!LoopOpen(l)' => s2
    BY <2>1, <2>2 DEF Pma!LoopOpen, Pma!Request, Pma!ResetInv
  <2>4. \A l \in Pma!Lanes : Pma!LoopOpen(l)' => s2
    BY <1>4, <2>3, OtherLanes DEF Pma!ResetInv
  <2>5. QED
    BY <1>4, <2>4 DEF Pma!cpi_request, Pma!ResetInv, Pma!RestInv, Pma!TypeOK
<1>5. CASE Pma!Poll
    BY <1>5 DEF Pma!Poll, Pma!AfterPoll, Pma!ResetInv, Pma!RestInv, Pma!TypeOK, Pma!LoopOpen
<1>6. CASE Pma!clr_rxreset
  <2>1. Pma!Calm
    BY <1>6 DEF Pma!clr_rxreset, Pma!RestInv
  <2>2. \A l \in Pma!Lanes : ~Pma!LoopOpen(l)'
    BY <1>6, <2>1 DEF Pma!clr_rxreset, Pma!Calm, Pma!Rest, Pma!LoopOpen
  <2>3. QED
    BY <1>6, <2>2 DEF Pma!clr_rxreset, Pma!ResetInv, Pma!TypeOK
<1>7. CASE Pma!Kill
    BY <1>7 DEF Pma!Kill, Pma!ResetInv, Pma!RestInv, Pma!TypeOK, Pma!LoopOpen
<1>8. ASSUME NEW l \in Pma!Lanes, Pma!Serve(l) \/ Pma!Answer(l) PROVE Pma!ResetInv'
  <2>1. \A k \in Pma!Lanes : Pma!LoopOpen(k)' => Pma!LoopOpen(k)
    BY <1>8 DEF Pma!Serve, Pma!Answer, Pma!LoopOpen, Pma!TypeOK
  <2>2. QED
    BY <1>8, <2>1, FirmwareLeavesRest DEF Pma!ResetInv
<1>9. CASE UNCHANGED Pma!vars
    BY <1>9 DEF Pma!vars, Pma!ResetInv, Pma!LoopOpen
<1>10. QED
    BY <1>1, <1>2, <1>3, <1>4, <1>5, <1>6, <1>7, <1>8, <1>9 DEF Pma!Next

\* A step of the firmware at the lane of the call follows the handshake; at any
\* other lane of a call that found none open it has nothing to do.
LEMMA HandFollowed ==
    ASSUME Pma!PmaAssumption, Pma!TypeOK, Pma!InLanes, Pma!Hand(s1.lane),
           Pma!Serve(s1.lane) \/ Pma!Answer(s1.lane)
    PROVE  Pma!Hand(s1.lane)'
<1> USE DEF Pma!PmaAssumption, Pma!InLanes
<1> DEFINE l == s1.lane
<1>1. /\ s1' = s1 /\ s3' = s3 /\ ~Pma!Rest(l) /\ l \in Pma!Lanes
      /\ Pma!Asked(TRUE).service /\ Pma!Asked(TRUE).op = s1.op /\ Pma!Asked(TRUE).data = s1.data
      /\ ~Pma!Asked(FALSE).service
      /\ Pma!Asked(TRUE) # None /\ Pma!Asked(FALSE) # None
  <2>1. l \in Pma!Lanes
    BY DEF Pma!TypeOK
  <2>2. s1' = s1 /\ s3' = s3 /\ ~Pma!Rest(l)
    BY <2>1, FirmwareLeavesRest
  <2>3. Pma!Asked(TRUE) \in Pma!Requests /\ Pma!Asked(FALSE) \in Pma!Requests
    BY DEF Pma!Asked, Pma!Request, Pma!Requests, Pma!TypeOK, Pma!Values
  <2>4. QED
    BY <2>1, <2>2, <2>3 DEF Pma!Asked, Pma!Request
<1>2. s1.pc = "request" => ~s1.service
    BY <1>1 DEF Pma!Hand
<1>3. CASE s1.pc = "request"
  <2>1. Pma!Applied(l)
    BY <1>2, <1>3 DEF Pma!Hand
  <2>2. QED
    BY <1>1, <2>1 DEF Pma!Applied, Pma!Serve, Pma!Answer, Pma!TypeOK
<1>4. CASE s1.pc = "poll" /\ s1.service
  <2>1. Pma!Raised(l)
    BY <1>4 DEF Pma!Hand
  <2>2. CASE Pma!Serve(l)
    <3>1. s5'[l] = Pma!Asked(TRUE) /\ ~s4'[l] /\ Pma!Was(l)'
      BY <1>1, <2>1, <2>2 DEF Pma!Serve, Pma!Raised, Pma!TypeOK, Pma!Was
    <3>2. QED
      BY <1>1, <1>4, <2>1, <3>1 DEF Pma!Hand, Pma!Raised, Pma!Asked
  <2>3. CASE Pma!Answer(l)
    <3>1. s5[l] = Pma!Asked(TRUE) /\ ~s4[l] /\ Pma!Was(l)
      BY <2>1, <2>3 DEF Pma!Answer, Pma!Raised
    <3>2. s5'[l] = None /\ s4'[l]
      BY <1>1, <2>3, <3>1 DEF Pma!Answer, Pma!TypeOK
    <3>3. s6'[l] = [s6[l] EXCEPT ![s1.op] = s1.data]
      BY <1>1, <2>3, <3>1 DEF Pma!Answer, Pma!TypeOK
    <3>4. Pma!Set(l)'
      BY <1>1, <3>1, <3>3 DEF Pma!Was, Pma!Set
    <3>5. QED
      BY <1>1, <1>4, <2>1, <3>2, <3>4 DEF Pma!Hand, Pma!Raised, Pma!Asked
  <2>4. QED
    BY <2>2, <2>3
<1>5. CASE s1.pc = "poll" /\ ~s1.service
  <2>1. Pma!Lowered(l)
    BY <1>5 DEF Pma!Hand
  <2>2. s6' = s6 /\ s5'[l] \in {None, Pma!Asked(FALSE)}
    BY <1>1, <2>1 DEF Pma!Lowered, Pma!Serve, Pma!Answer, Pma!TypeOK
  <2>3. Pma!Lowered(l)'
    BY <1>1, <2>1, <2>2 DEF Pma!Lowered, Pma!Asked, Pma!Set
  <2>4. QED
    BY <1>1, <1>5, <2>3 DEF Pma!Hand
<1>6. QED
    BY <1>3, <1>4, <1>5

\* A call that found no request open sets lane after lane to the value asked for.
LEMMA PmaCalm == ASSUME Pma!PmaAssumption, Pma!PmaInv, [Pma!Next]_(Pma!vars) PROVE Pma!CalmInv'
<1> USE DEF Pma!PmaAssumption, Pma!PmaInv, Pma!InLanes
<1> SUFFICES ASSUME s1'.calm PROVE Pma!CalmInv'
    BY DEF Pma!CalmInv
<1>1. ASSUME NEW enable \in BOOLEAN, Pma!pma_loopback(enable) PROVE Pma!CalmInv'
  <2>1. /\ s1'.pc = "reset" /\ ~s1'.whole /\ s1'.calm = Pma!Calm
        /\ s1'.was = s6 /\ s6' = s6
    BY <1>1 DEF Pma!pma_loopback, Pma!Begin
  <2>2. \A l \in Pma!Lanes : Pma!Rest(l)' /\ Pma!Was(l)'
    BY <1>1, <2>1 DEF Pma!pma_loopback, Pma!Begin, Pma!Calm, Pma!Rest, Pma!Was
  <2>3. QED
    BY <2>1, <2>2 DEF Pma!CalmInv
<1>2. ASSUME NEW mode \in Media, Pma!set_mode(mode) PROVE Pma!CalmInv'
  <2>1. /\ s1'.pc = "request" /\ ~s1'.whole /\ s1'.calm = Pma!Calm
        /\ s1'.was = s6 /\ s6' = s6 /\ s1'.lane = 0 /\ s1'.service
    BY <1>2 DEF Pma!set_mode, Pma!Begin
  <2>2. \A l \in Pma!Lanes : Pma!Rest(l)' /\ Pma!Was(l)'
    BY <1>2, <2>1 DEF Pma!set_mode, Pma!Begin, Pma!Calm, Pma!Rest, Pma!Was
  <2>3. 0 \in Pma!Lanes /\ \A l \in Pma!Lanes : ~(l < 0)
    BY DEF Pma!Lanes
  <2>4. Pma!Hand(0)'
    BY <2>1, <2>2, <2>3 DEF Pma!Hand
  <2>5. Pma!Hand(s1.lane)'
    BY <2>1, <2>2, <2>3 DEF Pma!Hand, Pma!Rest, Pma!Was
  <2>6. QED
    BY <2>1, <2>2, <2>3, <2>5 DEF Pma!CalmInv
<1>3. CASE Pma!set_rxreset
  <2>1. /\ s1.pc = "reset" /\ s1.calm /\ s1'.pc = "request" /\ ~s1'.whole
        /\ s1'.lane = 0 /\ s1'.service /\ s1'.was = s1.was
    BY <1>3 DEF Pma!set_rxreset, Pma!RestInv, Pma!TypeOK
  <2>2. \A l \in Pma!Lanes : Pma!Rest(l)' /\ Pma!Was(l)'
    BY <1>3, <2>1 DEF Pma!set_rxreset, Pma!CalmInv, Pma!Rest, Pma!Was
  <2>3. 0 \in Pma!Lanes /\ \A l \in Pma!Lanes : ~(l < 0)
    BY DEF Pma!Lanes
  <2>4. Pma!Hand(s1.lane)'
    BY <2>1, <2>2, <2>3 DEF Pma!Hand, Pma!Rest, Pma!Was
  <2>5. QED
    BY <2>1, <2>2, <2>3, <2>4 DEF Pma!CalmInv
<1>4. CASE Pma!cpi_request
  <2>1. /\ s1.pc = "request" /\ s1'.pc = "poll" /\ s1.calm /\ ~s1'.whole
        /\ s1'.lane = s1.lane /\ s1'.service = s1.service /\ s1'.was = s1.was
        /\ s1'.op = s1.op /\ s1'.data = s1.data /\ s1.lane \in Pma!Lanes
    BY <1>4 DEF Pma!cpi_request, Pma!RestInv, Pma!TypeOK
  <2>2. /\ s3'[s1.lane] = Pma!Asked(s1.service)
        /\ s5' = s5 /\ s4' = s4 /\ s6' = s6
    BY <1>4, <2>1 DEF Pma!cpi_request, Pma!TypeOK, Pma!Asked
  <2>3. \A l \in Pma!Lanes : /\ l < s1.lane => Pma!Set(l)'
                             /\ l > s1.lane => Pma!Rest(l)' /\ Pma!Was(l)'
    <3>1. \A l \in Pma!Lanes : /\ l < s1.lane => Pma!Set(l)
                               /\ l > s1.lane => Pma!Rest(l) /\ Pma!Was(l)
      BY <2>1 DEF Pma!CalmInv
    <3>2. QED
      BY <1>4, <2>1, <3>1, OtherLanes DEF Pma!Lanes
  <2>4. Pma!Hand(s1.lane)
    BY <2>1 DEF Pma!CalmInv
  <2>5. CASE s1.service
    <3>1. Pma!Rest(s1.lane) /\ Pma!Was(s1.lane)
      BY <2>1, <2>4, <2>5 DEF Pma!Hand
    <3>2. Pma!Raised(s1.lane)'
      BY <2>1, <2>2, <2>5, <3>1 DEF Pma!Raised, Pma!Asked, Pma!Rest, Pma!Was
    <3>3. QED
      BY <2>1, <2>3, <2>5, <3>2 DEF Pma!CalmInv, Pma!Hand
  <2>6. CASE ~s1.service
    <3>1. Pma!Applied(s1.lane)
      BY <2>1, <2>4, <2>6 DEF Pma!Hand
    <3>2. Pma!Lowered(s1.lane)'
      BY <2>1, <2>2, <2>6, <3>1 DEF Pma!Lowered, Pma!Applied, Pma!Asked, Pma!Set, Pma!TypeOK
    <3>3. QED
      BY <2>1, <2>3, <2>6, <3>2 DEF Pma!CalmInv, Pma!Hand
  <2>7. QED
    BY <2>5, <2>6
<1>5. CASE Pma!Poll
  <2>1. /\ s1.pc = "poll" /\ s1.calm /\ ~s1.whole /\ s1.lane \in Pma!Lanes
        /\ s1' = Pma!AfterPoll /\ s5[s1.lane] = None /\ s4[s1.lane] = s1.service
        /\ s1'.was = s1.was /\ s1'.op = s1.op /\ s1'.data = s1.data
    BY <1>5 DEF Pma!Poll, Pma!AfterPoll, Pma!RestInv, Pma!TypeOK
  <2>2. \A l \in Pma!Lanes : (Pma!Rest(l)' <=> Pma!Rest(l)) /\ (Pma!Was(l)' <=> Pma!Was(l))
                             /\ (Pma!Set(l)' <=> Pma!Set(l))
    BY <1>5, <2>1 DEF Pma!Poll, Pma!Rest, Pma!Was, Pma!Set
  <2>3. Pma!Hand(s1.lane) /\ \A l \in Pma!Lanes : /\ l < s1.lane => Pma!Set(l)
                                                  /\ l > s1.lane => Pma!Rest(l) /\ Pma!Was(l)
    BY <2>1 DEF Pma!CalmInv
  <2>4. CASE s1.service
    <3>1. Pma!Raised(s1.lane)
      BY <2>1, <2>3, <2>4 DEF Pma!Hand
    <3>2. s1'.pc = "request" /\ ~s1'.service /\ s1'.lane = s1.lane /\ ~s1'.whole
      BY <2>1, <2>4 DEF Pma!AfterPoll, Pma!TypeOK
    <3>3. Pma!Applied(s1.lane)'
      BY <1>5, <2>1, <2>2, <2>4, <3>1, <3>2 DEF Pma!Raised, Pma!Applied, Pma!Asked, Pma!Poll, Pma!Set
    <3>4. QED
      BY <2>2, <2>3, <3>2, <3>3 DEF Pma!CalmInv, Pma!Hand
  <2>5. CASE ~s1.service
    <3>1. Pma!Set(s1.lane)
      BY <2>1, <2>3, <2>5 DEF Pma!Hand, Pma!Lowered
    <3>2. CASE s1.lane + 1 < LaneCount
      <4>1. s1'.pc = "request" /\ s1'.service /\ s1'.lane = s1.lane + 1 /\ ~s1'.whole
        BY <2>1, <2>5, <3>2 DEF Pma!AfterPoll, Pma!TypeOK
      <4>2. s1.lane + 1 \in Pma!Lanes /\ s1.lane + 1 > s1.lane
        BY <2>1, <3>2 DEF Pma!Lanes
      <4>3. Pma!Hand(s1.lane)'
        BY <2>2, <2>3, <4>1, <4>2 DEF Pma!Hand, Pma!Rest, Pma!Was
      <4>4. \A l \in Pma!Lanes : l < s1.lane + 1 => Pma!Set(l)'
        BY <2>1, <2>2, <2>3, <3>1 DEF Pma!Lanes
      <4>5. \A l \in Pma!Lanes : l > s1.lane + 1 => Pma!Rest(l)' /\ Pma!Was(l)'
        BY <2>1, <2>2, <2>3 DEF Pma!Lanes
      <4>6. QED
        BY <4>1, <4>3, <4>4, <4>5 DEF Pma!CalmInv
    <3>3. CASE ~(s1.lane + 1 < LaneCount)
      <4>1. \A l \in Pma!Lanes : Pma!Set(l)'
        BY <2>1, <2>2, <2>3, <3>1, <3>3 DEF Pma!Lanes
      <4>2. s1'.pc \in {"clear", "idle"}
        BY <2>1, <2>5, <3>3 DEF Pma!AfterPoll, Pma!TypeOK
      <4>3. QED
        BY <4>1, <4>2 DEF Pma!CalmInv
    <3>4. QED
      BY <3>2, <3>3
  <2>6. QED
    BY <2>4, <2>5
<1>6. CASE Pma!clr_rxreset
  <2>1. /\ s1.pc = "clear" /\ s1.calm /\ s1'.pc = "idle"
        /\ s1'.was = s1.was /\ s1'.op = s1.op /\ s1'.data = s1.data
    BY <1>6 DEF Pma!clr_rxreset, Pma!TypeOK
  <2>2. \A l \in Pma!Lanes : Pma!Set(l)'
    BY <1>6, <2>1 DEF Pma!clr_rxreset, Pma!CalmInv, Pma!Set
  <2>3. QED
    BY <2>1, <2>2 DEF Pma!CalmInv
<1>7. CASE Pma!Kill
    BY <1>7 DEF Pma!Kill, Pma!RestInv, Pma!TypeOK, Pma!CalmInv
<1>8. ASSUME NEW l \in Pma!Lanes, Pma!Serve(l) \/ Pma!Answer(l) PROVE Pma!CalmInv'
  <2>1. s1' = s1 /\ ~Pma!Rest(l)
    BY <1>8, FirmwareLeavesRest
  <2>2. CASE ~Pma!InLanes
    <3>1. s1.pc # "reset" /\ s1.pc # "clear" /\ ~s1.whole
      BY <2>1 DEF Pma!RestInv, Pma!CalmInv, Pma!Calm
    <3>2. QED
      BY <2>1, <2>2, <3>1 DEF Pma!CalmInv
  <2>3. CASE Pma!InLanes
    <3>1. /\ s1.calm /\ s1.pc # "reset" /\ s1.pc # "clear" /\ ~s1.whole
          /\ s1.lane \in Pma!Lanes
      BY <2>1, <2>3 DEF Pma!RestInv, Pma!TypeOK
    <3>2. \A k \in Pma!Lanes : k # l => (Pma!Rest(k)' <=> Pma!Rest(k)) /\ (Pma!Was(k)' <=> Pma!Was(k))
                                   /\ (Pma!Set(k)' <=> Pma!Set(k))
      BY <1>8, FirmwareLeavesRest DEF Pma!Rest, Pma!Was, Pma!Set
    <3>3. l >= s1.lane /\ ~(l > s1.lane)
      BY <2>1, <2>3, <3>1 DEF Pma!RestInv, Pma!CalmInv, Pma!Lanes
    <3>4. l = s1.lane
      BY <3>1, <3>3 DEF Pma!Lanes
    <3>5. Pma!Hand(s1.lane)'
      BY <1>8, <2>3, <3>1, <3>4, HandFollowed DEF Pma!CalmInv
    <3>6. \A k \in Pma!Lanes : /\ k < s1.lane => Pma!Set(k)'
                               /\ k > s1.lane => Pma!Rest(k)' /\ Pma!Was(k)'
      BY <2>3, <3>1, <3>2, <3>4 DEF Pma!CalmInv, Pma!Lanes
    <3>7. QED
      BY <2>1, <2>3, <3>1, <3>5, <3>6 DEF Pma!CalmInv
  <2>4. QED
    BY <2>2, <2>3
<1>9. CASE UNCHANGED Pma!vars
    BY <1>9 DEF Pma!vars, Pma!CalmInv, Pma!Rest, Pma!Was, Pma!Set, Pma!Hand, Pma!Raised, Pma!Applied,
         Pma!Lowered, Pma!Asked
<1>10. QED
    BY <1>1, <1>2, <1>3, <1>4, <1>5, <1>6, <1>7, <1>8, <1>9 DEF Pma!Next

\* Every step keeps the inductive invariant: the registers of the lanes, the call
\* and the reset agree with one another.
LEMMA PmaInductive == ASSUME Pma!PmaAssumption, Pma!PmaInv, [Pma!Next]_(Pma!vars) PROVE Pma!PmaInv'
<1>1. Pma!TypeOK' /\ Pma!RestInv' /\ Pma!ResetInv' /\ Pma!CalmInv'
  BY PmaType, PmaRest, PmaReset, PmaCalm DEF Pma!PmaInv
<1> QED
  BY <1>1 DEF Pma!PmaInv

\* The inductive invariant implies the property.
LEMMA PmaFromInv == Pma!PmaInv => Pma!LoopsAsAsked
  BY DEF Pma!PmaInv, Pma!ResetInv, Pma!RestInv, Pma!CalmInv, Pma!LoopsAsAsked, Pma!Set

\* For every number of lanes: a lane changes its loop mode only in reset, a call
\* that runs to its end leaves every handshake at rest whatever it found, and
\* one that found them at rest sets what was asked for and nothing else.
THEOREM LoopsSet == ASSUME Pma!PmaAssumption PROVE Pma!Spec => [](Pma!TypeOK /\ Pma!LoopsAsAsked)
<1>1. Pma!Spec => []Pma!PmaInv
  BY PmaInit, PmaInductive, PTL DEF Pma!Spec
<1>2. Pma!PmaInv => Pma!TypeOK
  BY DEF Pma!PmaInv
<1> QED
  BY <1>1, <1>2, PmaFromInv, PTL

(* ---- the tools together ----------------------------------------------------- *)
\* The inductive invariants, each while its tool runs.
ToolsInv ==
    /\ tool = "hash" => Hash!HashInv
    /\ tool = "limiter" => Limiter!LimiterInv
    /\ tool = "profile swap" => Swap!SwapInv
    /\ tool = "pma" => Pma!PmaInv

\* Every tool starts in its own initial states.
LEMMA ToolsInit == Init => ToolsInv
<1> SUFFICES ASSUME Init PROVE ToolsInv
  OBVIOUS
<1>1. ASSUME tool = "hash" PROVE Hash!HashInv
  <2>1. Hash!Init
    BY <1>1 DEF Init
  <2> QED
    BY <2>1, HashInit, HashTables
<1>2. ASSUME tool = "limiter" PROVE Limiter!LimiterInv
  <2>1. Limiter!Init
    BY <1>2 DEF Init
  <2> QED
    BY <2>1, LimiterInit, LimiterSizes
<1>3. ASSUME tool = "profile swap" PROVE Swap!SwapInv
  <2>1. Swap!Init
    BY <1>3 DEF Init
  <2> QED
    BY <2>1, SwapInit, SwapCores
<1>4. ASSUME tool = "pma" PROVE Pma!PmaInv
  <2>1. Pma!Init
    BY <1>4 DEF Init
  <2> QED
    BY <2>1, PmaInit, PmaLanes
<1> QED
  BY <1>1, <1>2, <1>3, <1>4 DEF ToolsInv

\* A step of the composition is a step of the tool that runs, or changes nothing.
LEMMA ToolSteps ==
    ASSUME [Next]_vars
    PROVE  /\ tool' = tool
           /\ tool' = "hash" => tool = "hash" /\ [Hash!Next]_(Hash!vars)
           /\ tool' = "limiter" => tool = "limiter" /\ [Limiter!Next]_(Limiter!vars)
           /\ tool' = "profile swap" => tool = "profile swap" /\ [Swap!Next]_(Swap!vars)
           /\ tool' = "pma" => tool = "pma" /\ [Pma!Next]_(Pma!vars)
<1>1. CASE UNCHANGED vars
  BY <1>1 DEF vars, slots, Hash!vars, Limiter!vars, Swap!vars, Pma!vars
<1>2. CASE Next
  BY <1>2 DEF Next
<1> QED
  BY <1>1, <1>2

\* Every step keeps the inductive invariants.
LEMMA ToolsStep == ToolsInv /\ [Next]_vars => ToolsInv'
<1> SUFFICES ASSUME ToolsInv, [Next]_vars PROVE ToolsInv'
  OBVIOUS
<1>1. ASSUME tool' = "hash" PROVE Hash!HashInv'
  <2>1. Hash!HashInv /\ [Hash!Next]_(Hash!vars)
    BY <1>1, ToolSteps DEF ToolsInv
  <2> QED
    BY <2>1, HashStep, HashTables
<1>2. ASSUME tool' = "limiter" PROVE Limiter!LimiterInv'
  <2>1. Limiter!LimiterInv /\ [Limiter!Next]_(Limiter!vars)
    BY <1>2, ToolSteps DEF ToolsInv
  <2> QED
    BY <2>1, LimiterStep, LimiterSizes
<1>3. ASSUME tool' = "profile swap" PROVE Swap!SwapInv'
  <2>1. Swap!SwapInv /\ [Swap!Next]_(Swap!vars)
    BY <1>3, ToolSteps DEF ToolsInv
  <2> QED
    BY <2>1, SwapStep, SwapCores
<1>4. ASSUME tool' = "pma" PROVE Pma!PmaInv'
  <2>1. Pma!PmaInv /\ [Pma!Next]_(Pma!vars)
    BY <1>4, ToolSteps DEF ToolsInv
  <2> QED
    BY <2>1, PmaInductive, PmaLanes
<1> QED
  BY <1>1, <1>2, <1>3, <1>4 DEF ToolsInv

\* The inductive invariant of the composition.
LEMMA ToolsKept == Spec => []ToolsInv
  BY ToolsInit, ToolsStep, PTL DEF Spec

\* Every tool keeps the types of its state, for every size of it.
THEOREM ToolsTyped == Spec => []TypeOK
<1>1. Hash!HashInv => Hash!TypeOK
  BY HashFromInv, HashTables
<1>2. Limiter!LimiterInv => Limiter!TypeOK
  BY DEF Limiter!LimiterInv
<1>3. Swap!SwapInv => Swap!TypeOK
  BY SwapFromInv, SwapCores
<1>4. Pma!PmaInv => Pma!TypeOK
  BY DEF Pma!PmaInv
<1>5. ToolsInv => TypeOK
  BY <1>1, <1>2, <1>3, <1>4 DEF ToolsInv, TypeOK
<1> QED
  BY <1>5, ToolsKept, PTL

\* Once an upload of sound tables has begun, the hash table answers every key with
\* what the tool held or, while the upload runs, not at all: for every width of
\* keys, data and hashes, every file and every number of commands.
THEOREM UploadsAnswer == Spec => []CommitAnswers
<1>1. ToolsInv => CommitAnswers
  BY HashFromInv, HashTables DEF ToolsInv, CommitAnswers
<1> QED
  BY <1>1, ToolsKept, PTL

\* For the same sizes: a command with arguments it may rely on leaves two tables
\* in which each key has a slot of its own, and a file that is saved loads back.
THEOREM CommandsConsistent == Spec => StaysConsistent
<1>1. ToolsInv /\ [Next]_vars => [tool = "hash" => Hash!StaysConsistent]_vars
  <2> SUFFICES ASSUME ToolsInv, [Next]_vars, tool = "hash" PROVE Hash!StaysConsistent
    OBVIOUS
  <2>1. Hash!HashInv /\ [Hash!Next]_(Hash!vars)
    BY ToolSteps DEF ToolsInv
  <2> QED
    BY <2>1, HashStep, HashTables
<1> QED
  BY <1>1, ToolsKept, PTL DEF Spec, StaysConsistent

\* For every clock, interval, core, channel, lane and list of speeds: a rate
\* limiter that shapes lets through what was asked for as far as the section length
\* it chose allows, a swapped channel runs the asked profile, and the lanes of a
\* port run in the mode asked for.
THEOREM ControllersObey == Spec => []ControllersAsAsked
<1>1. Limiter!LimiterInv => Limiter!RateAsAsked
  BY RateFromInv, LimiterSizes
<1>2. Swap!SwapInv => Swap!ProfilesAsAsked
  BY SwapFromInv, SwapCores
<1>3. Pma!PmaInv => Pma!LoopsAsAsked
  BY PmaFromInv
<1>4. ToolsInv => ControllersAsAsked
  BY <1>1, <1>2, <1>3 DEF ToolsInv, ControllersAsAsked
<1> QED
  BY <1>4, ToolsKept, PTL
=============================================================================
