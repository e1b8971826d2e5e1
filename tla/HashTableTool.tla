---------------------------- MODULE HashTableTool ----------------------------
(* The configuration tool of MVB_HASH_TABLE_SIMPLE                            *)
(* (comp/mvb_tools/storage/mvb_hash_table_simple/sw/toolkit.py) and the       *)
(* component as the tool sees it.  The tool keeps two tables (0: TOEPLITZ,    *)
(* 1: SIMPLE_XOR), each a list of keys, an array of slots addressed by the    *)
(* hash of a key and a count.  The commands of the interactive mode edit the  *)
(* tables, save and load a configuration file, and upload it.  The upload is  *)
(* one action per written record, because traffic looks keys up meanwhile.    *)
EXTENDS Integers, Sequences, FiniteSetsExt, SequencesExt

CONSTANTS KeyWidth, DataWidth, HashWidth, HashKeyWidth,  \* widths in bits
          Data,        \* data an operator may type in, unfit values included
          HandFiles,   \* configuration files written by hand
          HashKeys,    \* hash keys a session may start with
          Miss,        \* no answer, no data
          Idle,        \* no upload is running
          NoFile,      \* there is no configuration file
          MaxOps       \* bound: commands of one session

Tables   == {0, 1}
Capacity == 2^HashWidth
Keys     == 0..(2^KeyWidth - 1)
Slots    == 0..(Capacity - 1)
Nowhere  == -1
Blank    == [vld |-> FALSE, data |-> 0]

VARIABLES tab,    \* [Tables -> [keys, slot, used]]: keys, hash_table, used
          hkey,   \* self.hash_key
          fkey,   \* hash_func_params["hash_key"]
          nTab,   \* self.num_of_tables
          conn,   \* self.conected_to_comp
          file,   \* the configuration file, NoFile when there is none
          hw,     \* the component: its hash key and its two memories
          pc,     \* Idle, or the record the running upload writes next
          snap,   \* ghost: what a sound upload promised, Miss when it was not sound
          meant,  \* ghost: the last command got arguments it may rely on
          ops     \* bound counter
vars == <<tab, hkey, fkey, nTab, conn, file, hw, pc, snap, meant, ops>>

(* ---------------------------------------------------------------- hashes -- *)
Bit(n, i) == (n \div 2^i) % 2

\* A word of the table's width from its bits.
Word(bit(_)) == SumSet({bit(b) * 2^b : b \in 0..(HashWidth - 1)})

\* Exclusive or over the slices of the hash key chosen by the set bits of the key.
toeplitz_hash(k, key) ==
    LET Slice(i, b) == Bit(key, HashKeyWidth - HashWidth - (KeyWidth - 1 - i) + b)
        Column(b)   == Cardinality({i \in 0..(KeyWidth - 1) : Bit(k, i) * Slice(i, b) = 1}) % 2
    IN  Word(Column)

simple_xor_hash(k, key) ==
    LET Column(b) == (Bit(k, b) + Bit(key, b)) % 2 IN Word(Column)

Hash(t, k, key) == IF t = 0 THEN toeplitz_hash(k, key) ELSE simple_xor_hash(k, key)

(* ------------------------------------------------- assumptions on the constants -- *)
HKeys  == 0..(2^HashKeyWidth - 1)
Values == Data \cup {0, Miss}
Files  == [hash_key : HKeys, fits : BOOLEAN, tabs : {1, 2},
           rec : [Tables -> Seq([key : Keys, data : Values])]]

\* The hash key covers every sum that a key and a hash can form.
WidthAssumption ==
    /\ {KeyWidth, DataWidth, HashWidth, HashKeyWidth} \subseteq Nat \ {0}
    /\ HashKeyWidth >= KeyWidth + HashWidth - 1

FileAssumption == HashKeys \subseteq HKeys /\ HandFiles \subseteq Files

\* The marks are none of the values they stand beside.
MarkAssumption == Miss \notin Nat /\ Idle \notin [t : Tables, j : Nat] /\ MaxOps \in Nat

\* What the arithmetic of powers says of the widths: words are counted by positive
\* numbers, and a hash is the number of a slot.
PowerAssumption ==
    /\ {2^KeyWidth, 2^DataWidth, 2^HashWidth, 2^HashKeyWidth} \subseteq Nat \ {0}
    /\ 2^(DataWidth + 1) = 2 * 2^DataWidth
    /\ \A t \in Tables, k \in Keys, h \in HKeys : Hash(t, k, h) \in Slots

HashAssumption == WidthAssumption /\ FileAssumption /\ MarkAssumption /\ PowerAssumption

(* ------------------------------------------------------------- the tables -- *)
Other(t)     == 1 - t
EmptyTable   == [keys |-> <<>>, slot |-> [s \in Slots |-> Blank], used |-> 0]
SlotOf(t, k) == tab[t].slot[Hash(t, k, fkey)]
InUse(k)     == \E t \in Tables : \E i \in DOMAIN tab[t].keys : tab[t].keys[i] = k
GoodData(d)  == d \in 0..(2^DataWidth - 1)

\* Position, counted from 1, of index n of a Python list or array of length len.
PyIndex(n, len) == IF n < 0 THEN len + n + 1 ELSE n + 1

\* Where list.insert(n, x) puts x in a list of length len.
PyInsert(n, len) == IF n < 0 THEN Max({0, len + n}) + 1 ELSE Min({n, len}) + 1

\* Mutant: the second table is not asked whether its slot is free.
PlacedUnasked(k, t) ==
    IF tab[t].used < Capacity /\ ~SlotOf(t, k).vld THEN t
    ELSE IF tab[t].used < Capacity /\ nTab # 1 THEN Other(t)
    ELSE Nowhere

\* The table that takes key k when the operator asks for t.
Placed(k, t) ==
    LET Free(u) == tab[u].used < Capacity /\ ~SlotOf(u, k).vld
    IN  IF Free(t) THEN t
        ELSE IF tab[t].used < Capacity /\ nTab # 1 /\ Free(Other(t)) THEN Other(t)
        ELSE Nowhere

\* What the tool holds for a key, the first table first.
ToolLookup(k) ==
    IF \E i \in DOMAIN tab[0].keys : tab[0].keys[i] = k THEN SlotOf(0, k).data
    ELSE IF \E i \in DOMAIN tab[1].keys : tab[1].keys[i] = k THEN SlotOf(1, k).data
    ELSE Miss

(* --------------------------------------------------------------- commands -- *)
\* A command starts in the interactive loop: one at a time, none during an upload.
Command(sound) ==
    /\ pc = Idle
    /\ ops < MaxOps
    /\ ops' = ops + 1
    /\ meant' = sound
    /\ UNCHANGED conn

Tool == <<hkey, fkey, nTab>>
Rest == <<file, hw, pc, snap>>

comm_add(k, d, t) ==
    /\ Command(TRUE)
    /\ LET u == Placed(k, t)
       IN  tab' = IF ~GoodData(d) \/ InUse(k) \/ u = Nowhere THEN tab
                  ELSE [tab EXCEPT ![u].keys = Append(@, k),
                                   ![u].slot[Hash(u, k, fkey)] = [vld |-> TRUE, data |-> d],
                                   ![u].used = @ + 1]
    /\ UNCHANGED <<Tool, Rest>>

\* Table with the record at list position i removed.
Removed(t, i) ==
    [tab[t] EXCEPT !.slot[Hash(t, tab[t].keys[i], fkey)].vld = FALSE,
                   !.keys = RemoveAt(@, i),
                   !.used = @ - 1]

HasRecord(t, n) == n < tab[t].used /\ PyIndex(n, Len(tab[t].keys)) \in DOMAIN tab[t].keys

comm_remove_record(t, n) ==
    /\ Command(TRUE)
    /\ tab' = IF HasRecord(t, n)
              THEN [tab EXCEPT ![t] = Removed(t, PyIndex(n, Len(tab[t].keys)))] ELSE tab
    /\ UNCHANGED <<Tool, Rest>>

\* A negative position names a slot from the end, and no key hashes to it.
comm_remove_hash(t, n) ==
    /\ Command(n >= 0)
    /\ LET s     == PyIndex(n, Capacity) - 1
           owner == {i \in 1..tab[t].used : Hash(t, tab[t].keys[i], fkey) = n}
       IN  tab' = IF s \in Slots /\ tab[t].slot[s].vld
                  THEN [tab EXCEPT ![t].slot[s].vld = FALSE,
                                   ![t].keys = IF owner = {} THEN @ ELSE RemoveAt(@, Min(owner)),
                                   ![t].used = @ - 1]
                  ELSE tab
    /\ UNCHANGED <<Tool, Rest>>

\* Neither the key nor the slot is asked whether another record holds it, and
\* the data are not asked whether they fit.
comm_replace(t, n, k, d) ==
    /\ IF ~HasRecord(t, n) THEN Command(TRUE) /\ UNCHANGED tab
       ELSE LET r == Removed(t, PyIndex(n, Len(tab[t].keys)))
            IN  /\ Command(/\ GoodData(d)
                           /\ ~r.slot[Hash(t, k, fkey)].vld
                           /\ k \notin Range(r.keys) \cup Range(tab[Other(t)].keys))
                /\ tab' = [tab EXCEPT ![t] =
                      [keys |-> InsertAt(r.keys, PyInsert(n, Len(r.keys)), k),
                       slot |-> [r.slot EXCEPT ![Hash(t, k, fkey)] = [vld |-> TRUE, data |-> d]],
                       used |-> r.used + 1]]
    /\ UNCHANGED <<Tool, Rest>>

\* Mutant: the keys and the slots are cleared, the count is not.
comm_clearKeepsUsed(t) ==
    /\ Command(TRUE)
    /\ tab' = [tab EXCEPT ![t] = [EmptyTable EXCEPT !.used = tab[t].used]]
    /\ UNCHANGED <<Tool, Rest>>

comm_clear(t) ==
    /\ Command(TRUE)
    /\ tab' = [tab EXCEPT ![t] = EmptyTable]
    /\ UNCHANGED <<Tool, Rest>>

\* Records of a table as the file keeps them: the data come from the slot.
Records(t) == [i \in 1..tab[t].used |-> [key  |-> tab[t].keys[i],
                                         data |-> SlotOf(t, tab[t].keys[i]).data]]

comm_save ==
    /\ Command(TRUE)
    /\ file' = [hash_key |-> hkey, fits |-> TRUE, tabs |-> nTab,
                rec |-> [t \in Tables |-> IF t < nTab THEN Records(t) ELSE <<>>]]
    /\ UNCHANGED <<tab, Tool, hw, pc, snap>>

\* The records of a table in front of the first malformed one (data = Miss).
Readable(recs) == SubSeq(recs, 1, Min({i \in DOMAIN recs : recs[i].data = Miss} \cup {Len(recs) + 1}) - 1)

\* A later record of the same slot overwrites the data of an earlier one.
Loaded(t, recs, key) ==
    LET At(s) == {i \in DOMAIN recs : Hash(t, recs[i].key, key) = s}
    IN  [keys |-> [i \in DOMAIN recs |-> recs[i].key],
         slot |-> [s \in Slots |-> IF At(s) = {} THEN Blank
                                   ELSE [vld |-> TRUE, data |-> recs[Max(At(s))].data]],
         used |-> Len(recs)]

\* A file whose records neither collide nor repeat and whose data fit.
FileSound(f) ==
    LET Recs(t) == Range(f.rec[t])
    IN  /\ f.fits /\ f.tabs = 2
        /\ \A t \in Tables : \A i, j \in DOMAIN f.rec[t] :
              i # j => Hash(t, f.rec[t][i].key, f.hash_key) # Hash(t, f.rec[t][j].key, f.hash_key)
        /\ \A t \in Tables : \A r \in Recs(t) : GoodData(r.data)
        /\ \A r \in Recs(0), q \in Recs(1) : r.key # q.key

\* A connected tool keeps the widths of its component: the hash key of a file
\* that does not fit has been taken over by then.  A malformed record ends the
\* load: the table keeps the records before it and later tables are not touched.
comm_load(f) ==
    /\ f # NoFile
    /\ Command(FileSound(f))
    /\ hkey' = f.hash_key
    /\ IF conn /\ ~f.fits THEN UNCHANGED <<tab, fkey, nTab>>
       ELSE /\ fkey' = f.hash_key
            /\ nTab' = f.tabs
            /\ LET Done(t)  == t < f.tabs /\ \A u \in 0..(t - 1) : Readable(f.rec[u]) = f.rec[u]
               IN  tab' = [t \in Tables |-> IF Done(t) THEN Loaded(t, Readable(f.rec[t]), f.hash_key)
                                            ELSE tab[t]]
    /\ UNCHANGED Rest

(* ------------------------------------------------- the component (external) -- *)
EmptyEntry  == [vld |-> FALSE, key |-> 0, data |-> 0]
EmptyMemory == [s \in Slots |-> EmptyEntry]

\* Mutant: the key is shifted by the width of the data alone.
EntryShort(k, d) ==
    LET word == k * 2^DataWidth + d * 2 + 1
    IN  [vld  |-> TRUE,
         key  |-> (word \div 2^(DataWidth + 1)) % 2^KeyWidth,
         data |-> (word \div 2) % 2^DataWidth]

\* A record is written as one word: key, data and the valid bit side by side.
Entry(k, d) ==
    LET word == k * 2^(DataWidth + 1) + d * 2 + 1
    IN  [vld  |-> TRUE,
         key  |-> (word \div 2^(DataWidth + 1)) % 2^KeyWidth,
         data |-> (word \div 2) % 2^DataWidth]

HwLookup(k) ==
    LET e(t) == hw.mem[t][Hash(t, k, hw.hash_key)]
    IN  IF e(0).vld /\ e(0).key = k THEN e(0).data
        ELSE IF e(1).vld /\ e(1).key = k THEN e(1).data ELSE Miss

(* ----------------------------------------------------------------- upload -- *)
\* Everything the tool believes of its tables.
Sound(t) ==
    LET ks == tab[t].keys
    IN  /\ tab[t].used = Len(ks)
        /\ \A i, j \in DOMAIN ks : i # j => Hash(t, ks[i], fkey) # Hash(t, ks[j], fkey)
        /\ \A i \in DOMAIN ks : SlotOf(t, ks[i]).vld /\ GoodData(SlotOf(t, ks[i]).data)
        /\ \A s \in Slots : tab[t].slot[s].vld => \E i \in DOMAIN ks : Hash(t, ks[i], fkey) = s

Consistent ==
    /\ hkey = fkey
    /\ nTab = 2
    /\ \A t \in Tables : Sound(t)
    /\ Range(tab[0].keys) \cap Range(tab[1].keys) = {}

comm_commit ==
    /\ conn
    /\ Command(TRUE)
    /\ hw'   = [hash_key |-> hkey, mem |-> [t \in Tables |-> EmptyMemory]]
    /\ snap' = IF Consistent THEN [k \in Keys |-> ToolLookup(k)] ELSE Miss
    /\ pc'   = [t |-> 0, j |-> 1]
    /\ UNCHANGED <<tab, Tool, file>>

\* One record: address, data words, commit register.  Data that are no number
\* raise an exception, which ends the upload where it is.
CommitRecord ==
    /\ pc # Idle
    /\ pc.j <= Len(tab[pc.t].keys)
    /\ LET k == tab[pc.t].keys[pc.j]
           d == SlotOf(pc.t, k).data
       IN  IF d \in Nat
           THEN /\ hw' = [hw EXCEPT !.mem[pc.t][Hash(pc.t, k, fkey)] = Entry(k, d)]
                /\ pc' = [pc EXCEPT !.j = @ + 1]
           ELSE pc' = Idle /\ UNCHANGED hw
    /\ UNCHANGED <<tab, Tool, conn, file, snap, meant, ops>>

CommitNextTable ==
    /\ pc # Idle
    /\ pc.j > Len(tab[pc.t].keys)
    /\ pc' = IF pc.t + 1 < nTab THEN [t |-> pc.t + 1, j |-> 1] ELSE Idle
    /\ UNCHANGED <<tab, Tool, conn, file, hw, snap, meant, ops>>

(* ------------------------------------------------------------ specification -- *)
\* __init__ of an interactive session; the component may be unreachable.
Init ==
    /\ tab = [t \in Tables |-> EmptyTable]
    /\ hkey \in HashKeys /\ fkey = hkey
    /\ nTab = 2
    /\ conn \in BOOLEAN
    /\ file = NoFile
    /\ hw = [hash_key |-> 0, mem |-> [t \in Tables |-> EmptyMemory]]
    /\ pc = Idle /\ snap = Miss /\ meant = TRUE /\ ops = 0

Numbers == -1..Capacity

Next ==
    \/ \E k \in Keys, d \in Data, t \in Tables : comm_add(k, d, t)
    \/ \E t \in Tables, n \in Numbers : comm_remove_record(t, n)
    \/ \E t \in Tables, n \in Numbers : comm_remove_hash(t, n)
    \/ \E t \in Tables, n \in Numbers, k \in Keys, d \in Data : comm_replace(t, n, k, d)
    \/ \E t \in Tables : comm_clear(t)
    \/ comm_save
    \/ \E f \in HandFiles \cup {file} : comm_load(f)
    \/ comm_commit
    \/ CommitRecord
    \/ CommitNextTable

Spec == Init /\ [][Next]_vars

(* --------------------------------------------------------------- properties -- *)
TypeOK ==
    /\ \A t \in Tables : /\ tab[t].used \in -MaxOps..Len(tab[t].keys)
                         /\ Range(tab[t].keys) \subseteq Keys
    /\ {hkey, fkey} \subseteq 0..(2^HashKeyWidth - 1)
    /\ nTab \in {1, 2}
    /\ pc = Idle \/ conn

\* As long as the operator does not hit one of the things the tool does not
\* check (meant), every command leaves two tables in which each key has a valid
\* slot of its own and no slot is left without its key; what is saved can be
\* loaded again to the same effect.
StaysConsistent ==
    Consistent /\ meant' => Consistent' /\ (file' # file => FileSound(file'))

\* Once an upload of sound tables has started, the component answers every key
\* with what the tool held, or not at all while the upload runs; never with the
\* data of another key, whatever the operator edits afterwards.
CommitAnswers ==
    snap # Miss => \A k \in Keys : \/ HwLookup(k) = snap[k]
                                  \/ (pc # Idle /\ HwLookup(k) = Miss)

(* -------------------------------------------------------- inductive invariants -- *)
TableRecords == [keys : Seq(Keys), slot : [Slots -> [vld : BOOLEAN, data : Values]], used : Int]

\* A negative count is one that positions out of range have brought down.
HashTyped ==
    /\ tab \in [Tables -> TableRecords]
    /\ hkey \in HKeys /\ fkey \in HKeys /\ nTab \in {1, 2} /\ conn \in BOOLEAN
    /\ file \in Files \cup {NoFile}
    /\ pc \in [t : Tables, j : Nat \ {0}] \cup {Idle}
    /\ pc # Idle => conn
    /\ ops \in 0..MaxOps
    /\ \A t \in Tables : tab[t].used <= Len(tab[t].keys) /\ tab[t].used >= -ops

\* The records of table t that the running upload has written.
Written(t) ==
    {i \in DOMAIN tab[t].keys : t < pc.t \/ (t = pc.t /\ i < pc.j)}

\* What a running upload of sound tables has done: the component keeps the records
\* that were written and nothing else, and the tables are still as promised.
RecordsWritten ==
    /\ Consistent /\ hw.hash_key = fkey
    /\ snap = [k \in Keys |-> ToolLookup(k)]
    /\ hw = [hash_key |-> hw.hash_key, mem |-> hw.mem]
    /\ DOMAIN hw.mem = Tables /\ \A t \in Tables : DOMAIN hw.mem[t] = Slots
    /\ \A t \in Tables : \A i \in Written(t) :
          LET k == tab[t].keys[i]
          IN  hw.mem[t][Hash(t, k, fkey)] = [vld |-> TRUE, key |-> k, data |-> SlotOf(t, k).data]
    /\ \A t \in Tables, s \in Slots :
          hw.mem[t][s].vld => \E i \in Written(t) : Hash(t, tab[t].keys[i], fkey) = s

\* Nobody edits the tables during an upload; once it has ended the component answers
\* what was promised.
UploadKept ==
    snap # Miss => IF pc = Idle THEN \A k \in Keys : HwLookup(k) = snap[k] ELSE RecordsWritten

HashInv == HashTyped /\ UploadKept
=============================================================================
