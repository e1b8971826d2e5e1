---------------------------- MODULE PcieCompleter ----------------------------
(* The host's side of MI accesses in the cocotb benches: Axi4SCompleter and   *)
(* AvstCompleter (python/cocotbext/cocotbext/ofm/pcie).  Coroutines call read *)
(* and write; one loop gives every read a tag and sends the requests; the     *)
(* device answers reads in any order, in one completion or in several.        *)
EXTENDS Integers, Sequences, FiniteSets, SequencesExt

CONSTANTS Tags,        \* 2**5 in the code
          Dword,       \* bytes of a dword
          Beat,        \* bytes of a bus word
          Header,      \* bytes of the completion header, in the first word
          Addresses, Counts,
          MaxCalls,    \* bound: calls of read and write
          Junk,        \* what is on the bus beyond the data
          None

VARIABLES kind,     \* axi or avst
          queue,    \* _queue_send
          loop,     \* _cq_loop: pc, the item and its tag
          free,     \* _tag_queue
          reads,    \* _read_requests: [Tags -> request and its data, or None]
          wire,     \* requests on their way to the device
          device,   \* memory, and reads that are not answered
          cc,       \* completion on the bus: tag, rest of its data, at its start?
          result,   \* [call -> data of a finished read, None]
          expect,   \* memory after all calls so far, and what each read should return
          odd,      \* has a completion been split where the bench cannot follow?
          failed    \* a completion met no request: KeyError
vars == <<kind, queue, loop, free, reads, wire, device, cc, result, expect, odd, failed>>

Calls == DOMAIN result
Bytes == 0..(Dword * 4 - 1)                                \* the memory
Offset(addr)  == addr % Dword
DwordsOf(addr, count) == (Offset(addr) + count + Dword - 1) \div Dword
Least(S) == CHOOSE x \in S : \A y \in S : x <= y

(* -------------------------------------------------------------- the host calls -- *)
Call(item) == queue' = Append(queue, item @@ [id |-> Len(result) + 1])

read(addr, count) ==
    /\ Len(result) < MaxCalls /\ ~failed
    /\ Call([type |-> 0, addr |-> addr, count |-> count])
    /\ expect' = [expect EXCEPT !.answer =
                    Append(@, [k \in 1..count |-> expect.mem[addr + k - 1]])]
    /\ result' = Append(result, None)
    /\ UNCHANGED <<kind, loop, free, reads, wire, device, cc, odd, failed>>

\* Every byte written is the number of the call.
write(addr, count) ==
    /\ Len(result) < MaxCalls /\ ~failed
    /\ Call([type |-> 1, addr |-> addr, count |-> count])
    /\ expect' = [mem |-> [a \in Bytes |-> IF a \in addr..(addr + count - 1)
                                           THEN Len(result) + 1 ELSE expect.mem[a]],
                  answer |-> Append(expect.answer, <<>>)]
    /\ result' = Append(result, None)
    /\ UNCHANGED <<kind, loop, free, reads, wire, device, cc, odd, failed>>

(* ------------------------------------------------------------------- _cq_loop -- *)
\* A write returns before it is sent; a read waits for a tag, and so does what
\* is queued behind it.
Take ==
    /\ loop.pc = "idle" /\ queue # <<>> /\ ~failed
    /\ LET item == Head(queue)
       IN  /\ loop' = [pc |-> IF item.type = 0 THEN "tag" ELSE "send", item |-> item, tag |-> None]
           /\ result' = IF item.type = 1 THEN [result EXCEPT ![item.id] = <<>>] ELSE result
    /\ queue' = Tail(queue)
    /\ UNCHANGED <<kind, free, reads, wire, device, cc, expect, odd, failed>>

GetTag ==
    /\ loop.pc = "tag" /\ free # {} /\ ~failed
    /\ LET tag == Least(free)
       IN  /\ free' = free \ {tag}
           /\ reads' = [reads EXCEPT ![tag] = [item |-> loop.item, data |-> <<>>]]
           /\ loop' = [loop EXCEPT !.pc = "send", !.tag = tag]
    /\ UNCHANGED <<kind, queue, wire, device, cc, result, expect, odd, failed>>

\* Mutant: the last byte enable follows the length alone.
LastBeOfLength(addr, count) == LET end == count % Dword
                               IN  IF end = 0 THEN 0..(Dword - 1) ELSE 0..(end - 1)

\* Byte enables of the first and the last dword; a single dword has both masks.
FirstBe(addr)       == Offset(addr)..(Dword - 1)
LastBe(addr, count) == LET end == (addr + count) % Dword
                       IN  IF end = 0 THEN 0..(Dword - 1) ELSE 0..(end - 1)

_cq_req ==
    /\ loop.pc = "send" /\ ~failed
    /\ LET item   == loop.item
           dwords == DwordsOf(item.addr, item.count)
           one    == dwords <= 1
       IN  wire' = Append(wire,
               [type |-> item.type, id |-> item.id, tag |-> loop.tag, dwords |-> dwords,
                start |-> item.addr - Offset(item.addr),
                first |-> IF one THEN FirstBe(item.addr) \cap LastBe(item.addr, item.count)
                          ELSE FirstBe(item.addr),
                last  |-> IF one THEN {} ELSE LastBe(item.addr, item.count)])
    /\ loop' = [pc |-> "idle", item |-> None, tag |-> None]
    /\ UNCHANGED <<kind, queue, free, reads, device, cc, result, expect, odd, failed>>

(* --------------------------------------------------------- the device (external) -- *)
Enabled(w, a) ==
    LET d == (a - w.start) \div Dword
        b == (a - w.start) % Dword
    IN  /\ a >= w.start /\ d < w.dwords
        /\ IF d = 0 THEN b \in w.first ELSE d = w.dwords - 1 => b \in w.last

Serve ==
    /\ wire # <<>> /\ ~failed
    /\ LET w == Head(wire)
       IN  device' = IF w.type = 1
                     THEN [device EXCEPT !.mem = [a \in Bytes |-> IF Enabled(w, a) THEN w.id ELSE @[a]]]
                     ELSE [device EXCEPT !.open = @ \cup
                            {[tag |-> w.tag, whole |-> TRUE,
                              data |-> [k \in 1..(w.dwords * Dword) |-> device.mem[w.start + k - 1]]]}]
    /\ wire' = Tail(wire)
    /\ UNCHANGED <<kind, queue, loop, free, reads, cc, result, expect, odd, failed>>

\* All of the data that is left, or its first dwords.  On AXI the bench follows a
\* split when it falls on the end of a bus word and the address on a dword.
Complete ==
    /\ cc = None /\ ~failed
    /\ \E r \in device.open, n \in 1..4 :
          LET size == n * Dword
              fits == kind = "axi" /\ size >= Beat - Header /\ (size - (Beat - Header)) % Beat = 0
          IN  /\ size <= Len(r.data)
              /\ cc' = [tag |-> r.tag, rest |-> SubSeq(r.data, 1, size), start |-> TRUE]
              /\ device' = [device EXCEPT !.open = (@ \ {r}) \cup
                    IF size = Len(r.data) THEN {}
                    ELSE {[r EXCEPT !.data = SubSeq(@, size + 1, Len(@)), !.whole = FALSE]}]
              /\ odd' = (odd \/ (size < Len(r.data)
                                 /\ ~(fits /\ Offset(reads[r.tag].item.addr) = 0)))
    /\ UNCHANGED <<kind, queue, loop, free, reads, wire, result, expect, failed>>

(* ------------------------------------------------------ _handle_cc_transaction -- *)
Slice(s, from, n) == SubSeq(s, from + 1, IF from + n > Len(s) THEN Len(s) ELSE from + n)

Finish(tag, data) ==
    /\ result' = [result EXCEPT ![reads[tag].item.id] = data]
    /\ reads' = [reads EXCEPT ![tag] = None]
    /\ free' = free \cup {tag}

KeyError ==
    /\ cc # None /\ ~failed
    /\ reads[cc.tag] = None
    /\ failed' = TRUE
    /\ UNCHANGED <<kind, queue, loop, free, reads, wire, device, cc, result, expect, odd>>

\* One word of an AXI completion; TKEEP is not looked at, so a last word counts
\* with all its bytes, and so do those in front of the address.
HandleAxiWord ==
    /\ kind = "axi" /\ cc # None /\ ~failed
    /\ reads[cc.tag] # None
    /\ LET room  == IF cc.start THEN Beat - Header ELSE Beat
           size  == IF Len(cc.rest) < room THEN Len(cc.rest) ELSE room
           data  == SubSeq(cc.rest, 1, size) \o [k \in 1..(room - size) |-> Junk]
           tlast == size = Len(cc.rest)
           r     == reads[cc.tag]
           last  == Len(r.data) + Len(data) >= r.item.count
           off_s == IF r.data = <<>> THEN Offset(r.item.addr) ELSE 0
           off_e == IF last /\ tlast THEN r.item.count - Len(r.data) ELSE Len(data)
           got   == r.data \o Slice(data, off_s, off_e)
       IN  /\ IF tlast /\ last THEN Finish(cc.tag, got)
              ELSE reads' = [reads EXCEPT ![cc.tag].data = got] /\ UNCHANGED <<result, free>>
           /\ cc' = IF tlast THEN None
                    ELSE [cc EXCEPT !.rest = SubSeq(@, size + 1, Len(@)), !.start = FALSE]
    /\ UNCHANGED <<kind, queue, loop, wire, device, expect, odd, failed>>

\* The first completion of an Avalon bench is taken for the whole answer.
HandleAvstFrame ==
    /\ kind = "avst" /\ cc # None /\ ~failed
    /\ reads[cc.tag] # None
    /\ LET item == reads[cc.tag].item
       IN  Finish(cc.tag, Slice(cc.rest, Offset(item.addr), item.count))
    /\ cc' = None
    /\ UNCHANGED <<kind, queue, loop, wire, device, expect, odd, failed>>

(* -------------------------------------------------------------- specification -- *)
Init ==
    /\ kind \in {"axi", "avst"}
    /\ queue = <<>> /\ wire = <<>> /\ cc = None
    /\ loop = [pc |-> "idle", item |-> None, tag |-> None]
    /\ free = Tags /\ reads = [t \in Tags |-> None]
    /\ device = [mem |-> [a \in Bytes |-> 0], open |-> {}]
    /\ result = <<>> /\ expect = [mem |-> [a \in Bytes |-> 0], answer |-> <<>>]
    /\ odd = FALSE /\ failed = FALSE

Next ==
    \/ \E a \in Addresses, n \in Counts : read(a, n) \/ write(a, n)
    \/ Take \/ GetTag \/ _cq_req \/ Serve \/ Complete
    \/ HandleAxiWord \/ HandleAvstFrame \/ KeyError

Spec == Init /\ [][Next]_vars

(* ---------------------------------------------------------------- properties -- *)
TypeOK ==
    /\ loop.pc \in {"idle", "tag", "send"}
    /\ free \subseteq Tags
    /\ Len(expect.answer) = Len(result)

\* A read returns exactly the bytes it asked for, with the values the writes
\* called before it left, although a write returns before it is sent and answers
\* come in any order; a tag is free or has one request, never both.  Completions
\* that are split elsewhere than the bench can follow are excepted.
ReadsAnswered ==
    ~odd =>
        /\ \A c \in Calls : result[c] # None => result[c] = expect.answer[c]
        /\ \A t \in Tags : t \in free <=> reads[t] = None
        /\ ~failed
=============================================================================
