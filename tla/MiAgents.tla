------------------------------- MODULE MiAgents -------------------------------
(* The MI agents of the cocotb tests (cocotbext/ofm/mi/, utils/signals.py) as  *)
(* the test of the MI pipe joins them: a request driver and a response driver  *)
(* on one bus, a monitor with its two proxies and the scoreboard. A step is a  *)
(* rising edge: everyone reads the values before the edge, writes show after   *)
(* it, and of two writes to a signal at one edge only the last one shows.      *)
EXTENDS Integers, Sequences, FiniteSets, SequencesExt

CONSTANTS Width,        \* data_width, bytes
          Addresses, Lengths,
          MaxRequests,  \* bound: transactions of the test
          None

VARIABLES gated,     \* is ARDY low whenever there is no request (MI pipe)?
          requests,  \* transactions of the test: [read, addr, len]
          driver,    \* MIRequestDriverAgent: transaction, word, where it waits, data read
          signals,   \* MIRequestDriver: the transaction and word on ADDR, DWR, BE; WR, RD
          responder, \* MIResponseDriverAgent: transaction, word, state; DRDY, DRD
          monitor,   \* MIMonitor: read_transactions; items that pass the proxies
          returned   \* what read() returned for each transaction
vars == <<gated, requests, driver, signals, responder, monitor, returned>>

(* ---------------------------------------------------------- words of a request -- *)
start_offset(t) == requests[t].addr % Width
ceildiv(n) == (n + Width - 1) \div Width
Cycles(t) == ceildiv(start_offset(t) + requests[t].len)
Valid(t, g) == start_offset(t) <= g /\ g < start_offset(t) + requests[t].len

\* align_request: word i of a transaction, its padding disabled by BE.
Word(t, i) ==
    [read |-> requests[t].read,
     addr |-> requests[t].addr - start_offset(t) + i * Width,
     be |-> {k \in 0 .. Width - 1 : Valid(t, i * Width + k)},
     data |-> [k \in 0 .. Width - 1 |-> IF Valid(t, i * Width + k)
                                        THEN <<t, i * Width + k - start_offset(t)>> ELSE <<0, 0>>]]

\* filter_bytes_by_bitmask
Enabled(data, be) ==
    LET ks == SetToSortSeq(be, <) IN [j \in DOMAIN ks |-> data[ks[j]]]

Expected(t, i) == LET w == Word(t, i) IN [read |-> w.read, addr |-> w.addr, be |-> w.be,
                                          data |-> Enabled(w.data, w.be)]
All(Op(_, _), ts) == FlattenSeq([j \in DOMAIN ts |-> [i \in 1 .. Cycles(ts[j]) |-> Op(ts[j], i - 1)]])

(* -------------------------------------------------------------- request driver -- *)
NoSignals == [rd |-> FALSE, wr |-> FALSE, t |-> 0, i |-> 0]

\* A word is done: the next one, or the next transaction, starts at an edge.
Done(drd) ==
    LET t == driver.t  last == driver.i = Cycles(t) - 1
        data == IF requests[t].read THEN driver.drd \o drd ELSE <<>>
    IN  /\ driver' = IF ~last THEN [driver EXCEPT !.i = @ + 1, !.at = "edge", !.drd = data]
                     ELSE [t |-> t + 1, i |-> 0, at |-> "edge", drd |-> <<>>]
        /\ returned' = IF ~last THEN returned
                       ELSE IF ~requests[t].read THEN Append(returned, <<>>)
                       ELSE Append(returned, SubSeq(data, start_offset(t) + 1, start_offset(t) + requests[t].len))

\* What follows the wait for ARDY; a read goes on to wait for DRDY.
Accepted(drdy, drd) ==
    /\ signals' = NoSignals
    /\ IF requests[driver.t].read /\ ~drdy
       THEN driver' = [driver EXCEPT !.at = "drdy"] /\ UNCHANGED returned
       ELSE Done(IF requests[driver.t].read THEN drd ELSE <<>>)

\* _write_word and _read_word at an edge; await_signal_sync looks at the signal
\* at once, so an ARDY that was high before the request counts as its acceptance.
Drive(ardy, drdy, drd) ==
    IF driver.t > Len(requests) THEN UNCHANGED <<driver, signals, returned>>
    ELSE CASE driver.at = "drdy" -> /\ UNCHANGED signals
                                    /\ IF drdy THEN Done(drd) ELSE UNCHANGED <<driver, returned>>
           [] driver.at = "edge" /\ ~ardy ->
                  /\ signals' = [rd |-> requests[driver.t].read, wr |-> ~requests[driver.t].read,
                                 t |-> driver.t, i |-> driver.i]
                  /\ driver' = [driver EXCEPT !.at = "ardy"]
                  /\ UNCHANGED returned
           [] driver.at = "ardy" /\ ~ardy -> UNCHANGED <<driver, signals, returned>>
           [] OTHER -> Accepted(drdy, drd)

(* ------------------------------------------------------------- response driver -- *)
\* The next read from transaction t on; writes need no response.
NextRead(t) == LET reads == {u \in t .. Len(requests) : requests[u].read}
               IN  IF reads = {} THEN Len(requests) + 1 ELSE CHOOSE u \in reads : \A v \in reads : u <= v

\* _write_word: DRDY for one clock after a read request was accepted.
Respond(accepted) ==
    LET word == IF ~responder.drdy THEN [t |-> NextRead(responder.t), i |-> responder.i]
                ELSE IF responder.i < Cycles(responder.t) - 1 THEN [t |-> responder.t, i |-> responder.i + 1]
                ELSE [t |-> NextRead(responder.t + 1), i |-> 0]
        drive == word.t <= Len(requests) /\ accepted
    IN  responder' = [t |-> word.t, i |-> word.i, drdy |-> drive]

(* ----------------------------------------------- monitor, proxies and scoreboard -- *)
\* An accepted read is kept until its response; the proxies let each item through
\* once, and the scoreboard takes the expected items in the order of the test.
Monitor(ardy, drdy, drd) ==
    LET now == Word(signals.t, signals.i)
        reads == monitor.reads \o (IF signals.rd /\ ardy THEN <<now>> ELSE <<>>)
        response == IF drdy /\ reads # <<>>
                    THEN <<[read |-> TRUE, addr |-> reads[1].addr, be |-> reads[1].be,
                            data |-> Enabled(drd, reads[1].be)]>> ELSE <<>>
        write == IF signals.wr /\ ardy
                 THEN <<[read |-> FALSE, addr |-> now.addr, be |-> now.be, data |-> Enabled(now.data, now.be)]>>
                 ELSE <<>>
    IN  monitor' = [reads |-> IF drdy /\ reads # <<>> THEN Tail(reads) ELSE reads,
                    items |-> monitor.items \o response \o write,
                    failed |-> monitor.failed \/ (drdy /\ reads = <<>>)]

(* -------------------------------------------------------------- specification -- *)
\* The test appends a request and its response to the two drivers.
Append2(read, a, n) ==
    /\ Len(requests) < MaxRequests
    /\ requests' = Append(requests, [read |-> read, addr |-> a, len |-> n])
    /\ UNCHANGED <<gated, driver, signals, responder, monitor, returned>>

\* ARDY comes from the test's BitDriver; a pipe masks it with the request.
Edge(high) ==
    LET ardy == high /\ (gated => signals.rd \/ signals.wr)
        drd == IF responder.drdy THEN Word(responder.t, responder.i).data ELSE [k \in 0 .. Width - 1 |-> <<0, 0>>]
    IN  /\ requests # <<>>
        /\ Drive(ardy, responder.drdy, [k \in 1 .. Width |-> drd[k - 1]])
        /\ Respond(signals.rd /\ ardy)
        /\ Monitor(ardy, responder.drdy, drd)
        /\ UNCHANGED <<gated, requests>>

Init ==
    /\ gated \in BOOLEAN
    /\ requests = <<>>
    /\ driver = [t |-> 1, i |-> 0, at |-> "edge", drd |-> <<>>]
    /\ signals = NoSignals
    /\ responder = [t |-> 1, i |-> 0, drdy |-> FALSE]
    /\ monitor = [reads |-> <<>>, items |-> <<>>, failed |-> FALSE]
    /\ returned = <<>>

Next ==
    \/ \E read \in BOOLEAN, a \in Addresses, n \in Lengths : Append2(read, a, n)
    \/ \E high \in BOOLEAN : Edge(high)

Spec == Init /\ [][Next]_vars

(* ----------------------------------------------------------------- properties -- *)
TypeOK ==
    /\ driver.t \in 1 .. Len(requests) + 1 /\ driver.at \in {"edge", "ardy", "drdy"}
    /\ ~(signals.rd /\ signals.wr)
    /\ responder.t \in 1 .. Len(requests) + 1
    /\ Len(returned) <= Len(requests)

\* With a slave that raises ARDY only for a request, every word of the
\* transactions the driver has finished was on the bus exactly once, in the order
\* of the test, and each read returned the bytes its own response was given.
WordsOnBus ==
    gated => /\ ~monitor.failed
             /\ IsPrefix(monitor.items, All(Expected, [t \in 1 .. Len(requests) |-> t]))
             /\ IsPrefix(All(Expected, [t \in 1 .. Len(returned) |-> t]), monitor.items)
             /\ \A t \in DOMAIN returned : requests[t].read =>
                    returned[t] = [k \in 1 .. requests[t].len |-> <<t, k - 1>>]
=============================================================================
