------------------------------ MODULE PmaTool ------------------------------
(* ftile.py, the transceivers (PMA) of an F-Tile Ethernet port: pma_loopback  *)
(* and set_mode set an attribute of every lane.  A request (CPI) is raised in *)
(* a register of the lane, the firmware of the tile serves it and answers in  *)
(* a status register, and the request is lowered again the same way.  A DRP   *)
(* access (data, address, command, sleep) is one step; the script may be      *)
(* killed between any two.                                                    *)
EXTENDS Naturals

CONSTANTS
    LaneCount,   \* bits 24:21 of the configuration register 0x100
    Media,       \* media modes that are asked for
    MaxCalls,    \* bound: calls of the script
    None

VARIABLES
    call,      \* the call in progress, or the last one
    rxreset,   \* register 0x108 of the port holds the receivers in reset
    req,       \* per lane: register 0x9003c; service is bit 3 of its option
    ack,       \* per lane: bit 15 of register 0x90040
    work,      \* per lane: the request the firmware is at (bit 14), or None
    attr,      \* per lane: the attributes in force
    calls

vars == <<call, rxreset, req, ack, work, attr, calls>>

Lanes == 0 .. LaneCount - 1
Opcodes == {"loop", "media"}                                   \* 0x40 and 0x64
LoopData(enable) == IF enable THEN 6 ELSE 0
Requests == [service : BOOLEAN, op : Opcodes, data : {0, 6} \union Media]
PmaAssumption == LaneCount \in Nat \ {0} /\ None \notin Requests

Request(s, op, d) == [service |-> s, op |-> op, data |-> d]

\* No request is raised, answered or in progress.
Rest(l) == ~req[l].service /\ ~ack[l] /\ work[l] = None
Calm == \A l \in Lanes : Rest(l)

Init ==
    /\ rxreset = FALSE
    /\ req \in [Lanes -> { Request(FALSE, "media", m) : m \in Media }]
    /\ ack = [l \in Lanes |-> FALSE] /\ work = [l \in Lanes |-> None]
    /\ attr = [l \in Lanes |-> [op \in Opcodes |-> IF op = "loop" THEN 0 ELSE req[l].data]]
    /\ call = [ pc |-> "idle", op |-> "loop", data |-> 0, lane |-> 0, service |-> TRUE,
                whole |-> TRUE, calm |-> FALSE, was |-> attr ]
    /\ calls = 0

(* ------------------------------------------------------------- the script -- *)
Begin(op, data, at) ==
    /\ call.pc = "idle" /\ calls < MaxCalls
    /\ call' = [ pc |-> at, op |-> op, data |-> data, lane |-> 0, service |-> TRUE,
                 whole |-> FALSE, calm |-> Calm, was |-> attr ]
    /\ calls' = calls + 1
    /\ UNCHANGED <<rxreset, req, ack, work, attr>>

pma_loopback(enable) == Begin("loop", LoopData(enable), "reset")
set_mode(mode) == Begin("media", mode, "request")

set_rxreset ==
    /\ call.pc = "reset"
    /\ rxreset' = TRUE
    /\ call' = [call EXCEPT !.pc = "request"]
    /\ UNCHANGED <<req, ack, work, attr, calls>>

\* The index of the lane that is read first addresses the same lane.
cpi_request ==
    /\ call.pc = "request"
    /\ req' = [req EXCEPT ![call.lane] = Request(call.service, call.op, call.data)]
    /\ call' = [call EXCEPT !.pc = "poll"]
    /\ UNCHANGED <<rxreset, ack, work, attr, calls>>

\* Options 0xA and 0x2 of each lane in turn.
AfterPoll ==
    IF call.service THEN [call EXCEPT !.pc = "request", !.service = FALSE]
    ELSE IF call.lane + 1 < LaneCount
    THEN [call EXCEPT !.pc = "request", !.service = TRUE, !.lane = @ + 1]
    ELSE IF call.op = "loop" THEN [call EXCEPT !.pc = "clear"]
    ELSE [call EXCEPT !.pc = "idle", !.whole = TRUE]

Poll ==
    /\ call.pc = "poll"
    /\ work[call.lane] = None /\ ack[call.lane] = call.service
    /\ call' = AfterPoll
    /\ UNCHANGED <<rxreset, req, ack, work, attr, calls>>

clr_rxreset ==
    /\ call.pc = "clear"
    /\ rxreset' = FALSE
    /\ call' = [call EXCEPT !.pc = "idle", !.whole = TRUE]
    /\ UNCHANGED <<req, ack, work, attr, calls>>

Kill ==
    /\ call.pc # "idle"
    /\ call' = [call EXCEPT !.pc = "idle"]
    /\ UNCHANGED <<rxreset, req, ack, work, attr, calls>>

(* ------------------------------------------------ the firmware (external) -- *)
Serve(l) ==
    /\ work[l] = None /\ req[l].service # ack[l]
    /\ work' = [work EXCEPT ![l] = req[l]]
    /\ UNCHANGED <<call, rxreset, req, ack, attr, calls>>

Answer(l) ==
    /\ work[l] # None
    /\ attr' = IF work[l].service THEN [attr EXCEPT ![l][work[l].op] = work[l].data] ELSE attr
    /\ ack' = [ack EXCEPT ![l] = work[l].service]
    /\ work' = [work EXCEPT ![l] = None]
    /\ UNCHANGED <<call, rxreset, req, calls>>

Next ==
    \/ \E enable \in BOOLEAN : pma_loopback(enable)
    \/ \E mode \in Media : set_mode(mode)
    \/ set_rxreset \/ cpi_request \/ Poll \/ clr_rxreset \/ Kill
    \/ \E l \in Lanes : Serve(l) \/ Answer(l)

Spec == Init /\ [][Next]_vars

(* ------------------------------------------------------------- properties -- *)
Values == {0, 6} \union Media
Attributes == [Opcodes -> Values]

TypeOK ==
    /\ call \in [ pc : {"idle", "reset", "request", "poll", "clear"}, op : Opcodes, data : Values,
                  lane : Lanes, service : BOOLEAN, whole : BOOLEAN, calm : BOOLEAN,
                  was : [Lanes -> Attributes] ]
    /\ rxreset \in BOOLEAN /\ calls \in Nat
    /\ req \in [Lanes -> Requests] /\ ack \in [Lanes -> BOOLEAN]
    /\ work \in [Lanes -> Requests \union {None}] /\ attr \in [Lanes -> Attributes]

\* A change of the loop mode of lane l that is asked for and not yet made.
LoopOpen(l) ==
    \/ req[l].service /\ req[l].op = "loop"
    \/ work[l] # None /\ work[l].service /\ work[l].op = "loop"

\* A lane changes its loop mode only while the receivers are in reset, however
\* often the script was killed.  A call that runs to its end leaves no request
\* open, whatever it found; when it found none open either, every lane has the
\* value asked for, the other attribute as it was, and a call of pma_loopback
\* has taken the receivers out of reset.
LoopsAsAsked ==
    /\ \A l \in Lanes : LoopOpen(l) => rxreset
    /\ call.pc = "idle" /\ call.whole =>
         /\ Calm
         /\ call.op = "loop" => ~rxreset
         /\ call.calm => \A l \in Lanes : attr[l] = [call.was[l] EXCEPT ![call.op] = call.data]

(* ------------------------------------------------ the inductive invariant -- *)
Was(l) == attr[l] = call.was[l]
Set(l) == attr[l] = [call.was[l] EXCEPT ![call.op] = call.data]
Asked(s) == Request(s, call.op, call.data)

\* The handshake of lane l in a call that found none open: how far the request,
\* the firmware and the answer are, and which value is in force.
Raised(l) ==
    /\ req[l] = Asked(TRUE)
    /\ \/ work[l] = None /\ ~ack[l] /\ Was(l)
       \/ work[l] = Asked(TRUE) /\ ~ack[l] /\ Was(l)
       \/ work[l] = None /\ ack[l] /\ Set(l)
Applied(l) == req[l] = Asked(TRUE) /\ work[l] = None /\ ack[l] /\ Set(l)
Lowered(l) == req[l] = Asked(FALSE) /\ work[l] \in {None, Asked(FALSE)} /\ Set(l)
Hand(l) ==
    IF call.pc = "request" THEN IF call.service THEN Rest(l) /\ Was(l) ELSE Applied(l)
    ELSE IF call.service THEN Raised(l) ELSE Lowered(l)

InLanes == call.pc \in {"request", "poll"}

\* The receivers are held in reset from the first request of a change of the loop
\* mode to its last, whatever was killed in between.
ResetInv ==
    /\ \A l \in Lanes : LoopOpen(l) => rxreset
    /\ call.op = "loop" /\ (InLanes \/ call.pc = "clear") => rxreset
    /\ call.op = "loop" /\ call.whole => ~rxreset
    /\ call.pc \in {"reset", "clear"} => call.op = "loop"

\* The lanes a call has passed are at rest.
RestInv ==
    /\ call.whole => call.pc = "idle"
    /\ InLanes => \A l \in Lanes : l < call.lane => Rest(l)
    /\ call.pc = "poll" => req[call.lane] = Asked(call.service)
    /\ (call.pc = "clear" \/ call.whole) => Calm
    /\ call.pc = "reset" => call.lane = 0 /\ call.service

\* A call that found every lane at rest: what each lane has got to.
CalmInv ==
    call.calm =>
        /\ call.pc = "reset" => \A l \in Lanes : Rest(l) /\ Was(l)
        /\ InLanes => Hand(call.lane)
        /\ InLanes => \A l \in Lanes : l < call.lane => Set(l)
        /\ InLanes => \A l \in Lanes : l > call.lane => Rest(l) /\ Was(l)
        /\ (call.pc = "clear" \/ call.whole) => \A l \in Lanes : Set(l)

PmaInv == TypeOK /\ ResetInv /\ RestInv /\ CalmInv
=============================================================================
