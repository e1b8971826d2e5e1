------------------------------ MODULE GrpcBench ------------------------------
(* A simulation served over gRPC: cocotbext/nfb/ext/grpc/{dma,nfb,server}.py. *)
(* Threads of the RPC pool, the thread of the server and the simulator meet   *)
(* in two services: the stream that carries the DMA accesses of the simulated *)
(* device to a client's memory, and the accesses of clients to its registers. *)
EXTENDS Integers, Sequences, FiniteSets, SequencesExt

CONSTANTS Contexts,   \* RqStream calls, one client each
          QueueSize,  \* queue.Queue(10)
          MaxOps,     \* bound: DMA accesses of the simulator and calls, together
          None

VARIABLES dma,     \* DmaServicer: _bind, _req_queue (the context that made it); RAM._rq
          queues,  \* [Contexts -> contents of its request queue]
          stream,  \* [Contexts -> RqStream: pc and the request it yielded]
          client,  \* [Contexts -> memory of the client, is it still there?]
          sim,     \* the simulator: pc, operation, the queue it puts to
          ops,     \* DMA operations: type, expected and returned value
          mi,      \* NfbServicer: _requests, _events, the request in progress, register
          calls,   \* ReadComp and WriteComp: pc, type, expected and returned value
          server   \* thread of the server: run, force, stop
vars == <<dma, queues, stream, client, sim, ops, mi, calls, server>>
dmaVars == <<dma, queues, stream, client, sim, ops>>
miVars  == <<mi, calls>>

Move(c, to) == stream' = [stream EXCEPT ![c].pc = to]

(* ------------------------------------------------------------------- RqStream -- *)
\* Check and use of _req_queue are apart.
RqStream(c) ==
    /\ stream[c].pc = "new" /\ server # "stop"
    /\ Move(c, IF dma.req_queue # None THEN "ignored" ELSE "open")
    /\ UNCHANGED <<dma, queues, client, sim, ops, miVars, server>>

Open(c) ==
    /\ stream[c].pc = "open"
    /\ dma' = [bind |-> TRUE, req_queue |-> c, rq |-> c]
    /\ Move(c, "loop")
    /\ UNCHANGED <<queues, client, sim, ops, miVars, server>>

\* A turn of the loop takes from the queue that is current now; None only wakes it.
GetRequest(c) ==
    /\ stream[c].pc = "loop"
    /\ IF ~dma.bind THEN Move(c, "close") /\ UNCHANGED queues
       ELSE IF dma.req_queue = None THEN Move(c, "dead") /\ UNCHANGED queues
       ELSE LET q == queues[dma.req_queue]
            IN  /\ q # <<>>
                /\ queues' = [queues EXCEPT ![dma.req_queue] = Tail(@)]
                /\ stream' = [stream EXCEPT ![c] = IF Head(q) = None THEN @
                                                   ELSE [pc |-> "client", req |-> Head(q)]]
    /\ UNCHANGED <<dma, client, sim, ops, miVars, server>>

\* The client does the access and answers; without a client, next() raises and
\* nothing is cleaned up.
Respond(c) ==
    /\ stream[c].pc = "client"
    /\ LET o == stream[c].req
       IN  IF ~client[c].up
           THEN Move(c, "dead") /\ UNCHANGED <<client, ops>>
           ELSE /\ client' = IF ops[o].read THEN client ELSE [client EXCEPT ![c].mem = o]
                /\ ops' = [ops EXCEPT ![o].value = IF @ = None THEN client'[c].mem ELSE @,
                                      ![o].by = c]
                /\ Move(c, "loop")
    /\ UNCHANGED <<dma, queues, sim, miVars, server>>

Close(c) ==
    /\ stream[c].pc = "close"
    /\ dma' = [dma EXCEPT !.req_queue = None]
    /\ Move(c, "unbind")
    /\ UNCHANGED <<queues, client, sim, ops, miVars, server>>

CloseRam(c) ==
    /\ stream[c].pc = "unbind"
    /\ dma' = [dma EXCEPT !.rq = None]
    /\ Move(c, "end")
    /\ UNCHANGED <<queues, client, sim, ops, miVars, server>>

\* The Logout call, the callback of a context that ended and the server's thread.
_logout ==
    /\ dma' = [dma EXCEPT !.bind = FALSE]
    /\ IF dma.req_queue = None THEN UNCHANGED queues
       ELSE /\ Len(queues[dma.req_queue]) < QueueSize
            /\ queues' = [queues EXCEPT ![dma.req_queue] = Append(@, None)]

Logout ==
    /\ dma.bind /\ server # "stop"
    /\ _logout
    /\ UNCHANGED <<stream, client, sim, ops, miVars, server>>

Disconnect(c) ==
    /\ client[c].up /\ stream[c].pc \notin {"new", "open"}
    /\ client' = [client EXCEPT ![c].up = FALSE]
    /\ IF stream[c].pc = "ignored" THEN UNCHANGED <<dma, queues>> ELSE _logout
    /\ UNCHANGED <<stream, sim, ops, miVars, server>>

(* ------------------------------------------------------- RAM, in the simulator -- *)
\* Without a client a write is dropped and a read gives zeros.
RamAccess(read) ==
    /\ sim.pc = "idle" /\ Len(ops) + Len(calls) < MaxOps
    /\ IF dma.rq = None
       THEN UNCHANGED sim /\ ops' = Append(ops, [read |-> read, value |-> 0, due |-> 0, by |-> None])
       ELSE /\ ops' = Append(ops, [read |-> read, value |-> None, due |-> None, by |-> None])
            /\ sim' = [pc |-> "put", op |-> Len(ops) + 1]
    /\ UNCHANGED <<dma, queues, stream, client, miVars, server>>

LastWrite(c) == LET put == {o \in DOMAIN ops : ~ops[o].read /\ ops[o].due = c}
                IN  IF put = {} THEN 0 ELSE CHOOSE o \in put : \A p \in put : p <= o

\* Blocks while the queue is full; a read then waits for its answer.
RamPut ==
    /\ sim.pc = "put"
    /\ IF dma.rq = None                          \* closed meanwhile: an exception
       THEN sim' = [sim EXCEPT !.pc = "idle"] /\ UNCHANGED <<queues, ops>>
       ELSE /\ Len(queues[dma.rq]) < QueueSize
            /\ queues' = [queues EXCEPT ![dma.rq] = Append(@, sim.op)]
            /\ ops' = [ops EXCEPT ![sim.op].due = IF ops[sim.op].read THEN LastWrite(dma.rq) ELSE dma.rq]
            /\ sim' = [sim EXCEPT !.pc = IF ops[sim.op].read THEN "wait" ELSE "idle"]
    /\ UNCHANGED <<dma, stream, client, miVars, server>>

RamReturn ==
    /\ sim.pc = "wait" /\ ops[sim.op].value # None
    /\ sim' = [sim EXCEPT !.pc = "idle"]
    /\ UNCHANGED <<dma, queues, stream, client, ops, miVars, server>>

(* ---------------------------------------------------------------- NfbServicer -- *)
\* A call joins the requests, and a read its event to the events.
LastWriteComp == LET put == {k \in DOMAIN calls : ~calls[k].read /\ calls[k].pc # "put"}
                 IN  IF put = {} THEN 0 ELSE CHOOSE k \in put : \A j \in put : calls[j].at <= calls[k].at

Comp(read) ==
    /\ Len(ops) + Len(calls) < MaxOps /\ server # "stop"
    /\ calls' = Append(calls, [pc |-> "put", read |-> read, value |-> None, due |-> None,
                               at |-> 0, set |-> FALSE])
    /\ UNCHANGED <<dmaVars, mi, server>>

PutRequest(k) ==
    /\ calls[k].pc = "put" /\ Len(mi.requests) < QueueSize
    /\ mi' = [mi EXCEPT !.requests = Append(@, k), !.puts = @ + 1]
    /\ calls' = [calls EXCEPT ![k].pc = IF calls[k].read THEN "event" ELSE "done",
                              ![k].due = LastWriteComp, ![k].at = mi.puts + 1]
    /\ UNCHANGED <<dmaVars, server>>

PutEvent(k) ==
    /\ calls[k].pc = "event"
    /\ mi' = [mi EXCEPT !.events = Append(@, k)]
    /\ calls' = [calls EXCEPT ![k].pc = "wait"]
    /\ UNCHANGED <<dmaVars, server>>

\* After the wait a call takes one event out, its own or another's; the queue is
\* empty only when the server's thread was faster, and the call fails then.
ReadReturn(k) ==
    /\ calls[k].pc = "wait" /\ calls[k].set
    /\ IF mi.events = <<>>
       THEN calls' = [calls EXCEPT ![k].pc = "failed"] /\ UNCHANGED mi
       ELSE calls' = [calls EXCEPT ![k].pc = "done"] /\ mi' = [mi EXCEPT !.events = Tail(@)]
    /\ UNCHANGED <<dmaVars, server>>

\* _mi_req_thread runs in the simulator, which a DMA access blocks.
TakeRequest ==
    /\ sim.pc = "idle" /\ mi.busy = None /\ mi.requests # <<>>
    /\ mi' = [mi EXCEPT !.busy = Head(mi.requests), !.requests = Tail(@)]
    /\ UNCHANGED <<dmaVars, calls, server>>

Access ==
    /\ sim.pc = "idle" /\ mi.busy # None
    /\ LET k == mi.busy
       IN  /\ mi' = [mi EXCEPT !.busy = None, !.reg = IF calls[k].read THEN @ ELSE k]
           /\ calls' = [calls EXCEPT ![k].value = mi'.reg, ![k].set = TRUE]
    /\ UNCHANGED <<dmaVars, server>>

(* --------------------------------------------------------- the server's thread -- *)
Terminate ==
    /\ server = "run"
    /\ server' = "force"
    /\ _logout
    /\ UNCHANGED <<stream, client, sim, ops, miVars>>

\* Every event in the queue is set, without data.
resp_force ==
    /\ server = "force"
    /\ IF mi.events = <<>> THEN server' = "stop" /\ UNCHANGED miVars
       ELSE /\ mi' = [mi EXCEPT !.events = Tail(@)]
            /\ calls' = [calls EXCEPT ![Head(mi.events)].set = TRUE]
            /\ UNCHANGED server
    /\ UNCHANGED dmaVars

(* -------------------------------------------------------------- specification -- *)
Init ==
    /\ dma = [bind |-> FALSE, req_queue |-> None, rq |-> None]
    /\ queues = [c \in Contexts |-> <<>>]
    /\ stream = [c \in Contexts |-> [pc |-> "new", req |-> None]]
    /\ client = [c \in Contexts |-> [up |-> TRUE, mem |-> 0]]
    /\ sim = [pc |-> "idle", op |-> None] /\ ops = <<>>
    /\ mi = [requests |-> <<>>, events |-> <<>>, busy |-> None, reg |-> 0, puts |-> 0]
    /\ calls = <<>> /\ server = "run"

Next ==
    \/ \E c \in Contexts : \/ RqStream(c) \/ Open(c) \/ GetRequest(c) \/ Respond(c)
                           \/ Close(c) \/ CloseRam(c) \/ Disconnect(c)
    \/ Logout
    \/ \E read \in BOOLEAN : RamAccess(read) \/ Comp(read)
    \/ RamPut \/ RamReturn
    \/ \E k \in DOMAIN calls : PutRequest(k) \/ PutEvent(k) \/ ReadReturn(k)
    \/ TakeRequest \/ Access
    \/ Terminate \/ resp_force

Spec == Init /\ [][Next]_vars

(* ---------------------------------------------------------------- properties -- *)
TypeOK ==
    /\ \A c \in Contexts : /\ stream[c].pc \in {"new", "ignored", "open", "loop", "client",
                                               "close", "unbind", "end", "dead"}
                           /\ Len(queues[c]) <= QueueSize
    /\ sim.pc \in {"idle", "put", "wait"} /\ server \in {"run", "force", "stop"}
    /\ Len(mi.requests) <= QueueSize
    /\ \A k \in DOMAIN calls : calls[k].pc \in {"put", "event", "wait", "done", "failed"}

\* A DMA read that one client's context answers, without a second context in
\* sight, sees every write put into its queue before it; a register read that
\* returns while the server runs has the value of the writes before it, whichever
\* thread's event it took out of the queue.
AnswersInOrder ==
    /\ Cardinality({c \in Contexts : stream[c].pc \notin {"new", "ignored"}}) <= 1 =>
          \A o \in DOMAIN ops : ops[o].read /\ ops[o].value # None => ops[o].value = ops[o].due
    /\ server = "run" =>
          \A k \in DOMAIN calls : calls[k].read /\ calls[k].pc = "done" => calls[k].value = calls[k].due
=============================================================================
