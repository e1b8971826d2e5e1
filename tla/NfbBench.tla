------------------------------ MODULE NfbBench ------------------------------
(* The simulated card of the top level test bench: NFBDevice takes the        *)
(* interfaces it finds in the design, starts the clocks of the card, resets   *)
(* it, and then reads the device tree word by word through the configuration  *)
(* registers of PCI_EXT_CAP (external). One Edge is a rising edge of the PCIe *)
(* clock: the registers and the waiting coroutine both see what was driven    *)
(* before it.                                                                 *)
EXTENDS Naturals, Sequences

CONSTANTS
    Endpoints,   \* number of PCIe clocks, one endpoint each
    Words,       \* words of the device tree
    MaxReads,    \* bound: calls of read_dtb_raw
    None

VARIABLES
    design,     \* what the simulated design contains
    stage,      \* how far the constructor and init got
    clocks,     \* groups of clocks that run
    mi, req,    \* completers and requesters made, one entry per endpoint
    rst,        \* the PCIe reset that is driven and the reset of the core behind it
    pins,       \* the configuration interface: read, write, register, write_data
    hw,         \* PCI_EXT_CAP: the address and data registers of the device tree
    reader,     \* the coroutine of _read_dtb_raw: place, index, words read so far
    dtbs        \* the word indices of every finished read

vars == <<design, stage, clocks, mi, req, rst, pins, hw, reader, dtbs>>

NotRunning == {"AGI-FH400G", "DK-DEV-AGI027RES"}
WithClkGen == {"IA-420F", "N6010", "DK-DEV-1SDX-P"}
Cards == NotRunning \union WithClkGen \union {"FB4CGG3", "fpga_common"}

Designs == [ card: Cards, pcie: {"axi", "avst"}, resets: {"hip_rst", "status_n", "other"},
             eth: SUBSET {"lbus", "avst"} ]

Rest == [ pc |-> "rest", i |-> 0, words |-> <<>> ]

Init ==
    /\ design \in Designs
    /\ stage = "new" /\ clocks = {} /\ mi = <<>> /\ req = <<>>
    /\ rst = [ driven |-> FALSE, core |-> TRUE ]
    /\ pins = [ read |-> FALSE, write |-> FALSE, register |-> None, write_data |-> 0 ]
    /\ hw = [ addr |-> 0, data |-> 0 ]
    /\ reader = Rest /\ dtbs = <<>>

UnchangedReader == UNCHANGED <<design, pins, hw, reader, dtbs>>

\* Each endpoint gets a completer and a requester of the kind of its signals.
_init_pcie ==
    /\ stage = "new"
    /\ stage' = "made"
    /\ mi' = [ e \in 1 .. Endpoints |-> design.pcie ]
    /\ req' = mi'
    /\ UNCHANGED <<clocks, rst>> /\ UnchangedReader

\* The clocks of the card, of its clock generator, of PCIe and of Ethernet; two
\* cards raise after their own clocks were started.
_init_clks ==
    /\ stage = "made"
    /\ IF design.card \in NotRunning
       THEN stage' = "failed" /\ clocks' = {"card"}
       ELSE /\ stage' = "clocked"
            /\ clocks' = {"card", "pcie"} \union design.eth
                           \union (IF design.card \in WithClkGen THEN {"clk_gen"} ELSE {})
    /\ UNCHANGED <<mi, req, rst>> /\ UnchangedReader

\* Only the two known kinds of reset signals can be driven.
ResetOn ==
    /\ stage = "clocked"
    /\ IF design.resets = "other"
       THEN stage' = "failed" /\ UNCHANGED rst
       ELSE stage' = "in reset" /\ rst' = [driven |-> TRUE, core |-> TRUE]
    /\ UNCHANGED <<clocks, mi, req>> /\ UnchangedReader

ResetOff ==
    /\ stage = "in reset"
    /\ stage' = "wait"
    /\ rst' = [rst EXCEPT !.driven = FALSE]
    /\ UNCHANGED <<clocks, mi, req>> /\ UnchangedReader

\* The reset of the core follows when the clock generator has settled (external).
CoreLeavesReset ==
    /\ stage # "new" /\ ~rst.driven /\ rst.core
    /\ "pcie" \in clocks
    /\ rst' = [rst EXCEPT !.core = FALSE]
    /\ UNCHANGED <<stage, clocks, mi, req>> /\ UnchangedReader

\* Waits for the falling edge of rst_pci when it is still high; init then reads
\* the device tree from a file, opens the device and makes the queues.
ResetDone ==
    /\ stage = "wait"
    /\ ~rst.core
    /\ stage' = "ready"
    /\ UNCHANGED <<clocks, mi, req, rst>> /\ UnchangedReader

\* _pcie_cfg_ext_reg_access: what a read, and a write of data, drives. A write of
\* zero leaves write_data as it was.
ReadPins(register) == [pins EXCEPT !.read = TRUE, !.write = FALSE, !.register = register]
WritePins(register, data) ==
    [ pins EXCEPT !.read = FALSE, !.write = TRUE, !.register = register,
                  !.write_data = IF data # 0 THEN data ELSE @ ]
PinsOff(driven) == [driven EXCEPT !.read = FALSE, !.write = FALSE]

\* The word index that the read data register shows (external).
ReadData == hw.data
HwEdge ==
    hw' = [ addr |-> IF pins.write /\ pins.register = "address"
                     THEN pins.write_data % Words ELSE hw.addr,
            data |-> hw.addr ]

ReadDtb ==
    /\ stage = "ready" /\ reader.pc = "rest" /\ Len(dtbs) < MaxReads
    /\ reader' = [Rest EXCEPT !.pc = "length"]
    /\ UNCHANGED <<design, stage, clocks, mi, req, rst, pins, hw, dtbs>>

\* Mutant: the data register is read without waiting for an edge first.
WriteDoneUnsynced ==
    /\ reader.pc = "write"
    /\ reader' = [reader EXCEPT !.pc = "read data"]
    /\ pins' = [PinsOff(pins) EXCEPT !.read = TRUE, !.register = "data"]
    /\ UNCHANGED dtbs

\* The steps of _read_dtb_raw, each resumed by a rising edge.
LengthSync ==
    /\ reader.pc = "length"
    /\ reader' = [reader EXCEPT !.pc = "read length"]
    /\ pins' = ReadPins("length")
    /\ UNCHANGED dtbs

\* The loop: the write of the next index is driven at once (sync=False).
NextWord(i, words) ==
    IF i < Words
    THEN /\ reader' = [pc |-> "write", i |-> i, words |-> words]
         /\ pins' = WritePins("address", i)
         /\ UNCHANGED dtbs
    ELSE /\ reader' = Rest
         /\ pins' = PinsOff(pins)
         /\ dtbs' = Append(dtbs, words)

LengthRead == reader.pc = "read length" /\ NextWord(0, <<>>)

WriteDone ==
    /\ reader.pc = "write"
    /\ reader' = [reader EXCEPT !.pc = "sync"]
    /\ pins' = PinsOff(pins)
    /\ UNCHANGED dtbs

DataSync ==
    /\ reader.pc = "sync"
    /\ reader' = [reader EXCEPT !.pc = "read data"]
    /\ pins' = ReadPins("data")
    /\ UNCHANGED dtbs

DataRead ==
    /\ reader.pc = "read data"
    /\ NextWord(reader.i + 1, Append(reader.words, ReadData))

Edge ==
    /\ stage = "ready" /\ reader.pc # "rest"
    /\ HwEdge
    /\ LengthSync \/ LengthRead \/ WriteDone \/ DataSync \/ DataRead
    /\ UNCHANGED <<design, stage, clocks, mi, req, rst>>

Next ==
    \/ _init_pcie \/ _init_clks \/ ResetOn \/ ResetOff \/ CoreLeavesReset \/ ResetDone
    \/ ReadDtb \/ Edge

Spec == Init /\ [][Next]_vars

TypeOK ==
    /\ design \in Designs
    /\ stage \in {"new", "made", "clocked", "in reset", "wait", "ready", "failed"}
    /\ Len(mi) \in {0, Endpoints} /\ hw.addr \in 0 .. Words - 1
    /\ reader.pc \in {"rest", "length", "read length", "write", "sync", "read data"}

\* Every word but the first of a device tree that was read is the word asked for,
\* and it was read from a card whose reset is over.
DtbWordsRead ==
    /\ reader.pc # "rest" => ~rst.core
    /\ \A d \in 1 .. Len(dtbs), i \in 2 .. Words : dtbs[d][i] = i - 1

\* test_dtb asserts it of every read: the whole device tree is what was stored.
DtbAsStored ==
    \A d \in 1 .. Len(dtbs), i \in 1 .. Words : dtbs[d][i] = i - 1
=============================================================================
