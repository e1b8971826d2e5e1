------------------------------ MODULE MCSwTools ------------------------------
(* The command line tools that write tables and registers, one instance of     *)
(* each, with the sizes of their tables and registers as CONSTANTS.  A run     *)
(* takes one tool (`tool`) and explores all its calls; s1, s2, ... hold the    *)
(* variables of that tool, and nothing when it has fewer.                      *)
EXTENDS Integers, Sequences

CONSTANTS None, Miss, NoUpload, NoFile, Partial

\* The hash table tool, the limiter, the profile swap and the transceivers.
CONSTANTS KeyWidth, DataWidth, HashWidth, HashKeyWidth, TableData, HandFiles, HashKeys, MaxCommands,
          TicksPerSec, MinSpeed, IntervalCount, Sections, SpeedLists, DefaultRegs, Queues,
          MeterTicks, MaxMethods,
          Implemented, ChannelCount, MaxSwaps,
          LaneCount, Media, MaxPmaCalls

VARIABLES tool, s1, s2, s3, s4, s5, s6, s7, s8, s9, s10, s11

slots == <<s1, s2, s3, s4, s5, s6, s7, s8, s9, s10, s11>>
vars == <<tool, slots>>

(* ---- the hash table tool ---------------------------------------------------- *)
Rec(k, d) == [key |-> k, data |-> d]
HashFile(h, fits, tabs, first, second) ==
    [ hash_key |-> h, fits |-> fits, tabs |-> tabs,
      rec |-> [ t \in {0, 1} |-> IF t = 0 THEN first ELSE second ] ]
HashFiles == { HashFile(3, TRUE, 2, <<Rec(1, 1), Rec(2, 0)>>, <<>>),
               HashFile(1, FALSE, 2, <<Rec(1, 1)>>, <<>>),
               HashFile(2, TRUE, 2, <<Rec(2, 1), Rec(3, Miss)>>, <<Rec(1, 1)>>) }
Hash == INSTANCE HashTableTool WITH
    Idle <- NoUpload, Data <- TableData, MaxOps <- MaxCommands,
    tab <- s1, hkey <- s2, fkey <- s3, nTab <- s4, conn <- s5, file <- s6, hw <- s7, pc <- s8,
    snap <- s9, meant <- s10, ops <- s11
ASSUME HashTables == Hash!HashAssumption

(* ---- the controllers -------------------------------------------------------- *)
SpeedsAsked == {<<>>, <<3>>, <<5>>, <<1, 3>>, <<6, 5>>, <<5, 3, 7>>}
IdleLimiter == [state |-> "IDLE", sec_len |-> 4, int_len |-> 0, speeds |-> <<9>>, pkts |-> FALSE]
Limiter == INSTANCE LimiterTools WITH
    MaxTicks <- MeterTicks, MaxOps <- MaxMethods,
    rl <- s1, asked <- s2, tsl <- s3, sm <- s4, get <- s5, ops <- s6
ASSUME LimiterSizes == Limiter!LimiterAssumption

TwoChannels == [c \in {"2x100G-4", "8x25G-1"} |-> 2]
Swap == INSTANCE ProfileSwapTool WITH
    MaxCalls <- MaxSwaps,
    swap <- s1, drc <- s2, enabled <- s3, line <- s4, calls <- s5
ASSUME SwapCores == Swap!SwapAssumption

Pma == INSTANCE PmaTool WITH
    MaxCalls <- MaxPmaCalls,
    call <- s1, rxreset <- s2, req <- s3, ack <- s4, work <- s5, attr <- s6, calls <- s7
ASSUME PmaLanes == Pma!PmaAssumption

(* ---- one tool at a time ------------------------------------------------------ *)
Init ==
    \/ tool = "hash" /\ Hash!Init
    \/ tool = "limiter" /\ Limiter!Init /\ s7 = None /\ s8 = None /\ s9 = None /\ s10 = None /\ s11 = None
    \/ /\ tool = "profile swap" /\ Swap!Init
       /\ s6 = None /\ s7 = None /\ s8 = None /\ s9 = None /\ s10 = None /\ s11 = None
    \/ tool = "pma" /\ Pma!Init /\ s8 = None /\ s9 = None /\ s10 = None /\ s11 = None

Next ==
    \/ UNCHANGED tool /\ tool = "hash" /\ Hash!Next
    \/ UNCHANGED <<tool, s7, s8, s9, s10, s11>> /\ tool = "limiter" /\ Limiter!Next
    \/ UNCHANGED <<tool, s6, s7, s8, s9, s10, s11>> /\ tool = "profile swap" /\ Swap!Next
    \/ UNCHANGED <<tool, s8, s9, s10, s11>> /\ tool = "pma" /\ Pma!Next

Spec == Init /\ [][Next]_vars

(* ---- properties: each tool's own, stated in its module ----------------------- *)
\* The types of the state of the tool that runs.
TypeOK ==
    /\ tool = "hash" => Hash!TypeOK
    /\ tool = "limiter" => Limiter!TypeOK
    /\ tool = "profile swap" => Swap!TypeOK
    /\ tool = "pma" => Pma!TypeOK

\* Once an upload of sound tables has begun, the hash table answers every key with
\* what the tool held or, while the upload runs, not at all (toolkit.py, commit).
CommitAnswers == tool = "hash" => Hash!CommitAnswers

\* Every command of the hash table tool leaves two tables in which each key has a
\* slot of its own, and a file that is saved loads back (toolkit.py, add to load).
StaysConsistent == [][tool = "hash" => Hash!StaysConsistent]_vars

\* A rate limiter that shapes lets through what was asked for, a swapped Ethernet
\* channel runs the asked profile, and the lanes of a port run in the loop or
\* media mode asked for (rate_limiter.py, profile_swap.py, ftile.py).
ControllersAsAsked ==
    /\ tool = "limiter" => Limiter!RateAsAsked
    /\ tool = "profile swap" => Swap!ProfilesAsAsked
    /\ tool = "pma" => Pma!LoopsAsAsked
=============================================================================
