-------------------------- MODULE ProfileSwapTool --------------------------
(* profile_swap.py: the profile of each Ethernet channel of an F-Tile         *)
(* multirate core is exchanged through the dynamic reconfiguration controller *)
(* (DRC), reached by the DRP window of channel 0, and the parameters of the   *)
(* channel are rewritten while its line is held in reset. A DRP access        *)
(* (data, address, command, sleep) is one step.                               *)
EXTENDS Naturals, Sequences

CONSTANTS
    Implemented,   \* the IP core that is built into the card
    ChannelCount,  \* channels of each IP core (2 and 8 in the code)
    MaxCalls,      \* bound: calls of the script
    None

VARIABLES
    swap,      \* the running script: arguments, channel in turn, place in the loop
    drc,       \* the controller: the two profile registers and whether it works
    enabled,   \* profiles (numbers over all channels) that are enabled
    line,      \* per channel: reset and the multirate parameters
    calls

vars == <<swap, drc, enabled, line, calls>>

\* FEC and ETH_SPEED of each end profile; the length is the number of profiles.
FEC_TYPE == [ c \in {"2x100G-4", "8x25G-1"} |->
                IF c = "2x100G-4" THEN <<2, 0>> ELSE <<0, 2, 3, 0>> ]
ETH_SPEED == [ c \in {"2x100G-4", "8x25G-1"} |->
                IF c = "2x100G-4" THEN <<0, 0>> ELSE <<0, 0, 0, 1>> ]
Cores == DOMAIN FEC_TYPE
SwapAssumption == Implemented \in Cores /\ ChannelCount \in [Cores -> Nat] /\ MaxCalls \in Nat

Profiles(core) == 1 .. Len(FEC_TYPE[core])
Channels(core) == 0 .. ChannelCount[core] - 1

\* PROFILES_GROUPS[profile - 1][channel]
PROFILES_GROUPS(core, profile, channel) == profile + channel * Len(FEC_TYPE[core])

\* The checks of the arguments: what they let through is carried out.
Accepted(c) ==
    /\ c.first \in Channels(c.core)
    /\ c.count > 0 /\ c.first + c.count <= ChannelCount[c.core]
    /\ {c.from, c.to} \subseteq Profiles(c.core)

\* Opening eth_channels components fails when the card has fewer of them.
Opens(c) == ChannelCount[c.core] <= ChannelCount[Implemented]

Call(core, first, count, from, to) ==
    [ core |-> core, first |-> first, count |-> count, from |-> from, to |-> to ]
AskedChannels(c) == c.first .. c.first + c.count - 1

OnlyEnabled(channel, profile) ==
    \A p \in Profiles(Implemented) :
        PROFILES_GROUPS(Implemented, p, channel) \in enabled <=> p = profile

\* The operator named the core that is there and the profile that is in use.
Truthful(c) ==
    /\ c.core = Implemented
    /\ \A ch \in AskedChannels(c) : OnlyEnabled(ch, c.from)

Idle == [ pc |-> "idle", call |-> None, i |-> 0, truthful |-> FALSE, others |-> None ]

Init ==
    /\ swap = Idle
    /\ drc = [ old |-> 0, new |-> 0, busy |-> FALSE ]
    /\ enabled = { PROFILES_GROUPS(Implemented, 1, ch) : ch \in Channels(Implemented) }
    /\ line = [ ch \in Channels(Implemented) |->
                  [ reset |-> FALSE, select |-> 0, fec |-> FEC_TYPE[Implemented][1], speed |-> 0 ] ]
    /\ calls = 0

Start ==
    /\ swap.pc = "idle"
    /\ calls < MaxCalls
    /\ \E core \in Cores, first \in 0 .. 8, count \in 1 .. 8, from, to \in 1 .. 4 :
         LET c == Call(core, first, count, from, to)
         IN /\ Accepted(c) /\ Opens(c)
            /\ swap' = [ Idle EXCEPT !.pc = "ready", !.call = c, !.truthful = Truthful(c) /\ ~drc.busy,
                           !.others = [ ch \in Channels(Implemented) \ AskedChannels(c) |-> line[ch] ] ]
    /\ calls' = calls + 1
    /\ UNCHANGED <<drc, enabled, line>>

Channel == swap.call.first + swap.i
Then(from, to) == swap.pc = from /\ swap' = [swap EXCEPT !.pc = to]
SetLine(field, value) == line' = [line EXCEPT ![Channel][field] = value]

\* The controller's status is polled until it reads 2.
WaitReady ==
    /\ Then("ready", "reset")
    /\ ~drc.busy
    /\ UNCHANGED <<drc, enabled, line, calls>>

set_reset ==
    /\ Then("reset", "old")
    /\ SetLine("reset", TRUE)
    /\ UNCHANGED <<drc, enabled, calls>>

DisableProfile ==
    /\ Then("old", "new")
    /\ drc' = [drc EXCEPT !.old = PROFILES_GROUPS(swap.call.core, swap.call.from, Channel)]
    /\ UNCHANGED <<enabled, line, calls>>

EnableProfile ==
    /\ Then("new", "trigger")
    /\ drc' = [drc EXCEPT !.new = PROFILES_GROUPS(swap.call.core, swap.call.to, Channel)]
    /\ UNCHANGED <<enabled, line, calls>>

Trigger ==
    /\ Then("trigger", "settle")
    /\ drc' = [drc EXCEPT !.busy = TRUE]
    /\ UNCHANGED <<enabled, line, calls>>

\* The controller (external) exchanges the profiles in its own time.
Reconfigured ==
    /\ drc.busy
    /\ drc' = [drc EXCEPT !.busy = FALSE]
    /\ enabled' = (enabled \ {drc.old}) \union {drc.new}
    /\ UNCHANGED <<swap, line, calls>>

\* Mutant: the parameters are written without waiting for the controller.
SettledAtOnce ==
    /\ Then("settle", "select")
    /\ UNCHANGED <<drc, enabled, line, calls>>

Settled ==
    /\ Then("settle", "select")
    /\ ~drc.busy
    /\ UNCHANGED <<drc, enabled, line, calls>>

\* Registers 0x200, 0x204 and 0x208 of the channel, one DRP write each.
WriteSelect ==
    /\ Then("select", "fec")
    /\ SetLine("select", 0)
    /\ UNCHANGED <<drc, enabled, calls>>

WriteFec ==
    /\ Then("fec", "speed")
    /\ SetLine("fec", FEC_TYPE[swap.call.core][swap.call.to])
    /\ UNCHANGED <<drc, enabled, calls>>

WriteSpeed ==
    /\ Then("speed", "clear")
    /\ SetLine("speed", ETH_SPEED[swap.call.core][swap.call.to])
    /\ UNCHANGED <<drc, enabled, calls>>

\* The line leaves reset; the loop goes to the next channel or the script ends.
clr_reset ==
    /\ swap.pc = "clear"
    /\ SetLine("reset", FALSE)
    /\ swap' = IF swap.i + 1 < swap.call.count
               THEN [swap EXCEPT !.pc = "ready", !.i = @ + 1]
               ELSE [swap EXCEPT !.pc = "idle"]
    /\ UNCHANGED <<drc, enabled, calls>>

\* The script is killed; the line stays as it is.
Kill ==
    /\ swap.pc # "idle"
    /\ swap' = Idle
    /\ UNCHANGED <<drc, enabled, line, calls>>

Next ==
    \/ Start \/ WaitReady \/ set_reset \/ DisableProfile \/ EnableProfile \/ Trigger
    \/ Settled \/ WriteSelect \/ WriteFec \/ WriteSpeed \/ clr_reset \/ Kill
    \/ Reconfigured

Spec == Init /\ [][Next]_vars

TypeOK ==
    /\ swap.pc \in {"idle", "ready", "reset", "old", "new", "trigger", "settle",
                    "select", "fec", "speed", "clear"}
    /\ swap.pc # "idle" => Channel \in Channels(Implemented)
    /\ drc.busy \in BOOLEAN /\ calls \in 0 .. MaxCalls
    /\ \A ch \in Channels(Implemented) : line[ch].reset \in BOOLEAN /\ line[ch].fec \in 0 .. 3

\* Channel ch runs the end profile of call c, with its FEC and speed and out of reset.
EndLine(c) == [ reset |-> FALSE, select |-> 0, fec |-> FEC_TYPE[Implemented][c.to],
                speed |-> ETH_SPEED[Implemented][c.to] ]
Swapped(c, ch) == OnlyEnabled(ch, c.to) /\ line[ch] = EndLine(c)

\* A call that named the core and the profile in use, and was not killed, leaves
\* on every asked channel only the end profile, with its FEC and speed and out of
\* reset, and the lines of the other channels as they were; while a channel is
\* being rewritten the controller is at rest and the line in reset.
ProfilesAsAsked ==
    /\ swap.pc \in {"select", "fec", "speed", "clear"} => ~drc.busy /\ line[Channel].reset
    /\ swap.pc = "idle" /\ swap.truthful =>
         /\ \A ch \in AskedChannels(swap.call) : Swapped(swap.call, ch)
         /\ \A ch \in DOMAIN swap.others : line[ch] = swap.others[ch]

(* ------------------------------------------------------ the inductive invariant -- *)
Pcs == {"idle", "ready", "reset", "old", "new", "trigger", "settle", "select", "fec", "speed",
        "clear"}
Lines == [reset : BOOLEAN, select : {0}, fec : 0 .. 3, speed : 0 .. 1]

\* The call in progress, or the last one that came to its end, was accepted.
Called ==
    /\ swap.call \in [core : Cores, first : Nat, count : Nat \ {0}, from : Nat, to : Nat]
    /\ {swap.call.from, swap.call.to} \subseteq Profiles(swap.call.core)
    /\ swap.call.first + swap.call.count <= ChannelCount[Implemented]
    /\ swap.i < swap.call.count
    /\ swap.pc = "idle" => swap.i + 1 = swap.call.count

SwapTyped ==
    /\ swap = [ pc |-> swap.pc, call |-> swap.call, i |-> swap.i, truthful |-> swap.truthful,
                others |-> swap.others ]
    /\ swap.pc \in Pcs /\ swap.i \in Nat /\ swap.truthful \in BOOLEAN
    /\ drc \in [old : Nat, new : Nat, busy : BOOLEAN]
    /\ line \in [Channels(Implemented) -> Lines]
    /\ calls \in 0 .. MaxCalls
    /\ swap.pc # "idle" \/ swap.truthful => Called

\* The line of the channel in turn is held in reset, and rewritten when the
\* controller is at rest.
LineHeld ==
    /\ swap.pc \in Pcs \ {"idle", "ready", "reset"} => line[Channel].reset
    /\ swap.pc \in {"select", "fec", "speed", "clear"} => ~drc.busy

\* The profile that the channel in turn runs: the controller exchanges it after the
\* trigger.
InTurn ==
    IF swap.pc \in {"ready", "reset", "old", "new", "trigger"} \/ (swap.pc = "settle" /\ drc.busy)
    THEN swap.call.from ELSE swap.call.to

\* How far a truthful call got: the channels before the one in turn are swapped, the
\* ones after it run the start profile, the other lines are as they were.
Progress ==
    swap.truthful =>
        /\ swap.call.core = Implemented
        /\ drc.busy => swap.pc = "settle"
        /\ swap.pc \in {"new", "trigger", "settle"} =>
               drc.old = PROFILES_GROUPS(Implemented, swap.call.from, Channel)
        /\ swap.pc \in {"trigger", "settle"} =>
               drc.new = PROFILES_GROUPS(Implemented, swap.call.to, Channel)
        /\ swap.pc \in {"speed", "clear"} =>
               line[Channel].fec = FEC_TYPE[Implemented][swap.call.to]
        /\ swap.pc = "clear" => line[Channel].speed = ETH_SPEED[Implemented][swap.call.to]
        /\ OnlyEnabled(Channel, InTurn)
        /\ swap.pc = "idle" => Swapped(swap.call, Channel)
        /\ \A ch \in AskedChannels(swap.call) :
               /\ ch < Channel => Swapped(swap.call, ch)
               /\ ch > Channel => OnlyEnabled(ch, swap.call.from)
        /\ DOMAIN swap.others = Channels(Implemented) \ AskedChannels(swap.call)
        /\ \A ch \in DOMAIN swap.others : line[ch] = swap.others[ch]

SwapInv == SwapTyped /\ LineHeld /\ Progress
=============================================================================
