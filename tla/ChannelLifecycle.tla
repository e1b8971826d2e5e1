--------------------------- MODULE ChannelLifecycle --------------------------
(***************************************************************************)
(* What starting and stopping a DMA channel promises, without probing      *)
(* registers, handshakes or comparators.  A channel goes round through     *)
(* four phases; one start and one stop may be under way at a time, and in  *)
(* one clock several channels may move.  An accepted frame begins only on  *)
(* a channel that is started and not yet being stopped, and a channel is   *)
(* reported stopped only when it is receiving no frame.                    *)
(***************************************************************************)
CONSTANT Chan

VARIABLES
    phase,     \* phase of each channel
    inFrame    \* channels in the middle of an accepted frame

vars == <<phase, inFrame>>

Phases == {"stopped", "starting", "running", "stopping"}

Follows(p) ==
    IF p = "stopped" THEN "starting"
    ELSE IF p = "starting" THEN "running"
    ELSE IF p = "running" THEN "stopping"
    ELSE "stopped"

AtMostOne(S) == \A c, d \in S : c = d

Init ==
    /\ phase = [c \in Chan |-> "stopped"]
    /\ inFrame = {}

Moving(c) == phase'[c] # phase[c]

\* Some channels enter their next phase.
Move ==
    /\ phase' \in [Chan -> Phases]
    /\ \A c \in Chan : Moving(c) => phase'[c] = Follows(phase[c])
    /\ AtMostOne({c \in Chan : phase'[c] = "starting"})
    /\ AtMostOne({c \in Chan : phase'[c] = "stopping"})
    /\ \A c \in inFrame : phase[c] = "stopping" => ~Moving(c)

\* Accepted frames begin and end.
Frames ==
    /\ inFrame' \subseteq Chan
    /\ \A c \in inFrame' \ inFrame : phase[c] \in {"starting", "running"}

Next == Move /\ Frames

Spec == Init /\ [][Next]_vars
==============================================================================
