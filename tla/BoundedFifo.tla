----------------------------- MODULE BoundedFifo -----------------------------
(***************************************************************************)
(* What a first-word-fall-through FIFO promises on its ports.  In each     *)
(* clock a word is accepted if WR is set and FULL is not, and one is       *)
(* consumed if RD is set and EMPTY is not.  FULL is exact.  EMPTY may      *)
(* still be set while the first words are on their way to the output; once *)
(* it is not, DO is the oldest word.                                       *)
(***************************************************************************)
EXTENDS Naturals, Sequences

CONSTANTS Items, Data

VARIABLES q, full, empty, do

vars == <<q, full, empty, do>>

Flags(contents, f, e, d) ==
    /\ f = (Len(contents) = Items)
    /\ ~e => contents # <<>> /\ d = Head(contents)

After(contents, wr, rd, di) ==
    LET rest == IF rd THEN Tail(contents) ELSE contents
    IN  IF wr THEN Append(rest, di) ELSE rest

Init ==
    /\ q = <<>>
    /\ full = FALSE
    /\ empty = TRUE
    /\ Flags(q, full, empty, do)

Next ==
    \E wr, rd \in BOOLEAN, di \in Data :
        /\ q' = After(q, wr /\ ~full, rd /\ ~empty, di)
        /\ Flags(q', full', empty', do')
        /\ ~empty /\ ~rd => ~empty'

Spec == Init /\ [][Next]_vars
==============================================================================
