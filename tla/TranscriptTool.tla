--------------------------- MODULE TranscriptTool ----------------------------
(* max_words_num_transcript_check.py of the PTC tag manager: reads the log of *)
(* a simulation, takes the parameters of the design from it and compares the  *)
(* number of MFB words reserved for each read request with an algorithm; for  *)
(* a request that differs it prints the words of the completions.             *)
EXTENDS Integers, Sequences, FiniteSets, Folds, SequencesExt

CONSTANTS Addresses, Lengths, Numbers,  \* logged: DWORD address, length, words
          Regions, RegSizes             \* logged: MFB regions and their DWORDs

VARIABLES DOWN_REGIONS, DOWN_REG_SIZE, DOWN_W_D, RCB, RCBS,  \* globals of the script
          all_ok,
          end     \* reading, done or failed
vars == <<DOWN_REGIONS, DOWN_REG_SIZE, DOWN_W_D, RCB, RCBS, all_ok, end>>

(* --------------------------------------------------- the words of completions -- *)
\* One DWORD more.  A word is the number of its DWORDs: it fills from the lowest.
Dword(x, dword_a) ==
    LET y    == IF x.start THEN [x EXCEPT !.w_arr = Append(@, x.w), !.w = 0] ELSE x
        w    == y.w + 1
        ends == (dword_a + 1) % RCBS = 0
        into == [y EXCEPT !.w_arr = Append(@, w), !.w = 0]
    IN  IF ends THEN [(IF y.u_start /\ RCB = 1 /\ y.w_arr = <<>> THEN into ELSE [y EXCEPT !.w = w])
                         EXCEPT !.start = TRUE, !.u_start = FALSE]
        ELSE [(IF w = DOWN_W_D THEN into ELSE [y EXCEPT !.w = w]) EXCEPT !.start = FALSE]

Aligned(a) == a % RCBS = 0

Simulated(a, s) ==
    FoldLeft(Dword, [w_arr |-> <<>>, w |-> 0, start |-> FALSE, u_start |-> RCB = 1 /\ ~Aligned(a)],
             [k \in 1..s |-> a + k - 1])

\* The request of no DWORDs leaves dword_a of the last condition without a value.
LongRaises(a, s) == RCB = 1 /\ s = 0 /\ Aligned(a)

words_count_long(a, s) ==
    LET x    == Simulated(a, s)
        o    == x.u_start
        rest == IF o THEN Append(x.w_arr, x.w) \o (IF x.w_arr = <<>> THEN <<0>> ELSE <<>>)
                ELSE x.w_arr \o (IF x.w > 0 THEN <<x.w>> ELSE <<>>)
        tail == IF RCB = 1 /\ ~o /\ ~Aligned(a + s) /\ (a + s) % RCBS <= RCBS \div 2
                THEN <<0>> ELSE <<>>
        all  == rest \o tail
    IN  all \o [k \in 1..(IF Len(all) < 4 THEN 4 - Len(all) ELSE 0) |-> 0]

(* ------------------------------------------------- the algorithm of the hardware -- *)
ByAlgorithm(a, len_u) ==
    LET addr_u_rcbs     == a % RCBS
        end_addr_u      == addr_u_rcbs + (len_u % RCBS)
        end_addr_u_rcbs == end_addr_u % RCBS
        len_rest_u      == len_u - (RCBS - addr_u_rcbs) - end_addr_u_rcbs
        first == (RCBS - (addr_u_rcbs \div DOWN_W_D) * DOWN_W_D) \div DOWN_W_D
        last  == (end_addr_u_rcbs + DOWN_W_D - 1) \div DOWN_W_D
    IN  IF addr_u_rcbs = 0
        THEN ((len_u - end_addr_u_rcbs) \div DOWN_W_D) + last
        ELSE IF len_u < RCBS /\ end_addr_u < RCBS THEN (len_u + DOWN_W_D - 1) \div DOWN_W_D
        ELSE first + (len_rest_u \div DOWN_W_D) + last

\* The result and the length share the name s: the length is lost.
words_count_short(a, s) == ByAlgorithm(a, 0)

(* ----------------------------------------------------------------- the transcript -- *)
InfoRcb(v) ==
    /\ end = "reading"
    /\ RCB' = v
    /\ RCBS' = IF v = 0 THEN 16 ELSE 32
    /\ UNCHANGED <<DOWN_REGIONS, DOWN_REG_SIZE, DOWN_W_D, all_ok, end>>

InfoRegions(v) ==
    /\ end = "reading"
    /\ DOWN_REGIONS' = v
    /\ DOWN_W_D' = v * DOWN_REG_SIZE
    /\ UNCHANGED <<DOWN_REG_SIZE, RCB, RCBS, all_ok, end>>

InfoRegSize(v) ==
    /\ end = "reading"
    /\ DOWN_REG_SIZE' = v
    /\ DOWN_W_D' = DOWN_REGIONS * v
    /\ UNCHANGED <<DOWN_REGIONS, RCB, RCBS, all_ok, end>>

\* A difference is printed with words_count_long, and the user goes on or stops.
Transaction(t_addr, t_len, t_n) ==
    /\ end = "reading"
    /\ t_n # words_count_short(t_addr, t_len)
    /\ all_ok' = FALSE
    /\ end' \in IF LongRaises(t_addr, t_len) THEN {"failed"} ELSE {"reading", "done"}
    /\ UNCHANGED <<DOWN_REGIONS, DOWN_REG_SIZE, DOWN_W_D, RCB, RCBS>>

EndOfFile ==
    /\ end = "reading"
    /\ end' = "done"
    /\ UNCHANGED <<DOWN_REGIONS, DOWN_REG_SIZE, DOWN_W_D, RCB, RCBS, all_ok>>

Init ==
    /\ DOWN_REGIONS = 4 /\ DOWN_REG_SIZE = 4 /\ DOWN_W_D = 16 /\ RCB = 0 /\ RCBS = 16
    /\ all_ok = TRUE /\ end = "reading"

Next ==
    \/ \E v \in {0, 1} : InfoRcb(v)
    \/ \E v \in Regions : InfoRegions(v)
    \/ \E v \in RegSizes : InfoRegSize(v)
    \/ \E a \in Addresses, s \in Lengths, n \in Numbers : Transaction(a, s, n)
    \/ EndOfFile

Spec == Init /\ [][Next]_vars

(* --------------------------------------------------------------------- properties -- *)
TypeOK ==
    /\ RCB \in {0, 1} /\ DOWN_REGIONS \in Regions \cup {4} /\ DOWN_REG_SIZE \in RegSizes \cup {4}
    /\ all_ok \in BOOLEAN /\ end \in {"reading", "done", "failed"}

\* Under all parameters a transcript can announce, the words that are printed
\* for a request hold all its DWORDs once, none crosses
\* the read completion boundary or is longer than the MFB word that the transcript
\* announced, and with a boundary of 64 bytes they are as many as the algorithm used
\* in hardware finds (words_count_long and words_count_short, which its comments call
\* the simulation and the algorithm of one count); the algorithm is given the length.
Before(words, k) == FoldLeft(LAMBDA n, w : n + w, 0, SubSeq(words, 1, k - 1))

WordsCounted ==
    /\ RCBS = (RCB + 1) * 16 /\ DOWN_W_D = DOWN_REGIONS * DOWN_REG_SIZE
    /\ \A a \in Addresses, s \in Lengths : ~LongRaises(a, s) =>
          LET words == words_count_long(a, s)
              held  == {k \in DOMAIN words : words[k] > 0}
          IN  /\ Before(words, Len(words) + 1) = s
              /\ \A k \in held : words[k] <= DOWN_W_D /\ ((a + Before(words, k)) % RCBS) + words[k] <= RCBS
              /\ RCB = 0 /\ DOWN_W_D <= RCBS => Cardinality(held) = ByAlgorithm(a, s)
=============================================================================
