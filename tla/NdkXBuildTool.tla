--------------------------- MODULE NdkXBuildTool ---------------------------
(* harp (ndk_xbuild.py): the description of a component's generics becomes,   *)
(* per combination group, the rows that are simulated, and the QuestaSim      *)
(* runner simulates the default row and then every row of every group. A row  *)
(* gives every generic a value.                                               *)
EXTENDS Naturals, FiniteSets, SequencesExt

CONSTANTS
    Defaults,     \* the default setting: a value per generic
    Settings,     \* name -> [list |-> BOOLEAN, columns |-> sequence of <<generic, values>>]
    Groups,       \* name -> sequence of elements, see TransformList
    Filtered,     \* the rows some assert of the description rejects
    NoSetting,    \* the empty string among the settings of a group
    MaxCalls,     \* bound: calls of the tool
    None

VARIABLES
    run,       \* the process: command, groups of the description, place in the loop
    generics,  \* generics.fdo: the row the next simulation is elaborated with
    ran,       \* the rows this call has simulated, each with its outcome
    csv,       \* the rows of failed_combinations.csv
    calls

vars == <<run, generics, ran, csv, calls>>

\* generate_values and get_setting_values: the rows of a setting in their order,
\* columns zipped for the type "list", else their product.
Generic(column) == column[1]
Values(column) == column[2]
Extended(rows, column) ==
    FlattenSeq([ r \in 1 .. Len(rows) |->
        [ v \in 1 .. Len(Values(column)) |->
            rows[r] @@ (Generic(column) :> Values(column)[v]) ] ])
get_setting_values(setting) ==
    LET columns == setting.columns
    IN IF setting.list
       THEN [ i \in 1 .. Len(Values(columns[1])) |->
                [ g \in { Generic(columns[c]) : c \in 1 .. Len(columns) } |->
                    Values(columns[CHOOSE c \in 1 .. Len(columns) : Generic(columns[c]) = g])[i] ] ]
       ELSE FoldLeft(Extended, << <<>> >>, columns)

\* name[from:to] keeps the rows from..to-1 counted from 0; iloc clamps the bounds.
Sliced(pick) ==
    LET rows == get_setting_values(Settings[pick.setting])
    IN IF pick.slice = None THEN rows
       ELSE SubSeq(rows, pick.slice[1] + 1,
                   IF pick.slice[2] < Len(rows) THEN pick.slice[2] ELSE Len(rows))

\* An element of a group is [list |-> FALSE, of |-> <<pick>>], a common setting, or
\* a list of alternatives. The empty picks are dropped after every list, and so is
\* a selection that has become empty.
WithoutEmpty(picks) == SelectSeq(picks, LAMBDA p : p # NoSetting)
Prefix(group) == FlattenSeq([ i \in 1 .. Len(group) |->
                                IF group[i].list THEN <<>> ELSE group[i].of ])
Chosen(partial, element) ==
    IF ~element.list THEN partial
    ELSE { WithoutEmpty(p \o <<element.of[i]>>) : p \in partial, i \in 1 .. Len(element.of) }
           \ {<<>>}
transform_list(group) ==
    { WithoutEmpty(p) : p \in FoldLeft(Chosen, {Prefix(group)}, group) }

\* cartesian_product of the sliced settings, every other generic at its default.
RowsOf(partial) ==
    LET Joined(rows, pick) ==
            { row @@ Sliced(pick)[r] : row \in rows, r \in 1 .. Len(Sliced(pick)) }
    IN { row @@ Defaults : row \in FoldLeft(Joined, {<<>>}, partial) }

Columns(pick) == { Generic(Settings[pick.setting].columns[c]) :
                     c \in 1 .. Len(Settings[pick.setting].columns) }

\* What raises while a group is evaluated: no common element, nothing selected,
\* or two settings of one selection that share a generic.
Malformed(group) ==
    \/ Prefix(group) = <<>>
    \/ transform_list(group) \in {{}, {<<>>}}
    \/ \E partial \in transform_list(group) : \E i, j \in 1 .. Len(partial) :
         i # j /\ Columns(partial[i]) \intersect Columns(partial[j]) # {}

\* get_combination_generics and assert_filter.
GroupRows(name) == UNION { RowsOf(p) : p \in transform_list(Groups[name]) } \ Filtered

Commands == {"ver", "multiver", "dry", "failed_comb", "comb", "synth"}
NotRunning == [ pc |-> "idle", command |-> "ver", gui |-> FALSE, groups |-> <<>>,
                at |-> 0, left |-> {}, failed |-> {}, exit |-> None ]

Init ==
    /\ run = NotRunning
    /\ generics = None /\ ran = {} /\ csv = None /\ calls = 0

\* Only ver and multiver run something; the others evaluate the description, and
\* --failed-comb fails on its index, a string, before it comes to that.
Exit(command, groups) ==
    CASE command \in {"synth", "failed_comb"} -> 1
      [] \E i \in 1 .. Len(groups) : Malformed(Groups[groups[i]]) -> 1
      [] command \in {"ver", "multiver"} /\ groups = <<>> -> 1
      [] command \in {"dry", "comb"} -> 0
      [] OTHER -> None

\* main, NdkXBuildConfig and the runner's constructor.
Start ==
    /\ run.pc = "idle" /\ calls < MaxCalls
    /\ \E command \in Commands, gui \in BOOLEAN,
          groups \in {<<>>} \union { <<g>> : g \in DOMAIN Groups }
                     \union { <<g, h>> : g, h \in DOMAIN Groups } :
         LET exit == Exit(command, groups)
         IN run' = [ NotRunning EXCEPT !.command = command, !.gui = gui, !.groups = groups,
                       !.pc = IF exit = None THEN "row" ELSE "idle", !.exit = exit,
                       !.left = IF exit = None THEN {Defaults} ELSE {} ]
    /\ ran' = {}
    /\ calls' = calls + 1
    /\ UNCHANGED <<generics, csv>>

\* _run_comb: run_set_generics writes the next row of the group in turn.
run_set_generics ==
    /\ run.pc = "row"
    /\ run.left # {}
    /\ generics' = CHOOSE row \in run.left : TRUE
    /\ run' = [run EXCEPT !.pc = "simulate", !.left = @ \ {generics'}]
    /\ UNCHANGED <<ran, csv, calls>>

\* run_tool and run_report: the simulator is elaborated with the file; what its
\* transcript says decides. When the simulator itself fails the tool dies.
run_tool ==
    /\ run.pc = "simulate"
    /\ \E outcome \in {"pass", "fail", "crash"} :
         /\ ran' = ran \union {[row |-> generics, outcome |-> outcome]}
         /\ run' = IF outcome = "crash"
                   THEN [run EXCEPT !.pc = "idle", !.exit = 1]
                   ELSE [ run EXCEPT !.pc = "row",
                            !.failed = IF outcome = "fail" THEN @ \union {generics} ELSE @ ]
    /\ UNCHANGED <<generics, csv, calls>>

\* The next group of multiver, or the end of the loop.
NextGroup ==
    /\ run.pc = "row" /\ run.left = {}
    /\ run' = IF run.command = "multiver" /\ run.at < Len(run.groups)
              THEN [run EXCEPT !.at = @ + 1, !.left = GroupRows(run.groups[run.at + 1])]
              ELSE [run EXCEPT !.pc = "report"]
    /\ UNCHANGED <<generics, ran, csv, calls>>

\* ver: with --gui nothing is reported; else the failed rows go to the file and
\* the exit code tells.
report ==
    /\ run.pc = "report"
    /\ csv' = IF run.gui \/ run.failed = {} THEN csv ELSE run.failed
    /\ run' = [ run EXCEPT !.pc = "idle",
                  !.exit = IF run.gui \/ run.failed = {} THEN 0 ELSE 42 ]
    /\ UNCHANGED <<generics, ran, calls>>

Next == Start \/ run_set_generics \/ run_tool \/ NextGroup \/ report

Spec == Init /\ [][Next]_vars

TypeOK ==
    /\ run.pc \in {"idle", "row", "simulate", "report"}
    /\ run.command \in Commands /\ run.at \in 0 .. Len(run.groups)
    /\ \A r \in ran : DOMAIN r.row = DOMAIN Defaults
    /\ calls \in 0 .. MaxCalls

\* Reference: a row belongs to a group when, for some choice of one alternative
\* per list, it agrees with a row of every chosen setting (in its slice) and with
\* the default on every other generic.
Described(row, group) ==
    \E choice \in [ 1 .. Len(group) -> 1 .. 3 ] :
        /\ \A i \in 1 .. Len(group) : choice[i] <= Len(group[i].of)
        /\ LET chosen == { group[i].of[choice[i]] : i \in 1 .. Len(group) } \ {NoSetting}
           IN /\ chosen # {}
              /\ \A p \in chosen : \E r \in 1 .. Len(Sliced(p)) :
                   \A g \in Columns(p) : row[g] = Sliced(p)[r][g]
              /\ \A g \in DOMAIN Defaults :
                   g \in UNION { Columns(p) : p \in chosen } \/ row[g] = Defaults[g]

\* Every row that is simulated is the default or one some group of the call
\* describes and no assert rejects; when a call without --gui ends with 0, every
\* such row of every group with a common setting was simulated and passed; when it
\* ends with 42, the file holds exactly the rows that failed.
AllRows == [ DOMAIN Defaults -> UNION { Range(Values(c)) : c \in
                UNION { Range(Settings[s].columns) : s \in DOMAIN Settings } }
                \union Range(Defaults) ]
RunsAsSet ==
    /\ \A r \in ran :
         \/ r.row = Defaults
         \/ /\ r.row \notin Filtered
            /\ \E g \in Range(run.groups) : Described(r.row, Groups[g])
    /\ run.pc = "idle" /\ run.command = "multiver" /\ ~run.gui =>
         LET with(outcome) == { r.row : r \in { s \in ran : s.outcome = outcome } }
         IN /\ run.exit = 0 => with("fail") \union with("crash") = {}
            /\ run.exit = 0 => \A g \in Range(run.groups) :
                 WithoutEmpty(Prefix(Groups[g])) # <<>> =>
                   { row \in AllRows : Described(row, Groups[g]) } \ Filtered \subseteq with("pass")
            /\ run.exit = 42 => csv = with("fail")
=============================================================================
