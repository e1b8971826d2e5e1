-------------------------- MODULE CombinationTools --------------------------
(* build/scripts/multi_ver and build/scripts/multi_synth: the two scripts    *)
(* run a simulation, or a synthesis, for every combination of the settings   *)
(* of a component.  A setting gives values to some parameters; a combination *)
(* is a sequence of settings that are laid over the setting "default"; sed   *)
(* writes the result into a source file of the component, which keeps what   *)
(* an earlier combination, or an earlier call, has left in it.               *)
(*                                                                           *)
(* A parameter that a setting, or the source file, does not hold is None.    *)
(* The parameters that multi_ver passes in the environment do not persist    *)
(* and are not modelled.  `opened` and `runs` are history of one call.       *)
EXTENDS Integers, FiniteSets, Sequences, SequencesExt

CONSTANTS
    Params, Values,     \* parameters of the component and their values
    Default, Names,     \* the setting "default" and the other settings
    Keys,               \* combinations of the settings file
    CombinationOf,      \* the settings of each of them
    Simulator,          \* what multi_ver runs
    Synthesis,          \* what multi_synth runs; also names of settings
    Selected,           \* test name of a combination given on the command line
    MaxCalls,           \* bound: calls of the scripts
    None

VARIABLES
    settings,           \* SETTINGS
    pkg,                \* the parameters in the source file
    transcripts,        \* verdict in the transcript of every test name
    reports,            \* combination that the reports of each synthesis are about
    saved,              \* project_* directories: the reports of a combination
    jobs,               \* what is left to do in the call that runs
    FAIL,
    exit,               \* exit code of the last call; None: it still runs
    opened,             \* the source file when the call began
    runs,               \* simulations and syntheses of the call
    calls

vars == <<settings, pkg, transcripts, reports, saved, jobs, FAIL, exit, opened, runs, calls>>

Setting == [Params -> Values \cup {None}]

Init ==
    /\ settings \in UNION {[ns \cup {Default} -> Setting] :
                              ns \in {Names \cup Synthesis} \cup {Synthesis}}
    /\ pkg \in Setting
    /\ transcripts = [k \in Keys \cup {Selected} |-> None]
    /\ reports = [t \in Synthesis |-> None]
    /\ saved = [k \in Keys |-> [t \in Synthesis |-> None]]
    /\ jobs = <<>> /\ FAIL = FALSE /\ exit = 0
    /\ opened = pkg /\ runs = <<>> /\ calls = 0

Known(combination) == SelectSeq(combination, LAMBDA c : c \in DOMAIN settings)

(* The settings are laid over the default one, the later over the earlier.   *)
create_setting_from_combination(combination) ==
    FoldLeft(LAMBDA s, c : [p \in Params |->
                 IF settings[c][p] # None THEN settings[c][p] ELSE s[p]],
             settings[Default], Known(combination))

(* Mutant: a parameter that the default setting does not have is no error.   *)
ErroneousName(combination) == Known(combination) # combination

(* An unknown setting, or a parameter that the default does not set back.    *)
Erroneous(combination) ==
    \/ Known(combination) # combination
    \/ \E k \in 1 .. Len(Known(combination)), p \in Params :
           settings[Known(combination)[k]][p] # None /\ settings[Default][p] = None

(* sed replaces the value of a parameter that the source file has.           *)
apply_setting(setting) ==
    [p \in Params |-> IF pkg[p] = None \/ setting[p] = None THEN pkg[p] ELSE setting[p]]

\* ---- the calls

Run(key, tool) ==
    [do |-> "run", key |-> key, tool |-> tool, name |-> key, manual |-> FALSE]
RunManual(key, tool, name) ==
    [do |-> "run", key |-> key, tool |-> tool, name |-> name, manual |-> TRUE]
Dry(key, tool)  == [do |-> "dry", key |-> key, tool |-> tool]
Clean           == [do |-> "clean"]
Save(key)       == [do |-> "save", key |-> key]

(* A percentage picks that many combinations, in a random order.             *)
reduce_combinations(n) ==
    {s \in [1 .. n -> Keys] : \A i, j \in 1 .. n : s[i] = s[j] => i = j}

MultiVerJobs ==
    LET chosen == UNION {reduce_combinations(n) : n \in 1 .. Cardinality(Keys)}
    IN  {[i \in DOMAIN s |-> Run(s[i], Simulator)] : s \in chosen}
            \cup {[i \in DOMAIN s |-> Dry(s[i], Simulator)] : s \in chosen}

(* A combination named on the command line, or its settings.                 *)
SelectedJobs ==
    UNION {{<<RunManual(k, Simulator, n)>> : n \in {k, Selected}} : k \in Keys}
        \cup {<<Dry(k, t)>> : k \in Keys, t \in Synthesis}
        \cup {<<Run(k, t)>> : k \in Keys, t \in Synthesis}

(* All combinations, each one in a clean directory.                          *)
MultiSynthJobs ==
    {FlattenSeq([i \in 1 .. Cardinality(Keys) |->
         LET key == SetToSeq(Keys)[i] IN
         <<Clean>> \o [j \in DOMAIN tools |-> Run(key, tools[j])] \o <<Save(key)>>]) :
        tools \in {SetToSeq(ts) : ts \in SUBSET Synthesis \ {{}}}}

Call ==
    /\ exit # None /\ calls < MaxCalls
    /\ calls' = calls + 1
    /\ jobs' \in MultiVerJobs \cup SelectedJobs \cup MultiSynthJobs
    /\ FAIL' = FALSE /\ exit' = None /\ opened' = pkg /\ runs' = <<>>
    /\ UNCHANGED <<settings, pkg, transcripts, reports, saved>>

\* ---- the jobs of a call

Asked(job) ==
    CombinationOf[job.key] \o (IF job.tool = Simulator THEN <<>> ELSE <<job.tool>>)

Job(kind) == jobs # <<>> /\ Head(jobs).do = kind /\ jobs' = Tail(jobs)

Applied(job) ==
    /\ pkg' = apply_setting(create_setting_from_combination(Asked(job)))
    /\ UNCHANGED <<settings, exit, opened, calls>>

Ended(job, passed) ==
    /\ FAIL' = (FAIL \/ Erroneous(Asked(job)) \/ ~passed)
    /\ runs' = Append(runs, [combination |-> Asked(job), pkg |-> pkg', passed |-> passed,
                             flagged |-> \/ Erroneous(Asked(job))
                                         \/ (runs # <<>> /\ Last(runs).flagged)])

(* The verdict is searched in the output or, for one selected combination,   *)
(* in the transcript: one of an earlier call if the simulator did not start. *)
run_modelsim ==
    /\ Job("run") /\ Head(jobs).tool = Simulator
    /\ Applied(Head(jobs))
    /\ \E started, ok \in BOOLEAN :
          LET job == Head(jobs) IN
          /\ transcripts' = IF started THEN [transcripts EXCEPT ![job.name] = ok]
                            ELSE transcripts
          /\ Ended(job, IF job.manual THEN transcripts'[job.name] = TRUE
                        ELSE started /\ ok)
    /\ UNCHANGED <<reports, saved>>

run_synthesis ==
    /\ Job("run") /\ Head(jobs).tool \in Synthesis
    /\ Applied(Head(jobs))
    /\ \E ok \in BOOLEAN :
          /\ reports' = IF ok THEN [reports EXCEPT ![Head(jobs).tool] = Asked(Head(jobs))]
                        ELSE reports
          /\ Ended(Head(jobs), ok)
    /\ UNCHANGED <<transcripts, saved>>

DryRun ==
    /\ Job("dry") /\ Applied(Head(jobs))
    /\ FAIL' = (FAIL \/ Erroneous(Asked(Head(jobs))))
    /\ UNCHANGED <<transcripts, reports, saved, runs>>

(* git clean removes the reports of the previous combination.                *)
CleanResults ==
    /\ Job("clean")
    /\ reports' = [t \in Synthesis |-> None]
    /\ UNCHANGED <<settings, pkg, transcripts, saved, FAIL, exit, opened, runs, calls>>

SaveResults ==
    /\ Job("save")
    /\ saved' = [saved EXCEPT ![Head(jobs).key] = reports]
    /\ UNCHANGED <<settings, pkg, transcripts, reports, FAIL, exit, opened, runs, calls>>

Exit ==
    /\ exit = None /\ jobs = <<>>
    /\ exit' = IF FAIL THEN -1 ELSE 0
    /\ UNCHANGED <<settings, pkg, transcripts, reports, saved, jobs, FAIL, opened, runs, calls>>

Next == Call \/ run_modelsim \/ run_synthesis \/ DryRun \/ CleanResults \/ SaveResults \/ Exit

Spec == Init /\ [][Next]_vars

-----------------------------------------------------------------------------

TypeOK ==
    /\ pkg \in Setting /\ opened \in Setting
    /\ \A k \in DOMAIN transcripts : transcripts[k] \in BOOLEAN \cup {None}
    /\ DOMAIN reports = Synthesis
    /\ FAIL \in BOOLEAN /\ exit \in {0, -1, None}

(* What a combination asks of the source file: the parameters of the default *)
(* setting have the values of the last setting that names them, the others   *)
(* those that they had when the call began.                                  *)
AsAsked(combination, file) ==
    \A p \in Params : opened[p] # None =>
        file[p] = IF settings[Default][p] = None THEN opened[p]
                  ELSE LET naming == {k \in DOMAIN combination :
                                        settings[combination[k]][p] # None}
                       IN  IF naming = {} THEN settings[Default][p]
                           ELSE settings[combination[CHOOSE k \in naming :
                                    \A j \in naming : j <= k]][p]

(* As long as a call has met no error in its settings, every simulation and  *)
(* synthesis ran on the parameters its combination asks for, whatever        *)
(* combinations ran before it on the same source file, the reports saved are *)
(* about that combination, and a call that ends without an error has seen    *)
(* all of them pass.                                                         *)
RunsAsSet ==
    /\ \A k \in 1 .. Len(runs) :
           ~runs[k].flagged => AsAsked(runs[k].combination, runs[k].pkg)
    /\ \A k \in Keys, t \in Synthesis :
           saved[k][t] = None \/ saved[k][t] = Append(CombinationOf[k], t)
    /\ exit = 0 => \A k \in 1 .. Len(runs) : ~runs[k].flagged /\ runs[k].passed

=============================================================================
