---------------------------- MODULE MCAdminConsole ----------------------------
(* TLC's instance of AdminConsole: two stored configurations that miss some *)
(* of their switches. They differ in a list, which one of them has padded   *)
(* with blanks, and so does the form that is typed or comes from a file.    *)
EXTENDS AdminConsole, TLC

Sample == [prompt |-> [prefix |-> "text", blocks |-> [list |-> "list", padded |-> FALSE]],
           number |-> 1, persist |-> "absent",
           snapshots |-> "off", responses |-> "absent", force |-> "absent",
           readOnly |-> FALSE, writer |-> TRUE]

Padded == [Sample EXCEPT !.prompt.blocks.padded = TRUE]

SampleStored == {Sample, Padded}

SampleStrategies == {Padded.prompt}

SampleTyped == {BuildForm(Padded)}

TaskSymmetry == Permutations(Tasks)
===============================================================================
