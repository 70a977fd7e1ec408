------------------------------ MODULE MCSystem ------------------------------
(* The data of a pipeline is kept thin: what matters here is who moves a    *)
(* Run when.  One path, one capability that needs approval, one criterion.  *)
EXTENDS System, TLC

CONSTANTS src, rule, net, built

MCMatches == [p \in {rule} |-> {src}]
MCScope == [allowed |-> {rule}, forbidden |-> {}, generated |-> {},
            new_files |-> TRUE, max_files |-> NoLimit]
Asks(items) == [items |-> items, access |-> 2]
Draft(items, budget) == [request |-> Asks(items), scope |-> MCScope, max_rework |-> budget]
\* A contract that needs an approval.
MCDrafts == {Draft({net}, 0)}
MCAdditional == {}
MCBase == [p \in {src} |-> "old"]
MCManifests == {MCBase}
MCContent == {"old", "no file"}
MCExecutions == [{built} -> {"expected"}]
Answer(decision, of_built) ==
    [decision |-> decision, criteria |-> [c \in {built} |-> of_built],
     cited |-> {built}, waived |-> {}, objections |-> FALSE]
MCAnswers == {Answer("PASS", "PASS"), Answer("REWORK", "FAIL"), Answer("MANUAL_REVIEW", "PASS")}
MCTurns == {0}

CONSTANTS c1, c2

\* One human runs two commands, another one.
MCCommands == c1 :> 2 @@ c2 :> 1
=============================================================================
