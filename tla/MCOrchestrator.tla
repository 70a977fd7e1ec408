--------------------------- MODULE MCOrchestrator ---------------------------
(* One pipeline.  One path is in scope and one is not; one capability needs *)
(* no approval, one does, one is outside the ceiling, one is hard-denied    *)
(* though the ceiling names it; one mandatory criterion is checked by a     *)
(* command, one optional criterion is not.                                  *)
EXTENDS Orchestrator

CONSTANTS src, other,        \* paths
          rule,              \* the pattern that matches src
          cmd, net, forbidden, meta,
          built, style       \* criteria

MCMatches == [p \in {rule} |-> {src}]
MCScope == [allowed |-> {rule}, forbidden |-> {}, generated |-> {},
            new_files |-> TRUE, max_files |-> NoLimit]
Asks(items) == [items |-> items, access |-> 2]
MCDrafts ==
    [request : {Asks({cmd}), Asks({cmd, net}), Asks({forbidden}), Asks({meta})},
     scope : {MCScope}, max_rework : {0, 2}]
MCAdditional == {Asks({net}), Asks({forbidden}), Asks({meta})}
MCManifests == {[p \in {src, other} |-> "old"],
                [p \in {src, other} |-> IF p = src THEN "new" ELSE "old"],
                [p \in {src, other} |-> "new"]}
MCBase == [p \in {src, other} |-> "old"]
MCContent == {"old", "new", "no file"}
MCExecutions == [{built} -> {"expected", "other_exit"}]

Answer(decision, of_built, of_style, cited) ==
    [decision |-> decision,
     criteria |-> [c \in {built, style} |-> IF c = built THEN of_built ELSE of_style],
     cited |-> cited, waived |-> {}, objections |-> FALSE]
MCAnswers ==
    {Answer("PASS", "PASS", "PASS", {built, style}),
     Answer("PASS", "PASS", "PASS", {style}),
     Answer("PASS", "FAIL", "PASS", {style}),
     Answer("REWORK", "FAIL", "PASS", {}),
     Answer("REWORK", "PASS", "FAIL", {}),
     Answer("REWORK", "PASS", "PASS", {built, style}),
     Answer("PASS", "WAIVED", "PASS", {style}),
     Answer("REJECT", "FAIL", "PASS", {})}
\* An invocation may report no turns: then only the rework budget ends the loop.
MCTurns == {0, 4}
=============================================================================
