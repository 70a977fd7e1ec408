---------------------------- MODULE AtomicStore ----------------------------
(***************************************************************************)
(* What apply_transition promises its callers, and what its callers may do *)
(* with it: it is one step, it moves a Run along the table, and it only    *)
(* ever replaces a row that its caller has read or was returned.  Versions *)
(* are not mentioned: that comparing them comes to this is for SqliteStore *)
(* (any number of connections) and System (pipelines, commands and scans)  *)
(* to show.  RunLifecycle is what is left of it when nobody asks who knew  *)
(* what.                                                                   *)
(***************************************************************************)
EXTENDS RunLifecycle

CONSTANT Caller  \* whoever reads Runs and moves them

VARIABLE known   \* which rows of which Runs a caller remembers

atomicVars == <<runs, failures, known>>

AtomicInit == Init /\ known = {}

Committed == {<<r, runs[r]>> : r \in {x \in Run : runs[x] # NoRow}}

\* After its step a caller may have seen some of what is committed by now;
\* anything that was remembered may be forgotten, by a death or otherwise.
Learns(c) == known' \subseteq known \union ({c} \X Committed')

get_run(c) == UNCHANGED vars /\ Learns(c)

\* Nobody has to remember a Run that was inserted.
insert_run(r) == Insert(r) /\ (UNCHANGED known \/ \E c \in Caller : Learns(c))

apply_transition(c, r, target) ==
    /\ <<c, <<r, runs[r]>>>> \in known
    /\ Transition(r, target)
    /\ Learns(c)

AtomicNext ==
    \/ \E r \in Run : insert_run(r)
    \/ \E c \in Caller :
        \/ get_run(c)
        \/ \E r \in Run, target \in LifecycleState : apply_transition(c, r, target)

AtomicSpec == AtomicInit /\ [][AtomicNext]_atomicVars
=============================================================================
