---------------------------- MODULE DbBackupSpec ----------------------------
(***************************************************************************)
(* What the database backup promises its caller, without the iterator or  *)
(* the zip stream: once started on a list of databases it hands them out  *)
(* one at a time, in order, each exactly once, and it is done exactly when *)
(* none is left (at once for an empty list).  DbBackup refines it.         *)
(***************************************************************************)
EXTENDS Sequences

CONSTANT DbLists

VARIABLES
    phase,     \* "created", "inProgress" or "done"
    todo,      \* the databases not yet handed out, in order
    handled    \* the databases handed out, in order

absVars == <<phase, todo, handled>>

Init ==
    /\ phase = "created"
    /\ todo = <<>>
    /\ handled = <<>>

Start(dbs) ==
    /\ phase = "created"
    /\ todo' = dbs
    /\ phase' = IF dbs = <<>> THEN "done" ELSE "inProgress"
    /\ UNCHANGED handled

\* Saving or skipping the current database: either way it is handed out.
Step ==
    /\ phase = "inProgress"
    /\ handled' = Append(handled, Head(todo))
    /\ todo' = Tail(todo)
    /\ phase' = IF Tail(todo) = <<>> THEN "done" ELSE "inProgress"

Next == (\E dbs \in DbLists : Start(dbs)) \/ Step

Spec == Init /\ [][Next]_absVars

=============================================================================
