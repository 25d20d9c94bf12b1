---------------------------- MODULE MCDbBackup -----------------------------
(***************************************************************************)
(* DbBackup for TLC: GetDatabases returns no database, one, or three (a   *)
(* list long enough that the end test is reached by both Save and Skip    *)
(* after a mix of the two).                                                *)
(***************************************************************************)
EXTENDS DbBackup

CONSTANTS a, b, c

MCDbLists == {<<>>, <<a>>, <<a, b, c>>}

=============================================================================
