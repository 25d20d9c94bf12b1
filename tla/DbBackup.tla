------------------------------ MODULE DbBackup ------------------------------
(***************************************************************************)
(* The database backup of the emulator (src/cloudpilot/emulator/          *)
(* DbBackup.cpp).  Init enumerates the databases and opens a zip stream;   *)
(* the caller then loops while IsInProgress, and for the current database *)
(* either Save (export it into a new zip entry) or Skip; GetArchive copies *)
(* the zip stream into a buffer the first time it is called and returns   *)
(* that buffer ever after.                                                 *)
(*                                                                         *)
(* The caller (the web front end, not in the repository) is any sequence   *)
(* of calls that keeps the EmAsserts of the code: Init only in created,    *)
(* Save and Skip only while in progress.  A database is a model value; a   *)
(* zip entry is the database it was opened for and whether the export     *)
(* succeeded.                                                              *)
(***************************************************************************)
EXTENDS Naturals, Sequences

CONSTANTS
    DbLists,      \* database lists GetDatabases may return
    MaxInits      \* bound on the calls of Init

States == {"created", "inProgress", "done"}

VARIABLES
    state,        \* DbBackup::state
    databases,    \* the vector GetDatabases filled
    currentDb,    \* the iterator, as an index into databases (Len + 1 is end)
    entries,      \* the zip stream: <<database, export succeeded>> per entry
    archive,      \* the entries of the buffer GetArchive copied
    copied,       \* whether archive is non-null
    visited,      \* ghost: the databases Save or Skip moved past, in order
    inits         \* ghost: calls of Init so far

vars == <<state, databases, currentDb, entries, archive, copied, visited, inits>>

DbEnd == Len(databases) + 1

IsInProgress == state = "inProgress"

IsDone == state = "done"

\* The database Save exports; its EmAsserts are the guard of Save and Skip.
GetCurrentDatabase == databases[currentDb]

Init ==
    /\ state = "created"
    /\ databases = <<>>
    /\ currentDb = 1
    /\ entries = <<>>
    /\ archive = <<>>
    /\ copied = FALSE
    /\ visited = <<>>
    /\ inits = 0

\* Init(includeRomDatabases) when GetDatabases fails: return false, and
\* the backup stays in created.
InitFailed ==
    /\ state = "created"
    /\ inits < MaxInits
    /\ inits' = inits + 1
    /\ UNCHANGED <<state, databases, currentDb, entries, archive, copied, visited>>

\* Mutant: the state is inProgress even for an empty list.
InitStartAlways(dbs) ==
    /\ state = "created"
    /\ inits < MaxInits
    /\ databases' = dbs
    /\ currentDb' = 1
    /\ state' = "inProgress"
    /\ inits' = inits + 1
    /\ UNCHANGED <<entries, archive, copied, visited>>

\* Init(includeRomDatabases) when GetDatabases succeeds: start at the first
\* database, done at once if there is none; the zip stream is opened.
InitBackup(dbs) ==
    /\ state = "created"
    /\ inits < MaxInits
    /\ databases' = dbs
    /\ currentDb' = 1
    /\ state' = IF dbs = <<>> THEN "done" ELSE "inProgress"
    /\ inits' = inits + 1
    /\ UNCHANGED <<entries, archive, copied, visited>>

\* Mutant: the iterator is incremented twice.
AdvanceTwice ==
    /\ currentDb' = currentDb + 2
    /\ state' = IF currentDb + 2 = DbEnd THEN "done" ELSE state
    /\ visited' = Append(visited, GetCurrentDatabase)

\* Mutant: the end test is off by one and ends a database early.
AdvanceEarlyDone ==
    /\ currentDb' = currentDb + 1
    /\ state' = IF currentDb + 2 = DbEnd THEN "done" ELSE state
    /\ visited' = Append(visited, GetCurrentDatabase)

\* currentDb++; if (currentDb == databases.end()) state = State::done;
Advance ==
    /\ currentDb' = currentDb + 1
    /\ state' = IF currentDb + 1 = DbEnd THEN "done" ELSE state
    /\ visited' = Append(visited, GetCurrentDatabase)

\* Save: the entry is opened, the export runs (and may fail), the entry is
\* closed either way, then the iterator advances; the result is returned.
Save(success) ==
    /\ IsInProgress
    /\ entries' = Append(entries, <<GetCurrentDatabase, success>>)
    /\ Advance
    /\ UNCHANGED <<databases, archive, copied, inits>>

Skip ==
    /\ IsInProgress
    /\ Advance
    /\ UNCHANGED <<databases, entries, archive, copied, inits>>

\* GetArchive: the zip stream is copied only while archive is null.
GetArchive ==
    /\ state # "created"
    /\ ~copied
    /\ archive' = entries
    /\ copied' = TRUE
    /\ UNCHANGED <<state, databases, currentDb, entries, visited, inits>>

Next ==
    \/ InitFailed
    \/ \E dbs \in DbLists : InitBackup(dbs)
    \/ \E ok \in BOOLEAN : Save(ok)
    \/ Skip
    \/ GetArchive

\* The caller may stop calling at any point, once it has an archive.
Spec == Init /\ [][Next]_vars

-----------------------------------------------------------------------------
TypeOK ==
    /\ state \in States
    /\ currentDb \in 1 .. DbEnd
    /\ copied \in BOOLEAN /\ inits \in 0 .. MaxInits

\* The caller's loop is safe: whenever IsInProgress reports true the
\* iterator is at a database, so GetCurrentDatabase and Save never
\* dereference databases.end() (the EmAsserts of GetCurrentDatabase, Save
\* and Skip), and when the backup is done every database was saved or
\* skipped exactly once, in the order GetDatabases returned them.
IteratorValid ==
    /\ IsInProgress => currentDb \in 1 .. Len(databases)
    /\ IsDone => visited = databases


\* The abstract backup, seen through the iterator: the databases still to
\* come are those from currentDb to the end of the list.
Abs == INSTANCE DbBackupSpec
           WITH phase <- state,
                todo <- SubSeq(databases, currentDb, Len(databases)),
                handled <- visited

\* DbBackup implements the abstract backup: Init starts on the list
\* GetDatabases returned (done at once if it is empty), every Save or Skip
\* hands out the next database in order, and the backup is done exactly
\* when the iterator reaches databases.end(); failed Inits and GetArchive
\* change nothing the caller's loop sees (Init, Save, Skip, the end tests).
Refinement == Abs!Spec

=============================================================================
