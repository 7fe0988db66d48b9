-------------------------------- MODULE Startup -------------------------------
(***************************************************************************)
(* Starting Parsem (cli.py) on a database file that an earlier release, or *)
(* nobody, has written: connect, migrate (store/db.py), and, for a server, *)
(* the welcome document and the session on it.  `parsem serve`,            *)
(* `parsem add <url>` and `parsem rechunk` are processes of their own on   *)
(* the same file, so two of them may be starting at once, and each may be  *)
(* killed anywhere.                                                        *)
(*                                                                         *)
(* A step is one statement, or one commit: executescript runs a script     *)
(* statement by statement, each in a transaction of its own, and the       *)
(* version is recorded after the last.  What a statement creates is not    *)
(* told apart further, and of the rows only those of `documents` are kept. *)
(***************************************************************************)
EXTENDS Integers, Sequences

CONSTANTS
    Processes,   \* processes that share the database
    Servers,     \* those of them that are `parsem serve`
    Earlier,     \* whoever wrote the rows that are there at first
    MaxCrashes   \* bound: how often a process is killed

ASSUME StartupAssumption ==
    /\ Servers \subseteq Processes
    /\ Earlier \notin Processes
    /\ MaxCrashes \in Nat

VARIABLES
    schema,      \* the statements whose tables, columns and indexes exist
    recorded,    \* the versions in schema_version
    library,     \* the rows of documents: what they hold, and who inserted them
    ready,       \* those whose status is 'ready'
    process,     \* each process
    crashes,     \* how often a process was killed
    overlapped   \* history: two processes were starting at once

file == <<schema, recorded>>
rows == <<library, ready>>
vars == <<schema, recorded, library, ready, process, crashes, overlapped>>

-----------------------------------------------------------------------------
(* The scripts *)

Times(n, kind) == [k \in 1 .. n |-> kind]

\* CREATE TABLE, CREATE INDEX and ALTER TABLE ADD COLUMN.
Defines(kind) == kind \in {"create", "alter"}

\* Mutant: every CREATE says IF NOT EXISTS, and every ALTER looks first.
RepeatableStatement(kind) == FALSE

\* They fail on what exists already.
FailsTwice(kind) == Defines(kind)

\* MIGRATIONS, each script as the kinds of its statements.  Of the deletions
\* that end the second, the one from documents is the wipe.
Script ==
    << Times(12, "create"),
       [k \in 1 .. 24 |-> CASE k \in (1 .. 8) \cup {16}  -> "create"
                            [] k \in 9 .. 15           -> "alter"
                            [] k \in (17 .. 22) \cup {24} -> "delete"
                            [] k = 23                  -> "wipe"],
       <<"create", "create", "alter", "alter">>,
       <<"alter", "create">>,
       <<"create", "create">>,
       <<"create">> >>

Latest     == Len(Script)
Statements == {s \in (1 .. Latest) \X (1 .. 24) : s[2] <= Len(Script[s[1]])}
Made(v)    == {s \in Statements : s[1] <= v /\ Defines(Script[s[1]][s[2]])}

Welcome == "welcome"
Row     == {Welcome, "other"} \X (Processes \cup {Earlier})
NoRow   == <<"none", Earlier>>

\* A process: the step it is at, the statement it executes next, and the
\* welcome document it opens.
Off == [step |-> "off", version |-> 1, statement |-> 1, opens |-> NoRow]

\* The database of release v, never started or in use.
Init ==
    \E v \in 0 .. Latest, W \in SUBSET {<<Welcome, Earlier>>, <<"other", Earlier>>} :
        /\ schema = Made(v)
        /\ recorded = 1 .. v
        /\ library = IF v = 0 THEN {} ELSE W
        /\ ready = library
        /\ process = [p \in Processes |-> Off]
        /\ crashes = 0
        /\ overlapped = FALSE

At(p, step)  == process[p].step = step
Starting(p)  == ~At(p, "off") /\ ~At(p, "running")
Version(p)   == process[p].version
Statement(p) == process[p].statement

GoOn(p, step) == process' = [process EXCEPT ![p].step = step]
\* An exception ends the process.
Fail(p) == process' = [process EXCEPT ![p] = Off]

-----------------------------------------------------------------------------
(* migrate *)

Migrated(p) == IF p \in Servers THEN "looking" ELSE "running"

\* Mutant: the version found is not used.
StartAfresh(p) ==
    /\ At(p, "off")
    /\ GoOn(p, "migrating")
    /\ overlapped' = (overlapped \/ \E q \in Processes : Starting(q))
    /\ UNCHANGED <<file, rows, crashes>>

\* connect, and _current_version.
Start(p) ==
    /\ At(p, "off")
    /\ \E current \in 0 .. Latest :
         /\ recorded = 1 .. current
         /\ process' = [process EXCEPT ![p] =
              IF current = Latest THEN [Off EXCEPT !.step = Migrated(p)]
              ELSE [Off EXCEPT !.step = "migrating", !.version = current + 1]]
    /\ overlapped' = (overlapped \/ \E q \in Processes : Starting(q))
    /\ UNCHANGED <<file, rows, crashes>>

\* executescript goes on by one statement.
Execute(p) ==
    /\ At(p, "migrating")
    /\ Statement(p) <= Len(Script[Version(p)])
    /\ LET this == <<Version(p), Statement(p)>>
           kind == Script[Version(p)][Statement(p)]
       IN  IF FailsTwice(kind) /\ this \in schema
             THEN Fail(p) /\ UNCHANGED <<schema, rows>>
             ELSE /\ process' = [process EXCEPT ![p].statement = @ + 1]
                  /\ schema' = IF Defines(kind) THEN schema \cup {this}
                               ELSE schema
                  /\ IF kind = "wipe" THEN library' = {} /\ ready' = {}
                                      ELSE UNCHANGED rows
    /\ UNCHANGED <<recorded, crashes, overlapped>>

\* Mutant: the version is recorded before its script is executed.
RecordFirst(p) ==
    /\ At(p, "migrating")
    /\ IF Version(p) \notin recorded
         THEN recorded' = recorded \cup {Version(p)} /\ UNCHANGED process
         ELSE /\ Statement(p) > Len(Script[Version(p)])
              /\ process' = [process EXCEPT ![p] =
                   IF Version(p) = Latest THEN [Off EXCEPT !.step = Migrated(p)]
                   ELSE [@ EXCEPT !.version = Version(p) + 1, !.statement = 1]]
              /\ UNCHANGED recorded
    /\ UNCHANGED <<schema, rows, crashes, overlapped>>

\* The script is through: its version is inserted and committed.
Record(p) ==
    /\ At(p, "migrating")
    /\ Statement(p) > Len(Script[Version(p)])
    /\ IF Version(p) \in recorded
         THEN Fail(p) /\ UNCHANGED recorded
         ELSE /\ recorded' = recorded \cup {Version(p)}
              /\ process' = [process EXCEPT ![p] =
                   IF Version(p) = Latest THEN [Off EXCEPT !.step = Migrated(p)]
                   ELSE [@ EXCEPT !.version = Version(p) + 1, !.statement = 1]]
    /\ UNCHANGED <<schema, rows, crashes, overlapped>>

-----------------------------------------------------------------------------
(* build_app *)

\* Mutant: the welcome document is looked for among the ready ones.
LookForReady(p) ==
    /\ At(p, "looking")
    /\ \/ \E row \in ready :
            /\ row[1] = Welcome
            /\ process' = [process EXCEPT ![p].step = "opening", ![p].opens = row]
       \/ /\ \A row \in ready : row[1] # Welcome
          /\ GoOn(p, "inserting")
    /\ UNCHANGED <<file, rows, crashes, overlapped>>

\* _ensure_welcome_seeded looks the document up ...
Look(p) ==
    /\ At(p, "looking")
    /\ \/ \E row \in library :
            /\ row[1] = Welcome
            /\ process' = [process EXCEPT ![p].step = "opening", ![p].opens = row]
       \/ /\ \A row \in library : row[1] # Welcome
          /\ GoOn(p, "inserting")
    /\ UNCHANGED <<file, rows, crashes, overlapped>>

\* ... inserts it, still in processing ...
Insert(p) ==
    /\ At(p, "inserting")
    /\ library' = library \cup {<<Welcome, p>>}
    /\ process' = [process EXCEPT ![p].step = "parsing", ![p].opens = <<Welcome, p>>]
    /\ UNCHANGED <<file, ready, crashes, overlapped>>

\* ... and makes it ready, unless a server has deleted it by now.
Parse(p) ==
    /\ At(p, "parsing")
    /\ IF process[p].opens \in library
         THEN ready' = ready \cup {process[p].opens} /\ GoOn(p, "opening")
         ELSE Fail(p) /\ UNCHANGED ready
    /\ UNCHANGED <<file, library, crashes, overlapped>>

\* build_reader_state_for_document, and its assertion.
Open(p) ==
    /\ At(p, "opening")
    /\ IF process[p].opens \in library
         THEN process' = [process EXCEPT ![p] = [Off EXCEPT !.step = "running"]]
         ELSE Fail(p)
    /\ UNCHANGED <<file, rows, crashes, overlapped>>

-----------------------------------------------------------------------------
(* What a started process does to the file, and how it ends *)

\* A document arrives, whichever way.
Store(p) ==
    /\ At(p, "running")
    /\ library' = library \cup {<<"other", p>>}
    /\ ready' = ready \cup {<<"other", p>>}
    /\ UNCHANGED <<file, process, crashes, overlapped>>

\* The delete button.
Delete(p, row) ==
    /\ At(p, "running") /\ p \in Servers
    /\ library' = library \ {row}
    /\ ready' = ready \ {row}
    /\ UNCHANGED <<file, process, crashes, overlapped>>

Stop(p) ==
    /\ At(p, "running")
    /\ Fail(p)
    /\ UNCHANGED <<file, rows, crashes, overlapped>>

\* The process is killed while it starts.
Crash(p) ==
    /\ Starting(p)
    /\ crashes < MaxCrashes
    /\ crashes' = crashes + 1
    /\ Fail(p)
    /\ UNCHANGED <<file, rows, overlapped>>

-----------------------------------------------------------------------------
Step(p) ==
    \/ Execute(p) \/ Record(p)
    \/ Look(p) \/ Insert(p) \/ Parse(p) \/ Open(p)

Next ==
    \E p \in Processes :
        \/ Start(p) \/ Step(p)
        \/ Store(p) \/ (\E row \in library : Delete(p, row)) \/ Stop(p)
        \/ Crash(p)

\* A process that starts goes on, and whoever wants to read starts one again.
Fairness ==
    /\ \A p \in Processes : WF_vars(Step(p))
    /\ WF_vars(\E p \in Processes : Start(p))

Spec == Init /\ [][Next]_vars /\ Fairness

-----------------------------------------------------------------------------
(* Properties *)

\* A recorded version is one whose whole script has run (migrate records it
\* last), and a process that got past migrate stands on the newest schema.
SchemaIsComplete ==
    /\ \A v \in recorded : Made(v) \subseteq schema
    /\ \A p \in Processes :
          ~At(p, "off") /\ ~At(p, "migrating") => recorded = 1 .. Latest

\* Every variable keeps its type, the versions are recorded without a gap, and
\* each recorded one is complete.
TypeOK ==
    /\ schema \subseteq Statements
    /\ recorded \in {1 .. v : v \in 0 .. Latest}
    /\ library \subseteq Row
    /\ ready \subseteq library
    /\ process \in [Processes -> [step : {"off", "migrating", "looking", "inserting",
                                          "parsing", "opening", "running"},
                                  version : 1 .. Latest, statement : 1 .. 25,
                                  opens : Row \cup {NoRow}]]
    /\ crashes \in 0 .. MaxCrashes
    /\ overlapped \in BOOLEAN
    /\ SchemaIsComplete

\* The wipe that ends the second script takes the rows of a version 1 database
\* and never a row of a later one: not in a process that starts while another
\* has migrated and is in use, and not in one that starts again after a crash.
NothingStoredIsWiped ==
    [][ \A row \in library \ library' :
          \/ \E p \in Processes : Delete(p, row)
          \/ row[2] = Earlier /\ recorded = {1} ]_vars

\* However often the server is started, killed and started again, and also when
\* the document was deleted in between, there is one welcome document at most,
\* and without a kill it is ready whenever a server runs on it: it takes two
\* starts at once to seed it twice (original_path is not unique).
WelcomeIsSeededOnce ==
    ~overlapped =>
        \A r, s \in library : r[1] = Welcome /\ s[1] = Welcome =>
            /\ r = s
            /\ (crashes = 0 /\ \A p \in Processes : ~Starting(p)) => r \in ready

\* Processes that start at once may fail each other's scripts, but one of them
\* always gets on: unless one is killed inside a script, the database reaches
\* the newest schema.
UpgradesFinish == <>(crashes > 0 \/ recorded = 1 .. Latest)

-----------------------------------------------------------------------------
(* What the repository says and the code does not do.  No run has these:  *)
(* README.md tells what each needs, and what TLC finds, with startup.cfg. *)

\* original_path is the idempotency key of the welcome document
\* (_ensure_welcome_seeded): no two have it, even when servers start at once.
WelcomeIsUnique ==
    \A r, s \in library : r[1] = Welcome /\ s[1] = Welcome => r = s

===============================================================================
