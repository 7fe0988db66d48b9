---------------------------- MODULE Startup_proofs ----------------------------
(***************************************************************************)
(* Theorems about starting on an older database, for any number of         *)
(* processes, servers and kills.                                           *)
(***************************************************************************)
EXTENDS Startup, SequenceTheorems, TLAPS

-----------------------------------------------------------------------------
(* The inductive invariant *)

\* What a process that migrates has behind it: the versions before its own, and
\* the statements of its own that it has executed.  Once it has executed one,
\* nobody else can record its version.
Progress(p) ==
    /\ 1 .. Version(p) - 1 \subseteq recorded
    /\ Statement(p) <= Len(Script[Version(p)]) + 1
    /\ \A s \in 1 .. Statement(p) - 1 :
          Defines(Script[Version(p)][s]) => <<Version(p), s>> \in schema
    /\ Statement(p) > 1 => Version(p) \notin recorded

Migrating == \A p \in Processes : At(p, "migrating") => Progress(p)

\* The first statement of a script admits one process, ever.
Exclusive ==
    \A p, q \in Processes :
        /\ At(p, "migrating") /\ At(q, "migrating")
        /\ Version(p) = Version(q)
        /\ Statement(p) > 1 /\ Statement(q) > 1
        => p = q

\* Until the schema is the newest, nobody has stored anything.
Inherited == recorded # 1 .. Latest => \A row \in library : row[2] = Earlier

MigrationInv == TypeOK /\ Migrating /\ Exclusive /\ Inherited

\* Until two processes start at once there is one welcome document at most, it
\* is not inserted beside another, and whoever inserted it makes it ready.
Seeded ==
    ~overlapped =>
        /\ \A p, q \in Processes : Starting(p) /\ Starting(q) => p = q
        /\ \A r, s \in library : r[1] = Welcome /\ s[1] = Welcome => r = s
        /\ \A p \in Processes : At(p, "inserting") =>
              \A r \in library : r[1] # Welcome
        /\ crashes = 0 =>
              \A r \in library \ ready : r[1] = Welcome =>
                  \E p \in Processes : At(p, "parsing") /\ process[p].opens = r

-----------------------------------------------------------------------------
(* The scripts *)

Kinds == {"create", "alter", "delete", "wipe"}

\* How many statements a script has that is given as a function.
LEMMA ScriptLength ==
    ASSUME NEW n \in Nat, NEW script \in [1 .. n -> Kinds]
    PROVE  Len(script) = n
  <1>1. script \in Seq(Kinds) /\ DOMAIN script = 1 .. n
    OBVIOUS
  <1> QED
    BY <1>1, LenProperties

LEMMA SecondScript ==
    /\ Len(Script[2]) = 24 /\ Script[2][1] = "create"
    /\ \A i \in 1 .. 24 : Script[2][i] = "wipe" => i = 23
  <1>1. Script[2] \in [1 .. 24 -> Kinds]
    BY DEF Script, Kinds
  <1>2. Script[2][1] = "create" /\ \A i \in 1 .. 24 : Script[2][i] = "wipe" => i = 23
    BY DEF Script
  <1> QED
    BY <1>1, <1>2, ScriptLength

\* All scripts: how long they are, that each starts by making something, and
\* that nothing but the next to last statement of the second wipes.
LEMMA ScriptProperties ==
    /\ Latest = 6
    /\ \A v \in 1 .. 6 :
          /\ Len(Script[v]) \in 1 .. 24
          /\ Defines(Script[v][1])
          /\ \A i \in 1 .. Len(Script[v]) : Script[v][i] = "wipe" => v = 2 /\ i = 23
  <1>1. /\ Latest = 6 /\ Script[1] = Times(12, "create")
        /\ Script[3] = <<"create", "create", "alter", "alter">>
        /\ Script[4] = <<"alter", "create">> /\ Script[5] = <<"create", "create">>
        /\ Script[6] = <<"create">>
    BY DEF Script, Latest
  <1>2. Len(Script[1]) = 12 /\ \A i \in 1 .. 12 : Script[1][i] = "create"
    BY <1>1 DEF Times
  <1>4. Len(Script[3]) = 4 /\ \A i \in 1 .. 4 : Script[3][i] \in {"create", "alter"}
    BY <1>1
  <1>5. Len(Script[4]) = 2 /\ \A i \in 1 .. 2 : Script[4][i] \in {"create", "alter"}
    BY <1>1
  <1>6. Len(Script[5]) = 2 /\ \A i \in 1 .. 2 : Script[5][i] \in {"create", "alter"}
    BY <1>1
  <1>7. Len(Script[6]) = 1 /\ \A i \in 1 .. 1 : Script[6][i] \in {"create", "alter"}
    BY <1>1
  <1>8. ASSUME NEW v \in 1 .. 6
        PROVE  /\ Len(Script[v]) \in 1 .. 24
               /\ Defines(Script[v][1])
               /\ \A i \in 1 .. Len(Script[v]) : Script[v][i] = "wipe" => v = 2 /\ i = 23
    <2>1. v = 1 \/ v = 2 \/ v = 3 \/ v = 4 \/ v = 5 \/ v = 6
      OBVIOUS
    <2>2. CASE v = 1
      <3>1. Len(Script[v]) = 12 /\ Script[v][1] = "create"
        BY <1>2, <2>2
      <3>2. \A i \in 1 .. 12 : Script[v][i] # "wipe"
        BY <1>2, <2>2
      <3>3. \A i \in 1 .. Len(Script[v]) : Script[v][i] # "wipe"
        BY <3>1, <3>2, Zenon
      <3>4. 12 \in 1 .. 24
        OBVIOUS
      <3> QED
        BY <3>1, <3>3, <3>4, Zenon DEF Defines
    <2>3. CASE v = 2
      <3>1. Len(Script[v]) = 24 /\ Script[v][1] = "create"
        BY SecondScript, <2>3
      <3>2. \A i \in 1 .. 24 : Script[v][i] = "wipe" => i = 23
        BY SecondScript, <2>3
      <3>3. \A i \in 1 .. Len(Script[v]) : Script[v][i] = "wipe" => i = 23
        BY <3>1, <3>2, Zenon
      <3>4. 24 \in 1 .. 24
        OBVIOUS
      <3> QED
        BY <2>3, <3>1, <3>3, <3>4, Zenon DEF Defines
    <2>4. CASE v = 3
      BY <1>4, <2>4 DEF Defines
    <2>5. CASE v = 4
      BY <1>5, <2>5 DEF Defines
    <2>6. CASE v = 5
      BY <1>6, <2>6 DEF Defines
    <2>7. CASE v = 6
      BY <1>7, <2>7 DEF Defines
    <2> QED
      BY <2>1, <2>2, <2>3, <2>4, <2>5, <2>6, <2>7
  <1> QED
    BY <1>1, <1>8

-----------------------------------------------------------------------------
(* Migration *)

ProcessStates == [step : {"off", "migrating", "looking", "inserting", "parsing",
                          "opening", "running"},
                  version : 1 .. Latest, statement : 1 .. 25,
                  opens : Row \cup {NoRow}]

\* Only process p changes.
OnlyProcess(p) == \A q \in Processes \ {p} : process'[q] = process[q]

LEMMA OneProcess ==
    ASSUME TypeOK, NEW p \in Processes, NEW r \in ProcessStates,
           process' = [process EXCEPT ![p] = r]
    PROVE  /\ process' \in [Processes -> ProcessStates]
           /\ process'[p] = r
           /\ OnlyProcess(p)
  BY DEF TypeOK, ProcessStates, OnlyProcess

LEMMA OffTyped == /\ Off \in ProcessStates /\ Off.step = "off"
                  /\ Off.version = 1 /\ Off.statement = 1
  BY ScriptProperties DEF Off, ProcessStates

\* A step of a process that is not inside a script, or is thrown out of one.
LEMMA OutsideScripts ==
    ASSUME MigrationInv, NEW p \in Processes, OnlyProcess(p),
           process' \in [Processes -> ProcessStates], UNCHANGED file,
           process'[p].step # "migrating",
           \/ process'[p].step = "off"
           \/ process[p].step \notin {"off", "migrating"}
           \/ recorded = 1 .. Latest,
           recorded = 1 .. Latest \/ library' \subseteq library,
           library' \subseteq Row, ready' \subseteq library',
           crashes' \in 0 .. MaxCrashes, overlapped' \in BOOLEAN
    PROVE  MigrationInv'
  <1>1. schema' = schema /\ recorded' = recorded
    BY DEF file
  <1>2. SchemaIsComplete'
    BY <1>1 DEF SchemaIsComplete, MigrationInv, TypeOK, At, OnlyProcess
  <1>3. TypeOK'
    BY <1>1, <1>2 DEF MigrationInv, TypeOK, ProcessStates
  <1>4. Migrating'
    BY <1>1 DEF Migrating, Progress, At, Version, Statement, OnlyProcess, MigrationInv
  <1>5. Exclusive'
    BY DEF Exclusive, At, Version, Statement, OnlyProcess, MigrationInv
  <1>6. Inherited'
    BY <1>1 DEF Inherited, MigrationInv
  <1> QED
    BY <1>3, <1>4, <1>5, <1>6 DEF MigrationInv

LEMMA StartMigrates ==
    ASSUME MigrationInv, NEW p \in Processes, Start(p)
    PROVE  MigrationInv'
  <1>1. PICK current \in 0 .. Latest :
          /\ recorded = 1 .. current
          /\ process' = [process EXCEPT ![p] =
               IF current = Latest THEN [Off EXCEPT !.step = Migrated(p)]
               ELSE [Off EXCEPT !.step = "migrating", !.version = current + 1]]
    BY DEF Start
  <1>2. TypeOK /\ Latest \in Nat /\ current \in Nat
    BY ScriptProperties DEF MigrationInv
  <1>3. UNCHANGED <<file, rows, crashes>> /\ overlapped' \in BOOLEAN
    BY DEF Start, MigrationInv, TypeOK, Starting, At
  <1>4. CASE current = Latest
    <2> DEFINE r == [Off EXCEPT !.step = Migrated(p)]
    <2>1. r \in ProcessStates /\ r.step # "migrating"
      BY OffTyped DEF ProcessStates, Migrated
    <2>2. process' = [process EXCEPT ![p] = r]
      BY <1>1, <1>4
    <2> HIDE DEF r
    <2> QED
      BY <1>1, <1>2, <1>3, <1>4, <2>1, <2>2, OneProcess, OutsideScripts
         DEF MigrationInv, TypeOK, rows
  <1>5. CASE current # Latest
    <2> DEFINE r == [Off EXCEPT !.step = "migrating", !.version = current + 1]
    <2>1. current + 1 \in 1 .. Latest
      BY <1>1, <1>2, <1>5
    <2>2. /\ r \in ProcessStates /\ r.step = "migrating" /\ r.version = current + 1
          /\ r.statement = 1
      BY <2>1, OffTyped DEF ProcessStates
    <2>3. process' = [process EXCEPT ![p] = r]
      BY <1>1, <1>5
    <2> HIDE DEF r
    <2>4. process' \in [Processes -> ProcessStates] /\ process'[p] = r /\ OnlyProcess(p)
      BY <1>2, <2>2, <2>3, OneProcess
    <2>5. UNCHANGED <<schema, recorded, library, ready>>
      BY <1>3 DEF file, rows
    <2>6. SchemaIsComplete'
      BY <2>2, <2>4, <2>5 DEF SchemaIsComplete, MigrationInv, TypeOK, At, OnlyProcess
    <2>7. TypeOK'
      BY <1>3, <2>4, <2>5, <2>6 DEF MigrationInv, TypeOK, ProcessStates
    <2>8. Progress(p)'
      <3>1. Version(p)' = current + 1 /\ Statement(p)' = 1
        BY <2>2, <2>4 DEF Version, Statement
      <3>2. 1 .. (current + 1) - 1 \subseteq recorded /\ ~(1 > 1) /\ 1 .. 1 - 1 = {}
        BY <1>1, <1>2
      <3>3. 1 <= Len(Script[current + 1]) + 1
        BY <2>1, ScriptProperties
      <3> QED
        BY <2>5, <3>1, <3>2, <3>3 DEF Progress
    <2>9. Migrating'
      BY <2>4, <2>5, <2>8
         DEF Migrating, Progress, At, Version, Statement, OnlyProcess, MigrationInv
    <2>10. Exclusive'
      BY <2>2, <2>4 DEF Exclusive, At, Version, Statement, OnlyProcess, MigrationInv
    <2>11. Inherited'
      BY <2>5 DEF Inherited, MigrationInv
    <2> QED
      BY <2>7, <2>9, <2>10, <2>11 DEF MigrationInv
  <1> QED
    BY <1>4, <1>5

LEMMA InScript ==
    ASSUME NEW v \in 1 .. Latest, NEW i \in 1 .. 24, i <= Len(Script[v])
    PROVE  <<v, i>> \in Statements
  BY DEF Statements

\* The statement that a migrating process executes next, and what is so of it.
LEMMA NextStatement ==
    ASSUME MigrationInv, NEW p \in Processes, At(p, "migrating"),
           Statement(p) <= Len(Script[Version(p)])
    PROVE  /\ Version(p) \in 1 .. 6 /\ Statement(p) \in 1 .. Len(Script[Version(p)])
           /\ Statement(p) \in 1 .. 24
           /\ <<Version(p), Statement(p)>> \in Statements
  <1>1. process[p] \in ProcessStates
    BY DEF MigrationInv, TypeOK, ProcessStates
  <1>2. Version(p) \in 1 .. 6 /\ Statement(p) \in 1 .. 25
    BY <1>1, ScriptProperties DEF ProcessStates, Version, Statement
  <1>3. Len(Script[Version(p)]) \in 1 .. 24
    BY <1>2, ScriptProperties
  <1> DEFINE v == Version(p)
             i == Statement(p)
             n == Len(Script[v])
  <1>4. v \in 1 .. 6 /\ i \in 1 .. 25 /\ n \in 1 .. 24 /\ i <= n
    BY <1>2, <1>3
  <1> HIDE DEF v, i, n
  <1>5. i \in 1 .. n /\ i \in 1 .. 24 /\ v \in 1 .. Latest
    BY <1>4, ScriptProperties
  <1>6. <<v, i>> \in Statements
    <2>1. i <= Len(Script[v])
      BY <1>4 DEF n
    <2> QED
      BY <1>5, <2>1, InScript
  <1> QED
    BY <1>2, <1>5, <1>6 DEF v, i, n

\* Whoever has executed a statement of a script has executed its first.
LEMMA FirstStatementRan ==
    ASSUME MigrationInv, NEW p \in Processes, At(p, "migrating"), Statement(p) > 1
    PROVE  <<Version(p), 1>> \in schema
  <1>1. process[p] \in ProcessStates /\ Progress(p)
    BY DEF MigrationInv, TypeOK, ProcessStates, Migrating
  <1>2. Version(p) \in 1 .. 6 /\ Statement(p) \in 1 .. 25
    BY <1>1, ScriptProperties DEF ProcessStates, Version, Statement
  <1>3. 1 \in 1 .. Statement(p) - 1
    BY <1>2
  <1>4. Defines(Script[Version(p)][1])
    BY <1>2, ScriptProperties
  <1> QED
    BY <1>1, <1>3, <1>4 DEF Progress

LEMMA ExecuteMigrates ==
    ASSUME MigrationInv, NEW p \in Processes, Execute(p)
    PROVE  MigrationInv'
  <1> DEFINE v == Version(p)
             i == Statement(p)
             kind == Script[v][i]
  <1>1. TypeOK /\ At(p, "migrating") /\ Progress(p) /\ i <= Len(Script[v])
    BY DEF MigrationInv, Migrating, Execute
  <1>2. /\ v \in 1 .. 6 /\ i \in 1 .. Len(Script[v]) /\ i \in 1 .. 24
        /\ <<v, i>> \in Statements
    BY <1>1, NextStatement
  <1>3. UNCHANGED <<recorded, crashes, overlapped>>
    BY DEF Execute
  <1>4. CASE FailsTwice(kind) /\ <<v, i>> \in schema
    <2>1. process' = [process EXCEPT ![p] = Off] /\ UNCHANGED <<schema, rows>>
      BY <1>4 DEF Execute, Fail
    <2> QED
      BY <1>1, <1>3, <2>1, OffTyped, OneProcess, OutsideScripts
         DEF MigrationInv, TypeOK, rows, file
  <1>5. CASE ~(FailsTwice(kind) /\ <<v, i>> \in schema)
    <2> DEFINE r == [process[p] EXCEPT !.statement = i + 1]
    <2>1. /\ process' = [process EXCEPT ![p].statement = @ + 1]
          /\ schema' = IF Defines(kind) THEN schema \cup {<<v, i>>} ELSE schema
          /\ IF kind = "wipe" THEN library' = {} /\ ready' = {} ELSE UNCHANGED rows
      BY <1>5 DEF Execute
    <2>2. process[p] \in ProcessStates
      BY <1>1 DEF TypeOK, ProcessStates
    <2>3. process' = [process EXCEPT ![p] = r]
      BY <1>1, <2>1 DEF TypeOK, Statement
    <2>4. /\ r \in ProcessStates /\ r.step = "migrating" /\ r.version = v
          /\ r.statement = i + 1
      <3>1. i + 1 \in 1 .. 25
        <4>1. i \in 1 .. 24
          BY <1>2
        <4> QED
          BY <4>1
      <3> QED
        BY <1>1, <2>2, <3>1 DEF ProcessStates, At, Version
    <2> HIDE DEF r
    <2>5. process' \in [Processes -> ProcessStates] /\ process'[p] = r /\ OnlyProcess(p)
      BY <1>1, <2>3, <2>4, OneProcess
    <2>6. schema \subseteq schema' /\ (Defines(kind) => <<v, i>> \in schema')
      BY <2>1
    <2>7. library' \subseteq library /\ library' \subseteq Row /\ ready' \subseteq library'
      BY <1>1, <2>1 DEF rows, TypeOK
    <2>8. SchemaIsComplete'
      <3>1. SchemaIsComplete
        BY <1>1 DEF TypeOK
      <3>2. \A w \in recorded' : Made(w) \subseteq schema'
        BY <1>3, <2>6, <3>1 DEF SchemaIsComplete
      <3>3. \A q \in Processes : process'[q].step = process[q].step
        BY <1>1, <2>4, <2>5 DEF OnlyProcess, At
      <3> QED
        BY <1>3, <3>1, <3>2, <3>3 DEF SchemaIsComplete, At
    <2>9. TypeOK'
      <3>1. schema' \subseteq Statements
        BY <1>1, <1>2, <2>1 DEF TypeOK
      <3> QED
        BY <1>1, <1>3, <2>5, <2>7, <2>8, <3>1 DEF TypeOK, ProcessStates
    <2>10. i = 1 => <<v, 1>> \notin schema /\ v \notin recorded
      <3> SUFFICES ASSUME i = 1 PROVE <<v, 1>> \notin schema /\ v \notin recorded
        OBVIOUS
      <3>1. Defines(Script[v][1])
        BY <1>2, ScriptProperties
      <3>2. <<v, 1>> \notin schema
        BY <1>5, <3>1 DEF FailsTwice
      <3>3. v \in recorded => <<v, 1>> \in Made(v)
        BY <1>2, <3>1 DEF Made
      <3> QED
        BY <1>1, <3>2, <3>3 DEF TypeOK, SchemaIsComplete
    <2>11. v \notin recorded
      BY <1>1, <1>2, <2>10 DEF Progress
    <2>12. Version(p)' = v /\ Statement(p)' = i + 1
      BY <2>4, <2>5 DEF Version, Statement
    <2>13. Progress(p)'
      <3>1. i + 1 <= Len(Script[v]) + 1
        BY <1>2, ScriptProperties
      <3>2. ASSUME NEW s \in 1 .. (i + 1) - 1, Defines(Script[v][s])
            PROVE  <<v, s>> \in schema'
        <4>1. s = i \/ s \in 1 .. i - 1
          BY <1>2
        <4> QED
          BY <1>1, <2>6, <3>2, <4>1 DEF Progress
      <3>3. 1 .. v - 1 \subseteq recorded'
        BY <1>1, <1>3 DEF Progress
      <3> QED
        BY <1>3, <2>11, <2>12, <3>1, <3>2, <3>3 DEF Progress
    <2>14. Migrating'
      BY <1>3, <2>5, <2>6, <2>13
         DEF Migrating, Progress, At, Version, Statement, OnlyProcess, MigrationInv
    <2>15. Exclusive'
      <3>1. ASSUME NEW q \in Processes \ {p}, At(q, "migrating"), Version(q) = v,
                   Statement(q) > 1
            PROVE  FALSE
        <4>1. <<v, 1>> \in schema
          BY <3>1, FirstStatementRan
        <4>2. i > 1
          BY <1>2, <2>10, <4>1
        <4> QED
          BY <1>1, <3>1, <4>2 DEF MigrationInv, Exclusive
      <3>2. \A q \in Processes \ {p} : process'[q] = process[q]
        BY <2>5 DEF OnlyProcess
      <3> QED
        BY <2>12, <3>1, <3>2 DEF Exclusive, At, Version, Statement, MigrationInv
    <2>16. Inherited'
      BY <1>3, <2>7 DEF Inherited, MigrationInv
    <2> QED
      BY <2>9, <2>14, <2>15, <2>16 DEF MigrationInv
  <1> QED
    BY <1>4, <1>5

\* The recorded versions and the one that follows them.
LEMMA NextVersion ==
    ASSUME NEW c \in Nat, NEW v \in Nat, v > 0,
           1 .. v - 1 \subseteq 1 .. c, v \notin 1 .. c
    PROVE  (1 .. c) \cup {v} = 1 .. v
  <1>1. c = v - 1
    <2>1. c < v
      OBVIOUS
    <2>2. v - 1 = 0 \/ v - 1 \in 1 .. v - 1
      OBVIOUS
    <2>3. v - 1 = 0 \/ v - 1 \in 1 .. c
      BY <2>2
    <2> QED
      BY <2>1, <2>3
  <1> QED
    BY <1>1

\* The statements of the versions up to v are those of v and those of the
\* versions before.
LEMMA MadeSplit ==
    ASSUME NEW v \in Nat, NEW s \in Made(v)
    PROVE  \/ s[1] = v
           \/ s[1] \in 1 .. v - 1 /\ s \in Made(s[1])
  <1>1. s \in Statements /\ s[1] \in 1 .. Latest /\ s[1] <= v
        /\ Defines(Script[s[1]][s[2]])
    BY DEF Made, Statements
  <1>2. Latest \in Nat
    BY ScriptProperties
  <1>3. s[1] = v \/ s[1] \in 1 .. v - 1
    BY <1>1, <1>2
  <1>4. s[1] <= s[1]
    BY <1>1, <1>2
  <1> QED
    BY <1>1, <1>3, <1>4 DEF Made

LEMMA RecordMigrates ==
    ASSUME MigrationInv, NEW p \in Processes, Record(p)
    PROVE  MigrationInv'
  <1> DEFINE v == Version(p)
             i == Statement(p)
  <1>1. TypeOK /\ At(p, "migrating") /\ Progress(p)
    BY DEF MigrationInv, Migrating, Record
  <1>2. process[p] \in ProcessStates
    BY <1>1 DEF TypeOK, ProcessStates
  <1>3. v \in 1 .. 6 /\ i \in 1 .. 25
    BY <1>2, ScriptProperties DEF ProcessStates, Version, Statement
  <1>4. UNCHANGED <<schema, library, ready, crashes, overlapped>>
    BY DEF Record, rows
  <1>5. CASE v \in recorded
    <2>1. process' = [process EXCEPT ![p] = Off] /\ UNCHANGED recorded
      BY <1>5 DEF Record, Fail
    <2> QED
      BY <1>1, <1>4, <2>1, OffTyped, OneProcess, OutsideScripts
         DEF MigrationInv, TypeOK, file
  <1>6. CASE v \notin recorded
    <2>1. /\ recorded' = recorded \cup {v}
          /\ process' = [process EXCEPT ![p] =
               IF v = Latest THEN [Off EXCEPT !.step = Migrated(p)]
               ELSE [process[p] EXCEPT !.version = v + 1, !.statement = 1]]
      BY <1>1, <1>6 DEF Record, Version, TypeOK
    <2> DEFINE n == Len(Script[v])
    <2>2. i > n
      BY DEF Record
    <2>3. n \in 1 .. 24
      BY <1>3, ScriptProperties
    <2> HIDE DEF n
    <2>4. i > 1 /\ \A j \in 1 .. n : j \in 1 .. i - 1
      BY <1>3, <2>2, <2>3
    <2>5. recorded' = 1 .. v
      <3>1. PICK c \in 0 .. Latest : recorded = 1 .. c
        BY <1>1 DEF TypeOK
      <3>2. c \in Nat /\ v \in Nat /\ v > 0
        BY <1>3
      <3>3. 1 .. v - 1 \subseteq 1 .. c /\ v \notin 1 .. c
        BY <1>1, <1>6, <3>1 DEF Progress
      <3> QED
        BY <2>1, <3>1, <3>2, <3>3, NextVersion
    <2>6. recorded # 1 .. Latest
      BY <1>3, <1>6, ScriptProperties
    <2>7. \A w \in recorded' : Made(w) \subseteq schema'
      <3> SUFFICES ASSUME NEW w \in recorded', NEW s \in Made(w) PROVE s \in schema
        BY <1>4
      <3>1. CASE w \in recorded
        BY <1>1, <3>1 DEF TypeOK, SchemaIsComplete
      <3>2. CASE w = v
        <4>1. CASE s[1] = v
          <5>1. /\ s \in Statements /\ Defines(Script[v][s[2]])
                /\ s = <<v, s[2]>> /\ s[2] \in 1 .. 24 /\ s[2] <= Len(Script[v])
            BY <3>2, <4>1 DEF Made, Statements
          <5>2. s[2] \in 1 .. n
            <6>1. s[2] \in 1 .. 24 /\ s[2] <= n
              BY <5>1 DEF n
            <6> QED
              BY <2>3, <6>1
          <5> QED
            BY <1>1, <2>4, <5>1, <5>2 DEF Progress
        <4>2. CASE s[1] \in 1 .. v - 1 /\ s \in Made(s[1])
          BY <1>1, <4>2 DEF Progress, TypeOK, SchemaIsComplete
        <4>3. v \in Nat
          BY <1>3
        <4> QED
          BY <3>2, <4>1, <4>2, <4>3, MadeSplit
      <3> QED
        BY <2>1, <3>1, <3>2
    <2> DEFINE r == IF v = Latest THEN [Off EXCEPT !.step = Migrated(p)]
                    ELSE [process[p] EXCEPT !.version = v + 1, !.statement = 1]
    <2>8. /\ r \in ProcessStates
          /\ v = Latest => r.step # "migrating"
          /\ v # Latest => /\ r.step = "migrating" /\ r.version = v + 1
                           /\ r.statement = 1
      <3>1. v # Latest => v + 1 \in 1 .. Latest
        BY <1>3, ScriptProperties
      <3>2. [Off EXCEPT !.step = Migrated(p)] \in ProcessStates
            /\ [Off EXCEPT !.step = Migrated(p)].step # "migrating"
        BY OffTyped DEF ProcessStates, Migrated
      <3>3. CASE v = Latest
        BY <3>2, <3>3
      <3>4. CASE v # Latest
        <4>1. r = [process[p] EXCEPT !.version = v + 1, !.statement = 1]
          BY <3>4
        <4>2. process[p].step = "migrating"
          BY <1>1 DEF At
        <4>3. v + 1 \in 1 .. Latest
          BY <3>1, <3>4
        <4> HIDE DEF r, v
        <4>4. /\ r \in ProcessStates /\ r.step = process[p].step
              /\ r.version = v + 1 /\ r.statement = 1
          <5>1. 1 \in 1 .. 25
            OBVIOUS
          <5>2. process[p] \in ProcessStates
            BY <1>2
          <5>3. r = [process[p] EXCEPT !.version = v + 1, !.statement = 1]
            BY <4>1
          <5> DEFINE u == v + 1
                     j == 1
                     x == process[p]
                     Vs == 1 .. Latest
                     Js == 1 .. 25
                     Os == Row \cup {NoRow}
          <5>4. /\ x \in ProcessStates /\ u \in Vs /\ j \in Js
                /\ r = [x EXCEPT !.version = u, !.statement = j]
            BY <4>3, <5>1, <5>2, <5>3
          <5>5. ProcessStates = [step : {"off", "migrating", "looking", "inserting",
                                         "parsing", "opening", "running"},
                                 version : Vs, statement : Js, opens : Os]
            BY DEF ProcessStates
          <5> HIDE DEF u, j, x, Vs, Js, Os
          <5>6. /\ r \in ProcessStates /\ r.step = x.step /\ r.version = u
                /\ r.statement = j
            BY <5>4, <5>5
          <5> QED
            BY <5>6 DEF u, j, x
        <4> QED
          BY <3>4, <4>2, <4>4
      <3> QED
        BY <3>3, <3>4
    <2>9. process' = [process EXCEPT ![p] = r]
      BY <2>1
    <2> HIDE DEF r
    <2>10. process' \in [Processes -> ProcessStates] /\ process'[p] = r /\ OnlyProcess(p)
      BY <1>1, <2>8, <2>9, OneProcess
    <2>11. SchemaIsComplete'
      <3>1. \A q \in Processes : process[q].step \in {"off", "migrating"}
        BY <1>1, <2>6 DEF TypeOK, SchemaIsComplete, At
      <3>2. v = Latest => recorded' = 1 .. Latest
        BY <2>5
      <3> QED
        BY <2>7, <2>8, <2>10, <3>1, <3>2 DEF SchemaIsComplete, At, OnlyProcess
    <2>12. TypeOK'
      <3>1. v \in 0 .. Latest
        BY <1>3, ScriptProperties
      <3> QED
        BY <1>1, <1>4, <2>5, <2>10, <2>11, <3>1 DEF TypeOK, ProcessStates
    <2>13. ASSUME NEW q \in Processes \ {p}, At(q, "migrating"), Statement(q) > 1
           PROVE  Version(q) \notin recorded'
      <3>1. Version(q) \notin recorded
        BY <2>13 DEF MigrationInv, Migrating, Progress
      <3>2. Version(q) # v
        BY <1>1, <2>4, <2>13 DEF MigrationInv, Exclusive
      <3> QED
        BY <2>1, <3>1, <3>2
    <2>14. v # Latest => Progress(p)'
      <3> SUFFICES ASSUME v # Latest PROVE Progress(p)'
        OBVIOUS
      <3>1. Version(p)' = v + 1 /\ Statement(p)' = 1
        BY <2>8, <2>10 DEF Version, Statement
      <3>2. v + 1 \in 1 .. 6 /\ (v + 1) - 1 = v /\ ~(1 > 1) /\ 1 .. 1 - 1 = {}
        BY <1>3, ScriptProperties
      <3>3. Len(Script[v + 1]) \in 1 .. 24
        BY <3>2, ScriptProperties
      <3>4. 1 <= Len(Script[v + 1]) + 1
        BY <3>3
      <3> QED
        BY <2>5, <3>1, <3>2, <3>4 DEF Progress
    <2>15. Migrating'
      <3>1. ASSUME NEW q \in Processes \ {p}, At(q, "migrating") PROVE Progress(q)'
        <4>1. process'[q] = process[q] /\ Progress(q)
          BY <2>10, <3>1 DEF OnlyProcess, MigrationInv, Migrating
        <4>2. recorded \subseteq recorded' /\ schema' = schema
          BY <1>4, <2>1
        <4>3. Statement(q) > 1 => Version(q) \notin recorded'
          BY <2>13, <3>1
        <4> QED
          BY <4>1, <4>2, <4>3 DEF Progress, Version, Statement
      <3>2. At(p, "migrating")' => v # Latest
        BY <2>8, <2>10 DEF At
      <3> QED
        BY <2>10, <2>14, <3>1, <3>2 DEF Migrating, At, OnlyProcess
    <2>16. Exclusive'
      <3>1. ~(At(p, "migrating")' /\ Statement(p)' > 1)
        BY <2>8, <2>10 DEF At, Statement
      <3> QED
        BY <2>10, <3>1 DEF Exclusive, At, Version, Statement, OnlyProcess, MigrationInv
    <2>17. Inherited'
      BY <1>4, <2>6 DEF Inherited, MigrationInv
    <2> QED
      BY <2>12, <2>15, <2>16, <2>17 DEF MigrationInv
  <1> QED
    BY <1>5, <1>6

-----------------------------------------------------------------------------
(* The other steps *)

LEMMA LookMigrates ==
    ASSUME MigrationInv, NEW p \in Processes, Look(p)
    PROVE  MigrationInv'
  <1>1. TypeOK /\ process[p] \in ProcessStates /\ process[p].step = "looking"
    BY DEF MigrationInv, TypeOK, ProcessStates, Look, At
  <1>2. PICK r \in ProcessStates :
          process' = [process EXCEPT ![p] = r] /\ r.step \in {"opening", "inserting"}
    <2>1. CASE GoOn(p, "inserting")
      <3>1. [process[p] EXCEPT !.step = "inserting"] \in ProcessStates
        BY <1>1 DEF ProcessStates
      <3> QED
        BY <1>1, <2>1, <3>1 DEF GoOn, TypeOK, ProcessStates
    <2>2. ASSUME NEW row \in library,
                 process' = [process EXCEPT ![p].step = "opening", ![p].opens = row]
          PROVE  \E r \in ProcessStates :
                    /\ process' = [process EXCEPT ![p] = r]
                    /\ r.step \in {"opening", "inserting"}
      <3> DEFINE r == [process[p] EXCEPT !.step = "opening", !.opens = row]
      <3>1. row \in Row
        BY <1>1 DEF TypeOK
      <3>2. r \in ProcessStates /\ r.step = "opening"
        BY <1>1, <3>1 DEF ProcessStates
      <3>3. process' = [process EXCEPT ![p] = r]
        BY <1>1, <2>2 DEF TypeOK
      <3> QED
        BY <3>2, <3>3
    <2> QED
      BY <2>1, <2>2 DEF Look
  <1>3. UNCHANGED <<file, rows, crashes, overlapped>>
    BY DEF Look
  <1> QED
    BY <1>1, <1>2, <1>3, OneProcess, OutsideScripts DEF MigrationInv, TypeOK, rows

LEMMA InsertMigrates ==
    ASSUME MigrationInv, NEW p \in Processes, Insert(p)
    PROVE  MigrationInv'
  <1> DEFINE row == <<Welcome, p>>
             r == [process[p] EXCEPT !.step = "parsing", !.opens = row]
  <1>1. TypeOK /\ process[p] \in ProcessStates /\ process[p].step = "inserting"
    BY DEF MigrationInv, TypeOK, ProcessStates, Insert, At
  <1>2. row \in Row
    BY DEF Row
  <1>3. r \in ProcessStates /\ r.step = "parsing"
    BY <1>1, <1>2 DEF ProcessStates
  <1>4. process' = [process EXCEPT ![p] = r]
    BY <1>1 DEF Insert, TypeOK
  <1>5. UNCHANGED <<file, ready, crashes, overlapped>> /\ library' = library \cup {row}
    BY DEF Insert
  <1>6. recorded = 1 .. Latest
    BY <1>1 DEF TypeOK, SchemaIsComplete, At
  <1> HIDE DEF row, r
  <1> QED
    BY <1>1, <1>2, <1>3, <1>4, <1>5, <1>6, OneProcess, OutsideScripts
       DEF MigrationInv, TypeOK

LEMMA ParseMigrates ==
    ASSUME MigrationInv, NEW p \in Processes, Parse(p)
    PROVE  MigrationInv'
  <1> DEFINE r == [process[p] EXCEPT !.step = "opening"]
  <1>1. TypeOK /\ process[p] \in ProcessStates /\ process[p].step = "parsing"
    BY DEF MigrationInv, TypeOK, ProcessStates, Parse, At
  <1>2. r \in ProcessStates /\ r.step = "opening"
    BY <1>1 DEF ProcessStates
  <1>3. \/ process' = [process EXCEPT ![p] = r]
        \/ process' = [process EXCEPT ![p] = Off]
    BY <1>1 DEF Parse, GoOn, Fail, TypeOK
  <1>4. UNCHANGED <<file, library, crashes, overlapped>> /\ ready' \subseteq library
    BY <1>1 DEF Parse, TypeOK
  <1> HIDE DEF r
  <1>5. PICK x \in ProcessStates :
          process' = [process EXCEPT ![p] = x] /\ x.step \in {"opening", "off"}
    BY <1>2, <1>3, OffTyped
  <1> QED
    BY <1>1, <1>4, <1>5, OneProcess, OutsideScripts DEF MigrationInv, TypeOK

LEMMA OpenMigrates ==
    ASSUME MigrationInv, NEW p \in Processes, Open(p)
    PROVE  MigrationInv'
  <1> DEFINE r == [Off EXCEPT !.step = "running"]
  <1>1. TypeOK /\ process[p] \in ProcessStates /\ process[p].step = "opening"
    BY DEF MigrationInv, TypeOK, ProcessStates, Open, At
  <1>2. r \in ProcessStates /\ r.step = "running"
    BY OffTyped DEF ProcessStates
  <1>3. \/ process' = [process EXCEPT ![p] = r]
        \/ process' = [process EXCEPT ![p] = Off]
    BY DEF Open, Fail
  <1> HIDE DEF r
  <1>4. PICK x \in ProcessStates :
          process' = [process EXCEPT ![p] = x] /\ x.step \in {"running", "off"}
    BY <1>2, <1>3, OffTyped
  <1>5. UNCHANGED <<file, rows, crashes, overlapped>>
    BY DEF Open
  <1> QED
    BY <1>1, <1>4, <1>5, OneProcess, OutsideScripts DEF MigrationInv, TypeOK, rows

\* A process that is in use.
LEMMA RunningMigrates ==
    ASSUME MigrationInv, NEW p \in Processes,
           Store(p) \/ (\E row \in library : Delete(p, row)) \/ Stop(p)
    PROVE  MigrationInv'
  <1>1. TypeOK /\ process[p] \in ProcessStates /\ process[p].step = "running"
    BY DEF MigrationInv, TypeOK, ProcessStates, Store, Delete, Stop, At
  <1>2. recorded = 1 .. Latest
    BY <1>1 DEF TypeOK, SchemaIsComplete, At
  <1>3. CASE Store(p)
    <2>1. <<"other", p>> \in Row
      BY DEF Row
    <2>2. /\ library' \subseteq Row /\ ready' \subseteq library'
          /\ UNCHANGED <<file, process, crashes, overlapped>>
      BY <1>1, <1>3, <2>1 DEF Store, TypeOK
    <2> QED
      BY <1>1, <1>2, <2>2, OutsideScripts DEF MigrationInv, TypeOK, OnlyProcess, ProcessStates
  <1>4. CASE \E row \in library : Delete(p, row)
    <2>1. /\ library' \subseteq library /\ ready' \subseteq library'
          /\ UNCHANGED <<file, process, crashes, overlapped>>
      BY <1>1, <1>4 DEF Delete, TypeOK
    <2> QED
      BY <1>1, <1>2, <2>1, OutsideScripts DEF MigrationInv, TypeOK, OnlyProcess, ProcessStates
  <1>5. CASE Stop(p)
    BY <1>1, <1>5, OffTyped, OneProcess, OutsideScripts
       DEF MigrationInv, TypeOK, Stop, Fail, rows
  <1> QED
    BY <1>3, <1>4, <1>5

LEMMA CrashMigrates ==
    ASSUME MigrationInv, NEW p \in Processes, Crash(p)
    PROVE  MigrationInv'
  <1>1. /\ process' = [process EXCEPT ![p] = Off]
        /\ UNCHANGED <<file, rows, overlapped>>
    BY DEF Crash, Fail
  <1>2. crashes' \in 0 .. MaxCrashes
    BY StartupAssumption DEF MigrationInv, TypeOK, Crash
  <1> QED
    BY <1>1, <1>2, OffTyped, OneProcess, OutsideScripts DEF MigrationInv, TypeOK, rows

LEMMA InitMigrates == Init => MigrationInv
  <1> SUFFICES ASSUME Init PROVE MigrationInv
    OBVIOUS
  <1>1. PICK v \in 0 .. Latest, W \in SUBSET {<<Welcome, Earlier>>, <<"other", Earlier>>} :
          /\ schema = Made(v)
          /\ recorded = 1 .. v
          /\ library = IF v = 0 THEN {} ELSE W
    BY DEF Init
  <1>2. /\ ready = library /\ crashes = 0 /\ overlapped = FALSE
        /\ process = [p \in Processes |-> Off]
    BY DEF Init
  <1>3. \A p \in Processes : process[p] = Off
    BY <1>2
  <1>4. library \subseteq Row /\ \A row \in library : row[2] = Earlier
    BY <1>1 DEF Row
  <1>5. process \in [Processes -> ProcessStates]
    BY <1>2, OffTyped
  <1>6. SchemaIsComplete
    <2>1. ASSUME NEW w \in 1 .. v, NEW s \in Made(w) PROVE s \in Made(v)
      <3>1. s \in Statements /\ s[1] \in 1 .. Latest /\ s[1] <= w
            /\ Defines(Script[s[1]][s[2]])
        BY <2>1 DEF Made, Statements
      <3>2. s[1] <= v
        BY <3>1, ScriptProperties
      <3> QED
        BY <3>1, <3>2 DEF Made
    <2> QED
      BY <1>1, <1>3, <2>1, OffTyped DEF SchemaIsComplete, At
  <1>7. TypeOK
    <2>1. schema \subseteq Statements
      BY <1>1 DEF Made
    <2>2. 0 \in 0 .. MaxCrashes
      BY StartupAssumption
    <2>3. recorded \in {1 .. u : u \in 0 .. Latest}
      BY <1>1
    <2> QED
      BY <1>2, <1>4, <1>5, <1>6, <2>1, <2>2, <2>3 DEF TypeOK, ProcessStates
  <1>8. \A p \in Processes : ~At(p, "migrating")
    BY <1>3, OffTyped DEF At
  <1> QED
    BY <1>4, <1>7, <1>8 DEF MigrationInv, Migrating, Exclusive, Inherited

LEMMA NextMigrates == MigrationInv /\ [Next]_vars => MigrationInv'
  <1> SUFFICES ASSUME MigrationInv, [Next]_vars PROVE MigrationInv'
    OBVIOUS
  <1>1. CASE UNCHANGED vars
    BY <1>1 DEF vars, MigrationInv, TypeOK, SchemaIsComplete, Migrating, Progress,
                Exclusive, Inherited, At, Version, Statement
  <1>2. ASSUME NEW p \in Processes, Start(p) PROVE MigrationInv'
    BY <1>2, StartMigrates
  <1>3. ASSUME NEW p \in Processes, Step(p) PROVE MigrationInv'
    BY <1>3, ExecuteMigrates, RecordMigrates, LookMigrates, InsertMigrates,
       ParseMigrates, OpenMigrates DEF Step
  <1>4. ASSUME NEW p \in Processes,
               Store(p) \/ (\E row \in library : Delete(p, row)) \/ Stop(p)
        PROVE  MigrationInv'
    BY <1>4, RunningMigrates
  <1>5. ASSUME NEW p \in Processes, Crash(p) PROVE MigrationInv'
    BY <1>5, CrashMigrates
  <1> QED
    BY <1>1, <1>2, <1>3, <1>4, <1>5 DEF Next

LEMMA Migrates == Spec => []MigrationInv
  BY InitMigrates, NextMigrates, PTL DEF Spec

\* Type correctness, and that a recorded version is one whose script has run to
\* its end (migrate in db.py, for any number of processes and kills).
THEOREM SchemasAreComplete == Spec => []TypeOK
  <1>1. MigrationInv => TypeOK
    BY DEF MigrationInv
  <1> QED
    BY <1>1, Migrates, PTL

-----------------------------------------------------------------------------
(* The wipe *)

\* The statement that wipes is executed on a version 1 database only.
LEMMA OnlyVersionOneIsWiped ==
    ASSUME MigrationInv, NEW p \in Processes, Execute(p), library' # library
    PROVE  recorded = {1} /\ \A row \in library : row[2] = Earlier
  <1> DEFINE v == Version(p)
             i == Statement(p)
  <1>1. TypeOK /\ At(p, "migrating") /\ Progress(p) /\ i <= Len(Script[v])
    BY DEF MigrationInv, Migrating, Execute
  <1>2. v \in 1 .. 6 /\ i \in 1 .. Len(Script[v])
    BY <1>1, NextStatement
  <1>3. Script[v][i] = "wipe"
    BY DEF Execute, rows
  <1>4. v = 2 /\ i = 23
    BY <1>2, <1>3, ScriptProperties
  <1>5. 1 \in recorded /\ 2 \notin recorded
    <2>1. 1 .. v - 1 \subseteq recorded /\ (i > 1 => v \notin recorded)
      BY <1>1 DEF Progress
    <2> HIDE DEF v, i
    <2> QED
      BY <1>4, <2>1
  <1>6. PICK c \in 0 .. Latest : recorded = 1 .. c
    BY <1>1 DEF TypeOK
  <1>7. c = 1 /\ Latest = 6
    BY <1>5, <1>6, ScriptProperties
  <1>8. recorded = {1} /\ recorded # 1 .. Latest
    BY <1>6, <1>7
  <1> QED
    BY <1>8 DEF MigrationInv, Inherited

\* The wipe that ends the second script never takes a row that a later release
\* has stored (MIGRATIONS in db.py), however many processes start on the file.
THEOREM LaterRowsAreNeverWiped == Spec => NothingStoredIsWiped
  <1> DEFINE Spared == \A row \in library \ library' :
                          \/ \E p \in Processes : Delete(p, row)
                          \/ row[2] = Earlier /\ recorded = {1}
  <1>1. MigrationInv /\ [Next]_vars => [Spared]_vars
    <2> SUFFICES ASSUME MigrationInv, Next PROVE Spared
      OBVIOUS
    <2>1. ASSUME NEW p \in Processes, Execute(p) PROVE Spared
      BY <2>1, OnlyVersionOneIsWiped
    <2>2. ASSUME NEW p \in Processes, NEW row \in library, Delete(p, row) PROVE Spared
      BY <2>2 DEF Delete
    <2>3. ASSUME NEW p \in Processes,
                 \/ Start(p) \/ Record(p) \/ Look(p) \/ Insert(p) \/ Parse(p)
                 \/ Open(p) \/ Store(p) \/ Stop(p) \/ Crash(p)
          PROVE  library \subseteq library'
      BY <2>3 DEF Start, Record, Look, Insert, Parse, Open, Store, Stop, Crash, rows
    <2> QED
      BY <2>1, <2>2, <2>3 DEF Next, Step
  <1> QED
    BY <1>1, Migrates, PTL DEF Spec, NothingStoredIsWiped

-----------------------------------------------------------------------------
(* The welcome document *)

\* A step of p that neither inserts a welcome document nor makes one ready.
LEMMA SeededOtherwise ==
    ASSUME Seeded, NEW p \in Processes, OnlyProcess(p),
           ~overlapped' => /\ ~overlapped
                           /\ Starting(p)' => Starting(p) \/ \A q \in Processes : ~Starting(q),
           \A r \in library' : r[1] = Welcome => r \in library /\ (r \notin ready' => r \notin ready),
           ~At(p, "inserting")',
           crashes' = 0 => crashes = 0 /\ ~At(p, "parsing")
    PROVE  Seeded'
  <1> SUFFICES ASSUME ~overlapped' PROVE Seeded'
    BY DEF Seeded
  <1>1. ~overlapped /\ (Starting(p)' => Starting(p) \/ \A q \in Processes : ~Starting(q))
    OBVIOUS
  <1>2. \A q \in Processes \ {p} : process'[q] = process[q]
    BY DEF OnlyProcess
  <1>3. \A q \in Processes \ {p} : Starting(q)' => Starting(q)
    BY <1>2 DEF Starting, At
  <1>4. \A q, u \in Processes : Starting(q)' /\ Starting(u)' => q = u
    BY <1>1, <1>3 DEF Seeded
  <1>5. \A r, s \in library' : r[1] = Welcome /\ s[1] = Welcome => r = s
    BY <1>1 DEF Seeded
  <1>6. \A q \in Processes : At(q, "inserting")' => \A r \in library' : r[1] # Welcome
    BY <1>1, <1>2 DEF Seeded, At
  <1>7. ASSUME crashes' = 0, NEW r \in library' \ ready', r[1] = Welcome
        PROVE  \E q \in Processes : At(q, "parsing")' /\ process'[q].opens = r
    <2>1. PICK q \in Processes : At(q, "parsing") /\ process[q].opens = r
      BY <1>1, <1>7 DEF Seeded
    <2>2. process'[q] = process[q]
      BY <1>2, <1>7, <2>1
    <2> QED
      BY <2>1, <2>2 DEF At
  <1> QED
    BY <1>4, <1>5, <1>6, <1>7 DEF Seeded

LEMMA StepsSeed ==
    ASSUME MigrationInv, Seeded, NEW p \in Processes, Step(p)
    PROVE  Seeded'
  <1>1. TypeOK /\ process[p] \in ProcessStates
    BY DEF MigrationInv, TypeOK, ProcessStates
  <1>2. UNCHANGED <<crashes, overlapped>> /\ Starting(p)
    BY DEF Step, Execute, Record, Look, Insert, Parse, Open, At, Starting
  <1>3. CASE Execute(p)
    <2>1. PICK r \in {Off, [process[p] EXCEPT !.statement = @ + 1]} :
            process' = [process EXCEPT ![p] = r]
      BY <1>1, <1>3 DEF Execute, Fail, TypeOK
    <2>2. process[p].step = "migrating" /\ r.step \in {"off", "migrating"}
      BY <1>1, <1>3, <2>1, OffTyped DEF Execute, At, ProcessStates
    <2>3. process'[p].step \in {"off", "migrating"} /\ OnlyProcess(p)
      BY <1>1, <2>1, <2>2 DEF TypeOK, OnlyProcess
    <2>4. library' = {} \/ UNCHANGED rows
      BY <1>3 DEF Execute
    <2> QED
      BY <1>2, <2>2, <2>3, <2>4, SeededOtherwise DEF rows, At
  <1>4. CASE Record(p)
    <2>1. PICK r \in {Off, [Off EXCEPT !.step = Migrated(p)],
                      [process[p] EXCEPT !.version = Version(p) + 1, !.statement = 1]} :
            process' = [process EXCEPT ![p] = r]
      BY <1>1, <1>4 DEF Record, Fail, TypeOK
    <2>2. /\ process[p].step = "migrating"
          /\ r.step \in {"off", "migrating", "looking", "running"}
      BY <1>1, <1>4, <2>1, OffTyped DEF Record, At, ProcessStates, Migrated
    <2>3. process'[p].step \in {"off", "migrating", "looking", "running"} /\ OnlyProcess(p)
      BY <1>1, <2>1, <2>2 DEF TypeOK, OnlyProcess
    <2>4. UNCHANGED rows
      BY <1>4 DEF Record
    <2> QED
      BY <1>2, <2>2, <2>3, <2>4, SeededOtherwise DEF rows, At
  <1>5. CASE Look(p)
    <2>1. process[p].step = "looking" /\ UNCHANGED rows
      BY <1>5 DEF Look, At
    <2>2. CASE \E row \in library :
                 process' = [process EXCEPT ![p].step = "opening", ![p].opens = row]
      <3>1. process'[p].step = "opening" /\ OnlyProcess(p)
        BY <1>1, <2>2 DEF TypeOK, OnlyProcess, ProcessStates
      <3> QED
        BY <1>2, <2>1, <3>1, SeededOtherwise DEF rows, At
    <2>3. CASE GoOn(p, "inserting") /\ \A row \in library : row[1] # Welcome
      <3>1. process'[p].step = "inserting" /\ OnlyProcess(p)
        BY <1>1, <2>3 DEF GoOn, TypeOK, OnlyProcess, ProcessStates
      <3>2. \A q \in Processes : Starting(q)' => Starting(q)
        BY <1>2, <3>1 DEF OnlyProcess, Starting, At
      <3>3. library' = library /\ ready' = ready
        BY <2>1 DEF rows
      <3>4. ~overlapped' => \A q, u \in Processes : Starting(q)' /\ Starting(u)' => q = u
        BY <1>2, <3>2 DEF Seeded
      <3> QED
        BY <2>3, <3>3, <3>4 DEF Seeded
    <2> QED
      BY <1>5, <2>2, <2>3 DEF Look
  <1>6. CASE Insert(p)
    <2> DEFINE row == <<Welcome, p>>
    <2>1. /\ process[p].step = "inserting" /\ library' = library \cup {row}
          /\ ready' = ready
      BY <1>6 DEF Insert, At
    <2>2. /\ process'[p].step = "parsing" /\ process'[p].opens = row
          /\ OnlyProcess(p)
      BY <1>1, <1>6 DEF Insert, TypeOK, OnlyProcess, ProcessStates
    <2> HIDE DEF row
    <2> SUFFICES ASSUME ~overlapped' PROVE Seeded'
      BY DEF Seeded
    <2>3. \A r \in library : r[1] # Welcome
      BY <1>2, <2>1 DEF Seeded, At
    <2>4. \A q \in Processes : Starting(q)' => Starting(q)
      BY <1>2, <2>2 DEF OnlyProcess, Starting, At
    <2>5. \A q \in Processes : ~At(q, "inserting")'
      <3>1. ASSUME NEW q \in Processes \ {p}, At(q, "inserting") PROVE FALSE
        BY <1>2, <3>1 DEF Seeded, Starting, At
      <3> QED
        BY <2>2, <3>1 DEF OnlyProcess, At
    <2>6. \A r \in library' : r[1] = Welcome => r = row
      BY <2>1, <2>3
    <2>7. At(p, "parsing")'
      BY <2>2 DEF At
    <2>8. \A q, u \in Processes : Starting(q)' /\ Starting(u)' => q = u
      BY <1>2, <2>4 DEF Seeded
    <2> QED
      BY <2>2, <2>5, <2>6, <2>7, <2>8 DEF Seeded
  <1>7. CASE Parse(p)
    <2>1. process[p].step = "parsing" /\ library' = library
      BY <1>7 DEF Parse, At
    <2>2. process'[p].step \in {"opening", "off"} /\ OnlyProcess(p)
      BY <1>1, <1>7, OffTyped DEF Parse, GoOn, Fail, TypeOK, OnlyProcess, ProcessStates
    <2>3. ready \subseteq ready' /\ (process[p].opens \in library => process[p].opens \in ready')
      BY <1>7 DEF Parse
    <2> SUFFICES ASSUME ~overlapped' PROVE Seeded'
      BY DEF Seeded
    <2>4. \A q \in Processes : Starting(q)' => Starting(q)
      BY <1>2, <2>2 DEF OnlyProcess, Starting, At
    <2>5. \A q \in Processes : At(q, "inserting")' => At(q, "inserting")
      BY <2>2 DEF OnlyProcess, At
    <2>6. ASSUME crashes' = 0, NEW r \in library' \ ready', r[1] = Welcome PROVE FALSE
      <3>1. r \in library \ ready /\ crashes = 0 /\ ~overlapped
        BY <1>2, <2>1, <2>3, <2>6
      <3>2. PICK q \in Processes : At(q, "parsing") /\ process[q].opens = r
        BY <2>6, <3>1 DEF Seeded
      <3>3. q = p
        BY <1>2, <3>1, <3>2 DEF Seeded, Starting, At
      <3> QED
        BY <2>3, <2>6, <3>1, <3>2, <3>3
    <2>7. \A q, u \in Processes : Starting(q)' /\ Starting(u)' => q = u
      BY <1>2, <2>4 DEF Seeded
    <2> QED
      BY <1>2, <2>1, <2>5, <2>6, <2>7 DEF Seeded
  <1>8. CASE Open(p)
    <2>1. process[p].step = "opening" /\ UNCHANGED rows
      BY <1>8 DEF Open, At
    <2>2. process'[p].step \in {"running", "off"} /\ OnlyProcess(p)
      BY <1>1, <1>8, OffTyped DEF Open, Fail, TypeOK, OnlyProcess, ProcessStates
    <2> QED
      BY <1>2, <2>1, <2>2, SeededOtherwise DEF rows, At
  <1> QED
    BY <1>3, <1>4, <1>5, <1>6, <1>7, <1>8 DEF Step

LEMMA NextSeeds == MigrationInv /\ Seeded /\ [Next]_vars => Seeded'
  <1> SUFFICES ASSUME MigrationInv, Seeded, [Next]_vars PROVE Seeded'
    OBVIOUS
  <1>1. CASE UNCHANGED vars
    BY <1>1 DEF vars, Seeded, Starting, At
  <1>2. ASSUME NEW p \in Processes, Start(p) PROVE Seeded'
    <2>1. TypeOK /\ process[p].step = "off"
      BY <1>2 DEF MigrationInv, Start, At
    <2>2. PICK current \in 0 .. Latest :
            process' = [process EXCEPT ![p] =
              IF current = Latest THEN [Off EXCEPT !.step = Migrated(p)]
              ELSE [Off EXCEPT !.step = "migrating", !.version = current + 1]]
      BY <1>2 DEF Start
    <2>3. OnlyProcess(p) /\ process'[p].step # "inserting"
      BY <2>1, <2>2 DEF TypeOK, OnlyProcess, Off, Migrated
    <2>4. UNCHANGED <<rows, crashes>>
      BY <1>2 DEF Start
    <2>5. ~overlapped' => ~overlapped /\ \A q \in Processes : ~Starting(q)
      BY <1>2 DEF Start
    <2> QED
      BY <2>1, <2>3, <2>4, <2>5, SeededOtherwise DEF rows, At
  <1>3. ASSUME NEW p \in Processes, Step(p) PROVE Seeded'
    BY <1>3, StepsSeed
  <1>4. ASSUME NEW p \in Processes, Store(p) \/ \E row \in library : Delete(p, row)
        PROVE  Seeded'
    <2>1. /\ At(p, "running") /\ UNCHANGED <<process, crashes, overlapped>>
          /\ \A r \in library' : r[1] = Welcome =>
                r \in library /\ (r \notin ready' => r \notin ready)
      BY <1>4 DEF Store, Delete, Welcome
    <2> QED
      BY <2>1, SeededOtherwise DEF At, OnlyProcess, Starting
  <1>5. ASSUME NEW p \in Processes, Stop(p) \/ Crash(p) PROVE Seeded'
    <2>1. /\ process' = [process EXCEPT ![p] = Off]
          /\ UNCHANGED <<rows, overlapped>>
          /\ crashes' = 0 => crashes = 0 /\ ~At(p, "parsing")
      BY <1>5 DEF Stop, Crash, Fail, MigrationInv, TypeOK, At
    <2>2. OnlyProcess(p) /\ process'[p].step = "off"
      BY <2>1, OffTyped DEF MigrationInv, TypeOK, OnlyProcess
    <2> QED
      BY <2>1, <2>2, SeededOtherwise DEF rows, At, Starting
  <1> QED
    BY <1>1, <1>2, <1>3, <1>4, <1>5 DEF Next

\* However often the server is started, killed and started again, it seeds one
\* welcome document at most, as long as no two processes start at once, and
\* without a kill that document is ready whenever nobody is starting
\* (_ensure_welcome_seeded).
THEOREM OneWelcome == Spec => []WelcomeIsSeededOnce
  <1>1. Init => Seeded
    <2> SUFFICES ASSUME Init PROVE Seeded
      OBVIOUS
    <2>1. /\ \A p \in Processes : process[p].step = "off"
          /\ library \subseteq {<<Welcome, Earlier>>, <<"other", Earlier>>}
          /\ ready = library
      BY OffTyped DEF Init
    <2>2. \A r \in library : r[1] = Welcome => r = <<Welcome, Earlier>>
      BY <2>1 DEF Welcome
    <2> QED
      BY <2>1, <2>2 DEF Seeded, Starting, At
  <1>2. Seeded => WelcomeIsSeededOnce
    BY DEF Seeded, WelcomeIsSeededOnce, Starting, At
  <1> QED
    BY <1>1, <1>2, NextSeeds, Migrates, PTL DEF Spec

=============================================================================
