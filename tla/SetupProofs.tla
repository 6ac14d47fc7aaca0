------------------------------ MODULE SetupProofs ------------------------------
(***************************************************************************)
(* Proofs about module Setup, for any number of runs of the scripts.       *)
(***************************************************************************)
EXTENDS Setup, SequenceTheorems, TLAPS

(* What comes before the steps that make the database, when set up by hand. *)
LEMMA Checked ==
    <<"check", "activate">> \o psqlInit =
        <<"check", "activate", "create-user", "create-database", "create-tables">>
<1> DEFINE names == {"check", "activate", "create-user", "create-database", "create-tables"}
           front == <<"check", "activate">> \o psqlInit
           written == <<"check", "activate", "create-user", "create-database", "create-tables">>
<1>1. /\ front[1] = "check" /\ front[2] = "activate"
      /\ front[3] = "create-user" /\ front[4] = "create-database" /\ front[5] = "create-tables"
      /\ Len(front) = 5
  BY DEF psqlInit
<1>2. <<"check", "activate">> \in Seq(names) /\ psqlInit \in Seq(names)
  BY DEF psqlInit
<1>3. front \in Seq(names)
  BY <1>2, ConcatProperties, Zenon
<1>4. /\ Len(written) = 5 /\ written[1] = "check" /\ written[2] = "activate"
      /\ written[3] = "create-user" /\ written[4] = "create-database" /\ written[5] = "create-tables"
  OBVIOUS
<1>5. written \in Seq(names)
  OBVIOUS
<1> HIDE DEF names, front, written
<1>6. Len(front) = Len(written) /\ \A i \in 1..Len(front) : front[i] = written[i]
  <2>1. \A i \in 1..5 : i = 1 \/ i = 2 \/ i = 3 \/ i = 4 \/ i = 5
    OBVIOUS
  <2> QED BY <1>1, <1>4, <2>1
<1>7. front = written
  BY <1>3, <1>5, <1>6, SeqEqual, Zenon
<1> QED BY <1>7 DEF front, written

(* The steps of the scripts, one by one. *)
LEMMA StepsWritten ==
    /\ LET steps == Steps("db-interactive-setup") IN
         /\ Len(steps) = 7
         /\ steps[1] = "check" /\ steps[2] = "activate" /\ steps[3] = "create-user"
         /\ steps[4] = "create-database" /\ steps[5] = "create-tables" /\ steps[6] = "save"
         /\ steps[7] = "populate"
    /\ LET steps == Steps("db-setup") IN
         /\ Len(steps) = 4
         /\ steps[1] = "create-user" /\ steps[2] = "create-database" /\ steps[3] = "create-tables"
         /\ steps[4] = "save"
    /\ LET steps == Steps("db-test-setup") IN
         /\ Len(steps) = 5
         /\ steps[1] = "create-user" /\ steps[2] = "create-database" /\ steps[3] = "create-tables"
         /\ steps[4] = "populate" /\ steps[5] = "save"
    /\ \A s \in Teardowns :
         /\ Len(Steps(s)) = 3
         /\ Steps(s)[1] = "drop-database" /\ Steps(s)[2] = "drop-user" /\ Steps(s)[3] = "remove"
<1>1. /\ "db-setup" \notin Teardowns /\ "db-interactive-setup" \notin Teardowns /\ "db-test-setup" \notin Teardowns
      /\ \A s \in Teardowns : s \notin {"db-setup", "db-interactive-setup", "db-test-setup"}
  BY DEF Teardowns
<1>2. /\ Steps("db-interactive-setup") = <<"check", "activate">> \o psqlInit \o <<"save", "populate">>
      /\ Steps("db-setup") = psqlInit \o <<"save">>
      /\ Steps("db-test-setup") = psqlInit \o <<"populate", "save">>
      /\ \A s \in Teardowns : Steps(s) = psqlClean \o <<"remove">>
  BY <1>1 DEF Steps
<1>3. LET steps == <<"check", "activate">> \o psqlInit \o <<"save", "populate">> IN
      /\ Len(steps) = 7 /\ steps[1] = "check" /\ steps[2] = "activate"
      /\ steps[3] = "create-user" /\ steps[4] = "create-database" /\ steps[5] = "create-tables"
      /\ steps[6] = "save" /\ steps[7] = "populate"
  <2>1. LET steps == <<"check", "activate", "create-user", "create-database", "create-tables">>
                        \o <<"save", "populate">> IN
        /\ steps[1] = "check" /\ steps[2] = "activate"
        /\ steps[3] = "create-user" /\ steps[4] = "create-database" /\ steps[5] = "create-tables"
        /\ steps[6] = "save" /\ steps[7] = "populate"
        /\ Len(steps) = 7
    OBVIOUS
  <2> QED BY <2>1, Checked, Zenon
<1>4. LET steps == psqlInit \o <<"save">> IN
      /\ Len(steps) = 4 /\ steps[1] = "create-user" /\ steps[2] = "create-database"
      /\ steps[3] = "create-tables" /\ steps[4] = "save"
  BY DEF psqlInit
<1>5. LET steps == psqlInit \o <<"populate", "save">> IN
      /\ Len(steps) = 5 /\ steps[1] = "create-user" /\ steps[2] = "create-database"
      /\ steps[3] = "create-tables" /\ steps[4] = "populate" /\ steps[5] = "save"
  BY DEF psqlInit
<1>6. LET steps == psqlClean \o <<"remove">> IN
      /\ Len(steps) = 3 /\ steps[1] = "drop-database" /\ steps[2] = "drop-user" /\ steps[3] = "remove"
  BY DEF psqlClean
<1> QED BY <1>2, <1>3, <1>4, <1>5, <1>6

(* What the script that runs, or ran last, has behind it. *)
Past(name) == \E i \in 1..Len(Steps(script)) : i < step /\ Steps(script)[i] = name

Under == outcome \in {"running", "done"}

(* The variables have their types, and a script that runs is at one of its *)
(* steps.                                                                  *)
DataInv ==
    /\ role \in [Entries -> Nat \cup {None}]
    /\ database \in [Entries -> {"none", "empty", "whole"}]
    /\ connected \subseteq Entries
    /\ file = Unreadable \/ DOMAIN file \subseteq Entries

PlaceInv ==
    /\ script \in Scripts
    /\ step \in Nat \ {0}
    /\ Running => step \in 1..Len(Steps(script)) /\ password \in 1..MaxRuns
    /\ run \in 0..MaxRuns
    /\ outcome \in {"running", "done", "failed", "declined", "interrupted"}
    /\ outcome = "done" => step = Len(Steps(script)) + 1

TypeInv == DataInv /\ PlaceInv

(* What a set-up that found nothing there has made so far: until it has    *)
(* made the role there is none, so that the role it makes has the password *)
(* that it saves.                                                          *)
SetupInv ==
    (Under /\ script \notin Teardowns /\ fresh) =>
        /\ role[E] = IF Past("create-user") THEN password ELSE None
        /\ Past("create-database") => database[E] # "none"
        /\ Past("create-tables") => database[E] = "whole"
        /\ Past("save") => file # Unreadable /\ E \in DOMAIN file /\ file[E] = password

(* What a teardown has removed so far, while nobody has been connected: no *)
(* database, and so no role that cannot be dropped.                        *)
TeardownInv ==
    (Under /\ script \in Teardowns /\ alone) =>
        /\ E \notin connected
        /\ Past("drop-database") => database[E] = "none"
        /\ Past("drop-user") => role[E] = None
        /\ Past("remove") => E \notin DOMAIN file

IInv == TypeInv /\ SetupInv /\ TeardownInv
-----------------------------------------------------------------------------
(* Each step of a script comes once, and after those that it relies on. *)
LEMMA Order ==
    ASSUME TypeInv, Running
    PROVE  /\ At("create-user") => script \notin Teardowns /\ ~Past("create-user")
           /\ \A name \in {"create-database", "create-tables", "save", "populate"} :
                At(name) => script \notin Teardowns
           /\ \A name \in {"drop-database", "drop-user", "remove"} : At(name) => script \in Teardowns
           /\ At("drop-user") => Past("drop-database")
           /\ At("check") => step = 1
<1>0. script \in Scripts /\ step \in 1..Len(Steps(script)) /\ Running
  BY DEF TypeInv, PlaceInv
<1>1. CASE script = "db-interactive-setup"
  <2>1. /\ Len(Steps(script)) = 7
        /\ Steps(script)[1] = "check" /\ Steps(script)[2] = "activate"
        /\ Steps(script)[3] = "create-user" /\ Steps(script)[4] = "create-database"
        /\ Steps(script)[5] = "create-tables" /\ Steps(script)[6] = "save" /\ Steps(script)[7] = "populate"
    BY <1>1, StepsWritten
  <2>2. \A i \in 1..7 : i = 1 \/ i = 2 \/ i = 3 \/ i = 4 \/ i = 5 \/ i = 6 \/ i = 7
    OBVIOUS
  <2>3. step \in 1..7 /\ \A i \in 1..7 : Steps(script)[i] = "create-user" => i = 3
    BY <1>0, <2>1, <2>2
  <2>4. At("create-user") => ~Past("create-user")
    BY <2>1, <2>3 DEF At, Past
  <2> QED BY <1>1, <2>1, <2>2, <2>3, <2>4 DEF At, Teardowns
<1>2. CASE script = "db-setup"
  BY <1>0, <1>2, StepsWritten DEF At, Past, Teardowns
<1>3. CASE script = "db-test-setup"
  BY <1>0, <1>3, StepsWritten DEF At, Past, Teardowns
<1>4. CASE script \in Teardowns
  <2>1. /\ Len(Steps(script)) = 3
        /\ Steps(script)[1] = "drop-database" /\ Steps(script)[2] = "drop-user" /\ Steps(script)[3] = "remove"
    BY <1>4, StepsWritten
  <2> QED BY <1>0, <1>4, <2>1 DEF At, Past
<1> QED BY <1>0, <1>1, <1>2, <1>3, <1>4 DEF Scripts, Teardowns

(* A script that has come to its end has all its steps behind it. *)
LEMMA AllPast ==
    ASSUME TypeInv, outcome = "done"
    PROVE  /\ script \notin Teardowns =>
                Past("create-user") /\ Past("create-database") /\ Past("create-tables") /\ Past("save")
           /\ script \in Teardowns => Past("drop-database") /\ Past("drop-user") /\ Past("remove")
<1>0. script \in Scripts /\ step = Len(Steps(script)) + 1
  BY DEF TypeInv, PlaceInv
<1>a. ASSUME Len(Steps(script)) \in Nat, NEW i \in 1..Len(Steps(script))
      PROVE  Past(Steps(script)[i])
  BY <1>0, <1>a DEF Past
<1>1. CASE script = "db-interactive-setup"
  <2>1. Past(Steps(script)[3]) /\ Past(Steps(script)[4]) /\ Past(Steps(script)[5]) /\ Past(Steps(script)[6])
    BY <1>a, <1>1, StepsWritten
  <2> QED BY <1>1, <2>1, StepsWritten DEF Teardowns
<1>2. CASE script = "db-setup"
  <2>1. Past(Steps(script)[1]) /\ Past(Steps(script)[2]) /\ Past(Steps(script)[3]) /\ Past(Steps(script)[4])
    BY <1>a, <1>2, StepsWritten
  <2> QED BY <1>2, <2>1, StepsWritten DEF Teardowns
<1>3. CASE script = "db-test-setup"
  <2>1. Past(Steps(script)[1]) /\ Past(Steps(script)[2]) /\ Past(Steps(script)[3]) /\ Past(Steps(script)[5])
    BY <1>a, <1>3, StepsWritten
  <2> QED BY <1>3, <2>1, StepsWritten DEF Teardowns
<1>4. CASE script \in Teardowns
  <2>1. Past(Steps(script)[1]) /\ Past(Steps(script)[2]) /\ Past(Steps(script)[3])
    BY <1>a, <1>4, StepsWritten
  <2> QED BY <1>4, <2>1, StepsWritten
<1> QED BY <1>0, <1>1, <1>2, <1>3, <1>4 DEF Scripts, Teardowns

(* Going on from a step puts it behind. *)
LEMMA GoPast ==
    ASSUME TypeInv, NEW here, At(here), Go
    PROVE  /\ \A name : Past(name)' <=> Past(name) \/ name = here
           /\ E' = E /\ script' = script /\ password' = password /\ fresh' = fresh /\ alone' = alone
           /\ connected' = connected /\ Under /\ run' = run
<1>1. /\ Running /\ step \in 1..Len(Steps(script)) /\ Steps(script)[step] = here
      /\ step' = step + 1 /\ script' = script
  BY DEF At, Go, TypeInv, PlaceInv
<1>2. \A name : Past(name)' <=> Past(name) \/ name = here
  BY <1>1 DEF Past
<1> QED BY <1>1, <1>2 DEF Go, E, Under, Running

-----------------------------------------------------------------------------
(* The file with the entry of the script put in, or taken out. *)
LEMMA FileWritten ==
    ASSUME TypeInv, script \in Scripts
    PROVE  /\ E \in Entries
           /\ Saved # Unreadable /\ DOMAIN Saved \subseteq Entries
           /\ E \in DOMAIN Saved /\ Saved[E] = password
           /\ Removed # Unreadable /\ DOMAIN Removed \subseteq Entries /\ E \notin DOMAIN Removed
<1>1. E \in Entries
  BY DEF E, Entry, Entries
<1>2. DOMAIN connData \subseteq Entries
  BY DEF TypeInv, DataInv, connData
<1>3. DOMAIN Saved \subseteq Entries /\ DOMAIN Removed \subseteq Entries
  BY <1>1, <1>2 DEF Saved, Removed
<1>4. \A content : DOMAIN content \subseteq Entries => content # Unreadable
  BY DEF Unreadable, Entries
<1> QED BY <1>1, <1>3, <1>4 DEF Saved, Removed

(* Going on, or ending, leaves the script where it can be. *)
LEMMA GoPlace ==
    ASSUME PlaceInv, Running, Go
    PROVE  PlaceInv'
<1>1. Len(Steps(script)) \in Nat
  BY StepsWritten DEF PlaceInv, Scripts, Teardowns
<1> QED BY <1>1 DEF PlaceInv, Running, Go

(* A script that ends early, for whatever reason, no longer runs. *)
LEMMA EndPlace ==
    ASSUME PlaceInv, Running, NEW how \in {"failed", "declined", "interrupted"}, End(how)
    PROVE  PlaceInv' /\ ~Under'
BY DEF PlaceInv, Running, End, Under

(* Whatever a script has done so far does not matter once it has ended     *)
(* without coming to its end.                                              *)
LEMMA EndInv ==
    ASSUME IInv, Running, DataInv', NEW how \in {"failed", "declined", "interrupted"}, End(how)
    PROVE  IInv'
<1>1. PlaceInv' /\ ~Under'
  BY EndPlace DEF IInv, TypeInv
<1> QED BY <1>1 DEF IInv, TypeInv, SetupInv, TeardownInv

(* A step of a script that changes neither PostgreSQL nor the file, and    *)
(* comes first or is not relied on.                                        *)
LEMMA GoInv ==
    ASSUME IInv, NEW here \in {"activate", "populate"}, At(here), Go, UNCHANGED <<pg, file>>
    PROVE  IInv'
<1>1. /\ \A name : Past(name)' <=> Past(name) \/ name = here
      /\ E' = E /\ script' = script /\ password' = password /\ fresh' = fresh /\ alone' = alone
      /\ connected' = connected /\ Under
  BY GoPast DEF IInv
<1>2. TypeInv'
  BY GoPlace DEF IInv, TypeInv, DataInv, pg, At, Go
<1>3. SetupInv'
  BY <1>1 DEF IInv, SetupInv, pg
<1>4. TeardownInv'
  BY <1>1 DEF IInv, TeardownInv, pg
<1> QED BY <1>2, <1>3, <1>4 DEF IInv

(* checkPostgres goes to the next step, or to the one after. *)
LEMMA CheckInv ==
    ASSUME IInv, checkPostgres
    PROVE  IInv'
<1>1. Running /\ At("check") /\ UNCHANGED <<pg, file, connected, script>>
  BY DEF checkPostgres, At, End
<1>2. DataInv'
  BY <1>1 DEF IInv, TypeInv, DataInv, pg
<1>3. CASE \E how \in {"failed", "declined"} : End(how)
  BY <1>1, <1>2, <1>3, EndInv
<1>4. CASE \E steps \in {1, 2} : /\ step' = step + steps
                                 /\ UNCHANGED <<connected, script, password, run, outcome, fresh, alone>>
  <2>1. step = 1 /\ step' \in {2, 3} /\ E' = E
    BY <1>1, <1>4, Order DEF IInv, E
  <2>2. script = "db-interactive-setup"
    <3>1. script \in Scripts /\ Steps(script)[1] = "check"
      BY <1>1, <2>1 DEF At, IInv, TypeInv, PlaceInv
    <3> QED BY <3>1, StepsWritten DEF Scripts, Teardowns
  <2>3. PlaceInv'
    <3>1. Len(Steps(script)) = 7
      BY <2>2, StepsWritten
    <3> QED BY <1>1, <1>4, <2>1, <3>1 DEF IInv, TypeInv, PlaceInv, Running
  <2>4. \A name : name \notin {"check", "activate"} => ~Past(name) /\ ~Past(name)'
    BY <1>1, <2>1, <2>2, StepsWritten DEF Past
  <2>5. SetupInv' /\ TeardownInv'
    BY <1>1, <1>4, <2>1, <2>2, <2>4 DEF IInv, SetupInv, TeardownInv, pg, Under, Running, Teardowns
  <2> QED BY <1>2, <2>3, <2>5 DEF IInv, TypeInv
<1> QED BY <1>3, <1>4 DEF checkPostgres

(* The steps that make the database, and remove it. *)
LEMMA DatabaseInv ==
    ASSUME IInv, CreateUser \/ CreateDatabase \/ CreateTables \/ DropDatabase \/ DropUser
    PROVE  IInv'
<1>1. PICK here \in {"create-user", "create-database", "create-tables", "drop-database", "drop-user"} :
        /\ At(here)
        /\ here = "create-user" => CreateUser
        /\ here = "create-database" => CreateDatabase
        /\ here = "create-tables" => CreateTables
        /\ here = "drop-database" => DropDatabase
        /\ here = "drop-user" => DropUser
  BY DEF CreateUser, CreateDatabase, CreateTables, DropDatabase, DropUser, At
<1>2. Go /\ UNCHANGED file /\ Running
  BY <1>1 DEF CreateUser, CreateDatabase, CreateTables, DropDatabase, DropUser, At
<1>3. /\ \A name : Past(name)' <=> Past(name) \/ name = here
      /\ E' = E /\ script' = script /\ password' = password /\ fresh' = fresh /\ alone' = alone
      /\ connected' = connected /\ Under
  BY <1>1, <1>2, GoPast DEF IInv
<1>4. E \in Entries /\ password \in Nat
  BY <1>2, FileWritten, SetupAssumption DEF IInv, TypeInv, PlaceInv
<1>t. PlaceInv' /\ DataInv
  BY <1>2, GoPlace DEF IInv, TypeInv
<1>5. CASE here = "create-user"
  <2>1. /\ role' = [role EXCEPT ![E] = IF role[E] = None THEN password ELSE role[E]] /\ UNCHANGED database
        /\ script \notin Teardowns /\ ~Past("create-user")
    BY <1>1, <1>2, <1>5, Order DEF CreateUser, IInv
  <2>2. DataInv' /\ role'[E] = IF role[E] = None THEN password ELSE role[E]
    BY <1>2, <1>3, <1>4, <1>t, <2>1 DEF DataInv
  <2>3. SetupInv' /\ TeardownInv'
    BY <1>2, <1>3, <1>5, <2>1, <2>2 DEF IInv, SetupInv, TeardownInv
  <2> QED BY <1>t, <2>2, <2>3 DEF IInv, TypeInv
<1>6. CASE here \in {"create-database", "create-tables"}
  <2>1. UNCHANGED role /\ script \notin Teardowns
    BY <1>1, <1>2, <1>6, Order DEF CreateDatabase, CreateTables, IInv
  <2>2. /\ DataInv' /\ database'[E] # "none"
        /\ here = "create-tables" => database'[E] = "whole"
        /\ database[E] = "whole" => database'[E] = "whole"
    <3>1. CASE here = "create-database"
      BY <1>1, <1>2, <1>3, <1>4, <1>t, <2>1, <3>1 DEF CreateDatabase, DataInv
    <3>2. CASE here = "create-tables"
      BY <1>1, <1>2, <1>3, <1>4, <1>t, <2>1, <3>2 DEF CreateTables, DataInv
    <3> QED BY <1>6, <3>1, <3>2
  <2>3. SetupInv' /\ TeardownInv'
    BY <1>2, <1>3, <1>6, <2>1, <2>2 DEF IInv, SetupInv, TeardownInv
  <2> QED BY <1>t, <2>2, <2>3 DEF IInv, TypeInv
<1>7. CASE here = "drop-database"
  <2>1. /\ database' = [database EXCEPT ![E] = IF E \in connected THEN database[E] ELSE "none"] /\ UNCHANGED role
        /\ script \in Teardowns
    BY <1>1, <1>2, <1>7, Order DEF DropDatabase, IInv
  <2>2. DataInv' /\ (E \notin connected => database'[E] = "none")
    BY <1>2, <1>3, <1>4, <1>t, <2>1 DEF DataInv
  <2>3. SetupInv' /\ TeardownInv'
    BY <1>2, <1>3, <1>7, <2>1, <2>2 DEF IInv, SetupInv, TeardownInv
  <2> QED BY <1>t, <2>2, <2>3 DEF IInv, TypeInv
<1>8. CASE here = "drop-user"
  <2>1. /\ role' = [role EXCEPT ![E] = IF database[E] = "none" THEN None ELSE role[E]] /\ UNCHANGED database
        /\ script \in Teardowns /\ Past("drop-database")
    BY <1>1, <1>2, <1>8, Order DEF DropUser, IInv
  <2>2. DataInv' /\ (database[E] = "none" => role'[E] = None)
    BY <1>2, <1>3, <1>4, <1>t, <2>1 DEF DataInv
  <2>3. SetupInv' /\ TeardownInv'
    BY <1>2, <1>3, <1>8, <2>1, <2>2 DEF IInv, SetupInv, TeardownInv
  <2> QED BY <1>t, <2>2, <2>3 DEF IInv, TypeInv
<1> QED BY <1>1, <1>5, <1>6, <1>7, <1>8

(* The steps that write the file. *)
LEMMA FileInv ==
    ASSUME IInv, saveCreds \/ removeCreds
    PROVE  IInv'
<1>1. PICK here \in {"save", "remove"} :
        /\ At(here) /\ Write(IF here = "save" THEN Saved ELSE Removed) /\ UNCHANGED pg
  BY DEF saveCreds, removeCreds
<1>2. Running /\ script \in Scripts
  BY <1>1 DEF At, IInv, TypeInv, PlaceInv
<1>3. CASE /\ file' = IF here = "save" THEN Saved ELSE Removed
           /\ Go
  <2>1. /\ \A name : Past(name)' <=> Past(name) \/ name = here
        /\ E' = E /\ script' = script /\ password' = password /\ fresh' = fresh /\ alone' = alone
        /\ connected' = connected /\ Under
    BY <1>1, <1>3, GoPast DEF IInv
  <2>2. /\ E \in Entries
        /\ here = "save" =>
             /\ file' # Unreadable /\ DOMAIN file' \subseteq Entries
             /\ E \in DOMAIN file' /\ file'[E] = password /\ script \notin Teardowns
        /\ here = "remove" =>
             /\ DOMAIN file' \subseteq Entries /\ E \notin DOMAIN file' /\ script \in Teardowns
    BY <1>1, <1>2, <1>3, FileWritten, Order DEF IInv
  <2>3. PlaceInv' /\ DataInv'
    BY <1>1, <1>2, <1>3, <2>1, <2>2, GoPlace DEF IInv, TypeInv, DataInv, pg
  <2>4. SetupInv' /\ TeardownInv'
    BY <1>1, <2>1, <2>2 DEF IInv, SetupInv, TeardownInv, pg
  <2> QED BY <2>3, <2>4 DEF IInv, TypeInv
<1>4. CASE file' \in {file, Unreadable} /\ End("failed")
  <2>1. DataInv'
    BY <1>1, <1>4 DEF IInv, TypeInv, DataInv, pg, End
  <2> QED BY <1>2, <1>4, <2>1, EndInv
<1> QED BY <1>1, <1>3, <1>4 DEF Write

(* A script starts with nothing behind it. *)
LEMMA StartInv ==
    ASSUME IInv, NEW s \in Scripts, Start(s)
    PROVE  IInv'
<1>1. /\ script' = s /\ step' = 1 /\ outcome' = "running" /\ run' = run + 1 /\ run < MaxRuns
      /\ fresh' = (role[Entry(s)] = None /\ database[Entry(s)] = "none")
      /\ alone' = (Entry(s) \notin connected)
      /\ UNCHANGED <<role, database, connected, file>>
      /\ password' \in 1..run'
  BY SetupAssumption DEF Start, pg, IInv, TypeInv, PlaceInv
<1>2. E' = Entry(s)
  BY <1>1 DEF E, Entry
<1>3. \A name : ~Past(name)'
  BY <1>1 DEF Past
<1>4. Len(Steps(s)) \in Nat \ {0}
  BY StepsWritten DEF Scripts, Teardowns
<1>5. TypeInv'
  BY <1>1, <1>4, SetupAssumption DEF IInv, TypeInv, DataInv, PlaceInv, Running
<1>6. SetupInv' /\ TeardownInv'
  BY <1>1, <1>2, <1>3 DEF SetupInv, TeardownInv
<1> QED BY <1>5, <1>6 DEF IInv

(* The server and the tests come and go. *)
LEMMA ClientInv ==
    ASSUME IInv, NEW e \in Entries, Connect(e) \/ Disconnect(e)
    PROVE  IInv'
<1>1. /\ UNCHANGED <<pg, file, script, step, password, run, outcome, fresh>>
      /\ \/ connected' = connected \cup {e} /\ alone' = (alone /\ e # E)
         \/ connected' = connected \ {e} /\ UNCHANGED alone
  BY DEF Connect, Disconnect
<1>2. E' = E /\ (Under' <=> Under) /\ (\A name : Past(name)' <=> Past(name)) /\ (Running' <=> Running)
  BY <1>1 DEF E, Under, Past, Running
<1>3. TypeInv'
  BY <1>1, <1>2 DEF IInv, TypeInv, DataInv, PlaceInv, pg
<1>4. SetupInv'
  BY <1>1, <1>2 DEF IInv, SetupInv, pg
<1>5. alone' => alone /\ (E \notin connected => E \notin connected')
  BY <1>1
<1>6. TeardownInv'
  BY <1>1, <1>2, <1>5 DEF IInv, TeardownInv, pg
<1> QED BY <1>3, <1>4, <1>6 DEF IInv

(* Every step keeps the invariant. *)
LEMMA NextInv == IInv /\ [Next]_vars => IInv'
<1> SUFFICES ASSUME IInv, [Next]_vars PROVE IInv'
  OBVIOUS
<1>1. ASSUME NEW s \in Scripts, Start(s) PROVE IInv'
  BY <1>1, StartInv
<1>2. ASSUME Running, NEW how \in {"failed", "declined", "interrupted"}, End(how),
             UNCHANGED pg, file' \in {file, Unreadable}
      PROVE  IInv'
  <2>1. DataInv'
    BY <1>2 DEF IInv, TypeInv, DataInv, pg, End
  <2> QED BY <1>2, <2>1, EndInv
<1>3. CASE Decline \/ PsqlFails \/ Interrupt
  BY <1>2, <1>3 DEF Decline, PsqlFails, Interrupt, At
<1>4. CASE checkPostgres
  BY <1>4, CheckInv
<1>5. CASE activatePostgres \/ Populate
  BY <1>2, <1>5, GoInv DEF activatePostgres, Populate, At
<1>6. CASE CreateUser \/ CreateDatabase \/ CreateTables \/ DropDatabase \/ DropUser
  BY <1>6, DatabaseInv
<1>7. CASE saveCreds \/ removeCreds
  BY <1>7, FileInv
<1>8. ASSUME NEW e \in Entries, Connect(e) \/ Disconnect(e) PROVE IInv'
  BY <1>8, ClientInv
<1>9. CASE UNCHANGED vars
  <2>1. E' = E /\ (Under' <=> Under) /\ (\A name : Past(name)' <=> Past(name)) /\ (Running' <=> Running)
    BY <1>9 DEF vars, E, Under, Past, Running
  <2> QED BY <1>9, <2>1 DEF vars, pg, IInv, TypeInv, DataInv, PlaceInv, SetupInv, TeardownInv
<1> QED BY <1>1, <1>3, <1>4, <1>5, <1>6, <1>7, <1>8, <1>9 DEF Next

(* The invariant, for every reachable state. *)
THEOREM IInvIsInvariant == Spec => []IInv
<1>1. Init => IInv
  BY SetupAssumption DEF Init, IInv, TypeInv, DataInv, PlaceInv, SetupInv, TeardownInv, Under, Running, Scripts
<1> QED BY <1>1, NextInv, PTL DEF Spec
-----------------------------------------------------------------------------
(* A set-up that finds neither role nor database and comes to its end      *)
(* leaves a whole database and the password that opens it, however many    *)
(* scripts were run before and wherever they were interrupted.             *)
THEOREM SetupWorks == Spec => []FreshSetupWorks
<1>1. IInv => FreshSetupWorks
  BY AllPast DEF IInv, FreshSetupWorks, SetupInv, CanConnect, Under
<1> QED BY <1>1, IInvIsInvariant, PTL

(* A teardown that comes to its end while nobody is connected leaves no    *)
(* role, no database and no entry in the file.                             *)
THEOREM TeardownWorks == Spec => []TeardownLeavesNothing
<1>1. IInv => TeardownLeavesNothing
  BY AllPast DEF IInv, TeardownLeavesNothing, TeardownInv, Under
<1> QED BY <1>1, IInvIsInvariant, PTL

(* Unless the file is torn, a script leaves the entry of the other         *)
(* database as it is.                                                      *)
THEOREM OtherEntryStays == Spec => OtherEntryIsKept
<1> DEFINE Other == \A e \in Entries \ {E} :
                      (file # Unreadable /\ file' # Unreadable) =>
                          /\ e \in DOMAIN file <=> e \in DOMAIN file'
                          /\ e \in DOMAIN file => file[e] = file'[e]
<1>1. [Next]_vars => [Other]_file
  <2> SUFFICES ASSUME [Next]_vars, file' # file PROVE Other
    OBVIOUS
  <2>1. file' \in {Saved, Removed, Unreadable}
    BY DEF Next, vars, Start, Decline, checkPostgres, activatePostgres, CreateUser, CreateDatabase,
           CreateTables, Populate, DropDatabase, DropUser, PsqlFails, saveCreds, removeCreds, Write,
           Interrupt, Connect, Disconnect
  <2>2. CASE file # Unreadable
    BY <2>1, <2>2 DEF Saved, Removed, connData
  <2> QED BY <2>2
<1> QED BY <1>1, PTL DEF Spec, OtherEntryIsKept
=============================================================================
