-------------------------------- MODULE Setup --------------------------------
(***************************************************************************)
(* scripts/: setting up and removing the database "db" of the server and   *)
(* the database "test" of the tests.  Each script runs psql, and then      *)
(* changes its entry of secrets/dbconnection.json, which both share.  The  *)
(* scripts are run by hand, one after another, and may be interrupted;     *)
(* the server (index.js) and the tests connect with what is in the file.   *)
(*                                                                         *)
(* psql goes on after a statement that fails and exits with 0 at the end   *)
(* of its file; another code means that it did not get there.              *)
(***************************************************************************)
EXTENDS Naturals, Sequences

CONSTANTS
    MaxRuns,    \* bound: how many times a script is run
    None

ASSUME SetupAssumption == MaxRuns \in Nat /\ None \notin 0..MaxRuns

Entries == {"db", "test"}
Scripts == {"db-interactive-setup", "db-setup", "db-teardown", "db-test-setup", "db-test-teardown"}

VARIABLES
    role,       \* PostgreSQL: the password of each role, or None if there is no role
    database,   \* PostgreSQL: whether each database is there, and whole
    connected,  \* the databases that the server or the tests are connected to
    file,       \* dbconnection.json: the passwords of its entries, or what is no JSON
    script,     \* the script that runs or ran last
    step,       \* where it is
    password,   \* the password it has chosen, named by the run that generated it
    run,        \* how many scripts have been run
    outcome,    \* how the script ended
    fresh,      \* history: there was neither role nor database when it started
    alone       \* history: nobody has been connected since then

pg == <<role, database>>
vars == <<pg, connected, file, script, step, password, run, outcome, fresh, alone>>

Entry(s) == IF s \in {"db-test-setup", "db-test-teardown"} THEN "test" ELSE "db"
Teardowns == {"db-teardown", "db-test-teardown"}

(* The steps of each script.  (mutant: the role goes before what it owns)  *)
psqlInit == <<"create-user", "create-database", "create-tables">>
psqlCleanOwner == <<"drop-user", "drop-database">>
psqlClean == <<"drop-database", "drop-user">>
Steps(s) ==
    CASE s = "db-interactive-setup" -> <<"check", "activate">> \o psqlInit \o <<"save", "populate">>
      [] s = "db-setup"             -> psqlInit \o <<"save">>
      [] s = "db-test-setup"        -> psqlInit \o <<"populate", "save">>
      [] s \in Teardowns            -> psqlClean \o <<"remove">>

Unreadable == [unreadable |-> TRUE]    \* no file, or not all of it

Init ==
    /\ role = [e \in Entries |-> None]
    /\ database = [e \in Entries |-> "none"]
    /\ connected = {}
    /\ file = Unreadable
    /\ script = "db-setup" /\ step = 1 /\ password = 1
    /\ run = 0
    /\ outcome = "declined"
    /\ fresh = TRUE /\ alone = TRUE

Running == outcome = "running"
At(name) == Running /\ Steps(script)[step] = name
E == Entry(script)

Go == /\ step' = step + 1
      /\ outcome' = IF step = Len(Steps(script)) THEN "done" ELSE "running"
      /\ UNCHANGED <<connected, script, password, run, fresh, alone>>

End(how) == /\ outcome' = how
            /\ UNCHANGED <<connected, script, step, password, run, fresh, alone>>
-----------------------------------------------------------------------------
(* A script starts: confirmSetup, getOS or checkOS.  Whoever sets up by    *)
(* hand may type a password that was used before.                          *)
Start(s) ==
    /\ ~Running
    /\ run < MaxRuns
    /\ run' = run + 1
    /\ script' = s /\ step' = 1 /\ outcome' = "running"
    /\ password' \in IF s = "db-interactive-setup" THEN 1..run' ELSE {run'}
    /\ fresh' = (role[Entry(s)] = None /\ database[Entry(s)] = "none")
    /\ alone' = (Entry(s) \notin connected)
    /\ UNCHANGED <<pg, connected, file>>

(* The user says no, or the system is none that the script knows. *)
Decline == Running /\ step = 1 /\ End("declined") /\ UNCHANGED <<pg, file>>

(* checkPostgres asks for the state of the service: 0 is up, 3 is down;    *)
(* after 1 the script ends with an error, after others without.            *)
checkPostgres ==
    /\ At("check")
    /\ \/ \E steps \in {1, 2} : /\ step' = step + steps
                                /\ UNCHANGED <<connected, script, password, run, outcome, fresh, alone>>
       \/ \E how \in {"failed", "declined"} : End(how)
    /\ UNCHANGED <<pg, file>>

activatePostgres ==
    /\ At("activate")
    /\ Go \/ End("failed")
    /\ UNCHANGED <<pg, file>>
-----------------------------------------------------------------------------
(* db/database-init.pgsql.  CREATE USER fails if there is one, and leaves  *)
(* its password; CREATE DATABASE fails if there is one.  The statements    *)
(* after \c make what is missing.                                          *)
CreateUser ==
    /\ At("create-user")
    /\ role' = [role EXCEPT ![E] = IF @ = None THEN password ELSE @]
    /\ Go
    /\ UNCHANGED <<database, file>>

CreateDatabase ==
    /\ At("create-database")
    /\ database' = [database EXCEPT ![E] = IF @ = "none" THEN "empty" ELSE @]
    /\ Go
    /\ UNCHANGED <<role, file>>

CreateTables ==
    /\ At("create-tables")
    /\ database' = [database EXCEPT ![E] = "whole"]
    /\ Go
    /\ UNCHANGED <<role, file>>

(* db/database-sample.pgsql, or, by hand, the wish to have no sample. *)
Populate == At("populate") /\ Go /\ UNCHANGED <<pg, file>>

(* db/database-clean.pgsql.  DROP DATABASE fails while somebody is         *)
(* connected, and DROP USER while the role owns a database.                *)
DropDatabase ==
    /\ At("drop-database")
    /\ database' = [database EXCEPT ![E] = IF E \in connected THEN @ ELSE "none"]
    /\ Go
    /\ UNCHANGED <<role, file>>

DropUser ==
    /\ At("drop-user")
    /\ role' = [role EXCEPT ![E] = IF database[E] = "none" THEN None ELSE @]
    /\ Go
    /\ UNCHANGED <<database, file>>

(* psql cannot be started, cannot connect, or loses its connection. *)
PsqlFails ==
    /\ \E name \in {"create-user", "create-database", "create-tables", "populate", "drop-database", "drop-user"} :
         At(name)
    /\ End("failed")
    /\ UNCHANGED <<pg, file>>
-----------------------------------------------------------------------------
(* The entries of the file; none if it cannot be read.  (mutant: the file  *)
(* is not read)                                                            *)
connDataNew == << >>
connData == IF file = Unreadable THEN << >> ELSE file

(* saveCreds, storeConn.  (mutant: an entry that is there already stays)   *)
SavedOnce == [e \in DOMAIN connData \cup {E} |-> IF e = E /\ E \notin DOMAIN connData THEN password ELSE connData[e]]
Saved == [e \in DOMAIN connData \cup {E} |-> IF e = E THEN password ELSE connData[e]]
(* removeCreds *)
Removed == [e \in DOMAIN connData \ {E} |-> connData[e]]

Write(content) ==
    \/ /\ file' = content
       /\ Go
    \/ /\ file' \in {file, Unreadable}    \* "Unable to write to credentials file."
       /\ End("failed")

saveCreds == At("save") /\ Write(Saved) /\ UNCHANGED pg

removeCreds == At("remove") /\ Write(Removed) /\ UNCHANGED pg

(* The script is interrupted, maybe in the middle of writing. *)
Interrupt ==
    /\ Running
    /\ file' \in IF At("save") \/ At("remove") THEN {file, Unreadable} ELSE {file}
    /\ End("interrupted")
    /\ UNCHANGED pg
-----------------------------------------------------------------------------
(* The server starts (index.js), or the tests: testConnection succeeds     *)
(* only with the password of the role.                                     *)
CanConnect(e) ==
    /\ file # Unreadable
    /\ e \in DOMAIN file
    /\ file[e] = role[e]
    /\ database[e] # "none"

Connect(e) ==
    /\ e \notin connected
    /\ CanConnect(e)
    /\ connected' = connected \cup {e}
    /\ alone' = (alone /\ e # E)
    /\ UNCHANGED <<pg, file, script, step, password, run, outcome, fresh>>

Disconnect(e) ==
    /\ e \in connected
    /\ connected' = connected \ {e}
    /\ UNCHANGED <<pg, file, script, step, password, run, outcome, fresh, alone>>

Next ==
    \/ \E s \in Scripts : Start(s)
    \/ Decline \/ checkPostgres \/ activatePostgres
    \/ CreateUser \/ CreateDatabase \/ CreateTables \/ Populate \/ DropDatabase \/ DropUser \/ PsqlFails
    \/ saveCreds \/ removeCreds \/ Interrupt
    \/ \E e \in Entries : Connect(e) \/ Disconnect(e)

Spec == Init /\ [][Next]_vars
-----------------------------------------------------------------------------
(* Properties *)

(* A set-up that finds nothing there and comes to its end leaves a whole   *)
(* database and the password that opens it, whatever earlier scripts did   *)
(* before they were interrupted (createDB, then saveCreds).                *)
FreshSetupWorks ==
    (outcome = "done" /\ script \notin Teardowns /\ fresh) => CanConnect(E) /\ database[E] = "whole"

(* A teardown that comes to its end while nobody is connected leaves       *)
(* nothing, so that the next set-up is a fresh one (removeDB, then         *)
(* removeCreds).                                                           *)
TeardownLeavesNothing ==
    (outcome = "done" /\ script \in Teardowns /\ alone) =>
        /\ role[E] = None
        /\ database[E] = "none"
        /\ E \notin DOMAIN file

(* The server and the tests share the file: as long as it is not torn, a   *)
(* script changes the entry of its own database only (conn_data is read,   *)
(* changed and written as a whole).                                        *)
OtherEntryIsKept ==
    [][\A e \in Entries \ {E} :
          (file # Unreadable /\ file' # Unreadable) =>
              /\ e \in DOMAIN file <=> e \in DOMAIN file'
              /\ e \in DOMAIN file => file[e] = file'[e]]_file
=============================================================================
