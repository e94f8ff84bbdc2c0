---------------------------- MODULE Preparation ----------------------------
(***************************************************************************)
(* Making an exercise ready on the one machine it runs on, and starting it *)
(* (runtime/c1_local.py, c1_database.py, c1_private.py, c1_runner.py).     *)
(*                                                                         *)
(* What an exercise needs is kept in one private file: the password of its *)
(* database, the container that holds it, the one start of the exercise,   *)
(* the scope of the personal status notices and the tenant.  Each is bound *)
(* once, by a command that has read the file before.  The database is a    *)
(* container, a volume and a network of Docker under fixed names, which    *)
(* outlive every command; a command that fails cleans nothing up.          *)
(*                                                                         *)
(* Commands are typed into several terminals at any time; each may be      *)
(* killed at every step.  A command is cut at every call of Docker, of the *)
(* database and of the file.                                               *)
(***************************************************************************)
EXTENDS Naturals, FiniteSets

CONSTANTS
    Terminals,      \* each runs one command at a time
    Secrets,        \* passwords; as drawn by a command, new to everyone
    Lost,           \* a password that no file holds any more
    Starts,         \* identities of a start, as drawn
    Tenants,        \* what the provider may name as the tenant
    Null            \* a field that is not bound; a resource that does not exist

\* The container named in the source for repair, and the one Compose would make.
Fixed == "fixed"
Composed == "composed"

ASSUME PreparationAssumption ==
    /\ Lost \notin Secrets /\ Null \notin Secrets \cup {Lost, Fixed, Composed}
    /\ Null \notin Starts \cup Tenants \cup Terminals

VARIABLES
    file,       \* the private configuration
    torn,       \* a write of it was cut off, and it is no longer read
    volume,     \* the password the database was initialised with
    network,    \* the network exists
    container,  \* the container: its identity, the password given to it, its state
    schema,     \* what has been installed: the tables, and the queue's
    port,       \* the terminal whose bridge listens, the fixed container's port
    over,       \* the thirty minutes of the start have passed
    executing,  \* the terminal whose child holds the execution lock
    asked,      \* the requests for the tenant made under the start
    acted,      \* the starts and tenants that messages were sent for
    cmd         \* the commands: kind, step and the configuration as it was read

machine == <<volume, network, container, schema>>
progress == <<over, executing, asked, acted>>
preparationVars == <<file, torn, machine, port, progress, cmd>>

-----------------------------------------------------------------------------
Fields == {"password", "database", "start", "scope", "tenant"}

Values == [password |-> Secrets, database |-> {Fixed, Composed}, start |-> Starts,
           scope |-> {"scope"}, tenant |-> Tenants]

Configurations == {c \in [Fields -> (UNION {Values[f] : f \in Fields}) \cup {Null}] :
                     \A f \in Fields : c[f] \in Values[f] \cup {Null}}

Blank == [f \in Fields |-> Null]

Kinds == {"db-prepare", "start", "resume", "status-prepare", "db-stop", "db-resume"}

\* prepared_config is read, then checked in two steps, by three of the commands.
Steps == {"out", "loading", "inspecting", "drawing", "verifying", "composing", "identifying",
          "repairing", "naming", "starting", "migrating", "installing", "operating",
          "checking", "connecting", "deciding", "launching", "looking", "binding", "sending"}

Nothing == [id |-> Null, key |-> Null, state |-> "absent"]

PreparationTypeOK ==
    /\ file \in Configurations /\ torn \in BOOLEAN
    /\ volume \in Secrets \cup {Lost, Null} /\ network \in BOOLEAN
    /\ container \in [id : {Fixed, Composed, Null}, key : Secrets \cup {Lost, Null},
                      state : {"absent", "created", "running", "exited"}]
    /\ schema \subseteq {"tables", "queue"}
    /\ {port, executing} \subseteq Terminals \cup {Null}
    /\ over \in BOOLEAN /\ asked \in 0..2
    /\ acted \subseteq Starts \X Tenants
    /\ DOMAIN cmd = Terminals
    /\ \A t \in Terminals :
         cmd[t].kind \in Kinds /\ cmd[t].step \in Steps /\ cmd[t].known \in Configurations

Idle == [kind |-> "db-prepare", step |-> "out", known |-> Blank]

\* A new machine; one with what another configuration has left on it; and one
\* whose container was made, and its identity never written down.
PreparationInit ==
    /\ torn = FALSE /\ schema = {} /\ port = Null
    /\ over = FALSE /\ executing = Null /\ asked = 0 /\ acted = {}
    /\ cmd = [t \in Terminals |-> Idle]
    /\ \/ /\ file = Blank
          /\ volume \in {Null, Lost} /\ network \in BOOLEAN /\ container = Nothing
       \/ /\ \E key \in Secrets :
               /\ file = [Blank EXCEPT !.password = key]
               /\ volume = key
               /\ container = [id |-> Fixed, key |-> key, state |-> "running"]
          /\ network = TRUE

-----------------------------------------------------------------------------
Known(t, f) == cmd[t].known[f]

Proceed(t, step) == cmd' = [cmd EXCEPT ![t].step = step]

At(t, step) == cmd[t].step = step

\* A command ends, and its child with it: the lock and the port are free.
Leave(t) ==
    /\ cmd' = [cmd EXCEPT ![t] = Idle]
    /\ port' = (IF port = t THEN Null ELSE port)
    /\ executing' = (IF executing = t THEN Null ELSE executing)

End(t) == Leave(t) /\ UNCHANGED <<over, asked, acted>>

\* A slip: only containers are asked for.
ContainersOnly == IF container = Nothing THEN {} ELSE {"container"}

\* scope_inventory; absent looks for the same.
Resources ==
    (IF container = Nothing THEN {} ELSE {"container"})
    \cup (IF volume = Null THEN {} ELSE {"volume"})
    \cup (IF network THEN {"network"} ELSE {})

\* snapshot: the container is the expected one in every detail, its password too.
Snapshot(id, key) ==
    /\ container.id = id /\ container.key = key
    /\ network /\ volume # Null
    /\ container.state \in {"running", "exited"}

Healthy(id, key) == Snapshot(id, key) /\ container.state = "running"

\* A connection is accepted: the password is the one the volume was made with.
Opens(key) == container.state = "running" /\ volume = key

\* database_ready, of a database that needs nothing installed.
Ready(key) == Opens(key) /\ schema = {"tables", "queue"}

-----------------------------------------------------------------------------
\* A slip: what was read when the command began is compared with itself.
BindStale(t, f, v) ==
    /\ ~torn /\ Known(t, f) = Null
    /\ file' = [file EXCEPT ![f] = v]

\* _bind_private_field, bind_selected_tenant: the file is opened for this process
\* alone, is as the command has read it, and holds nothing in this field.
Bind(t, f, v) ==
    /\ ~torn /\ file = cmd[t].known /\ file[f] = Null
    /\ file' = [file EXCEPT ![f] = v]

\* The field is bound and the file read again, at once.
Bound(t, f, v, step) ==
    /\ Bind(t, f, v)
    /\ cmd' = [cmd EXCEPT ![t] = [@ EXCEPT !.step = step, !.known = file']]
    /\ UNCHANGED <<torn, machine, port, progress>>

\* What the current step of a command would bind a field to.
Offered(t, f) ==
    CASE f = "password" /\ At(t, "drawing") -> Secrets
      [] f = "database" /\ At(t, "naming") -> {container.id}
      [] f = "start" /\ At(t, "deciding") /\ cmd[t].kind = "start" -> Starts
      [] f = "scope" /\ At(t, "deciding") /\ cmd[t].kind = "status-prepare" -> {"scope"}
      [] f = "tenant" /\ At(t, "binding") -> Tenants
      [] OTHER -> {}

\* A write fails, or the process dies in it: all of it is written, or a part.
WriteCutOff(t) ==
    /\ \E f \in Fields : \E v \in Offered(t, f) :
         /\ Bind(t, f, v)
         /\ UNCHANGED torn
    /\ End(t)
    /\ UNCHANGED machine

WriteTorn(t) ==
    /\ \E f \in Fields :
         Offered(t, f) # {} /\ ~torn /\ file = cmd[t].known /\ file[f] = Null
    /\ torn' = TRUE
    /\ End(t)
    /\ UNCHANGED <<file, machine>>

-----------------------------------------------------------------------------
\* A command is typed.
Type(t, kind) ==
    /\ At(t, "out")
    /\ cmd' = [cmd EXCEPT ![t] = [@ EXCEPT !.kind = kind, !.step = "loading"]]
    /\ UNCHANGED <<file, torn, machine, port, progress>>

\* Where a command goes with its configuration.
First == [kind \in Kinds |->
            CASE kind = "db-prepare" -> "inspecting"
              [] kind \in {"db-stop", "db-resume"} -> "operating"
              [] OTHER -> "checking"]

\* The configuration is read, and the bridge opened that the command needs.
Load(t) ==
    /\ At(t, "loading") /\ ~torn
    /\ cmd' = [cmd EXCEPT ![t] = [@ EXCEPT !.step = First[cmd[t].kind], !.known = file]]
    /\ IF First[cmd[t].kind] = "checking" /\ file.database = Fixed
       THEN port = Null /\ port' = t
       ELSE UNCHANGED port
    /\ UNCHANGED <<file, torn, machine, progress>>

-----------------------------------------------------------------------------
\* prepare_database decides from what it finds; unknown resources are refused.
Repairing(t) == container.id = Fixed /\ Known(t, "password") # Null

Inspect(t) ==
    /\ At(t, "inspecting")
    /\ Known(t, "database") = Null /\ Resources # {} => Repairing(t)
    /\ Known(t, "password") = Null => Resources = {}
    /\ Proceed(t, IF Known(t, "password") = Null THEN "drawing"
                  ELSE IF Repairing(t) THEN "repairing"
                  ELSE IF Known(t, "database") = Null THEN "verifying" ELSE "starting")
    /\ UNCHANGED <<file, torn, machine, port, progress>>

DrawPassword(t) ==
    /\ \E key \in Offered(t, "password") : Bound(t, "password", key, IF Known(t, "database") = Null
                                                      THEN "verifying" ELSE "starting")

\* operate("start"): nothing of the project exists, twice.
Verify(t) ==
    /\ At(t, "verifying") /\ Resources = {}
    /\ Proceed(t, "composing")
    /\ UNCHANGED <<file, torn, machine, port, progress>>

\* Compose makes what is missing, in this order, and starts the container; it
\* may be cut off after each, and what it has made stays.
Compose(t) ==
    /\ At(t, "composing")
    /\ LET key == Known(t, "password")
           made == IF container # Nothing THEN container
                   ELSE [id |-> Composed, key |-> key, state |-> "created"]
       IN
       \/ /\ network' = TRUE
          /\ UNCHANGED <<volume, container>> /\ End(t)
       \/ /\ network' = TRUE /\ volume' = (IF volume = Null THEN key ELSE volume)
          /\ container' \in {container, made} /\ End(t)
       \/ /\ network' = TRUE /\ volume' = (IF volume = Null THEN key ELSE volume)
          /\ container' = [made EXCEPT !.state = "running"]
          /\ \/ End(t)
             \/ Proceed(t, "identifying") /\ UNCHANGED <<port, progress>>
    /\ UNCHANGED <<file, torn, schema>>

\* The one container there is now is looked at, and its identity written down.
Identify(t) ==
    /\ At(t, "identifying")
    /\ Snapshot(container.id, Known(t, "password"))
    /\ Proceed(t, "naming")
    /\ UNCHANGED <<file, torn, machine, port, progress>>

\* The fixed container is reached through the bridge, and opens.
Repair(t) ==
    /\ At(t, "repairing")
    /\ Healthy(Fixed, Known(t, "password")) /\ Opens(Known(t, "password"))
    /\ port = Null /\ port' = t
    /\ Proceed(t, IF Known(t, "database") = Null THEN "naming" ELSE "migrating")
    /\ UNCHANGED <<file, torn, machine, progress>>

Name(t) ==
    /\ \E id \in Offered(t, "database") : Bound(t, "database", id, IF port = t THEN "migrating" ELSE "starting")

FoundRunning(t) ==
    /\ At(t, "starting")
    /\ Healthy(Known(t, "database"), Known(t, "password"))
    /\ Proceed(t, "migrating")
    /\ UNCHANGED <<file, torn, machine, port, progress>>

\* The migration, in one transaction; the child's failure tells nothing of it.
Migrate(t) ==
    /\ At(t, "migrating")
    /\ Healthy(Known(t, "database"), Known(t, "password")) /\ Opens(Known(t, "password"))
    /\ schema' = schema \cup {"tables"}
    /\ \/ Proceed(t, "installing") /\ UNCHANGED <<port, progress>>
       \/ End(t)
    /\ UNCHANGED <<file, torn, volume, network, container>>

InstallQueue(t) ==
    /\ At(t, "installing")
    /\ Opens(Known(t, "password")) /\ "tables" \in schema
    /\ schema' = schema \cup {"queue"}
    /\ End(t)
    /\ UNCHANGED <<file, torn, volume, network, container>>

\* db-stop and db-resume, of the container written down.
Operate(t) ==
    /\ At(t, "operating")
    /\ Known(t, "database") # Null
    /\ Snapshot(Known(t, "database"), Known(t, "password"))
    /\ container' = [container EXCEPT !.state =
                       IF cmd[t].kind = "db-stop" THEN "exited" ELSE "running"]
    /\ End(t)
    /\ UNCHANGED <<file, torn, volume, network, schema>>

-----------------------------------------------------------------------------
\* prepared_config, which reads the file once more: all that is local is ready
\* before any clock starts.
Check(t) ==
    /\ At(t, "checking") /\ ~torn
    /\ file.password # Null /\ file.database # Null
    /\ Healthy(file.database, file.password)
    /\ cmd' = [cmd EXCEPT ![t] = [@ EXCEPT !.step = "connecting", !.known = file]]
    /\ UNCHANGED <<file, torn, machine, port, progress>>

\* A slip: a connection is enough.
ConnectOnly(t) ==
    /\ At(t, "connecting") /\ Opens(Known(t, "password"))
    /\ Proceed(t, "deciding")
    /\ UNCHANGED <<file, torn, machine, port, progress>>

Connect(t) ==
    /\ At(t, "connecting") /\ Ready(Known(t, "password"))
    /\ Proceed(t, "deciding")
    /\ UNCHANGED <<file, torn, machine, port, progress>>

\* The start is recorded once; to resume, and to start again, is to go on with it.
RecordStart(t) ==
    /\ \E s \in Offered(t, "start") : Bound(t, "start", s, "launching")

UseStart(t) ==
    /\ At(t, "deciding") /\ cmd[t].kind \in {"start", "resume"}
    /\ Known(t, "start") # Null /\ ~over
    /\ Proceed(t, "launching")
    /\ UNCHANGED <<file, torn, machine, port, progress>>

\* prepare_scope, of the status notices.
BindScope(t) ==
    /\ \E scope \in Offered(t, "scope") : Bind(t, "scope", scope)
    /\ End(t)
    /\ UNCHANGED <<torn, machine>>

\* execute_exercise, the child, reads the file again and finds what its parent
\* has given it.  The tenant is asked for under the execution lock, and only if
\* nothing was asked for before.
Launch(t) ==
    /\ At(t, "launching") /\ ~torn /\ ~over
    /\ file.start = Known(t, "start") /\ file.tenant = Known(t, "tenant")
    /\ Ready(file.password)
    /\ \/ /\ file.tenant = Null
          /\ executing = Null /\ asked = 0
          /\ executing' = t
          /\ cmd' = [cmd EXCEPT ![t] = [@ EXCEPT !.step = "looking", !.known = file]]
       \/ /\ file.tenant # Null
          /\ cmd' = [cmd EXCEPT ![t] = [@ EXCEPT !.step = "sending", !.known = file]]
          /\ UNCHANGED executing
    /\ UNCHANGED <<file, torn, machine, port, over, asked, acted>>

LookUp(t) ==
    /\ At(t, "looking") /\ ~over
    /\ asked' = asked + 1
    /\ Proceed(t, "binding")
    /\ UNCHANGED <<file, torn, machine, port, over, executing, acted>>

\* The tenant found is bound where none is; the lock is released with it.
BindTenant(t) ==
    /\ ~over
    /\ \E tenant \in Offered(t, "tenant") : Bind(t, "tenant", tenant)
    /\ cmd' = [cmd EXCEPT ![t] = [@ EXCEPT !.step = "sending", !.known = file']]
    /\ executing' = Null
    /\ UNCHANGED <<torn, machine, port, over, asked, acted>>

\* run_two_tasks, of module Exercise, under the start and the tenant.
Send(t) ==
    /\ At(t, "sending") /\ ~over /\ executing = Null /\ Opens(Known(t, "password"))
    /\ acted' = acted \cup {<<Known(t, "start"), Known(t, "tenant")>>}
    /\ Leave(t)
    /\ UNCHANGED <<file, torn, machine, over, asked>>

-----------------------------------------------------------------------------
\* A check of the current step refuses, a call fails, or the process is killed.
\* Nothing is undone.
Ends(t) ==
    /\ ~At(t, "out")
    /\ End(t)
    /\ UNCHANGED <<file, torn, machine>>

WindowCloses ==
    /\ ~over /\ file.start # Null /\ over' = TRUE
    /\ UNCHANGED <<file, torn, machine, port, executing, asked, acted, cmd>>

CommandStep(t) ==
    \/ \E kind \in Kinds : Type(t, kind)
    \/ Load(t)
    \/ Inspect(t) \/ DrawPassword(t) \/ Verify(t) \/ Compose(t)
    \/ Identify(t) \/ Repair(t) \/ Name(t) \/ FoundRunning(t)
    \/ Migrate(t) \/ InstallQueue(t) \/ Operate(t)
    \/ Check(t) \/ Connect(t) \/ RecordStart(t) \/ UseStart(t) \/ BindScope(t)
    \/ Launch(t) \/ LookUp(t) \/ BindTenant(t) \/ Send(t)
    \/ WriteCutOff(t) \/ WriteTorn(t) \/ Ends(t)

PreparationNext == (\E t \in Terminals : CommandStep(t)) \/ WindowCloses

PreparationSpec == PreparationInit /\ [][PreparationNext]_preparationVars

-----------------------------------------------------------------------------
\* The container written down is a database that the password in the file opens:
\* no volume of another configuration is adopted, and no key is drawn for one
\* ("Unknown resources are refused, never adopted", c1_database.py).
OpensItsDatabase ==
    file.database # Null =>
        /\ container.id = file.database
        /\ container.key = file.password /\ volume = file.password

\* However often the exercise is started, resumed and cut off, from however many
\* terminals, its messages are sent for one start and one tenant ("retained
\* across retries", c1_config.py).
OneStartOneTenant == Cardinality(acted) <= 1

\* "All local readiness before any permission clock" (start_exercise), as far as
\* no other terminal can undo it: the thirty minutes begin when the database that
\* the file names is installed to its end, queue and all, and it and its volume
\* were made with the file's password.  That it runs is checked before (Check,
\* Connect) and not held: db-stop may come in between.
ClockStartsInstalled ==
    [][file'.start # file.start =>
         /\ schema = {"tables", "queue"}
         /\ container.id = file.database /\ volume = file.password]_preparationVars
=============================================================================
