------------------------- MODULE RegistrationProxy -------------------------
(***************************************************************************)
(* The registration proxy, crates/signal-registration-proxy: the registry  *)
(* of phone numbers behind one tokio RwLock, the handlers that change it   *)
(* and its encrypted file.                                                 *)
(*                                                                         *)
(* Every handler has the same shape: look at the record under the read     *)
(* guard, drop the guard, call signal-cli, take the write guard, change    *)
(* the record and save the whole registry before the guard is dropped.     *)
(* There is a step for each await, because between two of them the other   *)
(* requests run, the client may hang up or the process may die.  A request *)
(* that is refused changes nothing and has no step.                        *)
(*                                                                         *)
(* signal-cli is external: accounts says what it knows of each number.     *)
(***************************************************************************)
EXTENDS Naturals, FiniteSets

CONSTANTS Tasks,        \* connections, each with one request at a time
          Numbers,      \* normalized phone numbers
          Secrets,      \* ownership secrets
          Configs,      \* a model and system prompt
          Nothing,      \* no secret, no configuration, nobody
          MaxRequests,  \* bound: requests admitted
          MaxFaults,    \* bound: faults of any kind
          MaxRestarts   \* bound: restarts

ASSUME ProxyAssumption ==
    /\ Nothing \notin Tasks \cup Secrets \cup Configs
    /\ MaxRequests \in Nat /\ MaxFaults \in Nat /\ MaxRestarts \in Nat

VARIABLES registry,   \* the record of each number in memory
          mode,       \* the Store variant chosen at the start
          file, tmp,  \* registry.enc and its temporary file
          accounts,   \* signal-cli's account for each number
          task,       \* the request of each task and how far it is
          writer,     \* the holder of the write guard
          sealed,     \* what a task has encrypted for the file
          fd,         \* the name the file opened by a task has now
          begun, faults, restarts,
          unsaved,    \* a save was disturbed and none made up for it since
          calm,       \* no leftover file call ran when this save began
          disturbed   \* numbers with overlapping or interrupted requests

files == <<file, tmp, fd>>
counters == <<begun, faults, restarts>>
vars == <<registry, mode, file, tmp, accounts, task, writer, sealed, fd,
          begun, faults, restarts, unsaved, calm, disturbed>>

-----------------------------------------------------------------------------
(* Records, files and accounts. *)

\* PhoneNumberRecord.  "absent" stands for a number without a record; Failed
\* is never assigned.  named: a username is recorded.
Record == [status : {"absent", "pending", "verified"},
           owner  : Secrets \cup {Nothing},
           config : Configs \cup {Nothing},
           named  : BOOLEAN]

NoRecord == [status |-> "absent", owner |-> Nothing, config |-> Nothing,
             named |-> FALSE]
NoRecords == [n \in Numbers |-> NoRecord]

NewPending(secret, config) ==
    [status |-> "pending", owner |-> secret, config |-> config, named |-> FALSE]

MarkVerified(r) == [r EXCEPT !.status = "verified"]

\* What is not given stays as it is.
UpdateConfig(r, config) ==
    IF config = Nothing THEN r ELSE [r EXCEPT !.config = config]

\* Without a stored hash any caller is the owner.
VerifyOwnership(r, secret) == r.owner \in {Nothing, secret}

\* The keys derive_key may return: DeriveKey's, or the one it computes from
\* AppInfo when DeriveKey does not answer.
Keys == {"derived", "fallback"}

\* An encrypted registry, or a file that is missing or not whole.
File == [key : Keys \cup {"missing", "partial"}, records : [Numbers -> Record]]
Missing == [key |-> "missing", records |-> NoRecords]
Partial == [key |-> "partial", records |-> NoRecords]

Account == {"none", "pending", "registered"}

-----------------------------------------------------------------------------
(* Requests. *)

\* The operations that call signal-cli and those that do not.
Ops == {"register", "verify", "unregister", "force_unregister",
        "set_username", "delete_username", "profile", "adopt",
        "update_config", "health"}

Phases == {"idle", "calling", "unregistering", "retrying", "checking_health",
           "locking", "deriving", "opening", "writing", "renaming"}
CallPhases == {"calling", "unregistering", "retrying"}
FilePhases == {"opening", "writing", "renaming"}
SavePhases == {"deriving"} \cup FilePhases

Idle == [phase |-> "idle", op |-> "health", number |-> Nothing,
         secret |-> Nothing, config |-> Nothing]
Task == {Idle} \cup
        [phase : Phases \ {"idle"}, op : Ops, number : Numbers,
         secret : Secrets \cup {Nothing}, config : Configs \cup {Nothing}]

\* The operations that remove the record once signal-cli has unregistered the
\* number, and those whose handlers end with signal-cli's answer.  The record
\* keeps a username that was deleted.
Removals == {"unregister", "force_unregister"}
OnlyCalls == {"delete_username", "profile"}

\* A task has dropped its guard while a file call of its save still runs.
Leftover(w) == task[w].phase \in FilePhases /\ writer # w

HealthReaders == {w \in Tasks : task[w].phase = "checking_health"}

\* Requests that have looked at n's record and not yet changed it.
Undecided(n) == {w \in Tasks : /\ task[w].phase \in CallPhases \cup {"locking"}
                               /\ task[w].number = n}

Move(w, phase) == task' = [task EXCEPT ![w].phase = phase]
End(w) == task' = [task EXCEPT ![w] = Idle]
Fault == faults < MaxFaults /\ faults' = faults + 1
NoFault == UNCHANGED faults

Init ==
    /\ registry = NoRecords
    /\ mode = "encrypted"
    /\ file = Missing /\ tmp = Missing
    /\ accounts \in [Numbers -> {"none", "registered"}]
    /\ task = [w \in Tasks |-> Idle]
    /\ writer = Nothing
    /\ sealed = [w \in Tasks |-> Missing]
    /\ fd = [w \in Tasks |-> "none"]
    /\ begun = 0 /\ faults = 0 /\ restarts = 0
    /\ unsaved = FALSE /\ calm = TRUE /\ disturbed = {}

\* What each handler wants of the record r before it calls signal-cli.  A
\* pending registration may be tried again by its owner; adoption asks only
\* whether the number is taken.
MayRegister(r, secret) ==
    \/ r.status = "absent"
    \/ r.status = "pending" /\ VerifyOwnership(r, secret)
MayVerify(r, secret) == r.status = "pending" /\ VerifyOwnership(r, secret)
MayUnregister(r, secret) == r.status # "absent" /\ VerifyOwnership(r, secret)
MayAdopt(r) == r.status # "verified"
OwnsVerified(r, secret) == r.status = "verified" /\ VerifyOwnership(r, secret)

Accepts(op, r, secret) ==
    CASE op = "register"   -> MayRegister(r, secret)
      [] op = "verify"     -> MayVerify(r, secret)
      [] op = "unregister" -> MayUnregister(r, secret)
      [] op = "adopt"      -> MayAdopt(r)
      [] op \in {"force_unregister", "health"} -> TRUE
      [] OTHER -> OwnsVerified(r, secret)

FirstPhase(op) == CASE op = "health"        -> "checking_health"
                    [] op = "update_config" -> "locking"
                    [] OTHER                -> "calling"

\* A request arrives, gets a read guard and passes the checks.  health keeps
\* its guard while it calls signal-cli, the others drop it.
Begin(w, op, n, secret, config) ==
    /\ task[w] = Idle
    /\ begun < MaxRequests
    /\ writer = Nothing
    /\ Accepts(op, registry[n], secret)
    /\ task' = [task EXCEPT ![w] = [phase |-> FirstPhase(op), op |-> op,
                  number |-> n, secret |-> secret, config |-> config]]
    /\ begun' = begun + 1
    /\ disturbed' = IF op # "health" /\ Undecided(n) # {}
                    THEN disturbed \cup {n} ELSE disturbed
    /\ UNCHANGED <<registry, mode, files, accounts, writer, sealed,
                   faults, restarts, unsaved, calm>>

-----------------------------------------------------------------------------
(* Calls to signal-cli. *)

\* What a task is asking signal-cli for.
CallOf(t) == CASE t.phase = "unregistering" -> "unregister"
               [] t.phase = "retrying"      -> "register"
               [] t.phase = "calling" /\ t.op \in Removals -> "unregister"
               [] OTHER                     -> t.op

\* Whether signal-cli can do it for an account in state a; adopt asks for the
\* list of registered accounts.
Possible(call, a) == CASE call = "register"   -> a # "registered"
                       [] call = "verify"     -> a = "pending"
                       [] call = "unregister" -> a # "none"
                       [] OTHER               -> a = "registered"

AfterCall(call, a) == CASE call = "register"   -> "pending"
                        [] call = "verify"     -> "registered"
                        [] call = "unregister" -> "none"
                        [] OTHER               -> a

\* signal-cli does what w asks for.
TakeEffect(w) ==
    LET n == task[w].number
        call == CallOf(task[w])
    IN  /\ task[w].phase \in CallPhases
        /\ Possible(call, accounts[n])
        /\ accounts' = [accounts EXCEPT ![n] = AfterCall(call, @)]

CallSucceeds(w) ==
    /\ TakeEffect(w)
    /\ IF task[w].phase = "unregistering"
       THEN Move(w, "retrying")
       ELSE IF task[w].op \in OnlyCalls
            THEN End(w)
            ELSE Move(w, "locking")
    /\ UNCHANGED <<registry, mode, files, writer, sealed, counters, unsaved,
                   calm, disturbed>>

\* register is told that the account exists, and unregisters it to try again.
AlreadyRegistered(w) ==
    /\ task[w].phase = "calling"
    /\ task[w].op = "register"
    /\ accounts[task[w].number] = "registered"
    /\ Move(w, "unregistering")
    /\ UNCHANGED <<registry, mode, files, accounts, writer, sealed, counters,
                   unsaved, calm, disturbed>>

\* An error, which the handler returns; also what a client that hangs up
\* before the call has an effect leaves behind.
CallFails(w) ==
    /\ task[w].phase \in CallPhases
    /\ End(w)
    /\ UNCHANGED <<registry, mode, files, accounts, writer, sealed, counters,
                   unsaved, calm, disturbed>>

\* The call has its effect, but its answer is lost, late or never awaited.
CallLost(w) ==
    /\ TakeEffect(w)
    /\ Fault
    /\ End(w)
    /\ disturbed' = disturbed \cup {task[w].number}
    /\ UNCHANGED <<registry, mode, files, writer, sealed, begun, restarts,
                   unsaved, calm>>

HealthDone(w) ==
    /\ task[w].phase = "checking_health"
    /\ End(w)
    /\ UNCHANGED <<registry, mode, files, accounts, writer, sealed, counters,
                   unsaved, calm, disturbed>>

-----------------------------------------------------------------------------
(* The change of the record and the save, under the write guard. *)

\* The records that set_username may leave: what is recorded is the username
\* that signal-cli answered, which may be none.
SetUsername(r) == {[r EXCEPT !.named = b] : b \in BOOLEAN}

\* A new record, pending or adopted.
Registered(t) == NewPending(t.secret, t.config)
Adopted(t) == MarkVerified(NewPending(t.secret, t.config))

\* What the handlers that keep the record make of it.
Edited(t, r) ==
    CASE t.op = "verify"        -> {MarkVerified(r)}
      [] t.op = "set_username"  -> SetUsername(r)
      [] t.op = "update_config" -> {UpdateConfig(r, t.config)}
      [] OTHER                  -> {r}

\* Mutant: the forced removal leaves the record in place.
Changed_ForceKeepsRecord(t, r) ==
    CASE t.op = "register"   -> {Registered(t)}
      [] t.op = "adopt"      -> {Adopted(t)}
      [] t.op = "unregister" -> {NoRecord}
      [] OTHER               -> {r}

\* The record that replaces r.  A record that is gone stays gone.
Changed(t, r) ==
    CASE t.op = "register"    -> {Registered(t)}
      [] t.op = "adopt"       -> {Adopted(t)}
      [] t.op \in Removals    -> {NoRecord}
      [] OTHER                -> IF r = NoRecord THEN {r} ELSE Edited(t, r)

\* update_bot_config finds that the record is gone, and saves nothing.
NotFound(w) == task[w].op = "update_config" /\ registry[task[w].number] = NoRecord

ConfigNotFound(w) ==
    /\ task[w].phase = "locking"
    /\ writer = Nothing /\ HealthReaders = {}
    /\ NotFound(w)
    /\ End(w)
    /\ UNCHANGED <<registry, mode, files, accounts, writer, sealed, counters,
                   unsaved, calm, disturbed>>

\* Mutant: verify_registration forgets to save.
Lock_VerifyNotSaved(w) ==
    LET n == task[w].number
    IN  /\ task[w].phase = "locking"
        /\ writer = Nothing /\ HealthReaders = {}
        /\ ~NotFound(w)
        /\ \E r \in Changed(task[w], registry[n]) :
              registry' = [registry EXCEPT ![n] = r]
        /\ IF mode = "memory" \/ task[w].op = "verify"
           THEN End(w) /\ UNCHANGED writer
           ELSE Move(w, "deriving") /\ writer' = w
        /\ UNCHANGED <<mode, files, accounts, sealed, counters, unsaved, calm,
                       disturbed>>

\* The write guard is granted, the record changed, the save begun.  The memory
\* store has nothing to save.
Lock(w) ==
    LET n == task[w].number
    IN  /\ task[w].phase = "locking"
        /\ writer = Nothing /\ HealthReaders = {}
        /\ ~NotFound(w)
        /\ \E r \in Changed(task[w], registry[n]) :
              registry' = [registry EXCEPT ![n] = r]
        /\ IF mode = "memory"
           THEN End(w) /\ UNCHANGED writer
           ELSE Move(w, "deriving") /\ writer' = w
        /\ UNCHANGED <<mode, files, accounts, sealed, counters, unsaved, calm,
                       disturbed>>

\* derive_key, which asks the guest agent every time, and the encryption.
Derive(w) ==
    /\ task[w].phase = "deriving"
    /\ \E k \in Keys :
          /\ IF k = "derived" THEN NoFault ELSE Fault
          /\ sealed' = [sealed EXCEPT ![w] = [key |-> k, records |-> registry]]
    /\ Move(w, "opening")
    /\ UNCHANGED <<registry, mode, files, accounts, writer, begun, restarts,
                   unsaved, calm, disturbed>>

\* fs::write, first half: create or truncate the temporary file.
Open(w) ==
    /\ task[w].phase = "opening"
    /\ tmp' = Partial
    /\ fd' = [fd EXCEPT ![w] = "tmp"]
    /\ calm' = IF writer = w THEN \A v \in Tasks : ~Leftover(v) ELSE calm
    /\ Move(w, "writing")
    /\ UNCHANGED <<registry, mode, file, accounts, writer, sealed, counters,
                   unsaved, disturbed>>

\* The file w has open becomes f, under the name it has now.
PutFile(w, f) ==
    /\ tmp'  = IF fd[w] = "tmp"  THEN f ELSE tmp
    /\ file' = IF fd[w] = "main" THEN f ELSE file

\* The request of w and its save are over, and the guard is dropped.
Finish(w) ==
    /\ End(w)
    /\ sealed' = [sealed EXCEPT ![w] = Missing]
    /\ writer' = IF writer = w THEN Nothing ELSE writer

\* fs::write, second half.  Over what another task wrote since, the result may
\* be neither.  A leftover call ends here: nobody is left to rename the file.
Write(w) ==
    /\ task[w].phase = "writing"
    /\ \E f \in {sealed[w], Partial} :
          /\ f = Partial => \/ (fd[w] = "tmp"  /\ tmp.key # "partial")
                            \/ (fd[w] = "main" /\ file.key # "partial")
          /\ PutFile(w, f)
    /\ fd' = [fd EXCEPT ![w] = "none"]
    /\ IF writer = w THEN Move(w, "renaming") /\ UNCHANGED <<writer, sealed>>
                     ELSE Finish(w)
    /\ UNCHANGED <<registry, mode, accounts, counters, unsaved, calm, disturbed>>

\* The name of an open file after the rename.
RenamedTo == [none |-> "none", tmp |-> "main", main |-> "gone", gone |-> "gone"]

\* fs::rename, the end of save.  It fails if a leftover call has renamed the
\* temporary file already.
Rename(w) ==
    /\ task[w].phase = "renaming"
    /\ \/ /\ tmp # Missing
          /\ file' = tmp /\ tmp' = Missing
          /\ fd' = [v \in Tasks |-> RenamedTo[fd[v]]]
          /\ unsaved' = IF writer = w THEN ~calm ELSE unsaved
       \/ /\ tmp = Missing
          /\ unsaved' = TRUE
          /\ UNCHANGED files
    /\ Finish(w)
    /\ UNCHANGED <<registry, mode, accounts, counters, calm, disturbed>>

-----------------------------------------------------------------------------
(* Faults. *)

\* Mutant: the guard survives a failed save.
SaveFails_KeepingGuard(w) ==
    /\ task[w].phase \in SavePhases
    /\ Fault
    /\ unsaved' = TRUE
    /\ fd' = [fd EXCEPT ![w] = "none"]
    /\ End(w)
    /\ UNCHANGED <<registry, mode, file, tmp, accounts, writer, sealed, begun,
                   restarts, calm, disturbed>>

\* Key derivation or a file operation fails: the error is returned, the
\* registry in memory keeps the change.
SaveFails(w) ==
    /\ task[w].phase \in SavePhases
    /\ Fault
    /\ unsaved' = TRUE
    /\ \/ UNCHANGED <<file, tmp>>
       \/ (task[w].phase = "writing" /\ PutFile(w, Partial))
    /\ fd' = [fd EXCEPT ![w] = "none"]
    /\ Finish(w)
    /\ UNCHANGED <<registry, mode, accounts, begun, restarts, calm, disturbed>>

\* The client hangs up and the handler is dropped: before it got the write
\* guard, or with the guard.  A file call that has been handed over runs on.
Disconnect(w) ==
    /\ Fault
    /\ \/ /\ task[w].phase = "locking"
          /\ End(w)
          /\ disturbed' = disturbed \cup {task[w].number}
          /\ UNCHANGED <<writer, sealed, unsaved>>
       \/ /\ writer = w
          /\ unsaved' = TRUE
          /\ \/ /\ task[w].phase # "writing"
                /\ Finish(w)
             \/ /\ task[w].phase \in FilePhases
                /\ writer' = Nothing
                /\ UNCHANGED <<task, sealed>>
          /\ UNCHANGED disturbed
    /\ UNCHANGED <<registry, mode, files, accounts, begun, restarts, calm>>

\* Mutant: a file that exists is not read.
Loaded_Never(f, k) == NoRecords

\* load with the key k, and main: what cannot be read is an empty registry.
Loaded(f, k) == IF f.key = k THEN f.records ELSE NoRecords

\* The process dies and is started again.  If the guest agent does not answer
\* then, the store keeps nothing; if only DeriveKey fails, the key is another.
Restart ==
    /\ restarts < MaxRestarts
    /\ restarts' = restarts + 1
    /\ \/ UNCHANGED <<file, tmp>>
       \/ \E w \in Tasks : task[w].phase = "writing" /\ PutFile(w, Partial)
    /\ \E k \in Keys, m \in {"encrypted", "memory"} :
          /\ IF k = "derived" /\ m = "encrypted" THEN NoFault ELSE Fault
          /\ mode' = m
          /\ registry' = IF m = "encrypted" THEN Loaded(file', k) ELSE NoRecords
          /\ unsaved' = ~(m = "encrypted" /\ file'.key \in {k, "missing"})
    /\ task' = [w \in Tasks |-> Idle]
    /\ writer' = Nothing
    /\ sealed' = [w \in Tasks |-> Missing]
    /\ fd' = [w \in Tasks |-> "none"]
    /\ calm' = TRUE
    /\ disturbed' = disturbed \cup
          {n \in Numbers : Undecided(n) # {} \/ registry'[n] # registry[n]}
    /\ UNCHANGED <<accounts, begun>>

-----------------------------------------------------------------------------
Progress(w) ==
    \/ CallSucceeds(w) \/ AlreadyRegistered(w) \/ CallFails(w) \/ CallLost(w)
    \/ HealthDone(w) \/ ConfigNotFound(w)
    \/ Lock(w) \/ Derive(w) \/ Open(w) \/ Write(w) \/ Rename(w)

Next ==
    \/ \E w \in Tasks :
          \/ \E op \in Ops, n \in Numbers, secret \in Secrets \cup {Nothing},
                config \in Configs \cup {Nothing} : Begin(w, op, n, secret, config)
          \/ Progress(w)
          \/ SaveFails(w)
          \/ Disconnect(w)
    \/ Restart

Spec == Init /\ [][Next]_vars

\* Every handler is polled.  signal-cli answers or the client's 120 seconds
\* run out; the guest agent, for which there is no timeout, answers.
FairSpec == Spec /\ \A w \in Tasks : WF_vars(Progress(w))

-----------------------------------------------------------------------------
(* Properties. *)

\* Records, files and tasks are well formed, and whoever holds the write guard
\* is saving and shares it with no reader.
TypeOK ==
    /\ registry \in [Numbers -> Record]
    /\ mode \in {"encrypted", "memory"}
    /\ file \in File /\ tmp \in File
    /\ accounts \in [Numbers -> Account]
    /\ task \in [Tasks -> Task]
    /\ sealed \in [Tasks -> File]
    /\ fd \in [Tasks -> {"none", "tmp", "main", "gone"}]
    /\ begun \in Nat /\ faults \in Nat /\ restarts \in Nat
    /\ unsaved \in BOOLEAN /\ calm \in BOOLEAN
    /\ disturbed \subseteq Numbers
    /\ writer \in Tasks \cup {Nothing}
    /\ writer # Nothing => /\ task[writer].phase \in SavePhases
                           /\ HealthReaders = {}

\* "Write atomically using temp file + rename": whenever nobody is saving, the
\* file is the whole registry in memory, whatever order the handlers' changes
\* were made in; a save that was disturbed is made up for by the next one that
\* is not.
SavedIsCurrent ==
    writer = Nothing /\ ~unsaved =>
        /\ mode = "encrypted"
        /\ file.key # "partial"
        /\ file.records = registry

\* "Persistence: Registration state must survive container restarts": it does,
\* record for record, if the last save was not disturbed and DeriveKey answered
\* both then and at the restart.
RestartForgetsNothing ==
    [][restarts' # restarts /\ faults' = faults
          /\ writer = Nothing /\ ~unsaved /\ file.key # "fallback"
        => registry' = registry]_vars

\* A verified record has a registered account, a pending one an account that
\* waits for its code.
Agrees(n) ==
    /\ registry[n].status = "verified" => accounts[n] = "registered"
    /\ registry[n].status = "pending"  => accounts[n] = "pending"

\* For a number whose requests neither overlapped nor were interrupted, the
\* record agrees with signal-cli's account between its requests, whatever
\* calls failed, were refused or were tried again.
RecordMatchesAccount ==
    \A n \in Numbers \ disturbed : Undecided(n) = {} => Agrees(n)

\* Every request ends: no handler is stuck behind a guard that was not given
\* back by a failed save, a hung-up client or a health check.
EveryRequestEnds == \A w \in Tasks : task[w] # Idle ~> task[w] = Idle

\* "Same deployment can always decrypt its data": a restart finds every record
\* of a file that was saved whole.
SameDeploymentDecrypts ==
    [][restarts' # restarts /\ mode' = "encrypted" /\ file'.key \in Keys
          => registry' = file'.records]_vars

=============================================================================
