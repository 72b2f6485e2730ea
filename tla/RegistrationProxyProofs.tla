---------------------- MODULE RegistrationProxyProofs ----------------------
(***************************************************************************)
(* Proofs about RegistrationProxy for all numbers, connections and bounds: *)
(* type correctness and the exclusive write guard, the agreement of file   *)
(* and memory, what a restart keeps, and the agreement of the records with *)
(* signal-cli's accounts.                                                  *)
(***************************************************************************)
EXTENDS RegistrationProxy, TLAPS

-----------------------------------------------------------------------------
(* Lemmas about the data. *)

\* Missing and partial files are files, and records are well formed.
LEMMA DataTypes ==
    /\ NoRecord \in Record
    /\ NoRecords \in [Numbers -> Record]
    /\ Missing \in File /\ Partial \in File
    /\ \A s \in Secrets \cup {Nothing}, c \in Configs \cup {Nothing} :
          NewPending(s, c) \in Record
<1>1. NoRecord \in Record
  BY DEF NoRecord, Record
<1>2. NoRecords \in [Numbers -> Record]
  BY <1>1 DEF NoRecords
<1>3. Missing \in File /\ Partial \in File
  BY <1>2 DEF Missing, Partial, File, Keys
<1>4. \A s \in Secrets \cup {Nothing}, c \in Configs \cup {Nothing} :
          NewPending(s, c) \in Record
  BY DEF NewPending, Record
<1> QED
  BY <1>1, <1>2, <1>3, <1>4

\* A task in some phase has all the fields of a request.
LEMMA BusyTask ==
    ASSUME NEW t \in Task, t.phase # "idle"
    PROVE  /\ t # Idle
           /\ t \in [phase : Phases \ {"idle"}, op : Ops, number : Numbers,
                     secret : Secrets \cup {Nothing},
                     config : Configs \cup {Nothing}]
BY DEF Task, Idle

\* Move changes the phase of one task and nothing else.
LEMMA MoveChangesPhase ==
    ASSUME task \in [Tasks -> Task], NEW w \in Tasks, task[w].phase # "idle",
           NEW p \in Phases \ {"idle"}, Move(w, p)
    PROVE  /\ task' \in [Tasks -> Task]
           /\ task'[w].phase = p
           /\ task'[w].op = task[w].op
           /\ task'[w].number = task[w].number
           /\ task'[w].secret = task[w].secret
           /\ task'[w].config = task[w].config
           /\ \A v \in Tasks \ {w} : task'[v] = task[v]
<1> DEFINE t == task[w]
           u == [phase |-> p, op |-> t.op, number |-> t.number,
                 secret |-> t.secret, config |-> t.config]
<1>1. t \in [phase : Phases \ {"idle"}, op : Ops, number : Numbers,
             secret : Secrets \cup {Nothing}, config : Configs \cup {Nothing}]
  BY BusyTask
<1>2. [t EXCEPT !.phase = p] = u
  BY <1>1
<1>3. u \in Task
  BY <1>1 DEF Task
<1>4. task' = [task EXCEPT ![w] = u]
  BY <1>2 DEF Move
<1> HIDE DEF t
<1>5. task'[w] = u
  BY <1>4
<1>6. \A v \in Tasks \ {w} : task'[v] = task[v]
  BY <1>4
<1>7. task' \in [Tasks -> Task]
  BY <1>3, <1>4
<1> QED
  BY <1>5, <1>6, <1>7 DEF t

\* End forgets the request of one task.
LEMMA EndMakesIdle ==
    ASSUME task \in [Tasks -> Task], NEW w \in Tasks, End(w)
    PROVE  /\ task' \in [Tasks -> Task]
           /\ task'[w] = Idle
           /\ task'[w].phase = "idle"
           /\ \A v \in Tasks \ {w} : task'[v] = task[v]
BY DEF End, Task, Idle

\* Whatever a handler makes of a record is a record.
LEMMA ChangedRecords ==
    ASSUME NEW t \in Task, t.phase # "idle", NEW r \in Record
    PROVE  Changed(t, r) \subseteq Record
<1>1. t.secret \in Secrets \cup {Nothing} /\ t.config \in Configs \cup {Nothing}
  BY BusyTask
<1>2. NewPending(t.secret, t.config) \in Record
  BY <1>1, DataTypes
<1>3. NoRecord \in Record
  BY DataTypes
<1>4. \A q \in Record : /\ [q EXCEPT !.status = "verified"] \in Record
                        /\ [q EXCEPT !.config = t.config] \in Record
                        /\ \A b \in BOOLEAN : [q EXCEPT !.named = b] \in Record
  BY <1>1 DEF Record
<1> QED
  BY <1>2, <1>3, <1>4
     DEF Changed, Edited, Registered, Adopted, Removals, MarkVerified, SetUsername,
         UpdateConfig

\* The status of the record that register and adopt put in.
LEMMA NewStatus ==
    ASSUME NEW t \in Task, t.phase # "idle", NEW r \in Record,
           NEW q \in Changed(t, r)
    PROVE  /\ t.op = "register" => q.status = "pending"
           /\ t.op = "adopt"    => q.status = "verified"
<1> DEFINE new == NewPending(t.secret, t.config)
<1>1. new \in Record /\ new.status = "pending"
  BY BusyTask, DataTypes DEF NewPending
<1>2. [new EXCEPT !.status = "verified"].status = "verified"
  BY <1>1 DEF Record
<1> HIDE DEF new
<1>3. CASE t.op = "register"
  <2>1. Changed(t, r) = {new}
    BY <1>3
     DEF Changed, Edited, Registered, Adopted, Removals, MarkVerified, SetUsername,
         UpdateConfig, new
  <2> QED
    BY <1>1, <1>3, <2>1
<1>4. CASE t.op = "adopt"
  <2>1. Changed(t, r) = {[new EXCEPT !.status = "verified"]}
    BY <1>4
     DEF Changed, Edited, Registered, Adopted, Removals, MarkVerified, SetUsername,
         UpdateConfig, new
  <2> QED
    BY <1>2, <1>4, <2>1
<1> QED
  BY <1>3, <1>4

LEMMA AccountAfterCall ==
    ASSUME NEW call, NEW a \in Account
    PROVE  AfterCall(call, a) \in Account
BY DEF AfterCall, Account

-----------------------------------------------------------------------------
(* Type correctness. *)

\* The write guard is held by a task that saves, with no reader beside it.
GuardOK ==
    writer # Nothing => task[writer].phase \in SavePhases /\ HealthReaders = {}

\* A step of w that leaves the guard where it is keeps the guard exclusive.
LEMMA GuardKept ==
    ASSUME TypeOK, NEW w \in Tasks, writer' = writer,
           \A v \in Tasks \ {w} : task'[v] = task[v],
           task'[w].phase # "checking_health",
           writer = w => task'[w].phase \in SavePhases
    PROVE  GuardOK'
<1> SUFFICES ASSUME writer # Nothing
             PROVE  task'[writer].phase \in SavePhases /\ HealthReaders' = {}
  BY DEF GuardOK
<1>1. writer \in Tasks /\ task[writer].phase \in SavePhases /\ HealthReaders = {}
  BY DEF TypeOK
<1>2. task'[writer].phase \in SavePhases
  BY <1>1
<1>3. \A v \in Tasks : task'[v].phase # "checking_health"
  BY <1>1 DEF HealthReaders
<1> QED
  BY <1>2, <1>3 DEF HealthReaders

\* What an end of a request and of its save does to the control state.
LEMMA FinishTypes ==
    ASSUME TypeOK, NEW w \in Tasks, Finish(w)
    PROVE  /\ task' \in [Tasks -> Task]
           /\ sealed' \in [Tasks -> File]
           /\ writer' \in Tasks \cup {Nothing}
           /\ GuardOK'
<1>1. /\ task' \in [Tasks -> Task]
      /\ task'[w].phase = "idle"
      /\ \A v \in Tasks \ {w} : task'[v] = task[v]
  BY EndMakesIdle DEF Finish, TypeOK
<1>2. sealed' \in [Tasks -> File]
  BY DataTypes DEF Finish, TypeOK
<1>3. writer' \in Tasks \cup {Nothing}
  BY DEF Finish, TypeOK
<1>4. GuardOK'
  <2>1. CASE writer = w
    BY <2>1 DEF Finish, GuardOK
  <2>2. CASE writer # w
    BY <1>1, <2>2, GuardKept DEF Finish
  <2> QED
    BY <2>1, <2>2
<1> QED
  BY <1>1, <1>2, <1>3, <1>4

LEMMA PutFileTypes ==
    ASSUME TypeOK, NEW w \in Tasks, NEW f \in File, PutFile(w, f)
    PROVE  file' \in File /\ tmp' \in File
BY DEF PutFile, TypeOK

\* The initial state is well formed.
LEMMA InitType == Init => TypeOK
<1> SUFFICES ASSUME Init PROVE TypeOK
  OBVIOUS
<1>1. task \in [Tasks -> Task]
  BY DEF Init, Task
<1>2. registry \in [Numbers -> Record] /\ sealed \in [Tasks -> File]
      /\ file \in File /\ tmp \in File
  BY DataTypes DEF Init
<1> QED
  BY <1>1, <1>2 DEF Init, TypeOK, Account

\* Every call to signal-cli keeps the state well formed.
LEMMA CallTypes ==
    ASSUME TypeOK, NEW w \in Tasks,
           \/ CallSucceeds(w) \/ AlreadyRegistered(w)
           \/ CallFails(w) \/ CallLost(w) \/ HealthDone(w) \/ ConfigNotFound(w)
    PROVE  TypeOK'
<1>1. /\ task[w].phase \in CallPhases \cup {"checking_health", "locking"}
      /\ task[w].phase # "idle" /\ task[w].phase \notin SavePhases
  BY DEF CallSucceeds, AlreadyRegistered, CallFails, CallLost, HealthDone, ConfigNotFound,
         TakeEffect, CallPhases, SavePhases, FilePhases
<1>2. writer # w
  BY <1>1, ProxyAssumption DEF TypeOK
<1>3. /\ task' \in [Tasks -> Task]
      /\ task'[w].phase \in {"idle", "retrying", "locking", "unregistering"}
      /\ \A v \in Tasks \ {w} : task'[v] = task[v]
  <2>1. CASE End(w)
    BY <2>1, EndMakesIdle DEF TypeOK
  <2>2. ASSUME NEW p \in {"retrying", "locking", "unregistering"}, Move(w, p)
        PROVE  <1>3!:
    BY <1>1, <2>2, MoveChangesPhase DEF TypeOK, Phases
  <2> QED
    BY <2>1, <2>2 DEF CallSucceeds, AlreadyRegistered, CallFails, CallLost,
                      HealthDone, ConfigNotFound
<1>4. accounts' \in [Numbers -> Account]
  BY AccountAfterCall DEF CallSucceeds, AlreadyRegistered, CallFails, CallLost,
         HealthDone, ConfigNotFound, TakeEffect, TypeOK
<1>5. /\ UNCHANGED <<registry, mode, files, writer, sealed, begun, restarts,
                     unsaved, calm>>
      /\ faults' \in Nat /\ disturbed' \subseteq Numbers
  <2>1. CASE CallLost(w)
    <3>1. task[w].number \in Numbers
      BY <1>1, BusyTask DEF TypeOK
    <3> QED
      BY <2>1, <3>1 DEF CallLost, Fault, TypeOK
  <2>2. CASE ~CallLost(w)
    BY <2>2 DEF CallSucceeds, AlreadyRegistered, CallFails, HealthDone, ConfigNotFound,
                counters, TypeOK
  <2> QED
    BY <2>1, <2>2
<1>6. GuardOK'
  BY <1>2, <1>3, <1>5, GuardKept
<1> QED
  BY <1>3, <1>4, <1>5, <1>6 DEF TypeOK, GuardOK, files

LEMMA BeginTypes ==
    ASSUME TypeOK, NEW w \in Tasks, NEW op \in Ops, NEW n \in Numbers,
           NEW secret \in Secrets \cup {Nothing},
           NEW config \in Configs \cup {Nothing}, Begin(w, op, n, secret, config)
    PROVE  TypeOK'
<1>1. FirstPhase(op) \in Phases \ {"idle"}
  BY DEF FirstPhase, Phases
<1>2. task' \in [Tasks -> Task]
  BY <1>1 DEF Begin, TypeOK, Task
<1>3. disturbed' \subseteq Numbers
  BY DEF Begin, TypeOK
<1> QED
  BY <1>2, <1>3 DEF Begin, TypeOK, files

LEMMA LockTypes ==
    ASSUME TypeOK, NEW w \in Tasks, Lock(w)
    PROVE  TypeOK'
<1> DEFINE n == task[w].number
<1>1. task[w] \in Task /\ task[w].phase = "locking" /\ n \in Numbers
  BY BusyTask DEF Lock, TypeOK
<1>2. registry' \in [Numbers -> Record]
  <2>1. PICK r \in Changed(task[w], registry[n]) :
            registry' = [registry EXCEPT ![n] = r]
    BY DEF Lock
  <2>2. r \in Record
    BY <1>1, ChangedRecords DEF TypeOK
  <2> QED
    BY <2>1, <2>2 DEF TypeOK
<1>3. /\ task' \in [Tasks -> Task]
      /\ \A v \in Tasks \ {w} : task'[v] = task[v]
      /\ \/ task'[w].phase = "idle" /\ writer' = writer
         \/ task'[w].phase = "deriving" /\ writer' = w
  <2>1. CASE End(w) /\ UNCHANGED writer
    BY <2>1, EndMakesIdle DEF TypeOK
  <2>2. CASE Move(w, "deriving") /\ writer' = w
    BY <1>1, <2>2, MoveChangesPhase DEF TypeOK, Phases
  <2> QED
    BY <2>1, <2>2 DEF Lock
<1>4. writer = Nothing /\ HealthReaders = {}
  BY DEF Lock
<1>5. HealthReaders' = {}
  BY <1>3, <1>4 DEF HealthReaders
<1> QED
  BY <1>2, <1>3, <1>4, <1>5 DEF Lock, TypeOK, SavePhases, files, counters

\* The steps of a save, by the holder of the guard or left over by one.
LEMMA SaveTypes ==
    ASSUME TypeOK, NEW w \in Tasks,
           Derive(w) \/ Open(w) \/ Write(w) \/ Rename(w) \/ SaveFails(w)
    PROVE  TypeOK'
<1>1. CASE Derive(w)
  <2>1. /\ task' \in [Tasks -> Task]
        /\ task'[w].phase = "opening"
        /\ \A v \in Tasks \ {w} : task'[v] = task[v]
    BY <1>1, MoveChangesPhase DEF Derive, TypeOK, Phases
  <2>2. sealed' \in [Tasks -> File]
    BY <1>1 DEF Derive, TypeOK, File
  <2>3. GuardOK'
    BY <1>1, <2>1, GuardKept DEF Derive, SavePhases, FilePhases
  <2>4. faults' \in Nat
    BY <1>1 DEF Derive, Fault, NoFault, TypeOK
  <2> QED
    BY <1>1, <2>1, <2>2, <2>3, <2>4 DEF Derive, TypeOK, GuardOK, files
<1>2. CASE Open(w)
  <2>1. /\ task' \in [Tasks -> Task]
        /\ task'[w].phase = "writing"
        /\ \A v \in Tasks \ {w} : task'[v] = task[v]
    BY <1>2, MoveChangesPhase DEF Open, TypeOK, Phases
  <2>2. GuardOK'
    BY <1>2, <2>1, GuardKept DEF Open, SavePhases, FilePhases
  <2>3. tmp' \in File /\ calm' \in BOOLEAN
    BY <1>2, DataTypes DEF Open, TypeOK
  <2> QED
    BY <1>2, <2>1, <2>2, <2>3 DEF Open, TypeOK, GuardOK, counters
<1>3. CASE Write(w)
  <2>1. /\ task' \in [Tasks -> Task]
        /\ sealed' \in [Tasks -> File]
        /\ writer' \in Tasks \cup {Nothing}
        /\ GuardOK'
    <3>1. CASE writer = w
      <4>1. /\ task' \in [Tasks -> Task]
            /\ task'[w].phase = "renaming"
            /\ \A v \in Tasks \ {w} : task'[v] = task[v]
        BY <1>3, <3>1, MoveChangesPhase DEF Write, TypeOK, Phases
      <4>2. GuardOK'
        BY <1>3, <3>1, <4>1, GuardKept DEF Write, SavePhases, FilePhases
      <4> QED
        BY <1>3, <3>1, <4>1, <4>2 DEF Write, TypeOK
    <3>2. CASE writer # w
      BY <1>3, <3>2, FinishTypes DEF Write
    <3> QED
      BY <3>1, <3>2
  <2>2. file' \in File /\ tmp' \in File
    <3>1. sealed[w] \in File /\ Partial \in File
      BY DataTypes DEF TypeOK
    <3> QED
      BY <1>3, <3>1, PutFileTypes DEF Write
  <2> QED
    BY <1>3, <2>1, <2>2 DEF Write, TypeOK, GuardOK, counters
<1>4. CASE Rename(w)
  <2>1. /\ file' \in File /\ tmp' \in File /\ unsaved' \in BOOLEAN
        /\ fd' \in [Tasks -> {"none", "tmp", "main", "gone"}]
    <3>1. \A name \in {"none", "tmp", "main", "gone"} :
             RenamedTo[name] \in {"none", "tmp", "main", "gone"}
      BY DEF RenamedTo
    <3>2. CASE tmp # Missing /\ file' = tmp /\ tmp' = Missing
                /\ fd' = [v \in Tasks |-> RenamedTo[fd[v]]]
                /\ unsaved' = IF writer = w THEN ~calm ELSE unsaved
      <4> HIDE DEF RenamedTo
      <4>1. fd' \in [Tasks -> {"none", "tmp", "main", "gone"}]
        BY <3>1, <3>2 DEF TypeOK
      <4> QED
        BY <3>2, <4>1, DataTypes DEF TypeOK
    <3>3. CASE unsaved' = TRUE /\ UNCHANGED files
      BY <3>3 DEF TypeOK, files
    <3> QED
      BY <1>4, <3>2, <3>3 DEF Rename
  <2> QED
    BY <1>4, <2>1, FinishTypes DEF Rename, TypeOK, GuardOK, counters
<1>5. CASE SaveFails(w)
  <2>1. file' \in File /\ tmp' \in File
    BY <1>5, DataTypes, PutFileTypes DEF SaveFails, TypeOK
  <2> QED
    BY <1>5, <2>1, FinishTypes DEF SaveFails, TypeOK, GuardOK, Fault
<1> QED
  BY <1>1, <1>2, <1>3, <1>4, <1>5

LEMMA DisconnectTypes ==
    ASSUME TypeOK, NEW w \in Tasks, Disconnect(w)
    PROVE  TypeOK'
<1>1. CASE task[w].phase = "locking" /\ End(w)
           /\ disturbed' = disturbed \cup {task[w].number}
           /\ UNCHANGED <<writer, sealed, unsaved>>
  <2>1. /\ task' \in [Tasks -> Task] /\ task'[w].phase = "idle"
        /\ \A v \in Tasks \ {w} : task'[v] = task[v]
    BY <1>1, EndMakesIdle DEF TypeOK
  <2>2. task[w].number \in Numbers
    BY <1>1, BusyTask DEF TypeOK
  <2>3. writer # w
    BY <1>1, ProxyAssumption DEF TypeOK, SavePhases, FilePhases
  <2>4. GuardOK'
    BY <1>1, <2>1, <2>3, GuardKept
  <2> QED
    BY <1>1, <2>1, <2>2, <2>4 DEF Disconnect, TypeOK, GuardOK, Fault, files
<1>2. CASE writer = w /\ unsaved' = TRUE /\ UNCHANGED disturbed
           /\ \/ Finish(w)
              \/ writer' = Nothing /\ UNCHANGED <<task, sealed>>
  <2>1. /\ task' \in [Tasks -> Task] /\ sealed' \in [Tasks -> File]
        /\ writer' = Nothing
    BY <1>2, FinishTypes DEF Finish, TypeOK
  <2> QED
    BY <1>2, <2>1 DEF Disconnect, TypeOK, Fault, files
<1> QED
  BY <1>1, <1>2 DEF Disconnect

LEMMA RestartTypes ==
    ASSUME TypeOK, Restart
    PROVE  TypeOK'
<1>1. file' \in File /\ tmp' \in File
  BY DataTypes, PutFileTypes DEF Restart, TypeOK
<1>2. registry' \in [Numbers -> Record]
  <2>1. \A k : Loaded(file', k) \in [Numbers -> Record]
    BY <1>1, DataTypes DEF Loaded, File
  <2> QED
    BY <2>1, DataTypes DEF Restart
<1>3. mode' \in {"encrypted", "memory"} /\ unsaved' \in BOOLEAN /\ faults' \in Nat
  BY DEF Restart, Fault, NoFault, TypeOK
<1>4. task' \in [Tasks -> Task] /\ sealed' \in [Tasks -> File]
  BY DataTypes DEF Restart, Task
<1>5. disturbed' \subseteq Numbers /\ restarts' \in Nat
  BY DEF Restart, TypeOK
<1> QED
  BY <1>1, <1>2, <1>3, <1>4, <1>5 DEF Restart, TypeOK

\* Every step keeps the state well formed.
LEMMA NextType == TypeOK /\ [Next]_vars => TypeOK'
<1> SUFFICES ASSUME TypeOK, [Next]_vars PROVE TypeOK'
  OBVIOUS
<1>1. ASSUME NEW w \in Tasks, Progress(w) \/ SaveFails(w) \/ Disconnect(w)
      PROVE  TypeOK'
  BY <1>1, CallTypes, LockTypes, SaveTypes, DisconnectTypes DEF Progress
<1>2. ASSUME NEW w \in Tasks, NEW op \in Ops, NEW n \in Numbers,
             NEW secret \in Secrets \cup {Nothing},
             NEW config \in Configs \cup {Nothing},
             Begin(w, op, n, secret, config)
      PROVE  TypeOK'
  BY <1>2, BeginTypes
<1>3. CASE Restart
  BY <1>3, RestartTypes
<1>4. CASE UNCHANGED vars
  BY <1>4 DEF vars, TypeOK, HealthReaders
<1> QED
  BY <1>1, <1>2, <1>3, <1>4 DEF Next

\* Records, files and tasks are well formed and the write guard is exclusive,
\* for any number of connections and any faults.
THEOREM ProxyTypeCorrect == Spec => []TypeOK
BY InitType, NextType, PTL DEF Spec

-----------------------------------------------------------------------------
(* The file and the registry in memory. *)

Saves(w) == task[w].phase \in FilePhases

\* Only the encrypted store is saved, and only by the holder of the guard.
Holding ==
    /\ writer # Nothing => mode = "encrypted"
    /\ \A w \in Tasks : task[w].phase = "deriving" => writer = w

\* File calls without a guard are there only after a save was disturbed.
Leftovers == \A w \in Tasks : Leftover(w) => unsaved

\* What is about to be written is a registry, the holder's the current one.
Sealing ==
    /\ \A w \in Tasks : Saves(w) => sealed[w].key \in Keys
    /\ \A w \in Tasks : Saves(w) /\ writer = w => sealed[w].records = registry

\* A save that began calmly has the temporary file for itself.
Alone ==
    \A w \in Tasks :
        /\ writer = w /\ calm
        /\ task[w].phase \in {"writing", "renaming"}
        => /\ \A v \in Tasks \ {w} : ~Saves(v)
           /\ task[w].phase = "writing" => fd[w] = "tmp" /\ tmp = Partial
           /\ task[w].phase = "renaming" => tmp = sealed[w]

Absence ==
    /\ tmp.key = "missing" => tmp = Missing
    /\ file.key = "missing" => file = Missing

SaveInv ==
    Holding /\ Leftovers /\ Sealing /\ Alone /\ Absence /\ SavedIsCurrent

LEMMA InitSave == Init => SaveInv
<1> SUFFICES ASSUME Init PROVE SaveInv
  OBVIOUS
<1>1. \A w \in Tasks : task[w].phase = "idle"
  BY DEF Init, Idle
<1> QED
  BY <1>1 DEF Init, SaveInv, Holding, Leftovers, Sealing, Alone, Absence,
              SavedIsCurrent, Leftover, Saves, FilePhases, Missing

\* Whatever is not a save and does not touch the registry.
LEMMA AsideKeepsSave ==
    ASSUME TypeOK, SaveInv,
           UNCHANGED <<registry, mode, file, tmp, fd, writer, sealed, unsaved, calm>>,
           \A v \in Tasks : task[v].phase \in SavePhases \/ task'[v].phase \in SavePhases
                               => task'[v] = task[v]
    PROVE  SaveInv'
<1>1. \A v \in Tasks : task'[v].phase \in SavePhases => task'[v] = task[v]
  OBVIOUS
<1>2. \A v \in Tasks : Saves(v)' => Saves(v) /\ task'[v] = task[v]
  BY <1>1 DEF Saves, SavePhases
<1>3. \A v \in Tasks : Saves(v) => task'[v] = task[v]
  BY DEF Saves, SavePhases
<1>4. Holding'
  BY <1>1 DEF SaveInv, Holding, SavePhases
<1>5. Leftovers'
  BY <1>2 DEF SaveInv, Leftovers, Leftover, Saves
<1>6. Sealing'
  BY <1>2 DEF SaveInv, Sealing
<1>7. Alone'
  BY <1>1, <1>2 DEF SaveInv, Alone, SavePhases, FilePhases
<1>8. Absence' /\ SavedIsCurrent'
  BY DEF SaveInv, Absence, SavedIsCurrent
<1> QED
  BY <1>4, <1>5, <1>6, <1>7, <1>8 DEF SaveInv

LEMMA CallKeepsSave ==
    ASSUME TypeOK, SaveInv, NEW w \in Tasks,
           \/ CallSucceeds(w) \/ AlreadyRegistered(w)
           \/ CallFails(w) \/ CallLost(w) \/ HealthDone(w) \/ ConfigNotFound(w)
    PROVE  SaveInv'
<1>1. /\ task[w].phase \in CallPhases \cup {"checking_health", "locking"}
      /\ task[w].phase # "idle" /\ task[w].phase \notin SavePhases
  BY DEF CallSucceeds, AlreadyRegistered, CallFails, CallLost, HealthDone, ConfigNotFound,
         TakeEffect, CallPhases, SavePhases, FilePhases
<1>2. /\ task'[w].phase \in {"idle", "retrying", "locking", "unregistering"}
      /\ \A v \in Tasks \ {w} : task'[v] = task[v]
  <2>1. CASE End(w)
    BY <2>1, EndMakesIdle DEF TypeOK
  <2>2. ASSUME NEW p \in {"retrying", "locking", "unregistering"}, Move(w, p)
        PROVE  <1>2!:
    BY <1>1, <2>2, MoveChangesPhase DEF TypeOK, Phases
  <2> QED
    BY <2>1, <2>2 DEF CallSucceeds, AlreadyRegistered, CallFails, CallLost,
                      HealthDone, ConfigNotFound
<1>3. UNCHANGED <<registry, mode, file, tmp, fd, writer, sealed, unsaved, calm>>
  BY DEF CallSucceeds, AlreadyRegistered, CallFails, CallLost, HealthDone, ConfigNotFound, files
<1>4. \A v \in Tasks : task[v].phase \in SavePhases \/ task'[v].phase \in SavePhases
                          => task'[v] = task[v]
  BY <1>1, <1>2 DEF SavePhases, FilePhases
<1> QED
  BY <1>3, <1>4, AsideKeepsSave

LEMMA BeginKeepsSave ==
    ASSUME TypeOK, SaveInv, NEW w \in Tasks, NEW op \in Ops, NEW n \in Numbers,
           NEW secret \in Secrets \cup {Nothing},
           NEW config \in Configs \cup {Nothing}, Begin(w, op, n, secret, config)
    PROVE  SaveInv'
<1>1. task[w].phase = "idle"
  BY DEF Begin, Idle
<1>2. /\ task'[w].phase = FirstPhase(op)
      /\ \A v \in Tasks \ {w} : task'[v] = task[v]
  BY DEF Begin, TypeOK
<1>3. FirstPhase(op) \notin SavePhases
  BY DEF FirstPhase, SavePhases, FilePhases
<1>4. \A v \in Tasks : task[v].phase \in SavePhases \/ task'[v].phase \in SavePhases
                          => task'[v] = task[v]
  BY <1>1, <1>2, <1>3 DEF SavePhases, FilePhases
<1> QED
  BY <1>4, AsideKeepsSave DEF Begin, files

\* With the guard free nobody but leftover calls has a file open.
LEMMA LockKeepsSave ==
    ASSUME TypeOK, SaveInv, NEW w \in Tasks, Lock(w)
    PROVE  SaveInv'
<1> DEFINE n == task[w].number
<1>0. task[w].phase = "locking" /\ writer = Nothing
      /\ UNCHANGED <<mode, file, tmp, fd, sealed, unsaved, calm>>
  BY DEF Lock, files
<1>1. CASE End(w) /\ UNCHANGED writer /\ mode = "memory"
  <2>1. /\ task'[w].phase = "idle"
        /\ \A v \in Tasks \ {w} : task'[v] = task[v]
    BY <1>1, EndMakesIdle DEF TypeOK
  <2>2. \A v \in Tasks : v # writer
    BY <1>0, ProxyAssumption
  <2>3. Holding' /\ Leftovers' /\ Sealing' /\ Alone' /\ Absence'
    BY <1>0, <1>1, <2>1, <2>2 DEF SaveInv, Holding, Leftovers, Leftover, Sealing,
        Alone, Absence, Saves, FilePhases
  <2>4. SavedIsCurrent'
    BY <1>0, <1>1 DEF SaveInv, SavedIsCurrent
  <2> QED
    BY <2>3, <2>4 DEF SaveInv
<1>2. CASE Move(w, "deriving") /\ writer' = w /\ mode # "memory"
  <2>1. /\ task'[w].phase = "deriving"
        /\ \A v \in Tasks \ {w} : task'[v] = task[v]
    BY <1>0, <1>2, MoveChangesPhase DEF TypeOK, Phases
  <2>2. \A v \in Tasks : v # writer
    BY <1>0, ProxyAssumption
  <2>3. Holding' /\ Leftovers' /\ Sealing' /\ Alone' /\ Absence'
    BY <1>0, <1>2, <2>1, <2>2 DEF SaveInv, Holding, Leftovers, Leftover, Sealing,
        Alone, Absence, Saves, FilePhases, TypeOK
  <2>4. SavedIsCurrent'
    BY <1>2, ProxyAssumption DEF SavedIsCurrent
  <2> QED
    BY <2>3, <2>4 DEF SaveInv
<1> QED
  BY <1>1, <1>2 DEF Lock, TypeOK

LEMMA DeriveKeepsSave ==
    ASSUME TypeOK, SaveInv, NEW w \in Tasks, Derive(w)
    PROVE  SaveInv'
<1>1. /\ task'[w].phase = "opening"
      /\ \A v \in Tasks \ {w} : task'[v] = task[v]
  BY MoveChangesPhase DEF Derive, TypeOK, Phases
<1>2. writer = w /\ writer' = w /\ w # Nothing
  BY ProxyAssumption DEF Derive, SaveInv, Holding
<1>3. sealed'[w].key \in Keys /\ sealed'[w].records = registry
      /\ \A v \in Tasks \ {w} : sealed'[v] = sealed[v]
  BY DEF Derive, TypeOK
<1>4. UNCHANGED <<registry, mode, file, tmp, fd, unsaved, calm>>
  BY DEF Derive, files
<1>5. Holding' /\ Leftovers'
  BY <1>1, <1>2, <1>4 DEF SaveInv, Holding, Leftovers, Leftover
<1>6. Sealing'
  BY <1>1, <1>2, <1>3, <1>4 DEF SaveInv, Sealing, Saves
<1>7. Alone' /\ Absence' /\ SavedIsCurrent'
  BY <1>1, <1>2, <1>4 DEF SaveInv, Alone, Absence, SavedIsCurrent
<1> QED
  BY <1>5, <1>6, <1>7 DEF SaveInv

\* The holder finds out whether it has the temporary file for itself.
LEMMA OpenKeepsSave ==
    ASSUME TypeOK, SaveInv, NEW w \in Tasks, Open(w)
    PROVE  SaveInv'
<1>1. /\ task[w].phase = "opening" /\ task'[w].phase = "writing"
      /\ \A v \in Tasks \ {w} : task'[v] = task[v]
  BY MoveChangesPhase DEF Open, TypeOK, Phases
<1>2. UNCHANGED <<registry, mode, file, writer, sealed, unsaved>> /\ tmp' = Partial
  BY DEF Open
<1>3. fd'[w] = "tmp" /\ \A v \in Tasks \ {w} : fd'[v] = fd[v]
  BY DEF Open, TypeOK
<1>4. \A v \in Tasks : Saves(v)' <=> Saves(v)
  BY <1>1 DEF Saves, FilePhases
<1>5. Holding' /\ Sealing'
  BY <1>1, <1>2, <1>4 DEF SaveInv, Holding, Sealing
<1>6. Leftovers'
  BY <1>2, <1>4 DEF SaveInv, Leftovers, Leftover, Saves
<1>7. Absence' /\ SavedIsCurrent'
  BY <1>2 DEF SaveInv, Absence, SavedIsCurrent, Partial
<1>8. Alone'
  <2>1. CASE writer = w
    <3>1. calm' => \A v \in Tasks \ {w} : ~Saves(v)
      BY <2>1 DEF Open, Leftover, Saves
    <3> QED
      BY <1>1, <1>2, <1>3, <1>4, <2>1, <3>1 DEF Alone
  <2>2. CASE writer # w
    <3>1. calm' = calm
      BY <2>2 DEF Open
    <3>2. Saves(w)
      BY <1>1 DEF Saves, FilePhases
    <3> QED
      BY <1>1, <1>2, <2>2, <3>1, <3>2 DEF SaveInv, Alone
  <2> QED
    BY <2>1, <2>2
<1> QED
  BY <1>5, <1>6, <1>7, <1>8 DEF SaveInv

\* What the end of a request leaves of the other tasks.
LEMMA FinishFrame ==
    ASSUME TypeOK, NEW w \in Tasks, Finish(w)
    PROVE  /\ task'[w].phase = "idle"
           /\ \A v \in Tasks \ {w} : task'[v] = task[v] /\ sealed'[v] = sealed[v]
           /\ writer' = IF writer = w THEN Nothing ELSE writer
BY EndMakesIdle DEF Finish, TypeOK

LEMMA WriteKeepsSave ==
    ASSUME TypeOK, SaveInv, NEW w \in Tasks, Write(w)
    PROVE  SaveInv'
<1>1. task[w].phase = "writing" /\ Saves(w)
  BY DEF Write, Saves, FilePhases
<1>2. UNCHANGED <<registry, mode, unsaved, calm>>
  BY DEF Write
<1>3. PICK f \in {sealed[w], Partial} :
          /\ f = Partial => \/ (fd[w] = "tmp"  /\ tmp.key # "partial")
                            \/ (fd[w] = "main" /\ file.key # "partial")
          /\ PutFile(w, f)
  BY DEF Write
<1>4. f.key \in Keys \cup {"partial"}
  BY <1>1, <1>3 DEF SaveInv, Sealing, Partial
<1>5. Absence'
  BY <1>3, <1>4 DEF SaveInv, Absence, PutFile, Keys
<1>6. CASE writer = w
  <2>1. /\ task'[w].phase = "renaming"
        /\ \A v \in Tasks \ {w} : task'[v] = task[v]
        /\ UNCHANGED <<writer, sealed>>
    BY <1>1, <1>6, MoveChangesPhase DEF Write, TypeOK, Phases
  <2>2. w # Nothing
    BY ProxyAssumption
  <2>3. \A v \in Tasks : Saves(v)' <=> Saves(v)
    BY <1>1, <2>1 DEF Saves, FilePhases
  <2>4. Holding' /\ Sealing' /\ SavedIsCurrent'
    BY <1>2, <1>6, <2>1, <2>2, <2>3 DEF SaveInv, Holding, Sealing, SavedIsCurrent
  <2>5. Leftovers'
    BY <1>2, <1>6, <2>1 DEF SaveInv, Leftovers, Leftover
  <2>6. Alone'
    <3> SUFFICES ASSUME calm
                 PROVE  /\ \A v \in Tasks \ {w} : ~Saves(v)'
                        /\ tmp' = sealed[w]
      BY <1>2, <1>6, <2>1 DEF Alone
    <3>1. fd[w] = "tmp" /\ tmp = Partial /\ \A v \in Tasks \ {w} : ~Saves(v)
      BY <1>1, <1>6 DEF SaveInv, Alone
    <3>2. f = sealed[w]
      BY <1>3, <3>1 DEF Partial
    <3> QED
      BY <1>3, <2>3, <3>1, <3>2 DEF PutFile
  <2> QED
    BY <1>5, <2>4, <2>5, <2>6 DEF SaveInv
<1>7. CASE writer # w
  <2>1. Finish(w) /\ unsaved
    BY <1>1, <1>7 DEF Write, SaveInv, Leftovers, Leftover, Saves
  <2>2. /\ task'[w].phase = "idle" /\ writer' = writer
        /\ \A v \in Tasks \ {w} : task'[v] = task[v] /\ sealed'[v] = sealed[v]
    BY <1>7, <2>1, FinishFrame
  <2>3. Holding' /\ Leftovers'
    BY <1>2, <2>2 DEF SaveInv, Holding, Leftovers, Leftover, FilePhases
  <2>4. Sealing'
    BY <1>2, <2>2 DEF SaveInv, Sealing, Saves, FilePhases
  <2>5. Alone'
    BY <1>1, <1>2, <1>7, <2>2 DEF SaveInv, Alone
  <2>6. SavedIsCurrent'
    BY <1>2, <2>1 DEF SavedIsCurrent
  <2> QED
    BY <1>5, <2>3, <2>4, <2>5, <2>6 DEF SaveInv
<1> QED
  BY <1>6, <1>7

\* The end of a save, whether it went well or not.
LEMMA FinishKeepsSave ==
    ASSUME TypeOK, SaveInv, NEW w \in Tasks, task[w].phase \in SavePhases,
           Finish(w), UNCHANGED <<registry, mode, calm>>,
           unsaved' \/ \A v \in Tasks \ {w} : ~Saves(v),
           Absence', SavedIsCurrent'
    PROVE  SaveInv'
<1>1. /\ task'[w].phase = "idle"
      /\ \A v \in Tasks \ {w} : task'[v] = task[v] /\ sealed'[v] = sealed[v]
      /\ writer' = IF writer = w THEN Nothing ELSE writer
  BY FinishFrame
<1>2. \A v \in Tasks : v # Nothing
  BY ProxyAssumption
<1>3. \A v \in Tasks : Saves(v)' => v # w /\ Saves(v)
  BY <1>1 DEF Saves, FilePhases
<1>4. Holding'
  BY <1>1, <1>2 DEF SaveInv, Holding, SavePhases
<1>5. Leftovers'
  BY <1>1, <1>3 DEF Leftovers, Leftover, Saves
<1>6. Sealing'
  BY <1>1, <1>2, <1>3 DEF SaveInv, Sealing
<1>7. Alone'
  <2>1. CASE writer = w
    BY <1>1, <1>2, <2>1 DEF Alone
  <2>2. CASE writer # w
    <3>1. Saves(w)
      BY <2>2 DEF SaveInv, Holding, Saves, SavePhases
    <3> QED
      BY <1>1, <2>2, <3>1 DEF SaveInv, Alone
  <2> QED
    BY <2>1, <2>2
<1> QED
  BY <1>4, <1>5, <1>6, <1>7 DEF SaveInv

\* A calm save publishes the registry it sealed; any other leaves unsaved set.
LEMMA RenameKeepsSave ==
    ASSUME TypeOK, SaveInv, NEW w \in Tasks, Rename(w)
    PROVE  SaveInv'
<1>1. task[w].phase = "renaming" /\ Saves(w) /\ task[w].phase \in SavePhases
  BY DEF Rename, Saves, FilePhases, SavePhases
<1>2. Finish(w) /\ UNCHANGED <<registry, mode, calm>>
  BY DEF Rename
<1>3. CASE /\ tmp # Missing
           /\ file' = tmp /\ tmp' = Missing
           /\ unsaved' = IF writer = w THEN ~calm ELSE unsaved
  <2>1. Absence'
    BY <1>3 DEF SaveInv, Absence, Missing
  <2>2. CASE unsaved'
    BY <1>1, <1>2, <2>1, <2>2, FinishKeepsSave DEF SavedIsCurrent
  <2>3. CASE ~unsaved'
    <3>1. writer = w /\ calm
      BY <1>1, <1>3, <2>3 DEF SaveInv, Leftovers, Leftover, Saves, TypeOK
    <3>2. tmp = sealed[w] /\ \A v \in Tasks \ {w} : ~Saves(v)
      BY <1>1, <3>1 DEF SaveInv, Alone
    <3>3. sealed[w].key \in Keys /\ sealed[w].records = registry
      BY <1>1, <3>1 DEF SaveInv, Sealing
    <3>4. mode = "encrypted"
      BY <3>1, ProxyAssumption DEF SaveInv, Holding
    <3>5. SavedIsCurrent'
      BY <1>2, <1>3, <3>2, <3>3, <3>4 DEF SavedIsCurrent, Keys
    <3> QED
      BY <1>1, <1>2, <2>1, <3>2, <3>5, FinishKeepsSave
  <2> QED
    BY <2>2, <2>3
<1>4. CASE unsaved' = TRUE /\ UNCHANGED files
  <2>1. Absence' /\ SavedIsCurrent'
    BY <1>4 DEF SaveInv, Absence, SavedIsCurrent, files
  <2> QED
    BY <1>1, <1>2, <1>4, <2>1, FinishKeepsSave
<1> QED
  BY <1>3, <1>4 DEF Rename

LEMMA SaveFailsKeepsSave ==
    ASSUME TypeOK, SaveInv, NEW w \in Tasks, SaveFails(w)
    PROVE  SaveInv'
<1>1. task[w].phase \in SavePhases /\ Finish(w) /\ unsaved'
      /\ UNCHANGED <<registry, mode, calm>>
  BY DEF SaveFails
<1>2. Absence'
  BY DEF SaveFails, SaveInv, Absence, PutFile, Partial
<1>3. SavedIsCurrent'
  BY <1>1 DEF SavedIsCurrent
<1> QED
  BY <1>1, <1>2, <1>3, FinishKeepsSave

LEMMA DisconnectKeepsSave ==
    ASSUME TypeOK, SaveInv, NEW w \in Tasks, Disconnect(w)
    PROVE  SaveInv'
<1>1. UNCHANGED <<registry, mode, file, tmp, fd, calm>>
  BY DEF Disconnect, files
<1>2. CASE task[w].phase = "locking" /\ End(w) /\ UNCHANGED <<writer, sealed, unsaved>>
  <2>1. /\ task'[w].phase = "idle"
        /\ \A v \in Tasks \ {w} : task'[v] = task[v]
    BY <1>2, EndMakesIdle DEF TypeOK
  <2>2. \A v \in Tasks : task[v].phase \in SavePhases \/ task'[v].phase \in SavePhases
                            => task'[v] = task[v]
    BY <1>2, <2>1 DEF SavePhases, FilePhases
  <2> QED
    BY <1>1, <1>2, <2>2, AsideKeepsSave
<1>3. CASE writer = w /\ unsaved' = TRUE /\ Finish(w)
  <2>1. task[w].phase \in SavePhases
    BY <1>3, ProxyAssumption DEF TypeOK
  <2>2. Absence' /\ SavedIsCurrent'
    BY <1>1, <1>3 DEF SaveInv, Absence, SavedIsCurrent
  <2> QED
    BY <1>1, <1>3, <2>1, <2>2, FinishKeepsSave
<1>4. CASE /\ writer = w /\ unsaved' = TRUE
           /\ task[w].phase \in FilePhases
           /\ writer' = Nothing /\ UNCHANGED <<task, sealed>>
  <2>1. \A v \in Tasks : v # Nothing /\ (Saves(v)' <=> Saves(v))
    BY <1>4, ProxyAssumption DEF Saves
  <2>2. Holding'
    BY <1>1, <1>4, <2>1 DEF SaveInv, Holding, FilePhases
  <2>3. Leftovers' /\ Sealing' /\ Alone' /\ Absence' /\ SavedIsCurrent'
    BY <1>1, <1>4, <2>1 DEF SaveInv, Leftovers, Sealing, Alone, Absence,
                            SavedIsCurrent
  <2> QED
    BY <2>2, <2>3 DEF SaveInv
<1> QED
  BY <1>2, <1>3, <1>4 DEF Disconnect

LEMMA RestartKeepsSave ==
    ASSUME TypeOK, SaveInv, Restart
    PROVE  SaveInv'
<1>1. /\ \A v \in Tasks : task'[v].phase = "idle" /\ v # Nothing
      /\ writer' = Nothing
  BY ProxyAssumption DEF Restart, Idle
<1>2. Absence'
  BY DEF Restart, SaveInv, Absence, PutFile, Partial
<1>3. Holding' /\ Leftovers' /\ Sealing' /\ Alone'
  BY <1>1 DEF Holding, Leftovers, Leftover, Sealing, Alone, Saves, FilePhases
<1>4. SavedIsCurrent'
  <2>1. PICK k \in Keys, m \in {"encrypted", "memory"} :
            /\ mode' = m
            /\ registry' = IF m = "encrypted" THEN Loaded(file', k) ELSE NoRecords
            /\ unsaved' = ~(m = "encrypted" /\ file'.key \in {k, "missing"})
    BY DEF Restart
  <2> SUFFICES ASSUME ~unsaved'
               PROVE  /\ mode' = "encrypted" /\ file'.key # "partial"
                      /\ file'.records = registry'
    BY DEF SavedIsCurrent
  <2>2. mode' = "encrypted" /\ file'.key \in {k, "missing"}
        /\ registry' = Loaded(file', k)
    BY <2>1
  <2>3. file'.key # "partial"
    BY <2>2 DEF Keys
  <2>4. CASE file'.key = k
    BY <2>2, <2>3, <2>4 DEF Loaded
  <2>5. CASE file'.key = "missing"
    <3>1. file' = Missing
      BY <1>2, <2>5 DEF Absence
    <3>2. k # "missing"
      BY DEF Keys
    <3> QED
      BY <2>2, <2>3, <2>5, <3>1, <3>2 DEF Loaded, Missing
  <2> QED
    BY <2>2, <2>4, <2>5
<1> QED
  BY <1>2, <1>3, <1>4 DEF SaveInv

LEMMA NextSave == TypeOK /\ SaveInv /\ [Next]_vars => SaveInv'
<1> SUFFICES ASSUME TypeOK, SaveInv, [Next]_vars PROVE SaveInv'
  OBVIOUS
<1>1. ASSUME NEW w \in Tasks, Progress(w) \/ SaveFails(w) \/ Disconnect(w)
      PROVE  SaveInv'
  BY <1>1, CallKeepsSave, LockKeepsSave, DeriveKeepsSave, OpenKeepsSave,
     WriteKeepsSave, RenameKeepsSave, SaveFailsKeepsSave, DisconnectKeepsSave
     DEF Progress
<1>2. ASSUME NEW w \in Tasks, NEW op \in Ops, NEW n \in Numbers,
             NEW secret \in Secrets \cup {Nothing},
             NEW config \in Configs \cup {Nothing},
             Begin(w, op, n, secret, config)
      PROVE  SaveInv'
  BY <1>2, BeginKeepsSave
<1>3. CASE Restart
  BY <1>3, RestartKeepsSave
<1>4. CASE UNCHANGED vars
  <2>1. \A v \in Tasks : task[v].phase \in SavePhases \/ task'[v].phase \in SavePhases
                            => task'[v] = task[v]
    BY <1>4 DEF vars
  <2> QED
    BY <1>4, <2>1, AsideKeepsSave DEF vars
<1> QED
  BY <1>1, <1>2, <1>3, <1>4 DEF Next

\* Whenever nobody is saving and no save was disturbed, the file is the
\* registry.
THEOREM ProxySaves == Spec => []SavedIsCurrent
<1>1. SaveInv => SavedIsCurrent
  BY DEF SaveInv
<1> QED
  BY <1>1, InitType, NextType, InitSave, NextSave, PTL DEF Spec

\* A restart forgets nothing if the last save was not disturbed and DeriveKey
\* answered both then and now.
THEOREM ProxyRemembers == Spec => RestartForgetsNothing
<1>1. TypeOK /\ SaveInv /\ [Next]_vars
        => [restarts' # restarts /\ faults' = faults
               /\ writer = Nothing /\ ~unsaved /\ file.key # "fallback"
             => registry' = registry]_vars
  <2> SUFFICES ASSUME TypeOK, SaveInv, [Next]_vars,
                      restarts' # restarts, faults' = faults,
                      writer = Nothing, ~unsaved, file.key # "fallback"
               PROVE  registry' = registry
    OBVIOUS
  <2>1. Restart
    <3>1. ASSUME NEW w \in Tasks, NEW op \in Ops, NEW n \in Numbers,
                 NEW secret \in Secrets \cup {Nothing},
                 NEW config \in Configs \cup {Nothing}, Begin(w, op, n, secret, config)
          PROVE  restarts' = restarts
      BY <3>1 DEF Begin
    <3>2. ASSUME NEW w \in Tasks, Progress(w)
          PROVE  restarts' = restarts
      <4>1. CASE CallSucceeds(w)
        BY <4>1 DEF CallSucceeds, counters
      <4>2. CASE AlreadyRegistered(w) \/ CallFails(w)
        BY <4>2 DEF AlreadyRegistered, CallFails, counters
      <4>3. CASE CallLost(w)
        BY <4>3 DEF CallLost
      <4>4. CASE HealthDone(w) \/ ConfigNotFound(w)
        BY <4>4 DEF HealthDone, ConfigNotFound, counters
      <4>5. CASE Lock(w)
        BY <4>5 DEF Lock, counters
      <4>6. CASE Derive(w) \/ Open(w)
        BY <4>6 DEF Derive, Open, counters
      <4>7. CASE Write(w) \/ Rename(w)
        BY <4>7 DEF Write, Rename, counters
      <4> QED
        BY <3>2, <4>1, <4>2, <4>3, <4>4, <4>5, <4>6, <4>7 DEF Progress
    <3>3. ASSUME NEW w \in Tasks, SaveFails(w) \/ Disconnect(w)
          PROVE  restarts' = restarts
      BY <3>3 DEF SaveFails, Disconnect
    <3>4. ~(UNCHANGED vars)
      BY DEF vars
    <3> QED
      BY <3>1, <3>2, <3>3, <3>4 DEF Next
  <2>2. \A w \in Tasks : task[w].phase # "writing"
    BY ProxyAssumption DEF SaveInv, Leftovers, Leftover, FilePhases
  <2>3. file' = file
    BY <2>1, <2>2 DEF Restart
  <2>4. registry' = Loaded(file, "derived")
    BY <2>1, <2>3 DEF Restart, Fault, TypeOK, Keys
  <2>5. file.records = registry /\ file.key # "partial"
    BY DEF SaveInv, SavedIsCurrent
  <2>6. file.key \in {"derived", "missing"}
    BY <2>5 DEF TypeOK, File, Keys
  <2>7. CASE file.key = "derived"
    BY <2>4, <2>5, <2>7 DEF Loaded
  <2>8. CASE file.key = "missing"
    BY <2>4, <2>5, <2>8 DEF Loaded, SaveInv, Absence, Missing
  <2> QED
    BY <2>6, <2>7, <2>8
<1> QED
  BY <1>1, InitType, NextType, InitSave, NextSave, PTL
     DEF Spec, RestartForgetsNothing

-----------------------------------------------------------------------------
(* Records and accounts. *)

Deciding == CallPhases \cup {"locking"}

\* What holds of a request between its first look at the record and its change,
\* if no other request for the number came in between.
InStep(w) ==
    LET t == task[w]
        n == t.number
    IN  /\ t.phase = "calling" =>
              /\ Agrees(n)
              /\ t.op = "register" => registry[n].status # "verified"
              /\ t.op = "adopt"    => registry[n].status # "verified"
              /\ t.op = "verify"   => registry[n].status = "pending"
        /\ t.phase \in {"unregistering", "retrying"} =>
              t.op = "register" /\ registry[n].status = "absent"
        /\ t.phase = "locking" =>
              /\ t.op = "register" => accounts[n] = "pending"
              /\ t.op \in {"verify", "adopt"} => accounts[n] = "registered"
              /\ t.op \notin {"register", "verify", "adopt", "unregister",
                              "force_unregister"} => Agrees(n)

\* The inductive invariant, number by number.
AgreesAt(n) ==
    /\ \A v, w \in Undecided(n) : v = w
    /\ Undecided(n) = {} => Agrees(n)
    /\ \A w \in Undecided(n) : InStep(w)

AgreeInv == \A n \in Numbers \ disturbed : AgreesAt(n)

\* A step that leaves a number's account, record and undecided requests alone.
LEMMA AsideKeepsAgreement ==
    ASSUME NEW n \in Numbers, AgreesAt(n),
           registry'[n] = registry[n], accounts'[n] = accounts[n],
           \A v \in Tasks : v \in Undecided(n) \/ v \in Undecided(n)'
                               => task'[v] = task[v]
    PROVE  AgreesAt(n)'
<1>1. Undecided(n)' = Undecided(n)
  BY DEF Undecided
<1>2. Agrees(n)' <=> Agrees(n)
  BY DEF Agrees
<1>3. ASSUME NEW w \in Undecided(n) PROVE InStep(w)'
  <2>1. InStep(w) /\ task[w].number = n /\ task'[w] = task[w]
    BY DEF AgreesAt, Undecided
  <2>2. Agrees(n)' <=> Agrees(n)
    BY <1>2
  <2> QED
    BY <2>1, <2>2 DEF InStep
<1> QED
  BY <1>1, <1>2, <1>3 DEF AgreesAt

\* A step of the one undecided request of a number.
LEMMA SoleStep ==
    ASSUME AgreeInv, NEW w \in Tasks, NEW m \in Numbers,
           w \in Undecided(m),
           \A v \in Tasks \ {w} : task'[v] = task[v],
           \A n \in Numbers \ {m} :
              registry'[n] = registry[n] /\ accounts'[n] = accounts[n],
           task'[w].phase \in Deciding => task'[w].number = m,
           disturbed \subseteq disturbed',
           m \in disturbed' \/ IF task'[w].phase \in Deciding
                               THEN InStep(w)' ELSE Agrees(m)'
    PROVE  AgreeInv'
<1> SUFFICES ASSUME NEW n \in Numbers, n \notin disturbed' PROVE AgreesAt(n)'
  BY DEF AgreeInv
<1>1. AgreesAt(n)
  BY DEF AgreeInv
<1>2. CASE n # m
  <2>1. w \notin Undecided(n) /\ w \notin Undecided(n)'
    BY <1>2 DEF Undecided, Deciding
  <2>2. \A v \in Tasks : v \in Undecided(n) \/ v \in Undecided(n)'
                            => task'[v] = task[v]
    BY <2>1
  <2> QED
    BY <1>1, <1>2, <2>2, AsideKeepsAgreement
<1>3. CASE n = m
  <2>1. Undecided(m) = {w}
    BY <1>1, <1>3 DEF AgreesAt
  <2>2. \A v \in Undecided(m)' : v = w
    BY <2>1 DEF Undecided
  <2>3. CASE task'[w].phase \in Deciding
    <3>1. Undecided(m)' = {w}
      BY <2>2, <2>3 DEF Undecided, Deciding
    <3>2. InStep(w)'
      BY <1>3, <2>3
    <3> QED
      BY <1>3, <3>1, <3>2 DEF AgreesAt
  <2>4. CASE task'[w].phase \notin Deciding
    <3>1. Undecided(m)' = {}
      BY <2>2, <2>4 DEF Undecided, Deciding
    <3>2. Agrees(m)'
      BY <1>3, <2>4
    <3> QED
      BY <1>3, <3>1, <3>2 DEF AgreesAt
  <2> QED
    BY <2>3, <2>4
<1> QED
  BY <1>2, <1>3

\* What an undecided request may assume.
LEMMA UndecidedStep ==
    ASSUME TypeOK, AgreeInv, NEW w \in Tasks, task[w].phase \in Deciding
    PROVE  /\ task[w].number \in Numbers
           /\ w \in Undecided(task[w].number)
           /\ task[w].number \notin disturbed => InStep(w)
<1>1. task[w].phase # "idle"
  BY DEF Deciding, CallPhases
<1>2. task[w].number \in Numbers
  BY <1>1, BusyTask DEF TypeOK
<1>3. w \in Undecided(task[w].number)
  BY DEF Undecided, Deciding
<1> QED
  BY <1>2, <1>3 DEF AgreeInv, AgreesAt

LEMMA InitAgrees == Init => AgreeInv
<1> SUFFICES ASSUME Init, NEW n \in Numbers PROVE AgreesAt(n)
  BY DEF AgreeInv
<1>1. Undecided(n) = {}
  BY DEF Init, Idle, Undecided, CallPhases
<1>2. Agrees(n)
  BY DEF Init, NoRecords, NoRecord, Agrees
<1> QED
  BY <1>1, <1>2 DEF AgreesAt

\* A request that is alone starts from a record that agrees with the account.
LEMMA BeginAgrees ==
    ASSUME TypeOK, AgreeInv, NEW w \in Tasks, NEW op \in Ops, NEW m \in Numbers,
           NEW secret \in Secrets \cup {Nothing},
           NEW config \in Configs \cup {Nothing}, Begin(w, op, m, secret, config)
    PROVE  AgreeInv'
<1> SUFFICES ASSUME NEW n \in Numbers, n \notin disturbed' PROVE AgreesAt(n)'
  BY DEF AgreeInv
<1>1. /\ task'[w].phase = FirstPhase(op) /\ task'[w].op = op
      /\ task'[w].number = m
      /\ \A v \in Tasks \ {w} : task'[v] = task[v]
  BY DEF Begin, TypeOK
<1>2. UNCHANGED <<registry, accounts>> /\ n \notin disturbed
  BY DEF Begin
<1>3. AgreesAt(n)
  BY <1>2 DEF AgreeInv
<1>4. w \notin Undecided(n)
  BY DEF Begin, Idle, Undecided, CallPhases
<1>5. CASE n # m \/ op = "health"
  <2>1. w \notin Undecided(n)'
    BY <1>1, <1>5 DEF Undecided, FirstPhase, CallPhases
  <2> QED
    BY <1>1, <1>2, <1>3, <1>4, <2>1, AsideKeepsAgreement
<1>6. CASE n = m /\ op # "health"
  <2>1. Undecided(n) = {}
    BY <1>6 DEF Begin
  <2>2. Agrees(n) /\ Agrees(n)'
    BY <1>2, <1>3, <2>1 DEF AgreesAt, Agrees
  <2>3. Undecided(n)' \subseteq {w}
    BY <1>1, <2>1 DEF Undecided
  <2>4. InStep(w)'
    <3>1. Accepts(op, registry[n], secret)
      BY <1>6 DEF Begin
    <3>2. /\ op = "register" => registry[n].status # "verified"
          /\ op = "adopt"    => registry[n].status # "verified"
          /\ op = "verify"   => registry[n].status = "pending"
      BY <3>1
         DEF Accepts, MayRegister, MayVerify, MayUnregister, MayAdopt, OwnsVerified
    <3>3. /\ task'[w].phase \in {"calling", "locking"}
          /\ task'[w].phase = "locking" => op = "update_config"
      BY <1>1, <1>6 DEF FirstPhase
    <3> QED
      BY <1>1, <1>2, <1>6, <2>2, <3>2, <3>3 DEF InStep
  <2> QED
    BY <2>2, <2>3, <2>4 DEF AgreesAt
<1> QED
  BY <1>5, <1>6

\* A call that succeeds leaves the account as the change of the record, or the
\* next call, needs it.
LEMMA CallSucceedsAgrees ==
    ASSUME TypeOK, AgreeInv, NEW w \in Tasks, CallSucceeds(w)
    PROVE  AgreeInv'
<1>1. task[w].phase \in CallPhases /\ task[w].phase \in Deciding
  BY DEF CallSucceeds, TakeEffect, Deciding
<1>2. PICK m \in Numbers :
          /\ m = task[w].number
          /\ w \in Undecided(m) /\ (m \notin disturbed => InStep(w))
  BY <1>1, UndecidedStep
<1> USE <1>2
<1>3. /\ registry' = registry /\ disturbed' = disturbed
      /\ accounts'[m] = AfterCall(CallOf(task[w]), accounts[m])
      /\ Possible(CallOf(task[w]), accounts[m])
      /\ \A n \in Numbers \ {m} : accounts'[n] = accounts[n]
  BY <1>2 DEF CallSucceeds, TakeEffect, TypeOK
<1>4. CASE task[w].phase = "unregistering"
  <2>1. /\ task'[w].phase = "retrying" /\ task'[w].number = m
        /\ task'[w].op = task[w].op
        /\ \A v \in Tasks \ {w} : task'[v] = task[v]
    BY <1>4, MoveChangesPhase DEF CallSucceeds, TypeOK, Phases
  <2>2. m \notin disturbed => InStep(w)'
    BY <1>2, <1>3, <1>4, <2>1 DEF InStep
  <2>3. task'[w].phase \in Deciding
    BY <2>1 DEF Deciding, CallPhases
  <2> QED
    BY <1>2, <1>3, <2>1, <2>2, <2>3, SoleStep
<1>5. CASE task[w].phase # "unregistering"
           /\ task[w].op \in {"delete_username", "profile"}
  <2>1. task'[w].phase = "idle" /\ \A v \in Tasks \ {w} : task'[v] = task[v]
    BY <1>5, EndMakesIdle DEF CallSucceeds, OnlyCalls, TypeOK
  <2>2. m \notin disturbed => Agrees(m)'
    <3> SUFFICES ASSUME m \notin disturbed PROVE Agrees(m)'
      OBVIOUS
    <3>1. task[w].phase = "calling"
      BY <1>1, <1>2, <1>5 DEF InStep, CallPhases
    <3>2. Agrees(m)
      BY <1>2, <3>1 DEF InStep
    <3>3. accounts'[m] = accounts[m]
      BY <1>3, <1>5, <3>1 DEF AfterCall, CallOf, Removals
    <3> QED
      BY <1>3, <3>2, <3>3 DEF Agrees
  <2>3. task'[w].phase \notin Deciding
    BY <2>1 DEF Deciding, CallPhases
  <2> QED
    BY <1>2, <1>3, <2>1, <2>2, <2>3, SoleStep
<1>6. CASE task[w].phase # "unregistering"
           /\ task[w].op \notin {"delete_username", "profile"}
  <2>1. /\ task'[w].phase = "locking" /\ task'[w].number = m
        /\ task'[w].op = task[w].op
        /\ \A v \in Tasks \ {w} : task'[v] = task[v]
    BY <1>1, <1>6, MoveChangesPhase DEF CallSucceeds, TypeOK, OnlyCalls, Phases, CallPhases
  <2>2. m \notin disturbed => InStep(w)'
    <3> SUFFICES ASSUME m \notin disturbed PROVE InStep(w)'
      OBVIOUS
    <3>1. task[w].phase \in {"calling", "retrying"}
      BY <1>1, <1>6 DEF CallPhases
    <3>2. task[w].op = "register" => accounts'[m] = "pending"
      BY <1>3, <3>1 DEF CallOf, AfterCall, Removals
    <3>3. task[w].op \in {"verify", "adopt"} => accounts'[m] = "registered"
      <4>1. CASE task[w].phase = "calling"
        BY <1>3, <4>1 DEF CallOf, AfterCall, Possible, Removals
      <4>2. CASE task[w].phase = "retrying"
        BY <1>2, <4>2 DEF InStep
      <4> QED
        BY <3>1, <4>1, <4>2
    <3>4. task[w].op \notin {"register", "verify", "adopt", "unregister",
                             "force_unregister"} => Agrees(m)'
      <4> SUFFICES ASSUME task[w].op \notin {"register", "verify", "adopt",
                                  "unregister", "force_unregister"}
                   PROVE  Agrees(m)'
        OBVIOUS
      <4>1. task[w].phase = "calling"
        BY <1>2, <3>1 DEF InStep
      <4>2. Agrees(m) /\ accounts'[m] = accounts[m]
        BY <1>2, <1>3, <4>1 DEF InStep, CallOf, AfterCall, Removals
      <4> QED
        BY <1>3, <4>2 DEF Agrees
    <3> QED
      BY <2>1, <3>2, <3>3, <3>4 DEF InStep
  <2>3. task'[w].phase \in Deciding
    BY <2>1 DEF Deciding
  <2> QED
    BY <1>2, <1>3, <2>1, <2>2, <2>3, SoleStep
<1> QED
  BY <1>4, <1>5, <1>6

\* A call that fails or whose answer is lost, a request that finds nothing to
\* change or is dropped before it changed anything.
LEMMA AbandonAgrees ==
    ASSUME TypeOK, AgreeInv, NEW w \in Tasks,
           task[w].phase \in Deciding, End(w), registry' = registry,
           disturbed \subseteq disturbed',
           \A n \in Numbers \ {task[w].number} : accounts'[n] = accounts[n],
           \/ task[w].number \in disturbed'
           \/ /\ accounts' = accounts
              /\ task[w].phase \in CallPhases \/ NotFound(w)
    PROVE  AgreeInv'
<1>1. PICK m \in Numbers :
          /\ m = task[w].number
          /\ w \in Undecided(m) /\ (m \notin disturbed => InStep(w))
  BY UndecidedStep
<1> USE <1>1
<1>2. task'[w].phase = "idle" /\ \A v \in Tasks \ {w} : task'[v] = task[v]
  BY EndMakesIdle DEF TypeOK
<1>3. m \in disturbed' \/ Agrees(m)'
  <2> SUFFICES ASSUME m \notin disturbed' PROVE Agrees(m)'
    OBVIOUS
  <2>1. InStep(w) /\ accounts' = accounts
    BY <1>1
  <2>2. CASE NotFound(w)
    BY <2>1, <2>2 DEF NotFound, NoRecord, Agrees
  <2>3. CASE task[w].phase \in CallPhases
    BY <2>1, <2>3 DEF InStep, CallPhases, Agrees
  <2> QED
    BY <2>2, <2>3
<1>4. task'[w].phase \notin Deciding
  BY <1>2 DEF Deciding, CallPhases
<1> QED
  BY <1>1, <1>2, <1>3, <1>4, SoleStep

LEMMA AlreadyRegisteredAgrees ==
    ASSUME TypeOK, AgreeInv, NEW w \in Tasks, AlreadyRegistered(w)
    PROVE  AgreeInv'
<1>1. /\ task[w].phase = "calling" /\ task[w].phase \in Deciding
      /\ task[w].op = "register" /\ accounts[task[w].number] = "registered"
  BY DEF AlreadyRegistered, Deciding, CallPhases
<1>2. PICK m \in Numbers :
          /\ m = task[w].number
          /\ w \in Undecided(m) /\ (m \notin disturbed => InStep(w))
  BY <1>1, UndecidedStep
<1> USE <1>2
<1>3. /\ task'[w].phase = "unregistering" /\ task'[w].number = m
      /\ task'[w].op = "register"
      /\ \A v \in Tasks \ {w} : task'[v] = task[v]
  BY <1>1, MoveChangesPhase DEF AlreadyRegistered, TypeOK, Phases
<1>4. UNCHANGED <<registry, accounts, disturbed>>
  BY DEF AlreadyRegistered
<1>5. m \notin disturbed => InStep(w)'
  <2> SUFFICES ASSUME m \notin disturbed PROVE InStep(w)'
    OBVIOUS
  <2>1. Agrees(m) /\ registry[m].status # "verified"
    BY <1>1, <1>2 DEF InStep
  <2>2. registry[m].status \in {"absent", "pending", "verified"}
    BY <1>2 DEF TypeOK, Record
  <2>3. registry[m].status = "absent"
    BY <1>1, <2>1, <2>2 DEF Agrees
  <2> QED
    BY <1>3, <1>4, <2>3 DEF InStep
<1>6. task'[w].phase \in Deciding
  BY <1>3 DEF Deciding, CallPhases
<1> QED
  BY <1>2, <1>3, <1>4, <1>5, <1>6, SoleStep

\* The change of the record makes it agree with what signal-cli answered.
LEMMA LockAgrees ==
    ASSUME TypeOK, AgreeInv, NEW w \in Tasks, Lock(w)
    PROVE  AgreeInv'
<1> DEFINE t == task[w]
<1>1. t.phase = "locking" /\ t.phase \in Deciding /\ t \in Task
  BY DEF Lock, Deciding, TypeOK
<1>2. PICK m \in Numbers :
          /\ m = task[w].number
          /\ w \in Undecided(m) /\ (m \notin disturbed => InStep(w))
  BY <1>1, UndecidedStep
<1> USE <1>2
<1>3. PICK r \in Changed(t, registry[m]) : registry' = [registry EXCEPT ![m] = r]
  BY DEF Lock
<1>4. /\ registry'[m] = r /\ accounts' = accounts /\ disturbed' = disturbed
      /\ \A n \in Numbers \ {m} : registry'[n] = registry[n]
  BY <1>2, <1>3 DEF Lock, TypeOK
<1>5. /\ task'[w].phase \in {"idle", "deriving"}
      /\ \A v \in Tasks \ {w} : task'[v] = task[v]
  <2>1. CASE End(w)
    BY <2>1, EndMakesIdle DEF TypeOK
  <2>2. CASE Move(w, "deriving")
    BY <1>1, <2>2, MoveChangesPhase DEF TypeOK, Phases
  <2> QED
    BY <2>1, <2>2 DEF Lock
<1>6. task'[w].phase \notin Deciding
  BY <1>5 DEF Deciding, CallPhases
<1>7. m \notin disturbed => Agrees(m)'
  <2> SUFFICES ASSUME m \notin disturbed PROVE Agrees(m)'
    OBVIOUS
  <2>1. InStep(w) /\ registry[m] \in Record
    BY <1>2 DEF TypeOK
  <2>2. CASE t.op = "register"
    <3>1. r.status = "pending"
      BY <1>1, <1>3, <2>1, <2>2, NewStatus
    <3>2. accounts[m] = "pending"
      BY <1>1, <2>1, <2>2 DEF InStep
    <3> QED
      BY <1>4, <3>1, <3>2 DEF Agrees
  <2>3. CASE t.op = "adopt"
    <3>1. r.status = "verified"
      BY <1>1, <1>3, <2>1, <2>3, NewStatus
    <3>2. accounts[m] = "registered"
      BY <1>1, <2>1, <2>3 DEF InStep
    <3> QED
      BY <1>4, <3>1, <3>2 DEF Agrees
  <2>4. CASE t.op \in {"unregister", "force_unregister"}
    <3>1. r = NoRecord
      BY <1>3, <2>4
     DEF Changed, Edited, Registered, Adopted, Removals, MarkVerified, SetUsername,
         UpdateConfig
    <3> QED
      BY <1>4, <3>1 DEF Agrees, NoRecord
  <2>5. CASE t.op = "verify"
    <3>1. accounts[m] = "registered"
      BY <1>1, <2>1, <2>5 DEF InStep
    <3>2. r.status \in {"absent", "verified"}
      BY <1>3, <2>1, <2>5
     DEF Changed, Edited, Registered, Adopted, Removals, MarkVerified, SetUsername,
         UpdateConfig, Record, NoRecord
    <3>3. registry'[m].status \in {"absent", "verified"}
          /\ accounts'[m] = "registered"
      BY <1>4, <3>1, <3>2
    <3> QED
      BY <3>3 DEF Agrees
  <2>6. CASE t.op \notin {"register", "verify", "adopt", "unregister",
                          "force_unregister"}
    <3>1. Agrees(m)
      BY <1>1, <2>1, <2>6 DEF InStep
    <3>2. r.status = registry[m].status
      BY <1>3, <2>1, <2>6
     DEF Changed, Edited, Registered, Adopted, Removals, MarkVerified, SetUsername,
         UpdateConfig, Record, NoRecord
    <3>3. registry'[m].status = registry[m].status /\ accounts'[m] = accounts[m]
      BY <1>4, <3>2
    <3> QED
      BY <3>1, <3>3 DEF Agrees
  <2> QED
    BY <2>2, <2>3, <2>4, <2>5, <2>6
<1> HIDE DEF t
<1> QED
  BY <1>2, <1>4, <1>5, <1>6, <1>7, SoleStep

\* The steps of a save and of a health check decide nothing.
LEMMA SaveAgrees ==
    ASSUME TypeOK, AgreeInv, NEW w \in Tasks,
           task[w].phase \notin Deciding, task'[w].phase \notin Deciding,
           \A v \in Tasks \ {w} : task'[v] = task[v],
           UNCHANGED <<registry, accounts, disturbed>>
    PROVE  AgreeInv'
<1> SUFFICES ASSUME NEW n \in Numbers, n \notin disturbed PROVE AgreesAt(n)'
  BY DEF AgreeInv
<1>1. w \notin Undecided(n) /\ w \notin Undecided(n)'
  BY DEF Undecided, Deciding
<1> QED
  BY <1>1, AsideKeepsAgreement DEF AgreeInv

LEMMA StepAgrees ==
    ASSUME TypeOK, AgreeInv, NEW w \in Tasks,
           Progress(w) \/ SaveFails(w) \/ Disconnect(w)
    PROVE  AgreeInv'
<1>1. CASE CallSucceeds(w) \/ AlreadyRegistered(w) \/ Lock(w)
  BY <1>1, CallSucceedsAgrees, AlreadyRegisteredAgrees, LockAgrees
<1>2. CASE CallFails(w) \/ ConfigNotFound(w)
  BY <1>2, AbandonAgrees DEF CallFails, ConfigNotFound, Deciding
<1>3. CASE CallLost(w)
  <2>1. task[w].phase \in Deciding
    BY <1>3 DEF CallLost, TakeEffect, Deciding
  <2>2. task[w].number \in Numbers
    BY <2>1, UndecidedStep
  <2>3. \A n \in Numbers \ {task[w].number} : accounts'[n] = accounts[n]
    BY <1>3 DEF CallLost, TakeEffect, TypeOK
  <2> QED
    BY <1>3, <2>1, <2>3, AbandonAgrees DEF CallLost
<1>4. CASE Disconnect(w) /\ task[w].phase = "locking" /\ End(w)
           /\ disturbed' = disturbed \cup {task[w].number}
  BY <1>4, AbandonAgrees DEF Disconnect, Deciding
<1>5. ASSUME task[w].phase \in SavePhases \cup {"checking_health"},
             \/ task'[w].phase \in SavePhases \cup {"idle"}
                   /\ \A v \in Tasks \ {w} : task'[v] = task[v]
             \/ task' = task,
             UNCHANGED <<registry, accounts, disturbed>>
      PROVE  AgreeInv'
  <2>1. task[w].phase \notin Deciding /\ task'[w].phase \notin Deciding
    BY <1>5 DEF Deciding, CallPhases, SavePhases, FilePhases
  <2> QED
    BY <1>5, <2>1, SaveAgrees
<1>6. CASE HealthDone(w)
  BY <1>5, <1>6, EndMakesIdle DEF HealthDone, TypeOK
<1>7. CASE Derive(w) \/ Open(w)
  <2>1. task[w].phase \in SavePhases /\ UNCHANGED <<registry, accounts, disturbed>>
    BY <1>7 DEF Derive, Open, SavePhases, FilePhases
  <2>2. task'[w].phase \in SavePhases /\ \A v \in Tasks \ {w} : task'[v] = task[v]
    BY <1>7, MoveChangesPhase DEF Derive, Open, TypeOK, Phases, SavePhases, FilePhases
  <2> QED
    BY <1>5, <2>1, <2>2
<1>8. CASE Write(w)
  <2>1. task[w].phase \in SavePhases /\ UNCHANGED <<registry, accounts, disturbed>>
    BY <1>8 DEF Write, SavePhases, FilePhases
  <2>2. CASE Move(w, "renaming")
    <3>1. /\ task'[w].phase \in SavePhases
          /\ \A v \in Tasks \ {w} : task'[v] = task[v]
      BY <1>8, <2>2, MoveChangesPhase DEF Write, TypeOK, Phases, SavePhases, FilePhases
    <3> QED
      BY <1>5, <2>1, <3>1
  <2>3. CASE Finish(w)
    BY <1>5, <2>1, <2>3, FinishFrame
  <2> QED
    BY <1>8, <2>2, <2>3 DEF Write
<1>9. CASE Rename(w) \/ SaveFails(w)
  BY <1>5, <1>9, FinishFrame DEF Rename, SaveFails, SavePhases, FilePhases
<1>10. CASE Disconnect(w) /\ writer = w /\ UNCHANGED disturbed
            /\ (Finish(w) \/ UNCHANGED task)
  <2>1. task[w].phase \in SavePhases
    BY <1>10, ProxyAssumption DEF TypeOK
  <2> QED
    BY <1>5, <1>10, <2>1, FinishFrame DEF Disconnect
<1>11. CASE Disconnect(w)
  BY <1>4, <1>10, <1>11 DEF Disconnect
<1> QED
  BY <1>1, <1>2, <1>3, <1>6, <1>7, <1>8, <1>9, <1>11 DEF Progress

LEMMA RestartAgrees ==
    ASSUME TypeOK, AgreeInv, Restart
    PROVE  AgreeInv'
<1> SUFFICES ASSUME NEW n \in Numbers, n \notin disturbed' PROVE AgreesAt(n)'
  BY DEF AgreeInv
<1>1. n \notin disturbed /\ Undecided(n) = {} /\ registry'[n] = registry[n]
      /\ accounts' = accounts
  BY DEF Restart
<1>2. Undecided(n)' = {}
  BY DEF Restart, Undecided, Idle, CallPhases
<1>3. AgreesAt(n)
  BY <1>1 DEF AgreeInv
<1> QED
  BY <1>1, <1>2, <1>3, AsideKeepsAgreement

LEMMA NextAgrees == TypeOK /\ AgreeInv /\ [Next]_vars => AgreeInv'
<1> SUFFICES ASSUME TypeOK, AgreeInv, [Next]_vars PROVE AgreeInv'
  OBVIOUS
<1>1. CASE Next
  BY <1>1, BeginAgrees, StepAgrees, RestartAgrees DEF Next
<1>2. CASE UNCHANGED vars
  <2>1. \A n \in Numbers : AgreesAt(n)' <=> AgreesAt(n)
    BY <1>2 DEF vars, AgreesAt, Undecided, Agrees, InStep
  <2> QED
    BY <1>2, <2>1 DEF AgreeInv, vars
<1> QED
  BY <1>1, <1>2

\* A number's record agrees with its account between its requests, if they
\* neither overlapped nor were interrupted.
THEOREM ProxyAgrees == Spec => []RecordMatchesAccount
<1>1. AgreeInv => RecordMatchesAccount
  BY DEF AgreeInv, AgreesAt, RecordMatchesAccount
<1> QED
  BY <1>1, InitType, NextType, InitAgrees, NextAgrees, PTL DEF Spec

=============================================================================
