----------------------------- MODULE CreditStore -----------------------------
(***************************************************************************)
(* The encrypted credit store of crates/x402-payments/src/credits/store.rs *)
(* as the running program uses it: one or more CreditStore instances in    *)
(* one process, each with its own in-memory CreditStoreData behind its own *)
(* tokio RwLock, all of them persisting to the same file.                  *)
(*                                                                         *)
(* A worker is a sequential caller of the store.  A deposit worker is an   *)
(* HTTP connection whose requests end in add_credits; a charge worker is   *)
(* the bot's message loop, whose chat handler ends in deduct_credits.  The *)
(* memory update is one step (it runs under the write guard without an     *)
(* await); persist is one step per await point, because between any two of *)
(* them other workers run, the client may hang up or the process may die.  *)
(*                                                                         *)
(* tokio's fs::write and fs::rename run on the blocking pool: dropping the *)
(* future releases the read guard but does not stop the system calls that  *)
(* were already handed over.  A worker in "detached" is such a leftover.   *)
(***************************************************************************)
EXTENDS CreditBalance, Sequences, FiniteSets

CONSTANTS Users,
          Txs,              \* on-chain transaction hashes
          Stores,           \* CreditStore instances sharing one storage_path
          DepositWorkers,   \* HTTP connections of the payment server
          ChargeWorkers,    \* message loops that charge for replies
          StoreOf,          \* the instance each worker was given
          TxCredits,        \* verified amount of each transaction, in credits
          ChargeAmounts,    \* amounts a reply may cost
          MaxUsage,         \* bound: entries of the usage log
          MaxFaults         \* bound: faults of each kind

Workers == DepositWorkers \cup ChargeWorkers

\* "agent": the guest agent does not answer DeriveKey.
FaultKinds == {"crash", "disconnect", "io", "agent"}

\* What derive_key may answer: the key of the DeriveKey endpoint or, when that
\* call fails, one computed from AppInfo.  Neither opens what the other closed.
Keys == {"derived", "fallback"}

ASSUME ConstantsAssumption ==
    /\ DepositWorkers \cap ChargeWorkers = {}
    /\ StoreOf \in [Workers -> Stores]
    /\ TxCredits \in [Txs -> Credits]
    /\ ChargeAmounts \subseteq Credits
    /\ MaxUsage \in Nat
    /\ MaxFaults \in [FaultKinds -> Nat]

VARIABLES mem,        \* mem[s]: CreditStoreData of instance s
          pc,         \* where each worker is
          req,        \* the deposit a worker is processing, as a set of 0 or 1
          cached,     \* cached[s]: the key instance s remembers, or "none"
          key,        \* the key a worker encrypts with, or "none"
          snap,       \* the data a worker serialized under its read guard
          fd,         \* the path that now names the file a worker has open
          detached,   \* workers whose future was dropped during a file call
          tmp,        \* the file at storage_path.with_extension("tmp")
          main,       \* the file at storage_path
          acked,      \* deposits whose client was answered "confirmed"
          running,    \* the process is up
          faults      \* faults so far, of each kind

vars == <<mem, pc, req, cached, key, snap, fd, detached, tmp, main, acked, running, faults>>

-----------------------------------------------------------------------------
(* The data. *)

Deposit == [user : Users, tx : Txs, credits : Credits]
UsageRecord == [user : Users, credits : Credits]

\* users: the keys present in the balances map.  get_balance answers
\* CreditBalance::new for the others.
CreditStoreData == [users     : SUBSET Users,
                    balances  : [Users -> Balance],
                    deposits  : Seq(Deposit),
                    usage_log : Seq(UsageRecord),
                    processed : SUBSET Txs]

FreshData == [users     |-> {},
              balances  |-> [u \in Users |-> NewBalance],
              deposits  |-> << >>,
              usage_log |-> << >>,
              processed |-> {}]

\* What a path can hold: nothing, a truncated file, a file that does not
\* decrypt under any key, or a CreditStoreData encrypted with a key.
FileKinds == {"absent", "empty", "torn", "data"}
File == [kind : FileKinds, key : Keys \cup {"none"}, data : CreditStoreData]

Absent == [kind |-> "absent", key |-> "none", data |-> FreshData]
Empty  == [kind |-> "empty",  key |-> "none", data |-> FreshData]
Torn   == [kind |-> "torn",   key |-> "none", data |-> FreshData]
Saved(k, d) == [kind |-> "data", key |-> k, data |-> d]

DepositsIn(d) == {d.deposits[i] : i \in DOMAIN d.deposits}

\* Mutant: the newest deposit first.
WithDeposit_NewestFirst(d, dep) ==
    [users     |-> d.users \cup {dep.user},
     balances  |-> [d.balances EXCEPT ![dep.user] = AddCreditsTo(@, dep.credits)],
     deposits  |-> <<dep>> \o d.deposits,
     usage_log |-> d.usage_log,
     processed |-> d.processed \cup {dep.tx}]

\* The effect of add_credits on the data.
WithDeposit(d, dep) ==
    [users     |-> d.users \cup {dep.user},
     balances  |-> [d.balances EXCEPT ![dep.user] = AddCreditsTo(@, dep.credits)],
     deposits  |-> Append(d.deposits, dep),
     usage_log |-> d.usage_log,
     processed |-> d.processed \cup {dep.tx}]

WithUsage(d, u, c) ==
    [d EXCEPT !.usage_log = Append(@, [user |-> u, credits |-> c])]

\* The effect of deduct_credits on the data.
WithCharge(d, u, c) ==
    [WithUsage(d, u, c) EXCEPT
        !.balances = [d.balances EXCEPT ![u] = DeductCreditsFrom(@, c)]]

\* load: a missing or too short file is a fresh store.
Loaded(f) == IF f.kind = "data" THEN f.data ELSE FreshData

\* load with key k succeeds on f.
Opens(f, k) == \/ f.kind \in {"absent", "empty"}
               \/ f.kind = "data" /\ f.key = k

\* Writing new from offset 0 into a file that holds old: if another writer has
\* filled the file since it was truncated, a shorter text leaves the tail of
\* the old one behind it.
WriteOutcome(old, new) ==
    IF \/ old.kind \in {"absent", "empty"}
       \/ old.kind = "data" /\ old.data = new.data
    THEN {new}
    ELSE {new, Torn}

-----------------------------------------------------------------------------
(* Locks, faults and the end of a request. *)

FilePhases == {"open", "write", "rename"}
PersistPhases == {"persist", "asking", "serialize"} \cup FilePhases
Phases == {"idle"} \cup PersistPhases

\* Mutant: the read guard is dropped once the data is serialized.
Readers_ReleasedEarly(s) == {}

\* persist keeps its read guard from serialization to the end of rename; a
\* writer gets in only when no guard is left.
Readers(s) == {w \in Workers : /\ StoreOf[w] = s
                               /\ pc[w] \in FilePhases
                               /\ w \notin detached}

Fault(kind) ==
    /\ faults[kind] < MaxFaults[kind]
    /\ faults' = [faults EXCEPT ![kind] = @ + 1]

\* The request of w is over and its file handle, if any, is closed.
EndRequest(w) ==
    /\ pc' = [pc EXCEPT ![w] = "idle"]
    /\ req' = [req EXCEPT ![w] = {}]
    /\ key' = [key EXCEPT ![w] = "none"]
    /\ snap' = [snap EXCEPT ![w] = FreshData]
    /\ detached' = detached \ {w}

Init ==
    /\ mem = [s \in Stores |-> FreshData]
    /\ pc = [w \in Workers |-> "idle"]
    /\ req = [w \in Workers |-> {}]
    /\ cached = [s \in Stores |-> "none"]
    /\ key = [w \in Workers |-> "none"]
    /\ snap = [w \in Workers |-> FreshData]
    /\ fd = [w \in Workers |-> "none"]
    /\ detached = {}
    /\ tmp = Absent
    /\ main = Absent
    /\ acked = {}
    /\ running = TRUE
    /\ faults = [k \in FaultKinds |-> 0]

-----------------------------------------------------------------------------
(* add_credits and deduct_credits up to the release of the write guard. *)

CanWrite(w) ==
    /\ running
    /\ pc[w] = "idle"
    /\ Readers(StoreOf[w]) = {}

\* Mutant: the transaction hash is not looked up.
AddCredits_NoDuplicateCheck(w, u, x) ==
    /\ CanWrite(w)
    /\ Len(mem[StoreOf[w]].deposits) < Cardinality(Txs)
    /\ LET dep == [user |-> u, tx |-> x, credits |-> TxCredits[x]]
       IN  /\ mem' = [mem EXCEPT ![StoreOf[w]] = WithDeposit(@, dep)]
           /\ req' = [req EXCEPT ![w] = {dep}]
    /\ pc' = [pc EXCEPT ![w] = "persist"]
    /\ UNCHANGED <<cached, key, snap, fd, detached, tmp, main, acked, running, faults>>

\* Mutant: the deposit is granted and never saved.
AddCredits_NotPersisted(w, u, x) ==
    /\ CanWrite(w)
    /\ x \notin mem[StoreOf[w]].processed
    /\ LET dep == [user |-> u, tx |-> x, credits |-> TxCredits[x]]
       IN  mem' = [mem EXCEPT ![StoreOf[w]] = WithDeposit(@, dep)]
    /\ UNCHANGED <<pc, req, cached, key, snap, fd, detached, tmp, main, acked,
                   running, faults>>

AddCredits(w, u, x) ==
    /\ CanWrite(w)
    /\ x \notin mem[StoreOf[w]].processed
    /\ LET dep == [user |-> u, tx |-> x, credits |-> TxCredits[x]]
       IN  /\ mem' = [mem EXCEPT ![StoreOf[w]] = WithDeposit(@, dep)]
           /\ req' = [req EXCEPT ![w] = {dep}]
    /\ pc' = [pc EXCEPT ![w] = "persist"]
    /\ UNCHANGED <<cached, key, snap, fd, detached, tmp, main, acked, running, faults>>

\* DuplicateTransaction: answered 409, nothing is saved.
RefuseDuplicate(w, x) ==
    /\ CanWrite(w)
    /\ x \in mem[StoreOf[w]].processed
    /\ UNCHANGED vars

DeductCredits(w, u, c) ==
    /\ CanWrite(w)
    /\ LET d == mem[StoreOf[w]]
       IN  /\ u \in d.users
           /\ HasCredits(d.balances[u], c)
           /\ Len(d.usage_log) < MaxUsage
           /\ mem' = [mem EXCEPT ![StoreOf[w]] = WithCharge(@, u, c)]
    /\ pc' = [pc EXCEPT ![w] = "persist"]
    /\ UNCHANGED <<req, cached, key, snap, fd, detached, tmp, main, acked, running,
                   faults>>

\* Mutant: the usage record is pushed before the balance is checked.
RefuseCharge_AfterLogging(w, u, c) ==
    /\ CanWrite(w)
    /\ ~HasCredits(mem[StoreOf[w]].balances[u], c)
    /\ Len(mem[StoreOf[w]].usage_log) < MaxUsage
    /\ mem' = [mem EXCEPT ![StoreOf[w]] = WithUsage(@, u, c)]
    /\ UNCHANGED <<pc, req, cached, key, snap, fd, detached, tmp, main, acked,
                   running, faults>>

\* InsufficientCredits: logged by the chat handler, which still replies.
RefuseCharge(w, u, c) ==
    /\ CanWrite(w)
    /\ ~HasCredits(mem[StoreOf[w]].balances[u], c)
    /\ UNCHANGED vars

\* UserNotFound is only reached by a charge of nothing: the usage record is
\* already pushed by then, and persist is skipped.
ChargeUnknownUser(w, u) ==
    /\ CanWrite(w)
    /\ 0 \in ChargeAmounts
    /\ LET d == mem[StoreOf[w]]
       IN  /\ u \notin d.users
           /\ Len(d.usage_log) < MaxUsage
           /\ mem' = [mem EXCEPT ![StoreOf[w]] = WithUsage(@, u, 0)]
    /\ UNCHANGED <<pc, req, cached, key, snap, fd, detached, tmp, main, acked,
                   running, faults>>

-----------------------------------------------------------------------------
(* persist, one step per await. *)

\* derive_key: the cached key, or else the guest agent is asked, in the middle
\* of which other callers may ask as well.
LookUpKey(w) ==
    /\ pc[w] = "persist"
    /\ LET k == cached[StoreOf[w]]
       IN  /\ key' = [key EXCEPT ![w] = k]
           /\ pc' = [pc EXCEPT ![w] = IF k = "none" THEN "asking" ELSE "serialize"]
    /\ UNCHANGED <<mem, req, cached, snap, fd, detached, tmp, main, acked, running,
                   faults>>

\* Keys ks were obtained; a fallback key means that DeriveKey failed.
Derived(ks) == IF "fallback" \in ks THEN Fault("agent") ELSE UNCHANGED faults

\* The answer is cached over whatever another caller cached meanwhile.
KeyDerived(w) ==
    /\ pc[w] = "asking"
    /\ \E k \in Keys :
          /\ Derived({k})
          /\ key' = [key EXCEPT ![w] = k]
          /\ cached' = [cached EXCEPT ![StoreOf[w]] = k]
    /\ pc' = [pc EXCEPT ![w] = "serialize"]
    /\ UNCHANGED <<mem, req, snap, fd, detached, tmp, main, acked, running>>

\* Take the read guard, serialize and encrypt.
Serialize(w) ==
    /\ pc[w] = "serialize"
    /\ snap' = [snap EXCEPT ![w] = mem[StoreOf[w]]]
    /\ pc' = [pc EXCEPT ![w] = "open"]
    /\ UNCHANGED <<mem, req, cached, key, fd, detached, tmp, main, acked, running,
                   faults>>

\* Mutant: storage_path is written in place.
OpenTmp_InPlace(w) ==
    /\ pc[w] = "open"
    /\ main' = Empty
    /\ fd' = [fd EXCEPT ![w] = "main"]
    /\ pc' = [pc EXCEPT ![w] = "write"]
    /\ UNCHANGED <<mem, req, cached, key, snap, detached, tmp, acked, running, faults>>

\* fs::write, first half: create or truncate the temporary file.
OpenTmp(w) ==
    /\ pc[w] = "open"
    /\ tmp' = Empty
    /\ fd' = [fd EXCEPT ![w] = "tmp"]
    /\ pc' = [pc EXCEPT ![w] = "write"]
    /\ UNCHANGED <<mem, req, cached, key, snap, detached, main, acked, running, faults>>

\* The file w has open becomes f, under whatever name it has now.
PutFile(w, f) ==
    /\ tmp' = IF fd[w] = "tmp" THEN f ELSE tmp
    /\ main' = IF fd[w] = "main" THEN f ELSE main

OpenFile(w) == CASE fd[w] = "tmp"  -> tmp
                 [] fd[w] = "main" -> main
                 [] OTHER          -> Empty

\* fs::write, second half.  A detached call ends here: nobody is left to
\* issue the rename.
WriteTmp(w) ==
    /\ pc[w] = "write"
    /\ \E f \in WriteOutcome(OpenFile(w), Saved(key[w], snap[w])) : PutFile(w, f)
    /\ fd' = [fd EXCEPT ![w] = "none"]
    /\ IF w \in detached
       THEN EndRequest(w)
       ELSE /\ pc' = [pc EXCEPT ![w] = "rename"]
            /\ UNCHANGED <<req, key, snap, detached>>
    /\ UNCHANGED <<mem, cached, acked, running, faults>>

\* The name an open file has after the rename: the renamed file is now
\* storage_path, and the one it replaced has no name any more.
RenamedTo == [none |-> "none", tmp |-> "main", main |-> "gone", gone |-> "gone"]

Publish ==
    /\ tmp.kind # "absent"
    /\ main' = tmp
    /\ tmp' = Absent
    /\ fd' = [v \in Workers |-> RenamedTo[fd[v]]]

\* Mutant: a failed rename is tried again until it succeeds.
RenameTmp_Retrying(w) ==
    /\ pc[w] = "rename"
    /\ \/ /\ Publish
          /\ acked' = IF w \in detached THEN acked ELSE acked \cup req[w]
          /\ EndRequest(w)
          /\ UNCHANGED <<mem, cached, running, faults>>
       \/ /\ tmp.kind = "absent"
          /\ UNCHANGED vars

\* fs::rename, the end of persist.  Without a temporary file (another persist
\* has published it) it fails and the caller sees an error.
RenameTmp(w) ==
    /\ pc[w] = "rename"
    /\ \/ /\ Publish
          /\ acked' = IF w \in detached THEN acked ELSE acked \cup req[w]
       \/ /\ tmp.kind = "absent"
          /\ UNCHANGED <<tmp, main, fd, acked>>
    /\ EndRequest(w)
    /\ UNCHANGED <<mem, cached, running, faults>>

PersistStep(w) ==
    \/ LookUpKey(w) \/ KeyDerived(w) \/ Serialize(w)
    \/ OpenTmp(w) \/ WriteTmp(w) \/ RenameTmp(w)

-----------------------------------------------------------------------------
(* Faults. *)

\* Mutant: the error of a failed save is swallowed.
PersistFails_Ignored(w) ==
    /\ pc[w] \in {"asking"} \cup FilePhases
    /\ Fault("io")
    /\ acked' = acked \cup req[w]
    /\ fd' = [fd EXCEPT ![w] = "none"]
    /\ EndRequest(w)
    /\ UNCHANGED <<mem, cached, tmp, main, running>>

\* The guest agent answers neither DeriveKey nor AppInfo, or a file operation
\* fails: add_credits returns the error, its caller answers 500 or logs.  The
\* memory keeps the update; a failed write may have left a part of it behind.
PersistFails(w) ==
    /\ pc[w] \in {"asking"} \cup FilePhases
    /\ Fault("io")
    /\ \/ UNCHANGED <<tmp, main>>
       \/ pc[w] = "write" /\ PutFile(w, Torn)
    /\ fd' = [fd EXCEPT ![w] = "none"]
    /\ EndRequest(w)
    /\ UNCHANGED <<mem, cached, acked, running>>

\* The HTTP client hangs up and the server drops the handler.  A file call
\* that is on the blocking pool by then runs on without the read guard.
Disconnect(w) ==
    /\ w \notin detached
    /\ Fault("disconnect")
    /\ \/ pc[w] \in PersistPhases \ {"write"} /\ EndRequest(w)
       \/ /\ pc[w] \in FilePhases
          /\ detached' = detached \cup {w}
          /\ UNCHANGED <<pc, req, key, snap>>
    /\ UNCHANGED <<mem, cached, fd, tmp, main, acked, running>>

\* The process dies, in the middle of a write perhaps.  Files survive.
Crash ==
    /\ running
    /\ Fault("crash")
    /\ running' = FALSE
    /\ mem' = [s \in Stores |-> FreshData]
    /\ pc' = [w \in Workers |-> "idle"]
    /\ req' = [w \in Workers |-> {}]
    /\ cached' = [s \in Stores |-> "none"]
    /\ key' = [w \in Workers |-> "none"]
    /\ snap' = [w \in Workers |-> FreshData]
    /\ fd' = [w \in Workers |-> "none"]
    /\ detached' = {}
    /\ \/ UNCHANGED <<tmp, main>>
       \/ \E w \in Workers : pc[w] = "write" /\ PutFile(w, Torn)
    /\ UNCHANGED acked

\* CreditStore::new of every instance, before the first request is served.  If
\* there is a file each of them derives a key, and each must be able to open it.
Restart ==
    /\ ~running
    /\ cached' \in IF main.kind = "absent" THEN {[s \in Stores |-> "none"]}
                                            ELSE [Stores -> Keys]
    /\ \A s \in Stores : Opens(main, cached'[s])
    /\ Derived({cached'[s] : s \in Stores})
    /\ running' = TRUE
    /\ mem' = [s \in Stores |-> Loaded(main)]
    /\ UNCHANGED <<pc, req, key, snap, fd, detached, tmp, main, acked>>

\* The file does not decrypt, or no key is to be had: main returns an error and
\* the container is restarted, to try again.
StartFails ==
    /\ ~running
    /\ main.kind # "absent"
    /\ UNCHANGED vars

-----------------------------------------------------------------------------
Next ==
    \/ \E w \in DepositWorkers, x \in Txs :
          \/ \E u \in Users : AddCredits(w, u, x)
          \/ RefuseDuplicate(w, x)
    \/ \E w \in DepositWorkers : Disconnect(w)
    \/ \E w \in ChargeWorkers, u \in Users :
          \/ \E c \in ChargeAmounts : DeductCredits(w, u, c) \/ RefuseCharge(w, u, c)
          \/ ChargeUnknownUser(w, u)
    \/ \E w \in Workers : PersistStep(w) \/ PersistFails(w)
    \/ Crash
    \/ Restart
    \/ StartFails

Spec == Init /\ [][Next]_vars

\* The runtime polls every ready task and completes every file call and every
\* request to the guest agent; the container is restarted whenever it exits
\* (docker's restart policy), again and again with a guest agent that answers.
Fairness ==
    /\ \A w \in Workers : WF_vars(PersistStep(w))
    /\ WF_vars(Restart /\ UNCHANGED faults)

FairSpec == Spec /\ Fairness

-----------------------------------------------------------------------------
(* Properties of the data, wherever a copy of it is. *)

AllData == {mem[s] : s \in Stores} \cup {snap[w] : w \in Workers}
               \cup {tmp.data, main.data}

\* Every copy of the store's data, in memory, in a snapshot or in a file, is a
\* CreditStoreData, and the control state is well formed.
TypeOK ==
    /\ mem \in [Stores -> CreditStoreData]
    /\ pc \in [Workers -> Phases]
    /\ req \in [Workers -> SUBSET Deposit]
    /\ cached \in [Stores -> Keys \cup {"none"}]
    /\ key \in [Workers -> Keys \cup {"none"}]
    /\ snap \in [Workers -> CreditStoreData]
    /\ fd \in [Workers -> {"none", "tmp", "main", "gone"}]
    /\ detached \subseteq Workers
    /\ tmp \in File
    /\ main \in File
    /\ acked \subseteq Deposit
    /\ running \in BOOLEAN
    /\ faults \in [FaultKinds -> Nat]

NoTxTwice(d) ==
    \A i, j \in DOMAIN d.deposits : d.deposits[i].tx = d.deposits[j].tx => i = j

\* "Processed transaction hashes (for double-spend prevention)": in no copy of
\* the data, whatever was interrupted or reloaded, does a transaction appear
\* in two deposits, and the set that refuses a transaction is exactly the set
\* of those that were credited (none is refused without having been granted).  A
\* transaction is here what the store takes it for, the string of its hash.
CreditedOnce ==
    \A d \in AllData :
        /\ NoTxTwice(d)
        /\ d.processed = {dep.tx : dep \in DepositsIn(d)}

\* No user is ever able to spend credits that were not deposited: remaining
\* credits are covered by the deposits, what is missing from the deposits is
\* accounted for as consumed, and an account that was never credited is
\* empty.  Holds through saturation, crashes and reloads.
BalancesSound ==
    \A d \in AllData, u \in Users :
        /\ BalanceSound(d.balances[u])
        /\ u \notin d.users => d.balances[u] = NewBalance

\* What the entries of a log add up to for user u, counted as balances count.
SumOf(u, log) ==
    LET sum[n \in 0 .. Len(log)] ==
            IF n = 0 THEN 0
            ELSE IF log[n].user = u THEN SaturatingAdd(sum[n - 1], log[n].credits)
                 ELSE sum[n - 1]
    IN  sum[Len(log)]

\* The logs of d explain the balance of every user.
Audited(d) ==
    \A u \in Users :
        LET b == d.balances[u]
        IN  /\ b.total_deposited = SumOf(u, d.deposits)
            /\ b.total_consumed = SumOf(u, d.usage_log)
            /\ BalanceExact(b)

\* The audit trail explains every balance: for each user the deposit log adds
\* up to total_deposited, the usage log to total_consumed, and as long as no
\* counter has saturated what remains is the difference.  A charge that failed
\* half-way, a lost record or a record of what did not happen would break it.
AuditAgrees == \A d \in AllData : Audited(d)

\* The read guard of persist: from serialization to the end of the rename the
\* memory the caller is saving is the memory it serialized, so a save never
\* publishes data that its own store has moved past.
SnapshotCurrent ==
    \A w \in Workers :
        pc[w] \in FilePhases /\ w \notin detached => snap[w] = mem[StoreOf[w]]

-----------------------------------------------------------------------------
(* Properties of the file. *)

\* "Persistent": no save replaces the file by data from before a deposit that
\* was confirmed to its payer.
AckedNotOverwritten ==
    main.kind = "data" => acked \subseteq DepositsIn(main.data)

\* "Atomic write": whoever opens storage_path finds a whole store or nothing,
\* never a file that is truncated or half-written.
MainNeverPartial == main.kind \in {"absent", "data"}

\* A save replaces a whole file only by one that holds every deposit and every
\* usage record of the old one, in the same order: history is append-only.
IsPrefixOf(s, t) == Len(s) <= Len(t) /\ \A i \in DOMAIN s : s[i] = t[i]

FileNeverRegresses ==
    [][main.kind = "data" /\ main'.kind = "data" =>
          /\ IsPrefixOf(main.data.deposits, main'.data.deposits)
          /\ IsPrefixOf(main.data.usage_log, main'.data.usage_log)]_vars

-----------------------------------------------------------------------------
(* Liveness, under Fairness. *)

\* Every transaction credited in memory reaches the file, even when its own
\* save fails because a concurrent one has taken the temporary file away.
CreditReachesDisk ==
    \A x \in Txs, s \in Stores :
        x \in mem[s].processed ~> main.kind = "data" /\ x \in main.data.processed

\* "DeriveKey not available, falling back to AppInfo": a program that is down and
\* stays down, although it is started again and again with a guest agent that
\* works, has had its file written under the fallback key.  Nothing else, no crash
\* in the middle of a save and no failed file call, keeps the store from opening.
OpensAgain == <>[]~running => <>(main.kind = "data" /\ main.key = "fallback")

\* Every caller of the store is answered: persist cannot get stuck on another
\* persist, on a missing temporary file or on a crash.
RequestAnswered == \A w \in Workers : pc[w] # "idle" ~> pc[w] = "idle"
=============================================================================
