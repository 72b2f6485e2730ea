------------------------------ MODULE Receiver ------------------------------
(***************************************************************************)
(* How messages get from signal-cli to the bot: the two streams of         *)
(* MessageReceiver (crates/signal-client/src/receiver.rs) over the         *)
(* requests of SignalClient (client.rs), and the message loop as far as    *)
(* the stream can see it (signal-bot/src/main.rs).                         *)
(*                                                                         *)
(* A stream is a coroutine: it runs only while the loop asks for the next  *)
(* message, so nothing is received while a message is handled.             *)
(*                                                                         *)
(* signal-cli is external.  It keeps what arrives for an account until     *)
(* somebody receives it; of a socket that is left, it may have pushed      *)
(* more than was read.                                                     *)
(***************************************************************************)
EXTENDS Naturals, Sequences, FiniteSets, SequencesExt

CONSTANTS Accounts,   \* the bot's phone numbers
          Kinds,      \* kinds of frame
          Texts,      \* those that from_incoming makes a message of
          Deadly,     \* those whose handling can panic
          MaxFrames,  \* bound: frames that arrive
          MaxFaults   \* bound: failed requests, closed sockets, crashes

ASSUME ReceiverAssumption ==
    /\ Texts \subseteq Kinds /\ Deadly \subseteq Texts
    /\ MaxFrames \in Nat /\ MaxFaults \in Nat

VARIABLES mode,        \* config signal.use_websocket
          registered,  \* signal-cli: the accounts, as it lists them
          queue,       \* signal-cli: frames of each account not yet received
          frames,      \* frames that have arrived so far
          rpc,         \* where the stream is
          accounts,    \* its list of accounts
          at,          \* the account of the list it works on
          stale,       \* the list is older than account_refresh_interval
          batch,       \* what receive has returned and the loop has not taken
          hand,        \* the message that the loop handles, a set of 0 or 1
          handled,     \* history: messages the loop has finished, in order
          skipped,     \* history: frames a left socket has taken along
          gone,        \* history: frames lost by a failed request or a crash
          late,        \* history: how often each account's socket was left for a due
                       \* refresh since the list was last asked for
          faults

sourceVars == <<registered, queue, frames>>
streamVars == <<rpc, accounts, at, stale, batch>>
receiverVars == <<mode, registered, queue, frames, rpc, accounts, at, stale, batch,
                  hand, handled, skipped, gone, late, faults>>

Frame == [id : Nat, kind : Kinds]
Message == [id : Nat, kind : Kinds, account : Accounts]

ReceiverInit ==
    /\ mode \in {"websocket", "polling"}
    /\ registered = << >>
    /\ queue = [a \in Accounts |-> << >>] /\ frames = 0
    /\ rpc = "list" /\ accounts = << >> /\ at = 1 /\ stale = FALSE /\ batch = << >>
    /\ hand = {} /\ handled = << >>
    /\ skipped = {} /\ gone = {}
    /\ late = [a \in Accounts |-> 0]
    /\ faults = 0

Fault == faults < MaxFaults /\ faults' = faults + 1

Ids(s) == {s[i].id : i \in DOMAIN s}

-----------------------------------------------------------------------------
(* signal-cli and the clock. *)

Register(a) ==
    /\ a \notin Range(registered)
    /\ registered' = Append(registered, a)
    /\ UNCHANGED <<mode, queue, frames, streamVars, hand, handled, skipped, gone,
                   late, faults>>

Arrive(a, k) ==
    /\ a \in Range(registered) /\ frames < MaxFrames
    /\ frames' = frames + 1
    /\ queue' = [queue EXCEPT ![a] = Append(@, [id |-> frames', kind |-> k])]
    /\ UNCHANGED <<mode, registered, streamVars, hand, handled, skipped, gone,
                   late, faults>>

IntervalPasses ==
    /\ ~stale
    /\ stale' = TRUE
    /\ UNCHANGED <<mode, sourceVars, rpc, accounts, at, batch, hand, handled, skipped,
                   gone, late, faults>>

-----------------------------------------------------------------------------
(* The list of accounts. *)

\* The loop waits for the stream, which is at a step of its own.
Runs(pc) == rpc = pc /\ hand = {}

RefreshDue == accounts = << >> \/ stale

ListAccounts ==
    /\ Runs("list") /\ RefreshDue
    /\ accounts' = registered
    /\ stale' = FALSE
    /\ rpc' = IF registered = << >> THEN "wait" ELSE "next"
    /\ at' = 1
    /\ late' = [a \in Accounts |-> 0]
    /\ UNCHANGED <<mode, sourceVars, batch, hand, handled, skipped, gone, faults>>

\* The list that there is stays in use, and stays due for a refresh.
ListFails ==
    /\ Runs("list") /\ RefreshDue /\ Fault
    /\ rpc' = IF accounts = << >> THEN "wait" ELSE "next"
    /\ at' = 1
    /\ late' = [a \in Accounts |-> 0]
    /\ UNCHANGED <<mode, sourceVars, accounts, stale, batch, hand, handled, skipped,
                   gone>>

ListIsFresh ==
    /\ Runs("list") /\ ~RefreshDue
    /\ rpc' = "next" /\ at' = 1
    /\ UNCHANGED <<mode, sourceVars, accounts, stale, batch, hand, handled, skipped,
                   gone, late, faults>>

\* After 60 seconds without an account, or the pause after a round.
Again ==
    /\ rpc \in {"wait", "pause"} /\ hand = {}
    /\ rpc' = "list"
    /\ UNCHANGED <<mode, sourceVars, accounts, at, stale, batch, hand, handled, skipped,
                   gone, late, faults>>

account == accounts[at]

\* Mutant: off by one at the last account.
NextAccount_OnePastTheEnd ==
    IF at <= Len(accounts) THEN rpc' = "next" /\ at' = at + 1
                           ELSE rpc' = "pause" /\ at' = at

NextAccount ==
    IF at < Len(accounts) THEN rpc' = "next" /\ at' = at + 1
                          ELSE rpc' = "pause" /\ at' = at

\* from_incoming makes a message of a frame that carries a text.
Extracted(f) ==
    IF f.kind \in Texts THEN {[id |-> f.id, kind |-> f.kind, account |-> account]}
                        ELSE {}

-----------------------------------------------------------------------------
(* websocket_stream. *)

Connect ==
    /\ Runs("next") /\ mode = "websocket"
    /\ rpc' = "read"
    /\ UNCHANGED <<mode, sourceVars, accounts, at, stale, batch, hand, handled, skipped,
                   gone, late, faults>>

ConnectFails ==
    /\ Runs("next") /\ mode = "websocket" /\ Fault
    /\ NextAccount
    /\ UNCHANGED <<mode, sourceVars, accounts, stale, batch, hand, handled, skipped,
                   gone, late>>

ReadMessage ==
    /\ Runs("read") /\ queue[account] # << >> /\ ~stale
    /\ hand' = Extracted(Head(queue[account]))
    /\ queue' = [queue EXCEPT ![account] = Tail(@)]
    /\ UNCHANGED <<mode, registered, frames, streamVars, handled, skipped, gone,
                   late, faults>>

\* The socket of the account is left, n frames of it unread.
LeaveSocket(n) ==
    /\ queue' = [queue EXCEPT ![account] = SubSeq(@, n + 1, Len(@))]
    /\ skipped' = skipped \cup Ids(SubSeq(queue[account], 1, n))
    /\ NextAccount

\* Mutant: the socket is kept until it is closed.
ReadTooLate_KeepingSocket ==
    /\ Runs("read") /\ queue[account] # << >> /\ stale
    /\ queue' = [queue EXCEPT ![account] = Tail(@)]
    /\ skipped' = skipped \cup {Head(queue[account]).id}
    /\ late' = [late EXCEPT ![account] = @ + 1]
    /\ UNCHANGED <<mode, registered, frames, rpc, accounts, at, stale, batch, hand,
                   handled, gone, faults>>

\* That the list is due for a refresh is noticed when a frame has been read.  The
\* frame is dropped and the socket left, for that of the next account first.
ReadTooLate ==
    /\ Runs("read") /\ queue[account] # << >> /\ stale
    /\ \E n \in 1 .. Len(queue[account]) : LeaveSocket(n)
    /\ late' = [late EXCEPT ![account] = @ + 1]
    /\ UNCHANGED <<mode, registered, frames, accounts, stale, batch, hand, handled, gone,
                   faults>>

SocketEnds ==
    /\ Runs("read") /\ Fault
    /\ \E n \in 0 .. Len(queue[account]) : LeaveSocket(n)
    /\ UNCHANGED <<mode, registered, frames, accounts, stale, batch, hand, handled, gone,
                   late>>

-----------------------------------------------------------------------------
(* polling_stream. *)

Poll ==
    /\ Runs("next") /\ mode = "polling"
    /\ batch' = queue[account]
    /\ queue' = [queue EXCEPT ![account] = << >>]
    /\ rpc' = "yield"
    /\ UNCHANGED <<mode, registered, frames, accounts, at, stale, hand, handled, skipped,
                   gone, late, faults>>

\* The request fails, or its answer is lost (client.rs has a timeout of 120
\* seconds) after signal-cli has let go of the messages.
PollFails ==
    /\ Runs("next") /\ mode = "polling" /\ Fault
    /\ \/ UNCHANGED <<queue, gone>>
       \/ /\ queue' = [queue EXCEPT ![account] = << >>]
          /\ gone' = gone \cup Ids(queue[account])
    /\ NextAccount
    /\ UNCHANGED <<mode, registered, frames, accounts, stale, batch, hand, handled,
                   skipped, late>>

\* Mutant: the last message first.
Yield_LastFirst ==
    /\ Runs("yield") /\ batch # << >>
    /\ hand' = Extracted(Last(batch))
    /\ batch' = Front(batch)
    /\ UNCHANGED <<mode, sourceVars, rpc, accounts, at, stale, handled, skipped, gone,
                   late, faults>>

Yield ==
    /\ Runs("yield") /\ batch # << >>
    /\ hand' = Extracted(Head(batch))
    /\ batch' = Tail(batch)
    /\ UNCHANGED <<mode, sourceVars, rpc, accounts, at, stale, handled, skipped, gone,
                   late, faults>>

\* Mutant: an account without messages ends the round.
BatchDone_EndingRound ==
    /\ Runs("yield") /\ batch = << >>
    /\ at' = 1
    /\ rpc' = "pause"
    /\ UNCHANGED <<mode, sourceVars, accounts, stale, batch, hand, handled, skipped,
                   gone, late, faults>>

BatchDone ==
    /\ Runs("yield") /\ batch = << >>
    /\ NextAccount
    /\ UNCHANGED <<mode, sourceVars, accounts, stale, batch, hand, handled, skipped,
                   gone, late, faults>>

-----------------------------------------------------------------------------
(* The message loop. *)

Finish ==
    /\ hand # {}
    /\ \E m \in hand : handled' = Append(handled, m)
    /\ hand' = {}
    /\ UNCHANGED <<mode, sourceVars, streamVars, skipped, gone, late, faults>>

\* The process dies and is started again; signal-cli lives on.
Die ==
    /\ gone' = gone \cup Ids(batch) \cup {m.id : m \in hand}
    /\ rpc' = "list" /\ accounts' = << >> /\ at' = 1 /\ stale' = FALSE /\ batch' = << >>
    /\ hand' = {}
    /\ late' = [a \in Accounts |-> 0]
    /\ UNCHANGED <<mode, sourceVars, handled, skipped>>

\* Of its own, or because handling the message panics.
Crash ==
    \/ Fault /\ Die
    \/ (\E m \in hand : m.kind \in Deadly) /\ Die /\ UNCHANGED faults

-----------------------------------------------------------------------------
Stream ==
    \/ ListAccounts \/ ListFails \/ ListIsFresh \/ Again
    \/ Connect \/ ConnectFails \/ ReadMessage \/ ReadTooLate \/ SocketEnds
    \/ Poll \/ PollFails \/ Yield \/ BatchDone

Environment ==
    \/ \E a \in Accounts : Register(a) \/ \E k \in Kinds : Arrive(a, k)
    \/ IntervalPasses

ReceiverNext == Environment \/ Stream \/ Finish \/ Crash

ReceiverSpec == ReceiverInit /\ [][ReceiverNext]_receiverVars

\* The stream runs whenever the loop waits for it, every request ends, every
\* message is finished, and time passes.
ReceiverFairness ==
    /\ WF_receiverVars(Stream)
    /\ WF_receiverVars(Finish)
    /\ WF_receiverVars(IntervalPasses)

FairReceiverSpec == ReceiverSpec /\ ReceiverFairness

-----------------------------------------------------------------------------
(* Properties. *)

ReceiverTypeOK ==
    /\ mode \in {"websocket", "polling"}
    /\ registered \in Seq(Accounts)
    /\ \A i, j \in DOMAIN registered : registered[i] = registered[j] => i = j
    /\ queue \in [Accounts -> Seq(Frame)]
    /\ frames \in Nat
    /\ rpc \in {"list", "wait", "next", "read", "yield", "pause"}
    /\ accounts \in Seq(Accounts)
    /\ \A i, j \in DOMAIN accounts : accounts[i] = accounts[j] => i = j
    /\ at \in Nat
    /\ rpc \in {"next", "read", "yield"} => at \in DOMAIN accounts
    /\ stale \in BOOLEAN
    /\ batch \in Seq(Frame) /\ (rpc # "yield" => batch = << >>)
    /\ hand \subseteq Message /\ \A m, n \in hand : m = n
    /\ handled \in Seq(Message)
    /\ skipped \subseteq Nat /\ gone \subseteq Nat
    /\ late \in [Accounts -> Nat]
    /\ faults \in Nat

\* What one account is sent is handled in the order it was sent, each message
\* at most once, across polls, sockets, slow handlers and restarts.
HandledInOrder ==
    \A i, j \in DOMAIN handled :
        i < j /\ handled[i].account = handled[j].account => handled[i].id < handled[j].id

\* "Break inner loop to refresh accounts": a busy account does not put a due
\* refresh off.  Before the list is asked for, successfully or not, each account's
\* socket is left for it at most once.  What such a leaving loses is not bounded:
\* the frame that was read, and all that signal-cli had pushed behind it.
RefreshIsNext == \A a \in Accounts : late[a] <= 1

\* "polls ALL registered accounts": a message to any of them is handled, however
\* many others there are and whichever registered last, unless a request's
\* answer or the process is lost with it.
Outstanding(i) ==
    \/ i \in {m.id : m \in hand}
    \/ \E s \in {batch} \cup Range(queue) : \E n \in DOMAIN s :
          s[n].id = i /\ s[n].kind \in Texts

PolledIsHandled ==
    \A i \in 1 .. MaxFrames :
        mode = "polling" /\ Outstanding(i) ~> i \in Ids(handled) \cup gone

\* "WebSocket: persistent connection, messages pushed in real-time": the same of
\* the sockets.
PushedIsHandled ==
    \A i \in 1 .. MaxFrames :
        mode = "websocket" /\ Outstanding(i) ~> i \in Ids(handled) \cup gone
=============================================================================
