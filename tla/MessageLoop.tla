---------------------------- MODULE MessageLoop ----------------------------
(***************************************************************************)
(* The message loop (crates/signal-bot/src/main.rs) between the stream of  *)
(* Receiver and the commands: the translation interceptor                  *)
(* (translation_interceptor.rs) with its rate limit and its provider       *)
(* (crates/translation), the choice of a handler and the reply.            *)
(*                                                                         *)
(* A step is the code up to the next answer of the provider, the handler   *)
(* or signal-cli.  What a handler does is the subject of ChatHandler and   *)
(* Negotiation; here it ends, fails or panics.  Signal is external: what   *)
(* is posted to a room is delivered to the other members, each in its own  *)
(* time, and to a member that is one of the bot's accounts as to any.      *)
(***************************************************************************)
EXTENDS Receiver

CONSTANTS People,
          Groups,      \* rooms without translation
          Bilingual,   \* rooms with one: config translation.groups
          Members,     \* the bot's accounts in each room
          Spoken,      \* kinds of message that people send
          Written,     \* kinds of message that the loop sends
          Capacity,    \* rate_limit_per_minute
          Unit,        \* parts of a token
          Refill,      \* parts refilled per tick of the clock
          MaxClock,    \* bound: ticks
          MaxSpoken    \* bound: messages that people send

Direct == "direct"
Rooms == Groups \cup Bilingual \cup {Direct}

\* lang: the detected language, "unclear" if the text is short, in another
\* language or detected with low confidence.  wide: a character lies across
\* byte 50, where the chat handler cuts the text for its log.
Kind == [sort : {"receipt", "command", "plain"}, room : Rooms, from : People \cup Accounts,
         lang : {"a", "b", "unclear"}, mention : BOOLEAN, wide : BOOLEAN]

ASSUME LoopAssumption ==
    /\ Direct \notin Groups \cup Bilingual /\ Groups \cap Bilingual = {}
    /\ People \cap Accounts = {}
    /\ Members \in [Groups \cup Bilingual -> SUBSET Accounts]
    /\ Kinds = Kind
    /\ Texts = {k \in Kind : k.sort # "receipt"}
    /\ Deadly = {k \in Kind : k.sort = "plain" /\ k.wide}
    /\ Spoken \subseteq {k \in Kind : k.from \in People}
    /\ Written \subseteq {k \in Kind : k.from \in Accounts /\ k.sort # "receipt"}
    /\ Capacity \in Nat \ {0} /\ Unit \in Nat \ {0} /\ Refill \in Nat
    /\ MaxClock \in Nat /\ MaxSpoken \in Nat

VARIABLES lpc,       \* where the loop is with the message in hand
          clock,
          tokens,    \* TokenBucket.tokens, in parts
          refilled,  \* last_refill
          air,       \* frames on their way to signal-cli
          spoken,    \* messages that people have sent
          calls,     \* history: when the provider was called, since the start
          posts      \* history: what the loop has sent

translatorVars == <<clock, tokens, refilled, calls>>
loopVars == <<lpc, clock, tokens, refilled, air, spoken, calls, posts>>
vars == <<receiverVars, loopVars>>

Post == [for : Nat, account : Accounts, room : Rooms, what : {"translation", "answer"}]

Init ==
    /\ ReceiverInit
    /\ lpc = "take"
    /\ clock = 0
    /\ tokens = Capacity * Unit /\ refilled = 0
    /\ air = {} /\ spoken = 0
    /\ calls = << >> /\ posts = << >>

-----------------------------------------------------------------------------
(* People, Signal and the clock. *)

Frames(n, k, to) == {[no |-> n, to |-> a, kind |-> k] : a \in to}

\* A direct message to one of the accounts, or a message to a room.
Speak(k) ==
    /\ spoken < MaxSpoken
    /\ spoken' = spoken + 1
    /\ \E to \in IF k.room = Direct THEN {{a} : a \in Accounts} ELSE {Members[k.room]} :
          air' = air \cup Frames(spoken' + Len(posts), k, to)
    /\ UNCHANGED <<receiverVars, lpc, translatorVars, posts>>

Deliver(f) ==
    /\ Arrive(f.to, f.kind)
    /\ air' = air \ {f}
    /\ UNCHANGED <<lpc, translatorVars, spoken, posts>>

Tick ==
    /\ clock < MaxClock
    /\ clock' = clock + 1
    /\ UNCHANGED <<receiverVars, lpc, tokens, refilled, air, spoken, calls, posts>>

-----------------------------------------------------------------------------
(* The token bucket. *)

Least(x, y) == IF x <= y THEN x ELSE y

\* Mutant: what the bucket cannot hold is not spilled.
Refilled_Uncapped == tokens + (clock - refilled) * Refill

Refilled == Least(tokens + (clock - refilled) * Refill, Capacity * Unit)

Acquires == Refilled >= Unit

-----------------------------------------------------------------------------
(* try_translate. *)

\* The loop is at a step with the message in hand.
Has(m, pc) == m \in hand /\ lpc = pc

\* A message of a configured room, that is not a command.
Configured(m) == m.kind.room \in Bilingual /\ m.kind.sort = "plain"

\* The account's own messages are skipped, then texts without a target language.
Translatable(m) == Configured(m) /\ m.kind.from # m.account /\ m.kind.lang # "unclear"

Untranslated ==
    /\ lpc = "take"
    /\ \E m \in hand : ~Translatable(m)
    /\ lpc' = "route"
    /\ UNCHANGED <<receiverVars, translatorVars, air, spoken, posts>>

\* A token is taken before the provider is called, and not given back.
StartTranslation ==
    /\ lpc = "take"
    /\ \E m \in hand : Translatable(m)
    /\ tokens' = IF Acquires THEN Refilled - Unit ELSE Refilled
    /\ refilled' = clock
    /\ IF Acquires THEN lpc' = "translate" /\ calls' = Append(calls, clock)
                   ELSE lpc' = "route" /\ UNCHANGED calls
    /\ UNCHANGED <<receiverVars, clock, air, spoken, posts>>

\* The provider answers, or not within 30 seconds, or with an error.
ProviderEnds ==
    /\ lpc = "translate"
    /\ lpc' \in {"quote", "route"}
    /\ UNCHANGED <<receiverVars, translatorVars, air, spoken, posts>>

Other(lang) == IF lang = "a" THEN "b" ELSE "a"

\* A translation starts with a flag and is in the other language; an answer is any
\* text, and may be a command or mention the bot.
Wording(m, what) ==
    {k \in Written :
        /\ k.room = m.kind.room /\ k.from = m.account
        /\ what = "translation" => k.sort = "plain" /\ k.lang = Other(m.kind.lang)}

\* signal-cli takes what the account that received m sends to where m came from.
Send(m, what) ==
    LET room == m.kind.room
        to == IF room = Direct THEN {} ELSE Members[room] \ {m.account}
    IN  /\ posts' = Append(posts, [for |-> m.id, account |-> m.account, room |-> room,
                                   what |-> what])
        /\ \E k \in Wording(m, what) : air' = air \cup Frames(spoken + Len(posts'), k, to)

SendTranslation ==
    /\ lpc = "quote"
    /\ \/ \E m \in hand : Send(m, "translation")
       \/ UNCHANGED <<posts, air>>
    /\ lpc' = "route"
    /\ UNCHANGED <<receiverVars, translatorVars, spoken>>

-----------------------------------------------------------------------------
(* The handlers. *)

\* "If not [mentioned], skip AI reply": also_chat has no say in it.
Skips(m) == Configured(m) /\ ~m.kind.mention

LoopFinish == Finish /\ lpc' = "take" /\ UNCHANGED <<translatorVars, air, spoken>>

\* Skipped, or a command that no handler matches.
NoHandler ==
    /\ lpc = "route"
    /\ \E m \in hand : Skips(m) \/ m.kind.sort = "command"
    /\ LoopFinish
    /\ UNCHANGED posts

\* Mutant: the loop goes on to the reply after a failed one, to try it again.
Reply_AgainOnFailure ==
    /\ lpc = "reply"
    /\ \/ \E m \in hand : Send(m, "answer")
       \/ UNCHANGED <<posts, air>>
    /\ \/ Finish /\ lpc' = "take"
       \/ UNCHANGED <<receiverVars, lpc>>
    /\ UNCHANGED <<translatorVars, spoken>>

\* The handler ends, with an answer or with an error that is answered too.
Execute ==
    /\ lpc = "route"
    /\ \E m \in hand : ~Skips(m) /\ m.kind \notin Deadly
    /\ lpc' = "reply"
    /\ UNCHANGED <<receiverVars, translatorVars, air, spoken, posts>>

Reply ==
    /\ lpc = "reply"
    /\ \/ \E m \in hand : Send(m, "answer")
       \/ UNCHANGED <<posts, air>>
    /\ Finish /\ lpc' = "take"
    /\ UNCHANGED <<translatorVars, spoken>>

Start ==
    /\ lpc' = "take"
    /\ tokens' = Capacity * Unit /\ refilled' = clock /\ calls' = << >>
    /\ UNCHANGED <<clock, air, spoken, posts>>

\* The chat handler panics in the task of the loop, and the process ends.
Panic ==
    /\ lpc = "route"
    /\ \E m \in hand : ~Skips(m) /\ m.kind \in Deadly
    /\ Die /\ UNCHANGED faults
    /\ Start

Restart == Fault /\ Die /\ Start

-----------------------------------------------------------------------------
Handling ==
    \/ Untranslated \/ StartTranslation \/ ProviderEnds \/ SendTranslation
    \/ NoHandler \/ Execute \/ Reply \/ Panic

Receive == (Stream \/ IntervalPasses) /\ UNCHANGED loopVars

Next ==
    \/ \E k \in Spoken : Speak(k)
    \/ \E f \in air : Deliver(f)
    \/ (\E a \in Accounts : Register(a)) /\ UNCHANGED loopVars
    \/ Tick
    \/ Receive
    \/ Handling
    \/ Restart

Spec == Init /\ [][Next]_vars

\* Every await of the loop has a timeout, and Receiver's fairness.
FairSpec ==
    /\ Spec
    /\ WF_vars(Handling)
    /\ WF_vars(Stream /\ UNCHANGED loopVars)
    /\ WF_vars(IntervalPasses /\ UNCHANGED loopVars)

-----------------------------------------------------------------------------
(* Properties. *)

LoopTypeOK ==
    /\ ReceiverTypeOK
    /\ lpc \in {"take", "translate", "quote", "route", "reply"}
    /\ lpc # "take" => hand # {}
    /\ clock \in Nat /\ refilled \in 0 .. clock
    /\ tokens \in 0 .. Capacity * Unit
    /\ air \subseteq [no : Nat, to : Accounts, kind : Kinds]
    /\ spoken \in Nat
    /\ calls \in Seq(Nat)
    /\ posts \in Seq(Post)

\* The rate limit: however the calls are spread, over any stretch of time the
\* provider is called no more often than a full bucket and what flows in
\* meanwhile allow, failed calls included.
WithinRate ==
    \A i, j \in DOMAIN calls :
        i <= j => (j - i + 1) * Unit <= Capacity * Unit + Refill * (calls[j] - calls[i])

\* For each message that an account of the bot receives, the account posts at most
\* one translation and one answer, where the message came from, whatever fails in
\* between or is tried again.  What is posted belongs to a message that is in
\* hand, was finished, or died with the process.  It is no promise to a group: of
\* several accounts of the bot in it, each translates and answers.
OncePerDelivery ==
    /\ \A i, j \in DOMAIN posts :
          posts[i].for = posts[j].for /\ posts[i].what = posts[j].what => i = j
    /\ \A i \in DOMAIN posts :
          \/ posts[i].for \in {m.id : m \in hand} \cup gone
          \/ \E n \in DOMAIN handled : /\ handled[n].id = posts[i].for
                                       /\ handled[n].account = posts[i].account
                                       /\ handled[n].kind.room = posts[i].room
=============================================================================
