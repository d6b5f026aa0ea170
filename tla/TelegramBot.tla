---------------------------- MODULE TelegramBot -----------------------------
(***************************************************************************)
(* The chat's command loop: _poll_once and _loop in                        *)
(* monitor/telegram_bot.py, with Telegram's update queue as they use it.   *)
(*                                                                         *)
(* Telegram numbers its updates and hands out those from the offset on,    *)
(* again and again until a later offset is sent.  The offset is kept in    *)
(* the database and outlives the process.                                  *)
(***************************************************************************)
EXTENDS Naturals

CONSTANTS
    MaxUpdates, \* bound: updates that ever arrive
    Crashes     \* whether the process may die and restart

ASSUME BotAssumption == MaxUpdates \in Nat /\ Crashes \in BOOLEAN

Updates == 1..MaxUpdates

\* A command from the configured chat is obeyed; anything else is dropped
\* without a reply.
Kinds == {"command", "other"}

VARIABLES
    kind,       \* what each update is
    arrived,    \* Telegram holds the updates 1..arrived
    offset,     \* the stored offset, the next update to ask for
    at,         \* "asking", "sorting", "handling", "replying" or "waiting"
    first, last,\* the rest of the batch that was received
    handled,    \* how often each update's command was carried out
    replied,    \* the updates whose reply was sent
    lost        \* history: taken up and not carried out when the process died

vars == <<kind, arrived, offset, at, first, last, handled, replied, lost>>

Places == {"asking", "sorting", "handling", "replying", "waiting"}

\* The shape of the state: the batch in hand is made of arrived updates, and
\* what was taken up lies before the stored offset.
TypeOK ==
    /\ kind \in [Updates -> Kinds]
    /\ arrived \in 0..MaxUpdates
    /\ offset \in 1..(MaxUpdates + 1)
    /\ at \in Places
    /\ first \in 1..(MaxUpdates + 1) /\ last \in 0..arrived
    /\ at \in {"handling", "replying"} => first <= last /\ offset = first + 1
    /\ handled \in [Updates -> Nat]
    /\ replied \subseteq Updates
    /\ lost \subseteq Updates

Init ==
    /\ kind \in [Updates -> Kinds]
    /\ arrived = 0
    /\ offset = 1
    /\ at = "asking"
    /\ first = 1 /\ last = 0
    /\ handled = [u \in Updates |-> 0]
    /\ replied = {} /\ lost = {}

-----------------------------------------------------------------------------

Arrives ==
    /\ arrived < MaxUpdates
    /\ arrived' = arrived + 1
    /\ UNCHANGED <<kind, offset, at, first, last, handled, replied, lost>>

\* getUpdates answers with everything from the offset on.
Receive ==
    /\ at = "asking"
    /\ first' = offset
    /\ last' = arrived
    /\ at' = "sorting"
    /\ UNCHANGED <<kind, arrived, offset, handled, replied, lost>>

\* No network, or an answer other than 200.
PollFails ==
    /\ at = "asking"
    /\ at' = "waiting"
    /\ UNCHANGED <<kind, arrived, offset, first, last, handled, replied, lost>>

\* Mutation: the first exception ends the loop.
Retry_Never ==
    /\ at = "waiting"
    /\ UNCHANGED vars

\* The back-off is over.
Retry ==
    /\ at = "waiting"
    /\ at' = "asking"
    /\ UNCHANGED <<kind, arrived, offset, first, last, handled, replied, lost>>

\* Mutation: the offset moves past the whole batch at once.
Advanced_WholeBatch(u) == last + 1

\* Mutation: the offset only moves when the next poll is made.
Advanced_NotYet(u) == offset

Advanced(u) == u + 1

\* The offset moves first; what is not a command from the chat ends there.
TakeUp ==
    /\ at = "sorting"
    /\ first <= last
    /\ offset' = Advanced(first)
    /\ IF kind[first] = "command"
       THEN at' = "handling" /\ UNCHANGED first
       ELSE first' = first + 1 /\ UNCHANGED at
    /\ UNCHANGED <<kind, arrived, last, handled, replied, lost>>

BatchDone ==
    /\ at = "sorting"
    /\ first > last
    /\ at' = "asking"
    /\ UNCHANGED <<kind, arrived, offset, first, last, handled, replied, lost>>

\* The command is carried out, or raises and says so; some say nothing at all.
Handle(says) ==
    /\ at = "handling"
    /\ handled' = [handled EXCEPT ![first] = @ + 1]
    /\ IF says
       THEN at' = "replying" /\ UNCHANGED first
       ELSE at' = "sorting" /\ first' = first + 1
    /\ UNCHANGED <<kind, arrived, offset, last, replied, lost>>

Reply ==
    /\ at = "replying"
    /\ replied' = replied \cup {first}
    /\ first' = first + 1
    /\ at' = "sorting"
    /\ UNCHANGED <<kind, arrived, offset, last, handled, lost>>

\* The exception leaves _poll_once: the rest of the batch is asked for again.
ReplyFails ==
    /\ at = "replying"
    /\ at' = "waiting"
    /\ UNCHANGED <<kind, arrived, offset, first, last, handled, replied, lost>>

Crash ==
    /\ Crashes
    /\ at' = "asking"
    /\ lost' = IF at = "handling" THEN lost \cup {first} ELSE lost
    /\ first' = 1 /\ last' = 0
    /\ UNCHANGED <<kind, arrived, offset, handled, replied>>

Next ==
    \/ Arrives \/ Receive \/ PollFails \/ Retry \/ TakeUp \/ BatchDone
    \/ \E says \in BOOLEAN : Handle(says)
    \/ Reply \/ ReplyFails \/ Crash

Spec == Init /\ [][Next]_vars

\* The loop keeps running, and Telegram answers again and again.  Nothing is
\* awaited between the answer and the first write of the offset, so a process
\* that dies now and then does not die exactly there for ever.
FairSpec ==
    /\ Spec
    /\ SF_vars(Receive) /\ SF_vars(TakeUp)
    /\ WF_vars(Retry) /\ WF_vars(BatchDone)
    /\ WF_vars(\E says \in BOOLEAN : Handle(says))
    /\ WF_vars(Reply \/ ReplyFails)

-----------------------------------------------------------------------------
(* Properties *)

\* No command is carried out twice, whatever fails and whenever the process
\* dies.
AtMostOnce == \A u \in Updates : handled[u] <= 1

\* A command that the offset has left behind was carried out, unless the
\* process died over it.
NothingSkipped ==
    \A u \in Updates :
        u < offset /\ kind[u] = "command" =>
            \/ handled[u] > 0
            \/ u \in lost
            \/ at = "handling" /\ u = first

\* Commands are carried out in the order in which they were sent.
InOrder ==
    [][\A u, v \in Updates :
        u < v /\ handled'[u] > handled[u] => handled[v] = 0]_vars

\* Every command is carried out in the end, unless the process dies over it.
EveryCommandIsRun ==
    \A u \in Updates :
        u <= arrived /\ kind[u] = "command" ~> handled[u] > 0 \/ u \in lost
=============================================================================
