----------------------------- MODULE LoginLink ------------------------------
(***************************************************************************)
(* The one-tap sign-in, on top of the chat's command loop: /login mints a  *)
(* nonce and stores it, its reply carries the link, and opening the link   *)
(* claims the nonce.  issue_login_token and consume_login_token in         *)
(* monitor/security.py, kv_set and kv_claim in monitor/db.py,              *)
(* telegram_login in monitor/routes/auth.py.                               *)
(*                                                                         *)
(* A link is named by the update that asked for it.  A forged token fails  *)
(* its signature before anything is read and is left out.                  *)
(***************************************************************************)
EXTENDS TelegramBot

VARIABLES
    live,       \* the stored nonce; 0: none
    minted,     \* the links that were ever issued
    expired,    \* those older than LOGIN_TOKEN_MAX_AGE
    opened      \* per link: how many sessions it opened

links == <<live, minted, expired, opened>>

LoginInit ==
    /\ Init
    /\ live = 0 /\ minted = {} /\ expired = {}
    /\ opened = [u \in Updates |-> 0]

-----------------------------------------------------------------------------

\* Mutation: a link still live is not replaced.
Stored_FirstWins(u) == IF live = 0 THEN u ELSE live

\* kv_set overwrites.
Stored(u) == u

\* The command was /login.
Issue ==
    /\ Handle(TRUE)
    /\ live' = Stored(first)
    /\ minted' = minted \cup {first}
    /\ UNCHANGED <<expired, opened>>

\* Every other step of the loop, /login without a session to hand out included.
BotStep == Next /\ UNCHANGED links

Expire(u) ==
    /\ u \in minted \ expired
    /\ expired' = expired \cup {u}
    /\ UNCHANGED <<vars, live, minted, opened>>

\* Mutation: a claim that fails deletes the row all the same.
Claimed_Anyway(u) == 0

\* The row goes if it holds this very nonce.
Claimed(u) == IF live = u THEN 0 ELSE live

\* Anyone may open any link of the chat, again and again and at once.
Tap(u) ==
    /\ u \in minted \cap replied
    /\ IF u \in expired
       THEN UNCHANGED <<live, opened>>
       ELSE /\ live' = Claimed(u)
            /\ opened' = [opened EXCEPT ![u] = IF live = u THEN @ + 1 ELSE @]
    /\ UNCHANGED <<vars, minted, expired>>

LoginNext == BotStep \/ Issue \/ \E u \in Updates : Expire(u) \/ Tap(u)

LoginSpec == LoginInit /\ [][LoginNext]_<<vars, links>>

\* The loop is as fair as TelegramBot has it; nobody has to open a link.
LoginFairSpec ==
    /\ LoginSpec
    /\ SF_vars(Receive) /\ SF_vars(TakeUp)
    /\ WF_vars(Retry) /\ WF_vars(BatchDone)
    /\ WF_vars(\E says \in BOOLEAN : Handle(says))
    /\ WF_vars(Reply \/ ReplyFails)

-----------------------------------------------------------------------------
(* Properties *)

\* A link opens one session, however often it is opened, and none once another
\* was asked for, whether or not that one arrives.
LinkOpensOnce ==
    [][\A u \in Updates :
        opened'[u] > opened[u] =>
            opened[u] = 0 /\ \A v \in minted : v <= u]_<<vars, links>>

\* The newest link works until it is used or too old: neither an old link being
\* opened nor a restart takes it away.
NewestLinkWorks ==
    \A u \in minted :
        opened[u] = 0 /\ (\A v \in minted : v <= u) => live = u
=============================================================================
