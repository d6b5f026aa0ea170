---------------------------- MODULE MCLoginLink -----------------------------
(***************************************************************************)
(* Small instances of LoginLink, and with it of TelegramBot, for TLC.      *)
(***************************************************************************)
EXTENDS LoginLink
=============================================================================
