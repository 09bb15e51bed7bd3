------------------------------ MODULE MCDiscord ------------------------------
(* TLC instances of DiscordProperties. *)
EXTENDS DiscordProperties
=============================================================================
