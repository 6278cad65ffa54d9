---------------------------- MODULE MCSnowflake -----------------------------
(* Small instances of Snowflake.                                           *)
EXTENDS Snowflake, TLC

CONSTANTS server, seed

OwnNodes == server :> 1 @@ seed :> 0
=============================================================================
