---------------------------- MODULE MCRedisControl ----------------------------
(***************************************************************************)
(* Small instances of RedisControl for TLC.                                *)
(***************************************************************************)
EXTENDS RedisControl

CONSTANTS c1, c2, w1
=============================================================================
