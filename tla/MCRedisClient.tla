---------------------------- MODULE MCRedisClient ----------------------------
(* Three calls, three sockets, every URL. *)
EXTENDS RedisClient

CONSTANTS a, b, c

MCCmds   == {a, b, c}
MCHellos == {<<>>, <<"auth">>, <<"select">>, <<"auth", "select">>}
=============================================================================
