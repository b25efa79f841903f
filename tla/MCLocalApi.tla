----------------------------- MODULE MCLocalApi -----------------------------
(* Poll intervals of two units: limits below zero, at a multiple of the      *)
(* interval and between two of them.  Three jobs on two threads: two that    *)
(* wait for a user, a host or a text hold the pool while a third is queued;  *)
(* three frames whose hashes cross.                                          *)
EXTENDS LocalApi

MCTimeouts == {-1, 2, 3}
MCLoads ==
    {<<"confirm", "confirm", "glance">>, <<"confirm", "skill", "click">>,
     <<"skill", "skill", "glance">>, <<"verify", "wait", "glance">>,
     <<"hash", "hash", "hash">>}
=============================================================================
