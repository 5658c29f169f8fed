---------------------------- MODULE MCLogPipeline ----------------------------
(* One client that sends two requests, one stream, one worker behind a      *)
(* one-slot queue, one retention sweep after the one at boot: the second row *)
(* finds the stream's one-slot buffer full, and a request, a stream, a queue *)
(* entry and a sweep can each be under way at any point of the teardown.     *)
EXTENDS LogPipeline

CONSTANTS c1, w1, h1, main, ta, none

MCTenantOf == [r \in Rows |-> IF r % 2 = 0 THEN ta ELSE none]
=============================================================================
