------------------------------ MODULE MCSessions ------------------------------
(* Two requests over two session keys, a caller of Get or Delete, the        *)
(* cleanup ticker, and a clock that can run past the TTL: sessions are       *)
(* shared, replaced on expiry, evicted by Get and by the sweep, and          *)
(* refreshed while a sweep or a Get is under way.                            *)
EXTENDS Sessions

CONSTANTS r1, r2, g1, k1, k2, nil, cleanup
=============================================================================
