--------------------------- MODULE MCServiceWorker ---------------------------
(***************************************************************************)
(* Instances of ServiceWorker for TLC: three connections are the fewest    *)
(* with one served, one waiting and one arriving.                          *)
(***************************************************************************)
EXTENDS ServiceWorker

CONSTANTS c1, c2, c3
=============================================================================
