---------------------------- MODULE MCCollector ----------------------------
(* TLC instances of Collector. *)
EXTENDS Collector

=============================================================================
