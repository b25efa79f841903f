--------------------------- MODULE MCSignalRelay ----------------------------
(* SignalRelay for TLC: connections and ids are model values. *)
EXTENDS SignalRelay
=============================================================================
