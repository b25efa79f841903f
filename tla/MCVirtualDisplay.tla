-------------------------- MODULE MCVirtualDisplay --------------------------
(* One connector, and an index that is out of range. *)
EXTENDS VirtualDisplay

MCIndices == 0 .. 1
=============================================================================
