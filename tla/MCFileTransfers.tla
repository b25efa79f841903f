--------------------------- MODULE MCFileTransfers ---------------------------
(* Two local files of the same name: their events cannot be told apart by    *)
(* the name in them.                                                         *)
EXTENDS FileTransfers

MCFileName == [f \in Files |-> "report"]
=============================================================================
