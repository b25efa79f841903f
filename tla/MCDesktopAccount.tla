-------------------------- MODULE MCDesktopAccount --------------------------
(* Instance of DesktopAccount for model checking. *)
EXTENDS DesktopAccount
=============================================================================
