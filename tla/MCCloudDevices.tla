--------------------------- MODULE MCCloudDevices ---------------------------
(* Instance of CloudDevices for model checking. *)
EXTENDS CloudDevices
=============================================================================
