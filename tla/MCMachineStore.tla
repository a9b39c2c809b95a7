--------------------------- MODULE MCMachineStore ---------------------------
(* Instances of MachineStore for TLC. *)
EXTENDS MachineStore

\* Two of the settings stand for the five of the page and the three of the wizard.
TwoKeys == <<"wake_interface", "default_poll_timeout_s">>
=============================================================================
