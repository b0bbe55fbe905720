-------------------------- MODULE MCUnlimitedChannel --------------------------
(***************************************************************************)
(* The TLC instance of UnlimitedChannel: items and finalizers are model    *)
(* values, given in the configuration.                                     *)
(***************************************************************************)
EXTENDS UnlimitedChannel
===============================================================================
