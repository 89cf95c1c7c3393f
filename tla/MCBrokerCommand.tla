--------------------------- MODULE MCBrokerCommand ---------------------------
(***************************************************************************)
(* A finite instance of BrokerCommand for TLC.                              *)
(***************************************************************************)
EXTENDS BrokerCommand

AllLevels == -1..3
=============================================================================
