---------------------------- MODULE MCKafkaChange ----------------------------
(***************************************************************************)
(* KafkaChange for TLC: a reset to the end of every partition, which has to  *)
(* be listed.                                                               *)
(***************************************************************************)
EXTENDS KafkaChange

MCRequests == [op : {"reset"}, to : {"latest"}, n : {0}]
=============================================================================
