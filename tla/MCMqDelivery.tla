---------------------------- MODULE MCMqDelivery ----------------------------
(***************************************************************************)
(* A batch of two, one with a given id, and one whose given id is also a   *)
(* position.  The DLQ begins with a message, whose sequence the first      *)
(* message sent to the queue gets as well.                                 *)
(***************************************************************************)
EXTENDS MqDelivery

MCNoId == 9
MCMessages == {"m2", "m3", "m4"}

MCBeginnings ==
  {[q \in Queues |-> IF q = "main" THEN {} ELSE {[seq |-> 1, msg |-> "m4", busy |-> FALSE]}]}

MCItem(m, id) == [msg |-> m, id |-> id]

MCBatches ==
  {<<MCItem("m2", 1), MCItem("m3", MCNoId)>>,
   <<MCItem("m2", 1), MCItem("m3", 0)>>}
=============================================================================
