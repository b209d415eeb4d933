------------------------------ MODULE MCService ------------------------------
(* Two tenants, one of them without a quota; a key that may do anything.     *)
EXTENDS Service

MCPolicy == [t \in {"t1"} |-> [requests |-> 2, concurrent |-> 1, tokens |-> 2]]

MCApiKeys ==
  [k \in {"k1", "k2"} |->
     IF k = "k1" THEN [tenant |-> "t1", roles |-> {"inference"}]
                 ELSE [tenant |-> "t2", roles |-> {"admin"}]]

MCOperations ==
  {[role |-> "inference", packet |-> NoPacket], [role |-> "operator", packet |-> NoPacket],
   [role |-> "inference", packet |-> "p"], [role |-> "inference", packet |-> "q"]}
=============================================================================
