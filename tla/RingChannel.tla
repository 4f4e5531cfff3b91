---------------------------- MODULE RingChannel ----------------------------
(***************************************************************************)
(* What a pipeline promises the kernel: a bounded broadcast channel.       *)
(* Every item is put together by all the producers, each writing a part,   *)
(* and read by every consumer.  sent[p] items are complete as far as p is  *)
(* concerned, rcvd[c] have been used up by c.  An item may be read once    *)
(* every producer has sent it, and there are never more than Stages items  *)
(* between the fastest producer and the slowest consumer.                  *)
(***************************************************************************)
EXTENDS Integers

CONSTANTS Stages, Producers, Consumers, Items

VARIABLES sent, rcvd

chVars == <<sent, rcvd>>

ChInit ==
    /\ sent = [p \in Producers |-> 0]
    /\ rcvd = [c \in Consumers |-> 0]

ChSend(p) ==
    /\ sent[p] < Items
    /\ \A c \in Consumers : sent[p] - rcvd[c] < Stages
    /\ sent' = [sent EXCEPT ![p] = @ + 1]
    /\ UNCHANGED rcvd

ChRecv(c) ==
    /\ \A p \in Producers : rcvd[c] < sent[p]
    /\ rcvd' = [rcvd EXCEPT ![c] = @ + 1]
    /\ UNCHANGED sent

ChNext == (\E p \in Producers : ChSend(p)) \/ (\E c \in Consumers : ChRecv(c))

ChSpec == ChInit /\ [][ChNext]_chVars
=============================================================================
