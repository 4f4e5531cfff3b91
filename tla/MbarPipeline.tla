---------------------------- MODULE MbarPipeline ----------------------------
(***************************************************************************)
(* The pipeline of common/pipeline.py: a ring of Stages buffers handed     *)
(* from a group of producer threads to a group of consumer threads.        *)
(*                                                                         *)
(* Each slot has two mbarriers.  `full' is arrived on by every producer    *)
(* when its part of the item is written, `empty' by every consumer when it *)
(* has finished reading.  Nobody reads a counter: an agent goes round the  *)
(* ring on its own and waits for a parity, the parity of its lap for a     *)
(* consumer and the opposite one for a producer, whose first lap must not  *)
(* block.  So the ring is right only if no agent is ever two phases away   *)
(* from the barrier it waits on.                                           *)
(***************************************************************************)
EXTENDS Mbarrier, FiniteSets

CONSTANTS
    Stages,      \* num_stages
    Producers,   \* threads of producer_group
    Consumers,   \* threads of consumer_group
    Items        \* iterations of the producers' loop: a bound of the model

ASSUME StagesAssumption == Stages \in Nat \ {0}
ASSUME ItemsAssumption == Items \in Nat
ASSUME GroupsAssumption ==
    /\ IsFiniteSet(Producers) /\ Producers # {}
    /\ IsFiniteSet(Consumers) /\ Consumers # {}

Slots == 0 .. (Stages - 1)

VARIABLES
    full, empty,   \* the two mbarriers of each slot
    prod, cons,    \* per thread: its PipelineState and where it stands
    buf            \* per slot and producer: the item whose part it holds

vars == <<full, empty, prod, cons, buf>>

Nothing == -1

(***************************************************************************)
(* PipelineState: count, index and phase of the loop.  lap is the number   *)
(* of times the index wrapped; the phase bit is lap % 2 (a consumer        *)
(* starts at 0) or its complement (a producer starts at 1).                *)
(***************************************************************************)
AgentStates(pcs) == [n : Nat, idx : Slots, lap : Nat, pc : pcs]

StartState(pc) == [n |-> 0, idx |-> 0, lap |-> 0, pc |-> pc]

\* Mutants: a consumer that starts at the producer's phase, and the converse.
ConsumerPhaseFlipped(st) == (st.lap + 1) % 2
ProducerPhaseNotFlipped(st) == st.lap % 2

ConsumerPhase(st) == st.lap % 2
ProducerPhase(st) == (st.lap + 1) % 2

Advance(st, pc) ==
    [n   |-> st.n + 1,
     idx |-> IF st.idx = Stages - 1 THEN 0 ELSE st.idx + 1,
     lap |-> IF st.idx = Stages - 1 THEN st.lap + 1 ELSE st.lap,
     pc  |-> pc]

ProdPcs == {"acquire", "write", "commit"}
ConsPcs == {"wait", "read"}

\* Mutants: a barrier made for one thread where a whole group arrives.
InitFullForOneThread ==
    /\ full  = [s \in Slots |-> NewMbar(1)]
    /\ empty = [s \in Slots |-> NewMbar(Cardinality(Consumers))]
    /\ prod  = [p \in Producers |-> StartState("acquire")]
    /\ cons  = [c \in Consumers |-> StartState("wait")]
    /\ buf   = [s \in Slots |-> [p \in Producers |-> Nothing]]
InitEmptyForOneThread ==
    /\ full  = [s \in Slots |-> NewMbar(Cardinality(Producers))]
    /\ empty = [s \in Slots |-> NewMbar(1)]
    /\ prod  = [p \in Producers |-> StartState("acquire")]
    /\ cons  = [c \in Consumers |-> StartState("wait")]
    /\ buf   = [s \in Slots |-> [p \in Producers |-> Nothing]]

Init ==
    /\ full  = [s \in Slots |-> NewMbar(Cardinality(Producers))]
    /\ empty = [s \in Slots |-> NewMbar(Cardinality(Consumers))]
    /\ prod  = [p \in Producers |-> StartState("acquire")]
    /\ cons  = [c \in Consumers |-> StartState("wait")]
    /\ buf   = [s \in Slots |-> [p \in Producers |-> Nothing]]

-----------------------------------------------------------------------------
\* Mutant: the producer does not wait for the slot to be empty.
ProducerAcquireNoWait(p) ==
    /\ prod[p].pc = "acquire"
    /\ prod[p].n < Items
    /\ prod' = [prod EXCEPT ![p].pc = "write"]
    /\ UNCHANGED <<full, empty, cons, buf>>

\* producer_acquire_w_index_phase: wait on the slot's empty barrier.
ProducerAcquire(p) ==
    /\ prod[p].pc = "acquire"
    /\ prod[p].n < Items
    /\ Passed(empty[prod[p].idx], ProducerPhase(prod[p]))
    /\ prod' = [prod EXCEPT ![p].pc = "write"]
    /\ UNCHANGED <<full, empty, cons, buf>>

\* The producer's own code between acquire and commit.
WritePart(p) ==
    /\ prod[p].pc = "write"
    /\ buf' = [buf EXCEPT ![prod[p].idx][p] = prod[p].n]
    /\ prod' = [prod EXCEPT ![p].pc = "commit"]
    /\ UNCHANGED <<full, empty, cons>>

\* producer_commit_w_index: arrive on the slot's full barrier, next slot.
ProducerCommit(p) ==
    /\ prod[p].pc = "commit"
    /\ full' = [full EXCEPT ![prod[p].idx] = Arrive(@)]
    /\ prod' = [prod EXCEPT ![p] = Advance(@, "acquire")]
    /\ UNCHANGED <<empty, cons, buf>>

\* consumer_wait_w_index_phase: wait on the slot's full barrier.
ConsumerWait(c) ==
    /\ cons[c].pc = "wait"
    /\ cons[c].n < Items
    /\ Passed(full[cons[c].idx], ConsumerPhase(cons[c]))
    /\ cons' = [cons EXCEPT ![c].pc = "read"]
    /\ UNCHANGED <<full, empty, prod, buf>>

\* consumer_release_w_index: arrive on the slot's empty barrier, next slot.
ConsumerRelease(c) ==
    /\ cons[c].pc = "read"
    /\ empty' = [empty EXCEPT ![cons[c].idx] = Arrive(@)]
    /\ cons' = [cons EXCEPT ![c] = Advance(@, "wait")]
    /\ UNCHANGED <<full, prod, buf>>

ProducerStep(p) == ProducerAcquire(p) \/ WritePart(p) \/ ProducerCommit(p)
ConsumerStep(c) == ConsumerWait(c) \/ ConsumerRelease(c)

Finished ==
    /\ \A p \in Producers : prod[p].n = Items
    /\ \A c \in Consumers : cons[c].n = Items

\* The loops are over: the only way to stop.
Stop == Finished /\ UNCHANGED vars

Next ==
    \/ \E p \in Producers : ProducerStep(p)
    \/ \E c \in Consumers : ConsumerStep(c)
    \/ Stop

Spec == Init /\ [][Next]_vars

-----------------------------------------------------------------------------
\* Every variable has its type.
TypeOK ==
    /\ full \in [Slots -> Mbars] /\ empty \in [Slots -> Mbars]
    /\ prod \in [Producers -> AgentStates(ProdPcs)]
    /\ cons \in [Consumers -> AgentStates(ConsPcs)]
    /\ buf \in [Slots -> [Producers -> Nat \cup {Nothing}]]

\* A consumer between its wait and its release finds, in every producer's
\* part of the slot, the very item it is at: never a part of an older item
\* that was not written yet, never one that was written over.
ReadsWholeItem ==
    \A c \in Consumers : cons[c].pc = "read" =>
        \A p \in Producers : buf[cons[c].idx][p] = cons[c].n

\* No thread writes a slot that another thread is reading.
NoWriteUnderRead ==
    \A p \in Producers, c \in Consumers :
        prod[p].pc \in {"write", "commit"} /\ cons[c].pc = "read"
            => prod[p].idx # cons[c].idx

\* Completed visits of an agent to a slot.
Visits(st, s) == st.lap + (IF s < st.idx THEN 1 ELSE 0)

\* A parity names a phase without ambiguity: whoever waits on a slot's
\* barrier is at most one phase ahead of it and never behind it.
ParityUnambiguous ==
    /\ \A p \in Producers : prod[p].pc = "acquire" =>
          prod[p].lap - empty[prod[p].idx].gen \in {0, 1}
    /\ \A c \in Consumers : cons[c].pc = "wait" =>
          full[cons[c].idx].gen - cons[c].lap \in {0, 1}

-----------------------------------------------------------------------------
(***************************************************************************)
(* The inductive invariant behind these properties.  Nothing in the code   *)
(* counts visits: the barriers do, and the first two conjuncts say that    *)
(* they count right whatever the order of the threads.                     *)
(***************************************************************************)
\* Barrier b has been arrived on v[x] times by each x of group G.
CountedBy(b, v, G) ==
    /\ b.tx = 0 /\ b.count = Cardinality(G)
    /\ \A x \in G : v[x] \in {b.gen, b.gen + 1}
    /\ b.pend = Cardinality({x \in G : v[x] = b.gen}) /\ b.pend > 0

ProducerVisits(s) == [p \in Producers |-> Visits(prod[p], s)]
ConsumerVisits(s) == [c \in Consumers |-> Visits(cons[c], s)]

BarriersCount == \A s \in Slots :
    /\ CountedBy(full[s], ProducerVisits(s), Producers)
    /\ CountedBy(empty[s], ConsumerVisits(s), Consumers)

\* A slot is filled at most once more than it was emptied, and not before.
Alternation == \A s \in Slots :
    /\ \A p \in Producers : Visits(prod[p], s) <= empty[s].gen + 1
    /\ \A c \in Consumers : Visits(cons[c], s) <= full[s].gen

\* Whoever is past its wait still has the phase it waited for.
InsidePhase ==
    /\ \A p \in Producers :
          prod[p].pc # "acquire" => empty[prod[p].idx].gen = prod[p].lap
    /\ \A c \in Consumers :
          cons[c].pc = "read" => full[cons[c].idx].gen = cons[c].lap + 1

\* count, index and lap of a PipelineState agree.
Ordinal ==
    /\ \A p \in Producers : prod[p].n = prod[p].lap * Stages + prod[p].idx
    /\ \A c \in Consumers : cons[c].n = cons[c].lap * Stages + cons[c].idx

\* A part holds the item its producer last wrote there.
Contents == \A s \in Slots, p \in Producers :
    IF prod[p].pc = "commit" /\ prod[p].idx = s
    THEN buf[s][p] = prod[p].n
    ELSE Visits(prod[p], s) > 0 =>
            buf[s][p] = (Visits(prod[p], s) - 1) * Stages + s

\* A producer past its acquire is still inside its loop.
InLoop == \A p \in Producers : prod[p].pc # "acquire" => prod[p].n < Items

IInv ==
    /\ TypeOK
    /\ BarriersCount
    /\ Alternation
    /\ InsidePhase
    /\ Ordinal
    /\ Contents
    /\ InLoop
-----------------------------------------------------------------------------
(***************************************************************************)
(* The pipeline implements the bounded channel: an item is sent by a       *)
(* thread when it commits and received when it releases.                   *)
(***************************************************************************)
Channel == INSTANCE RingChannel WITH
    sent <- [p \in Producers |-> prod[p].n],
    rcvd <- [c \in Consumers |-> cons[c].n]

\* Every step is a step of the channel or leaves it alone.
ImplementsChannel == Channel!ChSpec
=============================================================================
