------------------------- MODULE MbarPipelineProofs -------------------------
(***************************************************************************)
(* Proofs about MbarPipeline, for any number of stages, of producer        *)
(* threads, of consumer threads and of items.                              *)
(***************************************************************************)
EXTENDS MbarPipeline, FiniteSetTheorems, TLAPS

\* The arithmetic of the ring: laps are ordered as the items they hold.
LEMMA LapMonotone ==
    ASSUME NEW a \in Nat, NEW b \in Nat, a <= b
    PROVE  a * Stages <= b * Stages
<1>1. b = a + (b - a) /\ b - a \in Nat
  OBVIOUS
<1>2. b * Stages = a * Stages + (b - a) * Stages
  BY <1>1, StagesAssumption
<1>3. (b - a) * Stages >= 0
  BY <1>1, StagesAssumption
<1>. QED
  BY <1>1, <1>2, <1>3, StagesAssumption

LEMMA NextLap ==
    ASSUME NEW a \in Nat
    PROVE  (a + 1) * Stages = a * Stages + Stages
BY StagesAssumption

\* Going on to the next slot counts one visit to the slot left, no other.
LEMMA AdvanceVisits ==
    ASSUME NEW pcs, NEW st \in AgentStates(pcs), NEW pc \in pcs, NEW s \in Slots
    PROVE  /\ Advance(st, pc) \in AgentStates(pcs)
           /\ Visits(st, s) \in Nat
           /\ Visits(st, st.idx) = st.lap
           /\ Visits(Advance(st, pc), s) =
                 Visits(st, s) + (IF s = st.idx THEN 1 ELSE 0)
BY StagesAssumption DEF AgentStates, Advance, Visits, Slots

\* An arrival either completes the phase or only lowers the count.
LEMMA ArriveForms ==
    ASSUME NEW b \in Mbars, b.tx = 0
    PROVE  Arrive(b) =
             IF b.pend = 1
             THEN [gen |-> b.gen + 1, pend |-> b.count, tx |-> 0, count |-> b.count]
             ELSE [gen |-> b.gen, pend |-> b.pend - 1, tx |-> 0, count |-> b.count]
<1>. DEFINE low == [b EXCEPT !.pend = @ - 1]
<1>1. low = [gen |-> b.gen, pend |-> b.pend - 1, tx |-> 0, count |-> b.count]
  BY DEF Mbars
<1>2. Arrive(b) = Settle(low)
  BY DEF Arrive
<1>3. b.pend \in Nat /\ b.gen \in Nat
  BY DEF Mbars
<1>4. CASE b.pend = 1
  <2>1. low.pend = 0 /\ low.tx = 0 /\ low.count = b.count
    BY <1>1, <1>4
  <2>2. Settle(low) = [low EXCEPT !.gen = @ + 1, !.pend = b.count]
    BY <2>1 DEF Settle
  <2>. QED
    BY <1>1, <1>2, <1>4, <2>2
<1>5. CASE b.pend # 1
  <2>1. low.pend # 0
    BY <1>1, <1>3, <1>5
  <2>2. Settle(low) = low
    BY <2>1 DEF Settle
  <2>. QED
    BY <1>1, <1>2, <1>5, <2>2
<1>. QED
  BY <1>4, <1>5

\* One arrival keeps a barrier's count right, and a phase completes only
\* when every agent of the group has arrived on it.
LEMMA ArriveCounts ==
    ASSUME NEW G, IsFiniteSet(G),
           NEW b \in Mbars, NEW v \in [G -> Nat], NEW a \in G,
           CountedBy(b, v, G), v[a] = b.gen,
           NEW w \in [G -> Nat],
           \A x \in G : w[x] = v[x] + (IF x = a THEN 1 ELSE 0)
    PROVE  /\ Arrive(b) \in Mbars
           /\ CountedBy(Arrive(b), w, G)
           /\ \/ Arrive(b).gen = b.gen
              \/ Arrive(b).gen = b.gen + 1 /\ \A x \in G : w[x] = b.gen + 1
<1>. DEFINE W == {x \in G : v[x] = b.gen}
<1>1. IsFiniteSet(W) /\ Cardinality(W) \in Nat /\ Cardinality(G) \in Nat
  BY FS_Subset, FS_CardinalityType
<1>2. a \in W /\ Cardinality(W \ {a}) = Cardinality(W) - 1
  BY <1>1, FS_RemoveElement
<1>3. b.pend = Cardinality(W) /\ b.pend > 0 /\ b.tx = 0 /\ b.count = Cardinality(G)
  BY DEF CountedBy
<1>4. CASE b.pend = 1
  <2>1. W = {a}
    BY <1>1, <1>2, <1>3, <1>4, FS_EmptySet, FS_Subset
  <2>2. \A x \in G : w[x] = b.gen + 1
    BY <2>1 DEF CountedBy, Mbars
  <2>3. Arrive(b) = [gen |-> b.gen + 1, pend |-> b.count, tx |-> 0, count |-> b.count]
    BY <1>3, <1>4, ArriveForms
  <2>4. {x \in G : w[x] = Arrive(b).gen} = G
    BY <2>2, <2>3
  <2>5. Cardinality(G) > 0
    BY <1>1, FS_EmptySet
  <2>6. CountedBy(Arrive(b), w, G)
    <3>1. /\ Arrive(b).tx = 0 /\ Arrive(b).count = Cardinality(G)
          /\ Arrive(b).pend = Cardinality(G)
          /\ \A x \in G : w[x] = Arrive(b).gen
      BY <1>3, <2>2, <2>3
    <3>. QED
      BY <2>4, <2>5, <3>1 DEF CountedBy
  <2>7. Arrive(b) \in Mbars
    BY <2>3 DEF Mbars
  <2>8. Arrive(b).gen = b.gen + 1
    BY <2>3
  <2>. QED
    BY <2>2, <2>6, <2>7, <2>8
<1>5. CASE b.pend # 1
  <2>1. Arrive(b) =
          [gen |-> b.gen, pend |-> b.pend - 1, tx |-> 0, count |-> b.count]
    BY <1>3, <1>5, ArriveForms
  <2>2. Arrive(b).gen = b.gen
    BY <2>1
  <2>3. {x \in G : w[x] = Arrive(b).gen} = W \ {a}
    BY <1>2, <2>2 DEF Mbars, CountedBy
  <2>4. \A x \in G : w[x] \in {Arrive(b).gen, Arrive(b).gen + 1}
    BY <2>2 DEF CountedBy, Mbars
  <2>5. /\ Arrive(b).tx = 0 /\ Arrive(b).count = Cardinality(G)
        /\ Arrive(b).pend = Cardinality(W \ {a}) /\ Arrive(b).pend > 0
    BY <1>1, <1>2, <1>3, <1>5, <2>1 DEF Mbars
  <2>6. CountedBy(Arrive(b), w, G)
    BY <2>3, <2>4, <2>5 DEF CountedBy
  <2>7. b.pend - 1 \in Nat
    BY <1>3 DEF Mbars
  <2>8. Arrive(b) \in Mbars
    BY <2>1, <2>7 DEF Mbars
  <2>. QED
    BY <2>2, <2>6, <2>8
<1>. QED
  BY <1>4, <1>5
-----------------------------------------------------------------------------
\* Initially no barrier was arrived on and no slot visited.
LEMMA InitInv == Init => IInv
<1>. SUFFICES ASSUME Init PROVE IInv
  OBVIOUS
<1>1. /\ Cardinality(Producers) \in Nat /\ Cardinality(Producers) > 0
      /\ Cardinality(Consumers) \in Nat /\ Cardinality(Consumers) > 0
  BY GroupsAssumption, FS_CardinalityType, FS_EmptySet
<1>2. 0 \in Slots
  BY StagesAssumption DEF Slots
<1>3. TypeOK
  <2>1. \A k \in Nat : NewMbar(k) \in Mbars
    BY DEF NewMbar, Mbars
  <2>2. StartState("acquire") \in AgentStates(ProdPcs)
    BY <1>2 DEF StartState, AgentStates, ProdPcs
  <2>3. StartState("wait") \in AgentStates(ConsPcs)
    BY <1>2 DEF StartState, AgentStates, ConsPcs
  <2>. QED
    BY <1>1, <2>1, <2>2, <2>3 DEF Init, TypeOK
<1>4. \A s \in Slots :
        /\ \A p \in Producers : Visits(prod[p], s) = 0
        /\ \A c \in Consumers : Visits(cons[c], s) = 0
  BY DEF Init, StartState, Visits, Slots
<1>10. \A s \in Slots : full[s].gen = 0 /\ empty[s].gen = 0
  BY DEF Init, NewMbar
<1>5. BarriersCount
  <2>. SUFFICES ASSUME NEW s \in Slots
                PROVE  /\ CountedBy(full[s], ProducerVisits(s), Producers)
                       /\ CountedBy(empty[s], ConsumerVisits(s), Consumers)
    BY DEF BarriersCount
  <2>1. full[s] = NewMbar(Cardinality(Producers)) /\ empty[s] = NewMbar(Cardinality(Consumers))
    BY DEF Init
  <2>2. /\ {p \in Producers : ProducerVisits(s)[p] = full[s].gen} = Producers
        /\ {c \in Consumers : ConsumerVisits(s)[c] = empty[s].gen} = Consumers
    BY <1>4, <1>10 DEF ProducerVisits, ConsumerVisits
  <2>3. /\ \A p \in Producers : ProducerVisits(s)[p] = full[s].gen
        /\ \A c \in Consumers : ConsumerVisits(s)[c] = empty[s].gen
    BY <1>4, <1>10 DEF ProducerVisits, ConsumerVisits
  <2>4. /\ full[s].tx = 0 /\ full[s].count = Cardinality(Producers)
        /\ full[s].pend = Cardinality(Producers)
        /\ empty[s].tx = 0 /\ empty[s].count = Cardinality(Consumers)
        /\ empty[s].pend = Cardinality(Consumers)
    BY <2>1 DEF NewMbar
  <2>. QED
    BY <1>1, <2>2, <2>3, <2>4 DEF CountedBy
<1>6. Alternation
  BY <1>4, <1>10 DEF Alternation
<1>7. InsidePhase
  BY DEF Init, InsidePhase, StartState
<1>8. Ordinal
  BY StagesAssumption DEF Init, Ordinal, StartState
<1>9. Contents /\ InLoop
  BY <1>4 DEF Init, Contents, InLoop, StartState
<1>. QED
  BY <1>3, <1>5, <1>6, <1>7, <1>8, <1>9 DEF IInv

\* At every slot: emptied <= visited by a consumer <= filled <= visited by a
\* producer <= emptied + 1.  Two neighbours never differ by more than one.
LEMMA RingOrder ==
    ASSUME IInv, NEW s \in Slots, NEW p \in Producers, NEW c \in Consumers
    PROVE  /\ full[s].gen \in Nat /\ empty[s].gen \in Nat
           /\ Visits(prod[p], s) \in Nat /\ Visits(cons[c], s) \in Nat
           /\ empty[s].gen <= Visits(cons[c], s)
           /\ Visits(cons[c], s) <= full[s].gen
           /\ full[s].gen <= Visits(prod[p], s)
           /\ Visits(prod[p], s) <= empty[s].gen + 1
<1>1. full[s] \in Mbars /\ empty[s] \in Mbars
  BY DEF IInv, TypeOK
<1>2. prod[p] \in AgentStates(ProdPcs) /\ cons[c] \in AgentStates(ConsPcs)
  BY DEF IInv, TypeOK
<1>3. Visits(prod[p], s) \in Nat /\ Visits(cons[c], s) \in Nat
  BY <1>2 DEF Visits, AgentStates, Slots
<1>4. /\ ProducerVisits(s)[p] = Visits(prod[p], s)
      /\ ConsumerVisits(s)[c] = Visits(cons[c], s)
  BY DEF ProducerVisits, ConsumerVisits
<1>5. /\ Visits(prod[p], s) \in {full[s].gen, full[s].gen + 1}
      /\ Visits(cons[c], s) \in {empty[s].gen, empty[s].gen + 1}
  BY <1>4 DEF IInv, BarriersCount, CountedBy
<1>6. Visits(prod[p], s) <= empty[s].gen + 1 /\ Visits(cons[c], s) <= full[s].gen
  BY DEF IInv, Alternation
<1>7. full[s].gen \in Nat /\ empty[s].gen \in Nat
  BY <1>1 DEF Mbars
<1>. QED
  BY <1>3, <1>5, <1>6, <1>7

\* A step that moves no agent and no barrier keeps the counts.
LEMMA QuietStep ==
    ASSUME IInv, UNCHANGED <<full, empty>>,
           \A p \in Producers : /\ prod'[p].n = prod[p].n
                                /\ prod'[p].idx = prod[p].idx
                                /\ prod'[p].lap = prod[p].lap,
           \A c \in Consumers : /\ cons'[c].n = cons[c].n
                                /\ cons'[c].idx = cons[c].idx
                                /\ cons'[c].lap = cons[c].lap
    PROVE  /\ \A s \in Slots, p \in Producers : Visits(prod'[p], s) = Visits(prod[p], s)
           /\ \A s \in Slots, c \in Consumers : Visits(cons'[c], s) = Visits(cons[c], s)
           /\ BarriersCount' /\ Alternation' /\ Ordinal'
<1>1. /\ \A s \in Slots, p \in Producers : Visits(prod'[p], s) = Visits(prod[p], s)
      /\ \A s \in Slots, c \in Consumers : Visits(cons'[c], s) = Visits(cons[c], s)
  BY DEF Visits
<1>2. \A s \in Slots : /\ ProducerVisits(s)' = ProducerVisits(s)
                       /\ ConsumerVisits(s)' = ConsumerVisits(s)
  BY <1>1 DEF ProducerVisits, ConsumerVisits
<1>3. BarriersCount'
  BY <1>2 DEF IInv, BarriersCount
<1>4. Alternation'
  BY <1>1 DEF IInv, Alternation
<1>5. Ordinal'
  BY DEF IInv, Ordinal
<1>. QED
  BY <1>1, <1>3, <1>4, <1>5

\* A producer passes the wait for its slot only in the phase of its lap.
LEMMA AcquirePreserves ==
    ASSUME IInv, NEW p \in Producers, ProducerAcquire(p)
    PROVE  IInv'
<1>. DEFINE s0 == prod[p].idx
<1>1. prod[p] \in AgentStates(ProdPcs) /\ s0 \in Slots /\ prod[p].lap \in Nat
  BY DEF IInv, TypeOK, AgentStates
<1>2. prod' = [prod EXCEPT ![p].pc = "write"] /\ prod \in [Producers -> AgentStates(ProdPcs)]
  BY DEF ProducerAcquire, IInv, TypeOK
<1>3. TypeOK'
  BY <1>2 DEF ProducerAcquire, IInv, TypeOK, AgentStates, ProdPcs
<1>4. \A q \in Producers : /\ prod'[q].n = prod[q].n
                           /\ prod'[q].idx = prod[q].idx
                           /\ prod'[q].lap = prod[q].lap
                           /\ q # p => prod'[q] = prod[q]
  BY <1>2 DEF AgentStates
<1>5. UNCHANGED <<full, empty, cons, buf>>
  BY DEF ProducerAcquire
<1>6. /\ BarriersCount' /\ Alternation' /\ Ordinal'
      /\ \A s \in Slots, q \in Producers : Visits(prod'[q], s) = Visits(prod[q], s)
  BY <1>4, <1>5, QuietStep
<1>7. empty[s0].gen = prod[p].lap
  <2>1. PICK c \in Consumers : TRUE
    BY GroupsAssumption
  <2>2. /\ empty[s0].gen \in Nat /\ Visits(prod[p], s0) <= empty[s0].gen + 1
        /\ empty[s0].gen <= Visits(prod[p], s0)
    BY <1>1, <2>1, RingOrder
  <2>3. Visits(prod[p], s0) = prod[p].lap
    BY <1>1 DEF Visits, AgentStates, Slots
  <2>4. empty[s0].gen % 2 # (prod[p].lap + 1) % 2
    BY DEF ProducerAcquire, Passed, ProducerPhase
  <2>. QED
    BY <1>1, <2>2, <2>3, <2>4
<1>8. InsidePhase'
  BY <1>4, <1>5, <1>7 DEF IInv, InsidePhase
<1>9. Contents'
  <2>. SUFFICES ASSUME NEW s \in Slots, NEW q \in Producers
                PROVE  IF prod'[q].pc = "commit" /\ prod'[q].idx = s
                       THEN buf'[s][q] = prod'[q].n
                       ELSE Visits(prod'[q], s) > 0 =>
                              buf'[s][q] = (Visits(prod'[q], s) - 1) * Stages + s
    BY DEF Contents
  <2>1. prod[q].pc = "commit" <=> prod'[q].pc = "commit"
    BY <1>2, <1>4 DEF ProducerAcquire, AgentStates
  <2>. QED
    BY <1>4, <1>5, <1>6, <2>1 DEF IInv, Contents
<1>10. InLoop'
  BY <1>4 DEF IInv, InLoop, ProducerAcquire
<1>. QED
  BY <1>3, <1>6, <1>8, <1>9, <1>10 DEF IInv

\* Writing a part touches no other part.
LEMMA WritePreserves ==
    ASSUME IInv, NEW p \in Producers, WritePart(p)
    PROVE  IInv'
<1>. DEFINE s0 == prod[p].idx
<1>1. prod[p] \in AgentStates(ProdPcs) /\ s0 \in Slots /\ prod[p].n \in Nat
  BY DEF IInv, TypeOK, AgentStates
<1>2. prod' = [prod EXCEPT ![p].pc = "commit"] /\ prod \in [Producers -> AgentStates(ProdPcs)]
  BY DEF WritePart, IInv, TypeOK
<1>3. /\ buf' = [buf EXCEPT ![s0][p] = prod[p].n]
      /\ buf \in [Slots -> [Producers -> Nat \cup {Nothing}]]
  BY DEF WritePart, IInv, TypeOK
<1>4. TypeOK'
  <2>1. prod' \in [Producers -> AgentStates(ProdPcs)]
    BY <1>2 DEF AgentStates, ProdPcs
  <2>2. buf' \in [Slots -> [Producers -> Nat \cup {Nothing}]]
    BY <1>1, <1>3
  <2>. QED
    BY <2>1, <2>2 DEF WritePart, IInv, TypeOK
<1>5. \A q \in Producers : /\ prod'[q].n = prod[q].n
                           /\ prod'[q].idx = prod[q].idx
                           /\ prod'[q].lap = prod[q].lap
                           /\ q # p => prod'[q] = prod[q]
  BY <1>2 DEF AgentStates
<1>6. UNCHANGED <<full, empty, cons>> /\ prod[p].pc = "write" /\ prod'[p].pc = "commit"
  BY <1>2 DEF WritePart, AgentStates
<1>7. /\ BarriersCount' /\ Alternation' /\ Ordinal'
      /\ \A s \in Slots, q \in Producers : Visits(prod'[q], s) = Visits(prod[q], s)
  BY <1>5, <1>6, QuietStep
<1>8. InsidePhase'
  BY <1>5, <1>6 DEF IInv, InsidePhase
<1>9. Contents'
  <2>. SUFFICES ASSUME NEW s \in Slots, NEW q \in Producers
                PROVE  IF prod'[q].pc = "commit" /\ prod'[q].idx = s
                       THEN buf'[s][q] = prod'[q].n
                       ELSE Visits(prod'[q], s) > 0 =>
                              buf'[s][q] = (Visits(prod'[q], s) - 1) * Stages + s
    BY DEF Contents
  <2>1. CASE q = p /\ s = s0
    BY <1>1, <1>3, <1>5, <1>6, <2>1
  <2>2. CASE ~(q = p /\ s = s0)
    <3>1. buf'[s][q] = buf[s][q]
      BY <1>1, <1>3, <2>2
    <3>2. (prod[q].pc = "commit" /\ prod[q].idx = s)
             <=> (prod'[q].pc = "commit" /\ prod'[q].idx = s)
      BY <1>5, <1>6, <2>2
    <3>. QED
      BY <1>5, <1>7, <3>1, <3>2 DEF IInv, Contents
  <2>. QED
    BY <2>1, <2>2
<1>10. InLoop'
  BY <1>5, <1>6 DEF IInv, InLoop
<1>. QED
  BY <1>4, <1>7, <1>8, <1>9, <1>10 DEF IInv

\* A commit completes the slot's phase only if every producer has committed,
\* and then no consumer is inside the slot.
LEMMA CommitPreserves ==
    ASSUME IInv, NEW p \in Producers, ProducerCommit(p)
    PROVE  IInv'
<1>. PICK s0 \in Slots : s0 = prod[p].idx
  BY DEF IInv, TypeOK, AgentStates
<1>1. /\ prod[p] \in AgentStates(ProdPcs) /\ s0 \in Slots
      /\ prod[p].n \in Nat /\ prod[p].lap \in Nat
      /\ prod \in [Producers -> AgentStates(ProdPcs)]
      /\ full \in [Slots -> Mbars]
  BY DEF IInv, TypeOK, AgentStates
<1>2. /\ prod' = [prod EXCEPT ![p] = Advance(prod[p], "acquire")]
      /\ full' = [full EXCEPT ![s0] = Arrive(full[s0])]
      /\ UNCHANGED <<empty, cons, buf>> /\ prod[p].pc = "commit"
  BY DEF ProducerCommit
<1>3. /\ Advance(prod[p], "acquire") \in AgentStates(ProdPcs)
      /\ \A s \in Slots : Visits(prod'[p], s) =
            Visits(prod[p], s) + (IF s = s0 THEN 1 ELSE 0)
      /\ Visits(prod[p], s0) = prod[p].lap
  BY <1>1, <1>2, AdvanceVisits DEF ProdPcs
<1>4. \A q \in Producers : q # p => prod'[q] = prod[q]
  BY <1>1, <1>2
<1>5. empty[s0].gen = prod[p].lap /\ full[s0].gen = prod[p].lap
  <2>1. PICK c \in Consumers : TRUE
    BY GroupsAssumption
  <2>2. empty[s0].gen = prod[p].lap
    BY <1>2 DEF IInv, InsidePhase
  <2>3. /\ full[s0].gen \in Nat /\ full[s0].gen <= prod[p].lap
        /\ empty[s0].gen <= full[s0].gen
    BY <1>1, <1>3, <2>1, RingOrder
  <2>. QED
    BY <1>1, <2>2, <2>3
<1>6. /\ Arrive(full[s0]) \in Mbars
      /\ CountedBy(Arrive(full[s0]), ProducerVisits(s0)', Producers)
      /\ \/ Arrive(full[s0]).gen = full[s0].gen
         \/ Arrive(full[s0]).gen = full[s0].gen + 1
  <2>. DEFINE v == ProducerVisits(s0)
              w == ProducerVisits(s0)'
  <2>1. PICK c \in Consumers : TRUE
    BY GroupsAssumption
  <2>2. \A q \in Producers : v[q] = Visits(prod[q], s0) /\ w[q] = Visits(prod'[q], s0)
    BY DEF ProducerVisits
  <2>3. v \in [Producers -> Nat]
    BY <1>1, <2>1, RingOrder DEF ProducerVisits
  <2>4. \A q \in Producers : w[q] = v[q] + (IF q = p THEN 1 ELSE 0)
    BY <1>1, <1>3, <1>4, <2>2, <2>3
  <2>5. w \in [Producers -> Nat]
    <3>1. \A q \in Producers : v[q] \in Nat
      BY <2>3
    <3>2. \A q \in Producers : w[q] \in Nat
      BY <2>4, <3>1
    <3>. QED
      BY <3>2 DEF ProducerVisits
  <2>6. v[p] = full[s0].gen
    BY <1>3, <1>5, <2>2
  <2>7. CountedBy(full[s0], v, Producers) /\ full[s0] \in Mbars
    BY <1>1 DEF IInv, BarriersCount
  <2>8. IsFiniteSet(Producers)
    BY GroupsAssumption
  <2>. HIDE DEF v, w
  <2>9. CountedBy(Arrive(full[s0]), w, Producers) /\ Arrive(full[s0]) \in Mbars
        /\ (Arrive(full[s0]).gen = full[s0].gen \/ Arrive(full[s0]).gen = full[s0].gen + 1)
    BY <2>3, <2>4, <2>5, <2>6, <2>7, <2>8, ArriveCounts
  <2>. QED
    BY <2>9 DEF w
<1>7. TypeOK'
  <2>1. prod' \in [Producers -> AgentStates(ProdPcs)]
    BY <1>1, <1>2, <1>3
  <2>2. full' \in [Slots -> Mbars]
    BY <1>1, <1>2, <1>6
  <2>. QED
    BY <1>2, <2>1, <2>2 DEF IInv, TypeOK
<1>8. \A s \in Slots : full'[s] = IF s = s0 THEN Arrive(full[s0]) ELSE full[s]
  BY <1>1, <1>2
<1>9. \A s \in Slots, q \in Producers :
        Visits(prod'[q], s) = IF q = p /\ s = s0 THEN Visits(prod[q], s) + 1
                                                ELSE Visits(prod[q], s)
  <2>. SUFFICES ASSUME NEW s \in Slots, NEW q \in Producers
                PROVE  Visits(prod'[q], s) = IF q = p /\ s = s0
                         THEN Visits(prod[q], s) + 1 ELSE Visits(prod[q], s)
    OBVIOUS
  <2>1. PICK c \in Consumers : TRUE
    BY GroupsAssumption
  <2>2. Visits(prod[q], s) \in Nat
    BY <2>1, RingOrder
  <2>. QED
    BY <1>3, <1>4, <2>2
<1>10. BarriersCount'
  <2>. SUFFICES ASSUME NEW s \in Slots
                PROVE  /\ CountedBy(full'[s], ProducerVisits(s)', Producers)
                       /\ CountedBy(empty'[s], ConsumerVisits(s)', Consumers)
    BY DEF BarriersCount
  <2>1. ConsumerVisits(s)' = ConsumerVisits(s) /\ empty'[s] = empty[s]
    BY <1>2 DEF ConsumerVisits
  <2>2. CASE s = s0
    BY <1>6, <1>8, <2>1, <2>2 DEF IInv, BarriersCount
  <2>3. CASE s # s0
    <3>1. ProducerVisits(s)' = ProducerVisits(s)
      BY <1>9, <2>3 DEF ProducerVisits
    <3>. QED
      BY <1>8, <2>1, <2>3, <3>1 DEF IInv, BarriersCount
  <2>. QED
    BY <2>2, <2>3
<1>11. \A s \in Slots : /\ full[s].gen \in Nat /\ full'[s].gen \in Nat
                         /\ full'[s].gen >= full[s].gen
  BY <1>1, <1>6, <1>8 DEF Mbars
<1>12. Alternation'
  <2>1. ASSUME NEW s \in Slots, NEW q \in Producers
        PROVE  Visits(prod'[q], s) <= empty[s].gen + 1
    <3>1. PICK c \in Consumers : TRUE
      BY GroupsAssumption
    <3>2. /\ Visits(prod[q], s) <= empty[s].gen + 1
          /\ Visits(prod[q], s) \in Nat /\ empty[s].gen \in Nat
      BY <3>1, RingOrder
    <3>3. CASE q = p /\ s = s0
      BY <1>1, <1>3, <1>5, <1>9, <3>2, <3>3
    <3>4. CASE ~(q = p /\ s = s0)
      BY <1>9, <3>2, <3>4
    <3>. QED
      BY <3>3, <3>4
  <2>2. ASSUME NEW s \in Slots, NEW c \in Consumers
        PROVE  Visits(cons[c], s) <= full'[s].gen
    <3>1. PICK q \in Producers : TRUE
      BY GroupsAssumption
    <3>2. Visits(cons[c], s) \in Nat /\ Visits(cons[c], s) <= full[s].gen
      BY <3>1, RingOrder
    <3>. QED
      BY <1>11, <3>2
  <2>. QED
    BY <1>2, <2>1, <2>2 DEF Alternation
<1>13. InsidePhase'
  <2>1. ASSUME NEW q \in Producers, prod'[q].pc # "acquire"
        PROVE  empty[prod'[q].idx].gen = prod'[q].lap
    <3>1. q # p
      BY <1>1, <1>2, <2>1 DEF Advance
    <3>. QED
      BY <1>4, <2>1, <3>1 DEF IInv, InsidePhase
  <2>2. ASSUME NEW c \in Consumers, cons[c].pc = "read"
        PROVE  full'[cons[c].idx].gen = cons[c].lap + 1
    <3>1. /\ full[cons[c].idx].gen = cons[c].lap + 1
          /\ cons[c].idx \in Slots /\ cons[c].lap \in Nat
          /\ Visits(cons[c], cons[c].idx) = cons[c].lap
      BY <2>2 DEF IInv, InsidePhase, TypeOK, AgentStates, Visits, Slots
    <3>2. cons[c].idx # s0
      <4>. SUFFICES ASSUME cons[c].idx = s0 PROVE FALSE
        OBVIOUS
      <4>1. empty[s0].gen <= cons[c].lap
        BY <1>1, <3>1, RingOrder
      <4>. QED
        BY <1>1, <1>5, <3>1, <4>1
    <3>. QED
      BY <1>8, <3>1, <3>2
  <2>. QED
    BY <1>2, <2>1, <2>2 DEF InsidePhase
<1>14. Ordinal'
  <2>1. prod'[p].n = prod'[p].lap * Stages + prod'[p].idx
    <3>1. prod[p].n = prod[p].lap * Stages + prod[p].idx
      BY DEF IInv, Ordinal
    <3>2. prod'[p] = Advance(prod[p], "acquire")
      BY <1>1, <1>2
    <3>3. (prod[p].lap + 1) * Stages = prod[p].lap * Stages + Stages
      BY <1>1, NextLap
    <3>. QED
      BY <1>1, <3>1, <3>2, <3>3, StagesAssumption DEF Advance, Slots
  <2>. QED
    BY <1>2, <1>4, <2>1 DEF IInv, Ordinal
<1>15. Contents'
  <2>. SUFFICES ASSUME NEW s \in Slots, NEW q \in Producers
                PROVE  IF prod'[q].pc = "commit" /\ prod'[q].idx = s
                       THEN buf'[s][q] = prod'[q].n
                       ELSE Visits(prod'[q], s) > 0 =>
                              buf'[s][q] = (Visits(prod'[q], s) - 1) * Stages + s
    BY DEF Contents
  <2>1. buf' = buf
    BY <1>2
  <2>2. CASE q # p
    BY <1>4, <2>1, <2>2 DEF IInv, Contents
  <2>3. CASE q = p
    <3>1. prod'[p].pc = "acquire"
      BY <1>1, <1>2 DEF Advance
    <3>2. CASE s = s0
      <4>1. buf[s][p] = prod[p].n
        BY <1>2, <3>2 DEF IInv, Contents
      <4>2. Visits(prod'[p], s) - 1 = prod[p].lap
        BY <1>1, <1>3, <3>2
      <4>3. prod[p].n = prod[p].lap * Stages + s
        BY <3>2 DEF IInv, Ordinal
      <4>. QED
        BY <2>1, <2>3, <3>1, <4>1, <4>2, <4>3
    <3>3. CASE s # s0
      <4>1. Visits(prod'[p], s) = Visits(prod[p], s)
        BY <1>9, <3>3
      <4>2. Visits(prod[p], s) > 0 => buf[s][p] = (Visits(prod[p], s) - 1) * Stages + s
        BY <3>3 DEF IInv, Contents
      <4>. QED
        BY <2>1, <2>3, <3>1, <4>1, <4>2
    <3>. QED
      BY <3>2, <3>3
  <2>. QED
    BY <2>2, <2>3
<1>16. InLoop'
  <2>1. prod'[p].pc = "acquire"
    BY <1>1, <1>2 DEF Advance
  <2>. QED
    BY <1>4, <2>1 DEF IInv, InLoop
<1>. QED
  BY <1>7, <1>10, <1>12, <1>13, <1>14, <1>15, <1>16 DEF IInv

\* A consumer passes the wait for its slot only when its lap was filled.
LEMMA WaitPreserves ==
    ASSUME IInv, NEW c \in Consumers, ConsumerWait(c)
    PROVE  IInv'
<1>. PICK s0 \in Slots : s0 = cons[c].idx
  BY DEF IInv, TypeOK, AgentStates
<1>1. cons[c] \in AgentStates(ConsPcs) /\ cons[c].lap \in Nat
  BY DEF IInv, TypeOK, AgentStates
<1>2. cons' = [cons EXCEPT ![c].pc = "read"] /\ cons \in [Consumers -> AgentStates(ConsPcs)]
  BY DEF ConsumerWait, IInv, TypeOK
<1>3. TypeOK'
  BY <1>2 DEF ConsumerWait, IInv, TypeOK, AgentStates, ConsPcs
<1>4. \A d \in Consumers : /\ cons'[d].n = cons[d].n
                           /\ cons'[d].idx = cons[d].idx
                           /\ cons'[d].lap = cons[d].lap
                           /\ d # c => cons'[d] = cons[d]
  BY <1>2 DEF AgentStates
<1>5. UNCHANGED <<full, empty, prod, buf>>
  BY DEF ConsumerWait
<1>6. BarriersCount' /\ Alternation' /\ Ordinal'
  BY <1>4, <1>5, QuietStep
<1>7. full[s0].gen = cons[c].lap + 1
  <2>1. PICK p \in Producers : TRUE
    BY GroupsAssumption
  <2>2. /\ full[s0].gen \in Nat /\ empty[s0].gen \in Nat
        /\ Visits(cons[c], s0) <= full[s0].gen
        /\ empty[s0].gen <= Visits(cons[c], s0)
        /\ Visits(prod[p], s0) \in Nat
        /\ full[s0].gen <= Visits(prod[p], s0)
        /\ Visits(prod[p], s0) <= empty[s0].gen + 1
    BY <2>1, RingOrder
  <2>3. Visits(cons[c], s0) = cons[c].lap
    BY <1>1 DEF Visits, AgentStates, Slots
  <2>4. full[s0].gen % 2 # cons[c].lap % 2
    BY DEF ConsumerWait, Passed, ConsumerPhase
  <2>. QED
    BY <1>1, <2>2, <2>3, <2>4
<1>8. InsidePhase'
  BY <1>4, <1>5, <1>7 DEF IInv, InsidePhase
<1>9. Contents' /\ InLoop'
  BY <1>5 DEF IInv, Contents, InLoop
<1>. QED
  BY <1>3, <1>6, <1>8, <1>9 DEF IInv

\* A release completes the slot's phase only if every consumer has released,
\* and then no producer is inside the slot.
LEMMA ReleasePreserves ==
    ASSUME IInv, NEW c \in Consumers, ConsumerRelease(c)
    PROVE  IInv'
<1>. PICK s0 \in Slots : s0 = cons[c].idx
  BY DEF IInv, TypeOK, AgentStates
<1>1. /\ cons[c] \in AgentStates(ConsPcs)
      /\ cons[c].n \in Nat /\ cons[c].lap \in Nat
      /\ cons \in [Consumers -> AgentStates(ConsPcs)]
      /\ empty \in [Slots -> Mbars]
  BY DEF IInv, TypeOK, AgentStates
<1>2. /\ cons' = [cons EXCEPT ![c] = Advance(cons[c], "wait")]
      /\ empty' = [empty EXCEPT ![s0] = Arrive(empty[s0])]
      /\ UNCHANGED <<full, prod, buf>> /\ cons[c].pc = "read"
  BY DEF ConsumerRelease
<1>3. /\ Advance(cons[c], "wait") \in AgentStates(ConsPcs)
      /\ \A s \in Slots : Visits(cons'[c], s) =
            Visits(cons[c], s) + (IF s = s0 THEN 1 ELSE 0)
      /\ Visits(cons[c], s0) = cons[c].lap
  BY <1>1, <1>2, AdvanceVisits DEF ConsPcs
<1>4. \A d \in Consumers : d # c => cons'[d] = cons[d]
  BY <1>1, <1>2
<1>5. full[s0].gen = cons[c].lap + 1 /\ empty[s0].gen = cons[c].lap
  <2>1. PICK p \in Producers : TRUE
    BY GroupsAssumption
  <2>2. full[s0].gen = cons[c].lap + 1
    BY <1>2 DEF IInv, InsidePhase
  <2>3. /\ empty[s0].gen \in Nat /\ empty[s0].gen <= cons[c].lap
        /\ Visits(prod[p], s0) \in Nat
        /\ full[s0].gen <= Visits(prod[p], s0)
        /\ Visits(prod[p], s0) <= empty[s0].gen + 1
    BY <1>3, <2>1, RingOrder
  <2>. QED
    BY <1>1, <2>2, <2>3
<1>6. /\ Arrive(empty[s0]) \in Mbars
      /\ CountedBy(Arrive(empty[s0]), ConsumerVisits(s0)', Consumers)
      /\ \/ Arrive(empty[s0]).gen = empty[s0].gen
         \/ /\ Arrive(empty[s0]).gen = empty[s0].gen + 1
            /\ \A d \in Consumers : Visits(cons'[d], s0) = empty[s0].gen + 1
  <2>. DEFINE v == ConsumerVisits(s0)
              w == ConsumerVisits(s0)'
  <2>1. PICK p \in Producers : TRUE
    BY GroupsAssumption
  <2>2. \A d \in Consumers : v[d] = Visits(cons[d], s0) /\ w[d] = Visits(cons'[d], s0)
    BY DEF ConsumerVisits
  <2>3. v \in [Consumers -> Nat]
    BY <2>1, RingOrder DEF ConsumerVisits
  <2>4. \A d \in Consumers : w[d] = v[d] + (IF d = c THEN 1 ELSE 0)
    BY <1>1, <1>3, <1>4, <2>2, <2>3
  <2>5. w \in [Consumers -> Nat]
    <3>1. \A d \in Consumers : v[d] \in Nat
      BY <2>3
    <3>2. \A d \in Consumers : w[d] \in Nat
      BY <2>4, <3>1
    <3>. QED
      BY <3>2 DEF ConsumerVisits
  <2>6. v[c] = empty[s0].gen
    BY <1>3, <1>5, <2>2
  <2>7. CountedBy(empty[s0], v, Consumers) /\ empty[s0] \in Mbars
    BY <1>1 DEF IInv, BarriersCount
  <2>8. IsFiniteSet(Consumers)
    BY GroupsAssumption
  <2>. HIDE DEF v, w
  <2>9. /\ CountedBy(Arrive(empty[s0]), w, Consumers) /\ Arrive(empty[s0]) \in Mbars
        /\ \/ Arrive(empty[s0]).gen = empty[s0].gen
           \/ /\ Arrive(empty[s0]).gen = empty[s0].gen + 1
              /\ \A d \in Consumers : w[d] = empty[s0].gen + 1
    BY <2>3, <2>4, <2>5, <2>6, <2>7, <2>8, ArriveCounts
  <2>. QED
    BY <2>2, <2>9 DEF w
<1>7. TypeOK'
  <2>1. cons' \in [Consumers -> AgentStates(ConsPcs)]
    BY <1>1, <1>2, <1>3
  <2>2. empty' \in [Slots -> Mbars]
    BY <1>1, <1>2, <1>6
  <2>. QED
    BY <1>2, <2>1, <2>2 DEF IInv, TypeOK
<1>8. \A s \in Slots : empty'[s] = IF s = s0 THEN Arrive(empty[s0]) ELSE empty[s]
  BY <1>1, <1>2
<1>9. \A s \in Slots, d \in Consumers :
        Visits(cons'[d], s) = IF d = c /\ s = s0 THEN Visits(cons[d], s) + 1
                                                ELSE Visits(cons[d], s)
  <2>. SUFFICES ASSUME NEW s \in Slots, NEW d \in Consumers
                PROVE  Visits(cons'[d], s) = IF d = c /\ s = s0
                         THEN Visits(cons[d], s) + 1 ELSE Visits(cons[d], s)
    OBVIOUS
  <2>1. PICK p \in Producers : TRUE
    BY GroupsAssumption
  <2>2. Visits(cons[d], s) \in Nat
    BY <2>1, RingOrder
  <2>. QED
    BY <1>3, <1>4, <2>2
<1>10. BarriersCount'
  <2>. SUFFICES ASSUME NEW s \in Slots
                PROVE  /\ CountedBy(full'[s], ProducerVisits(s)', Producers)
                       /\ CountedBy(empty'[s], ConsumerVisits(s)', Consumers)
    BY DEF BarriersCount
  <2>1. ProducerVisits(s)' = ProducerVisits(s) /\ full'[s] = full[s]
    BY <1>2 DEF ProducerVisits
  <2>2. CASE s = s0
    BY <1>6, <1>8, <2>1, <2>2 DEF IInv, BarriersCount
  <2>3. CASE s # s0
    <3>1. ConsumerVisits(s)' = ConsumerVisits(s)
      BY <1>9, <2>3 DEF ConsumerVisits
    <3>. QED
      BY <1>8, <2>1, <2>3, <3>1 DEF IInv, BarriersCount
  <2>. QED
    BY <2>2, <2>3
<1>11. \A s \in Slots : /\ empty[s].gen \in Nat /\ empty'[s].gen \in Nat
                         /\ empty'[s].gen >= empty[s].gen
  BY <1>1, <1>6, <1>8 DEF Mbars
<1>12. Alternation'
  <2>1. ASSUME NEW s \in Slots, NEW q \in Producers
        PROVE  Visits(prod[q], s) <= empty'[s].gen + 1
    <3>1. Visits(prod[q], s) \in Nat /\ Visits(prod[q], s) <= empty[s].gen + 1
      BY RingOrder
    <3>. QED
      BY <1>11, <3>1
  <2>2. ASSUME NEW s \in Slots, NEW d \in Consumers
        PROVE  Visits(cons'[d], s) <= full[s].gen
    <3>1. PICK q \in Producers : TRUE
      BY GroupsAssumption
    <3>2. /\ Visits(cons[d], s) \in Nat /\ Visits(cons[d], s) <= full[s].gen
          /\ full[s].gen \in Nat
      BY <3>1, RingOrder
    <3>3. CASE d = c /\ s = s0
      BY <1>1, <1>3, <1>5, <1>9, <3>2, <3>3
    <3>4. CASE ~(d = c /\ s = s0)
      BY <1>9, <3>2, <3>4
    <3>. QED
      BY <3>3, <3>4
  <2>. QED
    BY <1>2, <2>1, <2>2 DEF Alternation
<1>13. InsidePhase'
  <2>1. ASSUME NEW d \in Consumers, cons'[d].pc = "read"
        PROVE  full[cons'[d].idx].gen = cons'[d].lap + 1
    <3>1. d # c
      BY <1>1, <1>2, <2>1 DEF Advance
    <3>. QED
      BY <1>4, <2>1, <3>1 DEF IInv, InsidePhase
  <2>2. ASSUME NEW p \in Producers, prod[p].pc # "acquire"
        PROVE  empty'[prod[p].idx].gen = prod[p].lap
    <3>1. /\ empty[prod[p].idx].gen = prod[p].lap
          /\ prod[p].idx \in Slots /\ prod[p].lap \in Nat
          /\ Visits(prod[p], prod[p].idx) = prod[p].lap
      BY <2>2 DEF IInv, InsidePhase, TypeOK, AgentStates, Visits, Slots
    <3>2. prod[p].idx # s0
      <4>. SUFFICES ASSUME prod[p].idx = s0 PROVE FALSE
        OBVIOUS
      <4>1. full[s0].gen <= prod[p].lap
        BY <3>1, RingOrder
      <4>. QED
        BY <1>1, <1>5, <3>1, <4>1
    <3>. QED
      BY <1>8, <3>1, <3>2
  <2>. QED
    BY <1>2, <2>1, <2>2 DEF InsidePhase
<1>14. Ordinal'
  <2>1. cons'[c].n = cons'[c].lap * Stages + cons'[c].idx
    <3>1. cons[c].n = cons[c].lap * Stages + cons[c].idx
      BY DEF IInv, Ordinal
    <3>2. cons'[c] = Advance(cons[c], "wait")
      BY <1>1, <1>2
    <3>3. (cons[c].lap + 1) * Stages = cons[c].lap * Stages + Stages
      BY <1>1, NextLap
    <3>. QED
      BY <1>1, <3>1, <3>2, <3>3, StagesAssumption, SMTT(30) DEF Advance, Slots
  <2>. QED
    BY <1>2, <1>4, <2>1 DEF IInv, Ordinal
<1>15. Contents' /\ InLoop'
  BY <1>2 DEF IInv, Contents, InLoop
<1>. QED
  BY <1>7, <1>10, <1>12, <1>13, <1>14, <1>15 DEF IInv

-----------------------------------------------------------------------------
\* No step of any thread breaks the invariant.
LEMMA NextInv == IInv /\ [Next]_vars => IInv'
<1>. SUFFICES ASSUME IInv, [Next]_vars PROVE IInv'
  OBVIOUS
<1>1. ASSUME NEW p \in Producers, ProducerStep(p) PROVE IInv'
  BY <1>1, AcquirePreserves, WritePreserves, CommitPreserves DEF ProducerStep
<1>2. ASSUME NEW c \in Consumers, ConsumerStep(c) PROVE IInv'
  BY <1>2, WaitPreserves, ReleasePreserves DEF ConsumerStep
<1>3. CASE UNCHANGED vars
  <2>1. UNCHANGED <<full, empty, prod, cons, buf>>
    BY <1>3 DEF vars
  <2>2. BarriersCount' /\ Alternation' /\ Ordinal'
    BY <2>1, QuietStep
  <2>3. TypeOK' /\ InsidePhase' /\ Contents' /\ InLoop'
    BY <2>1 DEF IInv, TypeOK, InsidePhase, Contents, InLoop
  <2>. QED
    BY <2>2, <2>3 DEF IInv
<1>. QED
  BY <1>1, <1>2, <1>3 DEF Next, Stop

\* The invariant holds in every reachable state.
THEOREM Invariance == Spec => []IInv
<1>. QED
  BY InitInv, NextInv, PTL DEF Spec

\* The types of the variables, for any size of the ring and of the groups.
THEOREM TypeCorrect == Spec => []TypeOK
<1>1. IInv => TypeOK
  BY DEF IInv
<1>. QED
  BY <1>1, Invariance, PTL

\* The visits of an agent to the slot it stands at are its laps.
LEMMA HereVisits ==
    ASSUME IInv
    PROVE  /\ \A p \in Producers : /\ prod[p].idx \in Slots /\ prod[p].lap \in Nat
                                   /\ Visits(prod[p], prod[p].idx) = prod[p].lap
           /\ \A c \in Consumers : /\ cons[c].idx \in Slots /\ cons[c].lap \in Nat
                                   /\ Visits(cons[c], cons[c].idx) = cons[c].lap
BY DEF IInv, TypeOK, AgentStates, Visits, Slots

\* A consumer inside a slot reads all the parts of its own item.
THEOREM WholeItems == Spec => []ReadsWholeItem
<1>1. IInv => ReadsWholeItem
  <2>. SUFFICES ASSUME IInv, NEW c \in Consumers, cons[c].pc = "read",
                       NEW p \in Producers
                PROVE  buf[cons[c].idx][p] = cons[c].n
    BY DEF ReadsWholeItem
  <2>. PICK s \in Slots : s = cons[c].idx
    BY DEF IInv, TypeOK, AgentStates
  <2>1. cons[c].lap \in Nat /\ Visits(cons[c], s) = cons[c].lap /\ full[s].gen = cons[c].lap + 1
    BY DEF IInv, TypeOK, AgentStates, InsidePhase, Visits, Slots
  <2>2. Visits(prod[p], s) = cons[c].lap + 1 /\ empty[s].gen < Visits(prod[p], s)
    BY <2>1, RingOrder
  <2>3. ~(prod[p].pc = "commit" /\ prod[p].idx = s)
    <3>. SUFFICES ASSUME prod[p].pc = "commit", prod[p].idx = s PROVE FALSE
      OBVIOUS
    <3>1. /\ prod[p].lap \in Nat /\ Visits(prod[p], s) = prod[p].lap
          /\ empty[s].gen = prod[p].lap
      BY HereVisits, prod[p].pc # "acquire" DEF IInv, InsidePhase
    <3>. QED
      BY <2>2, <3>1
  <2>4. buf[s][p] = (Visits(prod[p], s) - 1) * Stages + s
    BY <2>1, <2>2, <2>3 DEF IInv, Contents
  <2>. QED
    BY <2>1, <2>2, <2>4 DEF IInv, Ordinal
<1>. QED
  BY <1>1, Invariance, PTL

\* No producer is between its acquire and its commit of a slot while a
\* consumer is between its wait and its release of the same slot.
THEOREM NoRace == Spec => []NoWriteUnderRead
<1>1. IInv => NoWriteUnderRead
  <2>. SUFFICES ASSUME IInv, NEW p \in Producers, NEW c \in Consumers,
                       prod[p].pc # "acquire", cons[c].pc = "read",
                       prod[p].idx = cons[c].idx
                PROVE  FALSE
    BY DEF NoWriteUnderRead
  <2>. PICK s \in Slots : s = cons[c].idx
    BY DEF IInv, TypeOK, AgentStates
  <2>1. /\ cons[c].lap \in Nat /\ Visits(cons[c], s) = cons[c].lap
        /\ full[s].gen = cons[c].lap + 1
    BY DEF IInv, TypeOK, AgentStates, InsidePhase, Visits, Slots
  <2>2. /\ prod[p].lap \in Nat /\ Visits(prod[p], s) = prod[p].lap
        /\ empty[s].gen = prod[p].lap
    BY HereVisits DEF IInv, InsidePhase
  <2>. QED
    BY <2>1, <2>2, RingOrder
<1>. QED
  BY <1>1, Invariance, PTL

\* Waiting for a parity is waiting for one phase.
THEOREM OnePhaseApart == Spec => []ParityUnambiguous
<1>1. IInv => ParityUnambiguous
  <2>. SUFFICES ASSUME IInv
                PROVE  /\ \A p \in Producers :
                             prod[p].lap - empty[prod[p].idx].gen \in {0, 1}
                       /\ \A c \in Consumers :
                             full[cons[c].idx].gen - cons[c].lap \in {0, 1}
    BY DEF ParityUnambiguous
  <2>1. PICK p0 \in Producers, c0 \in Consumers : TRUE
    BY GroupsAssumption
  <2>2. ASSUME NEW p \in Producers
        PROVE  prod[p].lap - empty[prod[p].idx].gen \in {0, 1}
    <3>. PICK s \in Slots : s = prod[p].idx
      BY HereVisits
    <3>1. /\ prod[p].lap \in Nat /\ empty[s].gen \in Nat
          /\ empty[s].gen <= prod[p].lap /\ prod[p].lap <= empty[s].gen + 1
      BY <2>1, HereVisits, RingOrder
    <3>. QED
      BY <3>1
  <2>3. ASSUME NEW c \in Consumers
        PROVE  full[cons[c].idx].gen - cons[c].lap \in {0, 1}
    <3>. PICK s \in Slots : s = cons[c].idx
      BY HereVisits
    <3>1. /\ cons[c].lap \in Nat /\ full[s].gen \in Nat
          /\ cons[c].lap <= full[s].gen /\ full[s].gen <= cons[c].lap + 1
      BY <2>1, HereVisits, RingOrder
    <3>. QED
      BY <3>1
  <2>. QED
    BY <2>2, <2>3
<1>. QED
  BY <1>1, Invariance, PTL

-----------------------------------------------------------------------------
\* An item is committed only when no consumer is Stages items behind it.
LEMMA SendAllowed ==
    ASSUME IInv, NEW p \in Producers, NEW c \in Consumers, prod[p].pc # "acquire"
    PROVE  prod[p].n - cons[c].n < Stages
<1>. PICK s \in Slots : s = prod[p].idx
  BY HereVisits
<1>1. /\ prod[p].lap \in Nat /\ cons[c].lap \in Nat /\ cons[c].idx \in Slots
      /\ prod[p].lap <= Visits(cons[c], s)
  BY HereVisits, RingOrder DEF IInv, InsidePhase
<1>2. /\ prod[p].n = prod[p].lap * Stages + s
      /\ cons[c].n = cons[c].lap * Stages + cons[c].idx
  BY DEF IInv, Ordinal
<1>3. CASE s < cons[c].idx
  <2>1. prod[p].lap <= cons[c].lap + 1
    BY <1>1, <1>3 DEF Visits
  <2>2. prod[p].lap * Stages <= cons[c].lap * Stages + Stages
    BY <1>1, <2>1, LapMonotone, NextLap
  <2>. DEFINE a == prod[p].lap * Stages
              b == cons[c].lap * Stages
  <2>3. a \in Int /\ b \in Int
    BY <1>1, StagesAssumption
  <2>. HIDE DEF a, b
  <2>4. prod[p].n = a + s /\ cons[c].n = b + cons[c].idx /\ a <= b + Stages
    BY <1>2, <2>2 DEF a, b
  <2>. QED
    BY <1>1, <1>3, <2>3, <2>4, StagesAssumption DEF Slots
<1>4. CASE ~(s < cons[c].idx)
  <2>1. prod[p].lap <= cons[c].lap
    BY <1>1, <1>4 DEF Visits
  <2>2. prod[p].lap * Stages <= cons[c].lap * Stages
    BY <1>1, <2>1, LapMonotone
  <2>. DEFINE a == prod[p].lap * Stages
              b == cons[c].lap * Stages
  <2>3. a \in Int /\ b \in Int
    BY <1>1, StagesAssumption
  <2>. HIDE DEF a, b
  <2>4. prod[p].n = a + s /\ cons[c].n = b + cons[c].idx /\ a <= b
    BY <1>2, <2>2 DEF a, b
  <2>. QED
    BY <1>1, <2>3, <2>4, StagesAssumption DEF Slots
<1>. QED
  BY <1>3, <1>4

\* An item is released only when every producer has committed it.
LEMMA RecvAllowed ==
    ASSUME IInv, NEW p \in Producers, NEW c \in Consumers, cons[c].pc = "read"
    PROVE  cons[c].n < prod[p].n
<1>. PICK s \in Slots : s = cons[c].idx
  BY HereVisits
<1>1. /\ prod[p].lap \in Nat /\ cons[c].lap \in Nat /\ prod[p].idx \in Slots
      /\ cons[c].lap + 1 <= Visits(prod[p], s)
  BY HereVisits, RingOrder DEF IInv, InsidePhase
<1>2. /\ prod[p].n = prod[p].lap * Stages + prod[p].idx
      /\ cons[c].n = cons[c].lap * Stages + s
  BY DEF IInv, Ordinal
<1>. DEFINE a == prod[p].lap * Stages
            b == cons[c].lap * Stages
<1>3. a \in Int /\ b \in Int
  BY <1>1, StagesAssumption
<1>4. CASE s < prod[p].idx
  <2>1. cons[c].lap <= prod[p].lap
    BY <1>1, <1>4 DEF Visits
  <2>2. b <= a
    BY <1>1, <2>1, LapMonotone
  <2>. HIDE DEF a, b
  <2>3. prod[p].n = a + prod[p].idx /\ cons[c].n = b + s
    BY <1>2 DEF a, b
  <2>. QED
    BY <1>1, <1>3, <1>4, <2>2, <2>3, StagesAssumption DEF Slots
<1>5. CASE ~(s < prod[p].idx)
  <2>1. cons[c].lap + 1 <= prod[p].lap
    BY <1>1, <1>5 DEF Visits
  <2>2. b + Stages <= a
    BY <1>1, <2>1, LapMonotone, NextLap
  <2>. HIDE DEF a, b
  <2>3. prod[p].n = a + prod[p].idx /\ cons[c].n = b + s
    BY <1>2 DEF a, b
  <2>. QED
    BY <1>1, <1>3, <2>2, <2>3, StagesAssumption DEF Slots
<1>. QED
  BY <1>4, <1>5

\* The pipeline is a bounded channel: commits send, releases receive, and
\* everything else is invisible.
THEOREM Implementation == Spec => ImplementsChannel
<1>. DEFINE sent == [p \in Producers |-> prod[p].n]
            rcvd == [c \in Consumers |-> cons[c].n]
<1>1. Init => Channel!ChInit
  BY DEF Init, Channel!ChInit, StartState
<1>2. IInv /\ [Next]_vars => [Channel!ChNext]_<<sent, rcvd>>
  <2>. SUFFICES ASSUME IInv, [Next]_vars
                PROVE  Channel!ChNext \/ UNCHANGED <<sent, rcvd>>
    OBVIOUS
  <2>0. /\ prod \in [Producers -> AgentStates(ProdPcs)]
        /\ cons \in [Consumers -> AgentStates(ConsPcs)]
    BY DEF IInv, TypeOK
  <2>1. ASSUME NEW p \in Producers, ProducerAcquire(p) \/ WritePart(p)
        PROVE  UNCHANGED <<sent, rcvd>>
    <3>1. \A q \in Producers : prod'[q].n = prod[q].n
      BY <2>0, <2>1 DEF ProducerAcquire, WritePart, AgentStates
    <3>2. cons' = cons
      BY <2>1 DEF ProducerAcquire, WritePart
    <3>. QED
      BY <3>1, <3>2
  <2>2. ASSUME NEW c \in Consumers, ConsumerWait(c)
        PROVE  UNCHANGED <<sent, rcvd>>
    <3>1. \A d \in Consumers : cons'[d].n = cons[d].n
      BY <2>0, <2>2 DEF ConsumerWait, AgentStates
    <3>2. prod' = prod
      BY <2>2 DEF ConsumerWait
    <3>. QED
      BY <3>1, <3>2
  <2>3. ASSUME NEW p \in Producers, ProducerCommit(p)
        PROVE  Channel!ChSend(p)
    <3>1. /\ \A q \in Producers : prod'[q].n = IF q = p THEN prod[p].n + 1 ELSE prod[q].n
          /\ cons' = cons
      BY <2>0, <2>3 DEF ProducerCommit, Advance
    <3>2. sent' = [sent EXCEPT ![p] = sent[p] + 1] /\ rcvd' = rcvd
      BY <3>1
    <3>3. \A c \in Consumers : sent[p] - rcvd[c] < Stages
      BY <2>3, SendAllowed DEF ProducerCommit
    <3>4. sent[p] < Items
      BY <2>3 DEF ProducerCommit, IInv, InLoop
    <3>. QED
      BY <3>2, <3>3, <3>4 DEF Channel!ChSend
  <2>4. ASSUME NEW c \in Consumers, ConsumerRelease(c)
        PROVE  Channel!ChRecv(c)
    <3>1. /\ \A d \in Consumers : cons'[d].n = IF d = c THEN cons[c].n + 1 ELSE cons[d].n
          /\ prod' = prod
      BY <2>0, <2>4 DEF ConsumerRelease, Advance
    <3>2. rcvd' = [rcvd EXCEPT ![c] = rcvd[c] + 1] /\ sent' = sent
      BY <3>1
    <3>3. \A p \in Producers : rcvd[c] < sent[p]
      BY <2>4, RecvAllowed DEF ConsumerRelease
    <3>. QED
      BY <3>2, <3>3 DEF Channel!ChRecv
  <2>5. CASE UNCHANGED vars
    BY <2>5 DEF vars
  <2>. QED
    BY <2>1, <2>2, <2>3, <2>4, <2>5
       DEF Next, ProducerStep, ConsumerStep, Stop, Channel!ChNext
<1>. QED
  BY <1>1, <1>2, Invariance, PTL
     DEF Spec, ImplementsChannel, Channel!ChSpec, Channel!chVars
=============================================================================
