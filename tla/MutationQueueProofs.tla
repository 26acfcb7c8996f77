------------------------ MODULE MutationQueueProofs ------------------------
(***************************************************************************)
(* Theorems about MutationQueue, for every number of call slots and every  *)
(* bound: type correctness, the order of the array however calls overlap,  *)
(* and, with a single writer, that the array holds exactly the mutations   *)
(* still owed to the server.                                               *)
(***************************************************************************)
EXTENDS MutationQueue, SequenceTheorems, TLAPS

-----------------------------------------------------------------------------
(* What the operators on arrays return.                                    *)

\* A fresh record is a mutation with the id it is given.
LEMMA FreshType ==
  ASSUME NEW m \in MutationIds
  PROVE  Fresh(m) \in Mutation /\ Fresh(m).id = m
BY BoundsAssumption DEF Fresh, Mutation, Errors

\* Marking a mutation keeps its id.
LEMMA MarkedType ==
  ASSUME NEW m \in Mutation, NEW reply \in Replies
  PROVE  Marked(m, reply) \in Mutation /\ Marked(m, reply).id = m.id
<1> DEFINE n == IF m.retries < RetryCap THEN m.retries + 1 ELSE RetryCap
<1>1. n \in 0..RetryCap
  BY BoundsAssumption DEF Mutation
<1> HIDE DEF n
<1>2. Marked(m, reply) = IF reply = "client"
                         THEN [m EXCEPT !.lastError = "client"]
                         ELSE [m EXCEPT !.lastError = "transient", !.retries = n]
  BY DEF Marked, n
<1> QED BY <1>1, <1>2 DEF Mutation, Errors

\* Appending a record adds one id; the array stays increasing if that id is the
\* largest.
LEMMA AppendIds ==
  ASSUME NEW s \in Seq(Mutation), NEW e \in Mutation
  PROVE  /\ Append(s, e) \in Seq(Mutation)
         /\ Ids(Append(s, e)) = Ids(s) \cup {e.id}
         /\ Increasing(s) /\ (\A m \in Ids(s) : m < e.id) => Increasing(Append(s, e))
<1> DEFINE t == Append(s, e)
<1>1. /\ t \in Seq(Mutation)
      /\ Len(t) = Len(s) + 1
      /\ \A i \in 1..Len(s) : t[i] = s[i]
      /\ t[Len(s) + 1] = e
  BY AppendProperties
<1>2. Len(s) \in Nat
  BY LenProperties
<1>3. Ids(t) = Ids(s) \cup {e.id}
  BY <1>1, <1>2 DEF Ids
<1>4. ASSUME Increasing(s), \A m \in Ids(s) : m < e.id
      PROVE  Increasing(t)
  <2> SUFFICES ASSUME NEW i \in 1..Len(t), NEW j \in 1..Len(t), i < j
               PROVE  t[i].id < t[j].id
    BY DEF Increasing
  <2>1. i \in 1..Len(s) /\ t[i] = s[i]
    BY <1>1, <1>2
  <2>2. CASE j = Len(s) + 1
    BY <1>1, <1>4, <2>1, <2>2 DEF Ids
  <2>3. CASE j # Len(s) + 1
    BY <1>1, <1>2, <1>4, <2>1, <2>3 DEF Increasing
  <2> QED BY <2>2, <2>3
<1> QED BY <1>1, <1>3, <1>4

\* Concatenating what the replay loop keeps of one mutation.
LEMMA KeptConcat ==
  ASSUME NEW s \in Seq(Mutation), NEW m \in Mutation, NEW reply \in Replies
  PROVE  /\ s \o Kept(m, reply) \in Seq(Mutation)
         /\ reply = "ok" => s \o Kept(m, reply) = s
         /\ reply # "ok" => s \o Kept(m, reply) = Append(s, Marked(m, reply))
<1>1. Marked(m, reply) \in Mutation
  BY MarkedType
<1>2. s \o <<>> = s
  BY ConcatEmptySeq
<1>3. Append(s, Marked(m, reply)) = s \o <<Marked(m, reply)>>
  BY <1>1, AppendIsConcat
<1>4. Append(s, Marked(m, reply)) \in Seq(Mutation)
  BY <1>1, AppendProperties
<1> QED BY <1>2, <1>3, <1>4 DEF Kept

\* Without returns an array of mutations.
LEMMA WithoutType ==
  ASSUME NEW s \in Seq(Mutation), NEW m
  PROVE  Without(s, m) \in Seq(Mutation)
<1>1. CASE m \notin Ids(s)
  BY <1>1 DEF Without
<1>2. CASE m \in Ids(s)
  <2> DEFINE at == CHOOSE i \in 1..Len(s) : s[i].id = m
  <2>1. at \in 1..Len(s)
    BY <1>2 DEF Ids
  <2>2. Len(s) \in Nat /\ \A i \in 1..Len(s) : s[i] \in Mutation
    BY ElementOfSeq, LenProperties
  <2>3. Without(s, m) = [j \in 1..(Len(s) - 1) |-> IF j < at THEN s[j] ELSE s[j + 1]]
    BY <1>2 DEF Without
  <2> HIDE DEF at
  <2> QED BY <2>1, <2>2, <2>3
<1> QED BY <1>1, <1>2

\* Without removes one id from an increasing array and keeps the rest in order.
LEMMA WithoutIds ==
  ASSUME NEW s \in Seq(Mutation), Increasing(s), NEW m
  PROVE  /\ Without(s, m) \in Seq(Mutation)
         /\ Ids(Without(s, m)) = Ids(s) \ {m}
         /\ Increasing(Without(s, m))
<1>1. CASE m \notin Ids(s)
  BY <1>1 DEF Without
<1>2. CASE m \in Ids(s)
  <2> DEFINE at == CHOOSE i \in 1..Len(s) : s[i].id = m
             w == [j \in 1..(Len(s) - 1) |-> IF j < at THEN s[j] ELSE s[j + 1]]
  <2>1. at \in 1..Len(s) /\ s[at].id = m
    BY <1>2 DEF Ids
  <2>2. Len(s) \in Nat /\ \A i \in 1..Len(s) : s[i] \in Mutation /\ s[i].id \in Nat
    <3>1. Len(s) \in Nat /\ \A i \in 1..Len(s) : s[i] \in Mutation
      BY ElementOfSeq, LenProperties
    <3>2. \A e \in Mutation : e.id \in Nat
      BY BoundsAssumption DEF Mutation, MutationIds
    <3> QED BY <3>1, <3>2
  <2>3. Without(s, m) = w
    BY <1>2 DEF Without
  <2> HIDE DEF at
  <2>4. w \in Seq(Mutation) /\ Len(w) = Len(s) - 1
    BY <2>1, <2>2
  <2>5. \A j \in 1..Len(w) : w[j] = IF j < at THEN s[j] ELSE s[j + 1]
    BY <2>4
  <2> HIDE DEF w
  <2>6. Increasing(w)
    BY <2>1, <2>2, <2>4, <2>5 DEF Increasing
  <2>7. Ids(w) \subseteq Ids(s) \ {m}
    <3> SUFFICES ASSUME NEW j \in 1..Len(w)
                 PROVE  w[j].id \in Ids(s) /\ w[j].id # m
      BY DEF Ids
    <3>1. CASE j < at
      BY <2>1, <2>2, <2>4, <2>5, <3>1 DEF Ids, Increasing
    <3>2. CASE ~(j < at)
      BY <2>1, <2>2, <2>4, <2>5, <3>2 DEF Ids, Increasing
    <3> QED BY <3>1, <3>2
  <2>8. Ids(s) \ {m} \subseteq Ids(w)
    <3> SUFFICES ASSUME NEW i \in 1..Len(s), s[i].id # m
                 PROVE  \E j \in 1..Len(w) : w[j].id = s[i].id
      BY DEF Ids
    <3>1. CASE i < at
      BY <2>1, <2>2, <2>4, <2>5, <3>1
    <3>2. CASE i > at
      <4>1. i - 1 \in 1..Len(w) /\ w[i - 1] = s[i]
        BY <2>1, <2>2, <2>4, <2>5, <3>2
      <4> QED BY <4>1
    <3> QED BY <2>1, <2>2, <3>1, <3>2
  <2> QED BY <2>3, <2>4, <2>6, <2>7, <2>8
<1> QED BY <1>1, <1>2

-----------------------------------------------------------------------------
\* A call slot given a new value that is well typed leaves all slots well typed.
CallTyped(v) ==
  /\ v \in CallState
  /\ v.phase \in {"enqueue", "prune"} => v.id \in MutationIds

\* The other slots keep their values, the slot that moves has a typed one.
LEMMA CallUpdateType ==
  ASSUME TypeOK, NEW c \in Calls, NEW v, CallTyped(v),
         call' = [call EXCEPT ![c] = v]
  PROVE  /\ call' \in [Calls -> CallState]
         /\ \A d \in Calls :
              call'[d].phase \in {"enqueue", "prune"} => call'[d].id \in MutationIds
BY DEF TypeOK, CallTyped

\* A slot that is done, or has not begun, is well typed.
LEMMA IdleTyped == CallTyped(Idle)
BY BoundsAssumption DEF CallTyped, Idle, CallState, Phases

\* A slot that has just loaded the array is well typed.
LEMMA BegunTyped ==
  ASSUME TypeOK, NEW phase \in Phases, NEW id \in 0..MaxMutations,
         phase \in {"enqueue", "prune"} => id \in MutationIds
  PROVE  CallTyped(Begun(phase, id))
<1>1. Idle \in CallState
  BY IdleTyped DEF CallTyped
<1> QED BY <1>1 DEF TypeOK, CallTyped, CallState, Begun

\* The variables stay in their types, for every set of call slots and bounds.
THEOREM TypeCorrect == Spec => []TypeOK
<1>1. Init => TypeOK
  BY BoundsAssumption
     DEF Init, TypeOK, Idle, CallState, Phases, Fates, MutationIds
<1>2. TypeOK /\ [Next]_vars => TypeOK'
  <2> SUFFICES ASSUME TypeOK, [Next]_vars PROVE TypeOK'
    OBVIOUS
  <2> USE BoundsAssumption
  <2>1. CASE UNCHANGED vars
    BY <2>1 DEF TypeOK, vars
  <2>2. ASSUME NEW c \in Calls, EnqueueLoad(c) PROVE TypeOK'
    <3>1. CallTyped(Begun("enqueue", issued + 1))
      BY <2>2, BegunTyped DEF EnqueueLoad, TypeOK, Phases, MutationIds
    <3>2. issued' \in 0..MaxMutations /\ fate' \in [MutationIds -> Fates]
      BY <2>2 DEF EnqueueLoad, TypeOK, Fates, MutationIds
    <3> QED BY <2>2, <3>1, <3>2, CallUpdateType DEF EnqueueLoad, TypeOK
  <2>3. ASSUME NEW c \in Calls, EnqueueSave(c) PROVE TypeOK'
    <3>1. call[c] \in CallState /\ call[c].id \in MutationIds
      BY <2>3 DEF EnqueueSave, TypeOK
    <3>2. store' \in Seq(Mutation)
      BY <2>3, <3>1, FreshType, AppendProperties DEF EnqueueSave, Pushed, CallState
    <3>3. call' = [call EXCEPT ![c] = Idle]
      BY <2>3 DEF EnqueueSave
    <3>4. fate' \in [MutationIds -> Fates] /\ issued' \in 0..MaxMutations
          /\ aborts' \in 0..MaxAborts
      BY <2>3 DEF EnqueueSave, TypeOK, Fates
    <3> QED BY <3>2, <3>3, <3>4, IdleTyped, CallUpdateType DEF TypeOK
  <2>4. ASSUME NEW c \in Calls, ReplayLoad(c) PROVE TypeOK'
    <3>1. CallTyped(Begun("replay", 0))
      BY BegunTyped DEF Phases
    <3> QED BY <2>4, <3>1, CallUpdateType DEF ReplayLoad, TypeOK
  <2>5. ASSUME NEW c \in Calls, NEW reply \in Replies, ReplayFetch(c, reply)
        PROVE  TypeOK'
    <3> DEFINE m == call[c].all[call[c].next]
               next == call[c].next + 1
               succeeded == IF reply = "ok" THEN call[c].succeeded \cup {m.id}
                                            ELSE call[c].succeeded
               remaining == call[c].remaining \o Kept(m, reply)
               v == [call[c] EXCEPT !.next = next, !.succeeded = succeeded,
                                    !.remaining = remaining]
    <3>1. call[c] \in CallState /\ call[c].phase = "replay"
      BY <2>5 DEF ReplayFetch, TypeOK
    <3>2. m \in Mutation
      <4>1. call[c].all \in Seq(Mutation) /\ call[c].next \in 1..Len(call[c].all)
        BY <2>5, <3>1, LenProperties DEF ReplayFetch, CallState
      <4> QED BY <4>1, ElementOfSeq
    <3>3. remaining \in Seq(Mutation)
      <4>1. call[c].remaining \in Seq(Mutation)
        BY <3>1 DEF CallState
      <4> QED BY <3>2, <4>1, KeptConcat
    <3>4. next \in Nat \ {0} /\ succeeded \in SUBSET MutationIds
      BY <3>1, <3>2 DEF CallState, Mutation
    <3>5. call' = [call EXCEPT ![c] = v]
      BY <2>5 DEF ReplayFetch
    <3> HIDE DEF next, succeeded, remaining
    <3>6. CallTyped(v)
      BY <3>1, <3>3, <3>4 DEF CallTyped, CallState
    <3> HIDE DEF v
    <3> QED BY <2>5, <3>5, <3>6, CallUpdateType DEF ReplayFetch, TypeOK
  <2>6. ASSUME NEW c \in Calls, ReplaySave(c) PROVE TypeOK'
    <3>1. store' \in Seq(Mutation)
      BY <2>6 DEF ReplaySave, TypeOK, CallState
    <3>2. fate' \in [MutationIds -> Fates]
      BY <2>6 DEF ReplaySave, TypeOK, Fates
    <3>3. call' = [call EXCEPT ![c] = Idle]
      BY <2>6 DEF ReplaySave
    <3> QED BY <2>6, <3>1, <3>2, <3>3, IdleTyped, CallUpdateType DEF ReplaySave, TypeOK
  <2>7. ASSUME NEW c \in Calls, NEW m \in MutationIds, PruneLoad(c, m) PROVE TypeOK'
    <3>1. CallTyped(Begun("prune", m))
      BY BegunTyped DEF Phases, MutationIds
    <3> QED BY <2>7, <3>1, CallUpdateType DEF PruneLoad, TypeOK
  <2>8. ASSUME NEW c \in Calls, PruneSave(c) PROVE TypeOK'
    <3>1. call[c] \in CallState /\ call[c].id \in MutationIds
      BY <2>8 DEF PruneSave, TypeOK
    <3>2. store' \in Seq(Mutation)
      BY <2>8, <3>1, WithoutType DEF PruneSave, CallState
    <3>3. call' = [call EXCEPT ![c] = Idle]
      BY <2>8 DEF PruneSave
    <3>4. fate' \in [MutationIds -> Fates] /\ issued' \in 0..MaxMutations
          /\ aborts' \in 0..MaxAborts
      BY <2>8 DEF PruneSave, TypeOK, Fates
    <3> QED BY <3>2, <3>3, <3>4, IdleTyped, CallUpdateType DEF TypeOK
  <2>9. ASSUME NEW c \in Calls, Abort(c) PROVE TypeOK'
    <3>1. fate' \in [MutationIds -> Fates]
      BY <2>9 DEF Abort, TypeOK, Fates
    <3>2. call' = [call EXCEPT ![c] = Idle]
      BY <2>9 DEF Abort
    <3>3. store' \in Seq(Mutation) /\ issued' \in 0..MaxMutations
          /\ aborts' \in 0..MaxAborts
      BY <2>9 DEF Abort, TypeOK
    <3> QED BY <3>1, <3>2, <3>3, IdleTyped, CallUpdateType DEF TypeOK
  <2> QED
    BY <2>1, <2>2, <2>3, <2>4, <2>5, <2>6, <2>7, <2>8, <2>9 DEF Next
<1> QED BY <1>1, <1>2, PTL DEF Spec

-----------------------------------------------------------------------------
(* The order of the array.                                                 *)

\* A slot that does not move keeps its part of the invariant when saved
\* mutations stay saved and the one it is enqueuing is left alone.
LEMMA OtherOrder ==
  ASSUME NEW d \in Calls, CallOrder(d), call'[d] = call[d], Saved \subseteq Saved',
         call[d].phase = "enqueue" => fate'[call[d].id] = fate[call[d].id]
  PROVE  CallOrder(d)'
BY DEF CallOrder, SentSoFar

\* The facts the proofs use of the empty array.
LEMMA EmptyArray == Ids(<<>>) = {} /\ Increasing(<<>>) /\ Len(<<>>) = 0
BY DEF Ids, Increasing

\* A slot without a call satisfies its part of the invariant.
LEMMA IdleOrder ==
  ASSUME NEW c \in Calls, call'[c] = Idle
  PROVE  CallOrder(c)'
BY EmptyArray DEF CallOrder, Idle

\* A call that has just loaded the array satisfies its part of the invariant.
LEMMA BegunOrder ==
  ASSUME TypeOK, OrderInv, NEW c \in Calls, NEW phase, NEW id,
         call'[c] = Begun(phase, id), Saved \subseteq Saved',
         phase = "enqueue" => /\ id \in MutationIds
                              /\ fate'[id] = "enqueueing"
                              /\ \A m \in Saved : m < id,
         phase = "prune" => id \in Saved
  PROVE  CallOrder(c)'
<1>1. Len(store) \in Nat
  BY LenProperties DEF TypeOK
<1>2. /\ call'[c].phase = phase /\ call'[c].id = id /\ call'[c].all = store
      /\ call'[c].next = 1 /\ call'[c].remaining = <<>> /\ call'[c].succeeded = {}
  BY DEF Begun, Idle
<1>3. Increasing(store) /\ Ids(store) \subseteq Saved
  BY DEF OrderInv
<1> QED BY <1>1, <1>2, <1>3, EmptyArray DEF CallOrder

\* It is enough to look at the slot that moves, the array and the fates.
LEMMA OrderStep ==
  ASSUME OrderInv, NEW c \in Calls,
         \A d \in Calls : d # c => call'[d] = call[d],
         Saved \subseteq Saved',
         \A d \in Calls : d # c /\ call[d].phase = "enqueue"
                            => fate'[call[d].id] = fate[call[d].id],
         CallOrder(c)',
         Increasing(store'), Ids(store') \subseteq Saved',
         \A m \in MutationIds : fate'[m] = "unused" <=> issued' < m,
         \A d \in Calls : d # c /\ call[d].phase = "enqueue" /\ call'[c].phase = "enqueue"
                            => call[d].id # call'[c].id
  PROVE  OrderInv'
<1>1. \A d \in Calls : CallOrder(d)'
  <2> SUFFICES ASSUME NEW d \in Calls PROVE CallOrder(d)'
    OBVIOUS
  <2>1. CASE d = c
    BY <2>1
  <2>2. CASE d # c
    BY <2>2, OtherOrder DEF OrderInv
  <2> QED BY <2>1, <2>2
<1>2. \A d, e \in Calls :
        call'[d].phase = "enqueue" /\ call'[e].phase = "enqueue" /\ call'[d].id = call'[e].id
          => d = e
  BY DEF OrderInv
<1> QED BY <1>1, <1>2 DEF OrderInv

\* The id of an element of the array is one of the array's ids.
LEMMA IdsMember ==
  ASSUME NEW s, NEW i \in 1..Len(s)
  PROVE  s[i].id \in Ids(s)
BY DEF Ids

\* A mutation that a replay has still to send is above those it has sent.
LEMMA SentBelow ==
  ASSUME TypeOK, NEW c \in Calls, CallOrder(c), call[c].next <= Len(call[c].all)
  PROVE  /\ SentSoFar(c) \subseteq Ids(call[c].all)
         /\ \A m \in SentSoFar(c) : m < call[c].all[call[c].next].id
<1>1. call[c] \in CallState
  BY DEF TypeOK
<1>2. call[c].all \in Seq(Mutation) /\ Len(call[c].all) \in Nat /\ call[c].next \in Nat \ {0}
  BY <1>1, LenProperties DEF CallState
<1> QED BY <1>2 DEF SentSoFar, Ids, CallOrder, Increasing

\* The empty queue satisfies the invariant.
LEMMA InitOrder == Init => OrderInv
<1> SUFFICES ASSUME Init PROVE OrderInv
  OBVIOUS
<1>1. \A c \in Calls : CallOrder(c)
  <2> SUFFICES ASSUME NEW c \in Calls PROVE CallOrder(c)
    OBVIOUS
  <2>1. /\ call[c].all = <<>> /\ call[c].remaining = <<>> /\ call[c].succeeded = {}
        /\ call[c].next = 1 /\ call[c].phase = "idle"
    BY DEF Init, Idle
  <2> QED BY <2>1, EmptyArray DEF CallOrder
<1> QED BY <1>1, EmptyArray, BoundsAssumption DEF Init, OrderInv, Idle, MutationIds

\* However calls overlap, every copy of the array is increasing and holds saved
\* mutations only.
LEMMA OrderInvariant == Spec => []OrderInv
<1>1. Init => OrderInv
  BY InitOrder
<1>2. TypeOK /\ OrderInv /\ [Next]_vars => OrderInv'
  <2> SUFFICES ASSUME TypeOK, OrderInv, [Next]_vars PROVE OrderInv'
    OBVIOUS
  <2> USE BoundsAssumption
  <2>1. CASE UNCHANGED vars
    BY <2>1 DEF vars, OrderInv, CallOrder, Saved, SentSoFar
  <2>2. ASSUME NEW c \in Calls, EnqueueLoad(c) PROVE OrderInv'
    <3>1. call'[c] = Begun("enqueue", issued + 1) /\ issued + 1 \in MutationIds
      BY <2>2 DEF EnqueueLoad, TypeOK, MutationIds
    <3>2. Saved = Saved' /\ \A m \in MutationIds : m # issued + 1 => fate'[m] = fate[m]
      BY <2>2, <3>1 DEF EnqueueLoad, TypeOK, Saved, OrderInv
    <3>3. fate'[issued + 1] = "enqueueing"
      BY <2>2, <3>1 DEF EnqueueLoad, TypeOK
    <3>4. \A m \in Saved : m < issued + 1
      BY DEF Saved, OrderInv, TypeOK, MutationIds
    <3>5. CallOrder(c)'
      BY <3>1, <3>2, <3>3, <3>4, BegunOrder
    <3>6. \A d \in Calls : call[d].phase = "enqueue" => call[d].id # issued + 1
      BY <3>1 DEF OrderInv, CallOrder, TypeOK
    <3>7. \A m \in MutationIds : fate'[m] = "unused" <=> issued' < m
      BY <2>2, <3>2, <3>3 DEF EnqueueLoad, OrderInv, TypeOK, MutationIds
    <3>8. \A d \in Calls : d # c => call'[d] = call[d]
      BY <2>2 DEF EnqueueLoad
    <3>9. \A d \in Calls : call[d].phase = "enqueue" => fate'[call[d].id] = fate[call[d].id]
      BY <3>2, <3>6 DEF OrderInv, CallOrder
    <3>10. Increasing(store') /\ Ids(store') \subseteq Saved'
      BY <2>2, <3>2 DEF EnqueueLoad, OrderInv
    <3>11. \A d \in Calls : d # c /\ call[d].phase = "enqueue" /\ call'[c].phase = "enqueue"
                              => call[d].id # call'[c].id
      BY <3>1, <3>6 DEF Begun, Idle
    <3> QED BY <3>2, <3>5, <3>7, <3>8, <3>9, <3>10, <3>11, OrderStep
  <2>3. ASSUME NEW c \in Calls, EnqueueSave(c) PROVE OrderInv'
    <3> DEFINE m == call[c].id
    <3>1. /\ m \in MutationIds /\ fate[m] = "enqueueing"
          /\ call[c].all \in Seq(Mutation) /\ Increasing(call[c].all)
          /\ Ids(call[c].all) \subseteq Saved
          /\ \A k \in Ids(call[c].all) : k < m
      BY <2>3 DEF EnqueueSave, OrderInv, CallOrder, TypeOK, CallState
    <3>2. fate' = [fate EXCEPT ![m] = "queued"] /\ fate \in [MutationIds -> Fates]
      BY <2>3 DEF EnqueueSave, TypeOK
    <3>3. Saved' = Saved \cup {m}
      BY <3>1, <3>2 DEF Saved
    <3>4. Increasing(store') /\ Ids(store') = Ids(call[c].all) \cup {m}
      BY <2>3, <3>1, FreshType, AppendIds DEF EnqueueSave, Pushed
    <3>5. call'[c] = Idle /\ \A d \in Calls : d # c => call'[d] = call[d]
      BY <2>3 DEF EnqueueSave, TypeOK
    <3>6. \A d \in Calls : d # c /\ call[d].phase = "enqueue" => call[d].id # m
      BY <2>3 DEF EnqueueSave, OrderInv
    <3>7. \A d \in Calls : d # c /\ call[d].phase = "enqueue"
                             => fate'[call[d].id] = fate[call[d].id]
      BY <3>2, <3>6
    <3>8. \A k \in MutationIds : fate'[k] = "unused" <=> issued' < k
      BY <2>3, <3>1, <3>2 DEF EnqueueSave, OrderInv
    <3>9. call'[c].phase # "enqueue" /\ CallOrder(c)'
      BY <3>5, IdleOrder DEF Idle
    <3>10. Ids(store') \subseteq Saved' /\ Saved \subseteq Saved'
      BY <3>1, <3>3, <3>4
    <3> HIDE DEF m
    <3> QED BY <3>4, <3>5, <3>7, <3>8, <3>9, <3>10, OrderStep
  <2>4. ASSUME NEW c \in Calls, ReplayLoad(c) PROVE OrderInv'
    <3>1. call'[c] = Begun("replay", 0) /\ \A d \in Calls : d # c => call'[d] = call[d]
      BY <2>4 DEF ReplayLoad, TypeOK
    <3>2. UNCHANGED <<store, issued, fate>> /\ Saved' = Saved
      BY <2>4 DEF ReplayLoad, Saved
    <3>3. CallOrder(c)'
      BY <3>1, <3>2, BegunOrder
    <3>4. call'[c].phase # "enqueue"
      BY <3>1 DEF Begun, Idle
    <3> QED BY <3>1, <3>2, <3>3, <3>4, OrderStep DEF OrderInv
  <2>5. ASSUME NEW c \in Calls, NEW reply \in Replies, ReplayFetch(c, reply)
        PROVE  OrderInv'
    <3> DEFINE m == call[c].all[call[c].next]
    <3>1. /\ call[c].phase = "replay" /\ call[c] \in CallState /\ CallOrder(c)
          /\ call[c].next <= Len(call[c].all)
      BY <2>5 DEF ReplayFetch, OrderInv, TypeOK
    <3>2. /\ call[c].all \in Seq(Mutation) /\ Len(call[c].all) \in Nat
          /\ call[c].remaining \in Seq(Mutation) /\ call[c].next \in 1..Len(call[c].all)
      BY <3>1, LenProperties DEF CallState
    <3>3. m \in Mutation /\ m.id \in Ids(call[c].all) /\ m.id \in MutationIds
      <4>1. m \in Mutation
        BY <3>2, ElementOfSeq
      <4>2. m.id \in Ids(call[c].all)
        BY <3>2, IdsMember
      <4> QED BY <4>1, <4>2 DEF Mutation
    <3>4. /\ call'[c].phase = "replay" /\ call'[c].all = call[c].all
          /\ call'[c].next = call[c].next + 1
          /\ call'[c].succeeded = IF reply = "ok" THEN call[c].succeeded \cup {m.id}
                                                  ELSE call[c].succeeded
          /\ call'[c].remaining = call[c].remaining \o Kept(m, reply)
          /\ \A d \in Calls : d # c => call'[d] = call[d]
      BY <2>5, <3>1 DEF ReplayFetch, TypeOK, CallState
    <3>5. UNCHANGED <<store, issued, fate>> /\ Saved' = Saved
      BY <2>5 DEF ReplayFetch, Saved
    <3>6. SentSoFar(c)' = SentSoFar(c) \cup {m.id}
      BY <3>2, <3>4 DEF SentSoFar
    <3>7. \A k \in SentSoFar(c) : k < m.id
      BY <3>1, SentBelow
    <3> HIDE DEF m
    <3>8. Increasing(call'[c].remaining) /\ Ids(call'[c].remaining) \subseteq SentSoFar(c)'
      <4>1. CASE reply = "ok"
        <5>1. call'[c].remaining = call[c].remaining
          BY <3>2, <3>3, <3>4, <4>1, KeptConcat
        <5> QED BY <3>1, <3>6, <5>1 DEF CallOrder
      <4>2. CASE reply # "ok"
        <5>1. call'[c].remaining = Append(call[c].remaining, Marked(m, reply))
          BY <3>2, <3>3, <3>4, <4>2, KeptConcat
        <5>2. Marked(m, reply) \in Mutation /\ Marked(m, reply).id = m.id
          BY <3>3, MarkedType
        <5> QED BY <3>1, <3>2, <3>6, <3>7, <5>1, <5>2, AppendIds DEF CallOrder
      <4> QED BY <4>1, <4>2
    <3>9. CallOrder(c)'
      BY <3>1, <3>2, <3>3, <3>4, <3>5, <3>8 DEF CallOrder
    <3> QED BY <3>4, <3>5, <3>9, OrderStep DEF OrderInv
  <2>6. ASSUME NEW c \in Calls, ReplaySave(c) PROVE OrderInv'
    <3>1. CallOrder(c) /\ call[c] \in CallState
      BY DEF OrderInv, TypeOK
    <3>2. SentSoFar(c) \subseteq Saved
      <4>1. call[c].all \in Seq(Mutation) /\ Len(call[c].all) \in Nat
            /\ call[c].next \in Nat \ {0} /\ call[c].next <= Len(call[c].all) + 1
        BY <3>1, LenProperties DEF CallState, CallOrder
      <4>2. SentSoFar(c) \subseteq Ids(call[c].all)
        BY <4>1 DEF SentSoFar, Ids
      <4> QED BY <3>1, <4>2 DEF CallOrder
    <3>3. \A m \in MutationIds : fate'[m] = IF m \in call[c].succeeded THEN "delivered" ELSE fate[m]
      BY <2>6 DEF ReplaySave
    <3>4. Saved' = Saved
      BY <3>1, <3>3 DEF Saved, CallOrder
    <3>5. Increasing(store') /\ Ids(store') \subseteq Saved'
      BY <2>6, <3>1, <3>2, <3>4 DEF ReplaySave, CallOrder
    <3>6. call'[c] = Idle /\ \A d \in Calls : d # c => call'[d] = call[d]
      BY <2>6 DEF ReplaySave, TypeOK
    <3>7. \A d \in Calls : call[d].phase = "enqueue" => fate'[call[d].id] = fate[call[d].id]
      BY <3>1, <3>3 DEF OrderInv, CallOrder, Saved
    <3>8. \A m \in MutationIds : fate'[m] = "unused" <=> issued' < m
      BY <2>6, <3>1, <3>3 DEF ReplaySave, OrderInv, CallOrder, Saved
    <3>9. call'[c].phase # "enqueue" /\ CallOrder(c)'
      BY <3>6, IdleOrder DEF Idle
    <3> QED BY <3>4, <3>5, <3>6, <3>7, <3>8, <3>9, OrderStep
  <2>7. ASSUME NEW c \in Calls, NEW m \in MutationIds, PruneLoad(c, m) PROVE OrderInv'
    <3>1. call'[c] = Begun("prune", m) /\ \A d \in Calls : d # c => call'[d] = call[d]
      BY <2>7 DEF PruneLoad, TypeOK
    <3>2. UNCHANGED <<store, issued, fate>> /\ Saved' = Saved /\ m \in Saved
      BY <2>7 DEF PruneLoad, Saved
    <3>3. CallOrder(c)'
      BY <3>1, <3>2, BegunOrder
    <3>4. call'[c].phase # "enqueue"
      BY <3>1 DEF Begun, Idle
    <3> QED BY <3>1, <3>2, <3>3, <3>4, OrderStep DEF OrderInv
  <2>8. ASSUME NEW c \in Calls, PruneSave(c) PROVE OrderInv'
    <3> DEFINE m == call[c].id
    <3>1. /\ CallOrder(c) /\ call[c].all \in Seq(Mutation) /\ m \in Saved /\ m \in MutationIds
      BY <2>8 DEF PruneSave, OrderInv, CallOrder, TypeOK, CallState, Saved
    <3>2. Increasing(store') /\ Ids(store') = Ids(call[c].all) \ {m}
      BY <2>8, <3>1, WithoutIds DEF PruneSave, CallOrder
    <3>3. fate' = [fate EXCEPT ![m] = IF @ = "queued" THEN "pruned" ELSE @]
      BY <2>8 DEF PruneSave
    <3>4. Saved' = Saved
      BY <3>1, <3>3 DEF Saved, TypeOK
    <3>5. call'[c] = Idle /\ \A d \in Calls : d # c => call'[d] = call[d]
      BY <2>8 DEF PruneSave, TypeOK
    <3>6. \A d \in Calls : call[d].phase = "enqueue" => fate'[call[d].id] = fate[call[d].id]
      BY <3>1, <3>3 DEF OrderInv, CallOrder, Saved, TypeOK
    <3>7. \A k \in MutationIds : fate'[k] = "unused" <=> issued' < k
      BY <2>8, <3>1, <3>3 DEF PruneSave, OrderInv, Saved, TypeOK
    <3>8. call'[c].phase # "enqueue" /\ CallOrder(c)'
      BY <3>5, IdleOrder DEF Idle
    <3>9. Ids(store') \subseteq Saved'
      BY <3>1, <3>2, <3>4 DEF CallOrder
    <3> HIDE DEF m
    <3> QED BY <3>2, <3>4, <3>5, <3>6, <3>7, <3>8, <3>9, OrderStep
  <2>9. ASSUME NEW c \in Calls, Abort(c) PROVE OrderInv'
    <3>1. \A m \in MutationIds : fate'[m] =
            IF call[c].phase = "enqueue" /\ m = call[c].id THEN "failed" ELSE fate[m]
      BY <2>9 DEF Abort
    <3>2. call[c].phase = "enqueue" => fate[call[c].id] = "enqueueing"
      BY DEF OrderInv, CallOrder
    <3>3. Saved' = Saved
      BY <3>1, <3>2 DEF Saved
    <3>4. call'[c] = Idle /\ \A d \in Calls : d # c => call'[d] = call[d]
      BY <2>9 DEF Abort, TypeOK
    <3>5. \A d \in Calls : d # c /\ call[d].phase = "enqueue"
                             => fate'[call[d].id] = fate[call[d].id]
      BY <3>1 DEF OrderInv, CallOrder
    <3>6. \A m \in MutationIds : fate'[m] = "unused" <=> issued' < m
      BY <2>9, <3>1, <3>2 DEF Abort, OrderInv
    <3>7. call'[c].phase # "enqueue" /\ CallOrder(c)'
      BY <3>4, IdleOrder DEF Idle
    <3>8. Increasing(store') /\ Ids(store') \subseteq Saved'
      BY <2>9, <3>3 DEF Abort, OrderInv
    <3> QED BY <3>3, <3>4, <3>5, <3>6, <3>7, <3>8, OrderStep
  <2> QED
    BY <2>1, <2>2, <2>3, <2>4, <2>5, <2>6, <2>7, <2>8, <2>9 DEF Next
<1> QED BY <1>1, <1>2, TypeCorrect, PTL DEF Spec

\* However calls overlap, every copy of the array lists mutations in the order
\* in which their enqueues loaded it, each at most once.
THEOREM OrderKept == Spec => []InsertionOrder
<1>1. OrderInv => InsertionOrder
  BY DEF OrderInv, CallOrder, InsertionOrder
<1> QED BY <1>1, OrderInvariant, PTL

\* However calls overlap, a mutation whose enqueue has not saved the array is
\* never seen in it.
THEOREM NoUnsavedVisible == Spec => []UnsavedNeverStored
<1>1. OrderInv => UnsavedNeverStored
  BY DEF OrderInv, Saved, UnsavedNeverStored
<1> QED BY <1>1, OrderInvariant, PTL

-----------------------------------------------------------------------------
(* One writer at a time: nothing accepted is lost, nothing settled returns. *)

\* The empty queue satisfies it.
LEMMA InitSerial == Init => SerialInv
<1> SUFFICES ASSUME Init PROVE SerialInv
  OBVIOUS
<1>1. OrderInv
  BY InitOrder
<1>2. StoreIsQueued
  BY EmptyArray DEF Init, StoreIsQueued
<1> QED BY <1>1, <1>2 DEF Init, SerialInv, Idle

\* A step of a call that has no other beside it keeps the copies exact.
LEMMA SerialStep ==
  ASSUME TypeOK, OrderInv', SerialInv, Alone, Alone', [Next]_vars
  PROVE  SerialInv'
<1> USE BoundsAssumption
<1>0. ASSUME NEW c \in Calls, StoreIsQueued',
             call[c].phase # "idle" \/ call'[c].phase # "idle",
             \A d \in Calls : d # c => call'[d] = call[d],
             call'[c].phase # "idle" => call'[c].all = store',
             call'[c].phase = "enqueue" => call'[c].id = issued',
             call'[c].phase = "replay"
               => /\ SentSoFar(c)' = Ids(call'[c].remaining) \cup call'[c].succeeded
                  /\ Ids(call'[c].remaining) \cap call'[c].succeeded = {}
      PROVE  SerialInv'
  <2>1. \A d \in Calls : d # c => call'[d].phase = "idle"
    BY <1>0 DEF Alone
  <2> QED BY <1>0, <2>1 DEF SerialInv
<1>moves. ASSUME NEW c \in Calls,
              EnqueueLoad(c) \/ EnqueueSave(c) \/ ReplayLoad(c)
                \/ (\E reply \in Replies : ReplayFetch(c, reply)) \/ ReplaySave(c)
                \/ (\E m \in MutationIds : PruneLoad(c, m)) \/ PruneSave(c) \/ Abort(c)
       PROVE  /\ call[c].phase # "idle" \/ call'[c].phase # "idle"
              /\ \A d \in Calls : d # c => call'[d] = call[d]
  <2>1. \E v : call' = [call EXCEPT ![c] = v]
    BY <1>moves DEF EnqueueLoad, EnqueueSave, ReplayLoad, ReplayFetch, ReplaySave,
                 PruneLoad, PruneSave, Abort
  <2>2. call[c].phase # "idle" \/ call'[c] \in {Begun("enqueue", issued + 1), Begun("replay", 0)}
          \/ \E m : call'[c] = Begun("prune", m)
    BY <1>moves DEF EnqueueLoad, EnqueueSave, ReplayLoad, ReplayFetch, ReplaySave,
                 PruneLoad, PruneSave, Abort, TypeOK
  <2>3. \A phase, id : Begun(phase, id).phase = phase
    BY DEF Begun, Idle
  <2> QED BY <2>1, <2>2, <2>3
<1>1. CASE UNCHANGED vars
  BY <1>1 DEF vars, SerialInv, StoreIsQueued, SentSoFar
<1>2. ASSUME NEW c \in Calls, EnqueueLoad(c) PROVE SerialInv'
  <2>1. call'[c] = Begun("enqueue", issued + 1) /\ store' = store
    BY <1>2 DEF EnqueueLoad, TypeOK
  <2>2. call'[c].phase = "enqueue" /\ call'[c].all = store' /\ call'[c].id = issued'
    BY <1>2, <2>1 DEF Begun, Idle, EnqueueLoad
  <2>3. issued + 1 \in MutationIds /\ fate' = [fate EXCEPT ![issued + 1] = "enqueueing"]
    BY <1>2 DEF EnqueueLoad, TypeOK, MutationIds
  <2>4. fate[issued + 1] = "unused"
    BY <2>3 DEF SerialInv, OrderInv, TypeOK
  <2>5. StoreIsQueued'
    BY <2>1, <2>3, <2>4 DEF SerialInv, StoreIsQueued, TypeOK
  <2> QED BY <1>0, <1>moves, <1>2, <2>2, <2>5
<1>3. ASSUME NEW c \in Calls, EnqueueSave(c) PROVE SerialInv'
  <2>1. /\ call[c].all = store /\ store \in Seq(Mutation) /\ call[c].id \in MutationIds
    BY <1>3 DEF EnqueueSave, SerialInv, TypeOK
  <2>2. Ids(store') = Ids(store) \cup {call[c].id}
    BY <1>3, <2>1, FreshType, AppendIds DEF EnqueueSave, Pushed
  <2>3. fate' = [fate EXCEPT ![call[c].id] = "queued"] /\ call'[c] = Idle
    BY <1>3 DEF EnqueueSave, TypeOK
  <2>4. StoreIsQueued'
    BY <2>1, <2>2, <2>3 DEF SerialInv, StoreIsQueued, TypeOK
  <2>5. call'[c].phase = "idle"
    BY <2>3 DEF Idle
  <2> QED BY <1>0, <1>moves, <1>3, <2>4, <2>5
<1>4. ASSUME NEW c \in Calls, ReplayLoad(c) PROVE SerialInv'
  <2>1. call'[c] = Begun("replay", 0) /\ UNCHANGED <<store, fate>>
    BY <1>4 DEF ReplayLoad, TypeOK
  <2>2. /\ call'[c].phase = "replay" /\ call'[c].all = store' /\ call'[c].next = 1
        /\ call'[c].remaining = <<>> /\ call'[c].succeeded = {}
    BY <2>1 DEF Begun, Idle
  <2>3. SentSoFar(c)' = {}
    BY <2>2 DEF SentSoFar
  <2>4. StoreIsQueued'
    BY <2>1 DEF SerialInv, StoreIsQueued
  <2> QED BY <1>0, <1>moves, <1>4, <2>2, <2>3, <2>4, EmptyArray
<1>5. ASSUME NEW c \in Calls, NEW reply \in Replies, ReplayFetch(c, reply)
      PROVE  SerialInv'
  <2> DEFINE m == call[c].all[call[c].next]
  <2>1. /\ call[c].phase = "replay" /\ call[c] \in CallState /\ CallOrder(c)
        /\ call[c].next <= Len(call[c].all) /\ call[c].all = store
        /\ SentSoFar(c) = Ids(call[c].remaining) \cup call[c].succeeded
        /\ Ids(call[c].remaining) \cap call[c].succeeded = {}
    BY <1>5 DEF ReplayFetch, SerialInv, OrderInv, TypeOK
  <2>2. /\ call[c].all \in Seq(Mutation) /\ Len(call[c].all) \in Nat
        /\ call[c].remaining \in Seq(Mutation) /\ call[c].next \in 1..Len(call[c].all)
    BY <2>1, LenProperties DEF CallState
  <2>3. m \in Mutation
    BY <2>2, ElementOfSeq
  <2>4. /\ call'[c].phase = "replay" /\ call'[c].all = call[c].all
        /\ call'[c].next = call[c].next + 1
        /\ call'[c].succeeded = IF reply = "ok" THEN call[c].succeeded \cup {m.id}
                                                ELSE call[c].succeeded
        /\ call'[c].remaining = call[c].remaining \o Kept(m, reply)
    BY <1>5, <2>1 DEF ReplayFetch, TypeOK, CallState
  <2>5. UNCHANGED <<store, fate>>
    BY <1>5 DEF ReplayFetch
  <2>6. SentSoFar(c)' = SentSoFar(c) \cup {m.id}
    BY <2>2, <2>4 DEF SentSoFar
  <2>7. m.id \notin SentSoFar(c)
    <3>1. \A k \in SentSoFar(c) : k < m.id
      BY <2>1, SentBelow
    <3>2. m.id \in Nat
      BY <2>3 DEF Mutation, MutationIds
    <3> QED BY <3>1, <3>2
  <2> HIDE DEF m
  <2>8. Ids(call'[c].remaining) =
          IF reply = "ok" THEN Ids(call[c].remaining) ELSE Ids(call[c].remaining) \cup {m.id}
    <3>1. CASE reply = "ok"
      BY <2>2, <2>3, <2>4, <3>1, KeptConcat
    <3>2. CASE reply # "ok"
      <4>1. call'[c].remaining = Append(call[c].remaining, Marked(m, reply))
        BY <2>2, <2>3, <2>4, <3>2, KeptConcat
      <4>2. Marked(m, reply) \in Mutation /\ Marked(m, reply).id = m.id
        BY <2>3, MarkedType
      <4> QED BY <2>2, <3>2, <4>1, <4>2, AppendIds
    <3> QED BY <3>1, <3>2
  <2>9. /\ SentSoFar(c)' = Ids(call'[c].remaining) \cup call'[c].succeeded
        /\ Ids(call'[c].remaining) \cap call'[c].succeeded = {}
    <3>1. CASE reply = "ok"
      BY <2>1, <2>4, <2>6, <2>7, <2>8, <3>1
    <3>2. CASE reply # "ok"
      BY <2>1, <2>4, <2>6, <2>7, <2>8, <3>2
    <3> QED BY <3>1, <3>2
  <2>10. StoreIsQueued'
    BY <2>5 DEF SerialInv, StoreIsQueued
  <2> QED BY <1>0, <1>moves, <1>5, <2>1, <2>4, <2>5, <2>9, <2>10
<1>6. ASSUME NEW c \in Calls, ReplaySave(c) PROVE SerialInv'
  <2>1. /\ call[c] \in CallState /\ CallOrder(c) /\ call[c].all = store
        /\ SentSoFar(c) = Ids(call[c].remaining) \cup call[c].succeeded
        /\ Ids(call[c].remaining) \cap call[c].succeeded = {}
        /\ call[c].next > Len(call[c].all)
    BY <1>6 DEF ReplaySave, SerialInv, OrderInv, TypeOK
  <2>2. Len(call[c].all) \in Nat /\ call[c].next \in Nat
    BY <2>1, LenProperties DEF CallState
  <2>3. call[c].next = Len(call[c].all) + 1
    BY <2>1, <2>2 DEF CallOrder
  <2>4. SentSoFar(c) = Ids(store)
    BY <2>1, <2>2, <2>3 DEF SentSoFar, Ids
  <2>5. /\ store' = call[c].remaining /\ call'[c] = Idle
        /\ \A m \in MutationIds :
             fate'[m] = IF m \in call[c].succeeded THEN "delivered" ELSE fate[m]
    BY <1>6 DEF ReplaySave, TypeOK
  <2>6. StoreIsQueued'
    BY <2>1, <2>4, <2>5 DEF SerialInv, StoreIsQueued
  <2>7. call'[c].phase = "idle"
    BY <2>5 DEF Idle
  <2> QED BY <1>0, <1>moves, <1>6, <2>6, <2>7
<1>7. ASSUME NEW c \in Calls, NEW m \in MutationIds, PruneLoad(c, m) PROVE SerialInv'
  <2>1. call'[c] = Begun("prune", m) /\ UNCHANGED <<store, fate>>
    BY <1>7 DEF PruneLoad, TypeOK
  <2>2. call'[c].phase = "prune" /\ call'[c].all = store'
    BY <2>1 DEF Begun, Idle
  <2>3. StoreIsQueued'
    BY <2>1 DEF SerialInv, StoreIsQueued
  <2> QED BY <1>0, <1>moves, <1>7, <2>2, <2>3
<1>8. ASSUME NEW c \in Calls, PruneSave(c) PROVE SerialInv'
  <2>1. /\ call[c].all = store /\ store \in Seq(Mutation) /\ Increasing(store)
        /\ call[c].id \in MutationIds
    BY <1>8 DEF PruneSave, SerialInv, OrderInv, TypeOK
  <2>2. Ids(store') = Ids(store) \ {call[c].id}
    BY <1>8, <2>1, WithoutIds DEF PruneSave
  <2>3. /\ fate' = [fate EXCEPT ![call[c].id] = IF @ = "queued" THEN "pruned" ELSE @]
        /\ call'[c] = Idle
    BY <1>8 DEF PruneSave, TypeOK
  <2>4. StoreIsQueued'
    BY <2>1, <2>2, <2>3 DEF SerialInv, StoreIsQueued, TypeOK
  <2>5. call'[c].phase = "idle"
    BY <2>3 DEF Idle
  <2> QED BY <1>0, <1>moves, <1>8, <2>4, <2>5
<1>9. ASSUME NEW c \in Calls, Abort(c) PROVE SerialInv'
  <2>1. /\ \A m \in MutationIds : fate'[m] =
             IF call[c].phase = "enqueue" /\ m = call[c].id THEN "failed" ELSE fate[m]
        /\ store' = store /\ call'[c] = Idle
    BY <1>9 DEF Abort, TypeOK
  <2>2. call[c].phase = "enqueue" => fate[call[c].id] = "enqueueing"
    BY DEF SerialInv, OrderInv, CallOrder
  <2>3. StoreIsQueued'
    BY <2>1, <2>2 DEF SerialInv, StoreIsQueued
  <2>4. call'[c].phase = "idle"
    BY <2>1 DEF Idle
  <2> QED BY <1>0, <1>moves, <1>9, <2>3, <2>4
<1> QED
  BY <1>1, <1>2, <1>3, <1>4, <1>5, <1>6, <1>7, <1>8, <1>9 DEF Next

\* With one writer the call in progress works on a copy equal to the array.
LEMMA SerialInvariant ==
  ASSUME SingleWriter
  PROVE  Spec => []SerialInv
<1>1. Init => SerialInv
  BY InitSerial
<1>2. TypeOK /\ OrderInv' /\ SerialInv /\ [Next]_vars => SerialInv'
  BY SerialStep DEF SingleWriter, Alone
<1> QED BY <1>1, <1>2, TypeCorrect, OrderInvariant, PTL DEF Spec

\* With one writer at a time, whichever calls die, the array holds exactly the
\* mutations that were accepted and are neither delivered nor dismissed.
THEOREM SerialQueueExact ==
  ASSUME SingleWriter
  PROVE  Spec => []StoreIsQueued
<1>1. SerialInv => StoreIsQueued
  BY DEF SerialInv
<1> QED BY <1>1, SerialInvariant, PTL

\* With one writer at a time nothing that enqueue accepted is lost.
THEOREM SerialNothingLost ==
  ASSUME SingleWriter
  PROVE  Spec => []NoLostMutation
<1>1. SerialInv => NoLostMutation
  BY DEF SerialInv, StoreIsQueued, NoLostMutation
<1> QED BY <1>1, SerialInvariant, PTL

-----------------------------------------------------------------------------
(* One writer at a time: retries are kept.                                 *)

\* Marking a mutation never lowers its count.
LEMMA MarkedRetries ==
  ASSUME NEW m \in Mutation, NEW reply \in Replies
  PROVE  /\ m.retries \in Nat /\ Marked(m, reply).retries \in Nat
         /\ m.retries <= Marked(m, reply).retries
<1> DEFINE n == IF m.retries < RetryCap THEN m.retries + 1 ELSE RetryCap
<1>1. m.retries \in 0..RetryCap /\ RetryCap \in Nat /\ m.retries <= n /\ n \in Nat
  BY BoundsAssumption DEF Mutation
<1> HIDE DEF n
<1>2. Marked(m, reply) = IF reply = "client"
                         THEN [m EXCEPT !.lastError = "client"]
                         ELSE [m EXCEPT !.lastError = "transient", !.retries = n]
  BY <1>1 DEF Marked, n
<1> QED BY <1>1, <1>2 DEF Mutation

\* In an increasing array an id stands at one position only.
LEMMA OnePosition ==
  ASSUME NEW s \in Seq(Mutation), Increasing(s),
         NEW i \in 1..Len(s), NEW j \in 1..Len(s), s[i].id = s[j].id
  PROVE  i = j
<1>1. \A k \in 1..Len(s) : s[k] \in Mutation
  BY ElementOfSeq
<1>2. s[i].id \in Nat /\ s[j].id \in Nat /\ i \in Nat /\ j \in Nat
  BY <1>1, LenProperties DEF Mutation, MutationIds
<1>3. ~(i < j) /\ ~(j < i)
  BY <1>2 DEF Increasing
<1> QED BY <1>2, <1>3

\* Counts of mutations are numbers, and every array keeps its own.
LEMMA KeepsReflexive ==
  ASSUME NEW s \in Seq(Mutation), Increasing(s)
  PROVE  KeepsRetries(s, s)
<1> SUFFICES ASSUME NEW i \in 1..Len(s), NEW j \in 1..Len(s), s[i].id = s[j].id
             PROVE  s[i].retries <= s[j].retries
  BY DEF KeepsRetries
<1>1. i = j
  BY OnePosition
<1>2. s[i] \in Mutation
  BY ElementOfSeq
<1> QED BY <1>1, <1>2, BoundsAssumption DEF Mutation

\* Appending a record whose id is not in s, or that counts no fewer retries
\* than the record of s with its id, keeps the counts of s.
LEMMA KeepsAppend ==
  ASSUME NEW s, NEW t \in Seq(Mutation), KeepsRetries(s, t), NEW e \in Mutation,
         \A i \in 1..Len(s) : s[i].id = e.id => s[i].retries <= e.retries
  PROVE  KeepsRetries(s, Append(t, e))
<1>1. /\ Len(Append(t, e)) = Len(t) + 1 /\ Len(t) \in Nat
      /\ \A j \in 1..Len(t) : Append(t, e)[j] = t[j]
      /\ Append(t, e)[Len(t) + 1] = e
  BY AppendProperties, LenProperties
<1> SUFFICES ASSUME NEW i \in 1..Len(s), NEW j \in 1..(Len(t) + 1),
                    s[i].id = Append(t, e)[j].id
             PROVE  s[i].retries <= Append(t, e)[j].retries
  BY <1>1 DEF KeepsRetries
<1>2. CASE j = Len(t) + 1
  BY <1>1, <1>2
<1>3. CASE j # Len(t) + 1
  <2>1. j \in 1..Len(t)
    BY <1>1, <1>3
  <2> QED BY <1>1, <2>1 DEF KeepsRetries
<1> QED BY <1>2, <1>3

\* Removing a mutation keeps the counts of the others.
LEMMA KeepsWithout ==
  ASSUME NEW s \in Seq(Mutation), Increasing(s), NEW m
  PROVE  KeepsRetries(s, Without(s, m))
<1>1. \A j \in 1..Len(Without(s, m)) : \E k \in 1..Len(s) : Without(s, m)[j] = s[k]
  <2>1. CASE m \notin Ids(s)
    BY <2>1 DEF Without
  <2>2. CASE m \in Ids(s)
    <3> DEFINE at == CHOOSE i \in 1..Len(s) : s[i].id = m
               w == [j \in 1..(Len(s) - 1) |-> IF j < at THEN s[j] ELSE s[j + 1]]
    <3>1. at \in 1..Len(s) /\ Len(s) \in Nat
      BY <2>2, LenProperties DEF Ids
    <3>2. Without(s, m) = w
      BY <2>2 DEF Without
    <3> HIDE DEF at
    <3>3. w \in Seq(Mutation) /\ Len(w) = Len(s) - 1
      BY <3>1, ElementOfSeq
    <3>4. \A j \in 1..Len(w) : w[j] = IF j < at THEN s[j] ELSE s[j + 1]
      BY <3>3
    <3> HIDE DEF w
    <3> SUFFICES ASSUME NEW j \in 1..Len(w) PROVE \E k \in 1..Len(s) : w[j] = s[k]
      BY <3>2
    <3>5. j \in 1..Len(s) /\ j + 1 \in 1..Len(s)
      BY <3>1, <3>3
    <3> QED BY <3>4, <3>5
  <2> QED BY <2>1, <2>2
<1> QED BY <1>1, KeepsReflexive DEF KeepsRetries

\* A replay in progress has counted on from the array it loaded.
LEMMA RetryInvariant == Spec => []RetryInv
<1>0. \A s : KeepsRetries(s, <<>>)
  BY EmptyArray DEF KeepsRetries
<1>1. Init => RetryInv
  <2> SUFFICES ASSUME Init, NEW c \in Calls
               PROVE  KeepsRetries(call[c].all, call[c].remaining)
    BY DEF RetryInv
  <2>1. call[c].remaining = <<>>
    BY DEF Init, Idle
  <2> QED BY <1>0, <2>1
<1>2. TypeOK /\ OrderInv /\ RetryInv /\ [Next]_vars => RetryInv'
  <2> SUFFICES ASSUME TypeOK, OrderInv, RetryInv, [Next]_vars,
                      NEW d \in Calls
               PROVE  KeepsRetries(call'[d].all, call'[d].remaining)
    BY DEF RetryInv
  <2>0. ASSUME call'[d] = call[d] \/ call'[d].remaining = <<>>
        PROVE  KeepsRetries(call'[d].all, call'[d].remaining)
    BY <1>0, <2>0 DEF RetryInv
  <2>1. CASE UNCHANGED vars
    BY <2>0, <2>1 DEF vars
  <2>2. ASSUME NEW c \in Calls,
               EnqueueLoad(c) \/ EnqueueSave(c) \/ ReplayLoad(c) \/ ReplaySave(c)
                 \/ (\E m \in MutationIds : PruneLoad(c, m)) \/ PruneSave(c) \/ Abort(c)
        PROVE  KeepsRetries(call'[d].all, call'[d].remaining)
    <3>1. \E v : call' = [call EXCEPT ![c] = v] /\ v.remaining = <<>>
      <4>1. Idle.remaining = <<>> /\ \A p, i : Begun(p, i).remaining = <<>>
        BY DEF Idle, Begun
      <4> QED BY <2>2, <4>1 DEF EnqueueLoad, EnqueueSave, ReplayLoad, ReplaySave,
                                PruneLoad, PruneSave, Abort
    <3>2. call'[d] = call[d] \/ call'[d].remaining = <<>>
      BY <3>1 DEF TypeOK
    <3> QED BY <2>0, <3>2
  <2>3. ASSUME NEW c \in Calls, NEW reply \in Replies, ReplayFetch(c, reply)
        PROVE  KeepsRetries(call'[d].all, call'[d].remaining)
    <3>1. CASE d # c
      BY <2>0, <2>3, <3>1 DEF ReplayFetch, TypeOK
    <3>2. CASE d = c
      <4> DEFINE m == call[c].all[call[c].next]
      <4>1. /\ call[c] \in CallState /\ CallOrder(c) /\ RetryInv
            /\ call[c].next <= Len(call[c].all)
        BY <2>3 DEF ReplayFetch, OrderInv, TypeOK
      <4>2. /\ call[c].all \in Seq(Mutation) /\ call[c].remaining \in Seq(Mutation)
            /\ call[c].next \in 1..Len(call[c].all) /\ Increasing(call[c].all)
        BY <4>1, LenProperties DEF CallState, CallOrder
      <4>3. m \in Mutation
        BY <4>2, ElementOfSeq
      <4>4. /\ call'[c].all = call[c].all
            /\ call'[c].remaining = call[c].remaining \o Kept(m, reply)
        BY <2>3, <4>1 DEF ReplayFetch, TypeOK, CallState
      <4>5. \A i \in 1..Len(call[c].all) :
              call[c].all[i].id = m.id => call[c].all[i].retries <= m.retries
        <5>1. KeepsRetries(call[c].all, call[c].all)
          BY <4>2, KeepsReflexive
        <5> QED BY <4>2, <5>1 DEF KeepsRetries
      <4> HIDE DEF m
      <4>6. CASE reply = "ok"
        BY <3>2, <4>1, <4>2, <4>3, <4>4, <4>6, KeptConcat DEF RetryInv
      <4>7. CASE reply # "ok"
        <5> DEFINE e == Marked(m, reply)
        <5>1. e \in Mutation /\ e.id = m.id /\ m.retries <= e.retries
              /\ m.retries \in Nat /\ e.retries \in Nat
          BY <4>3, MarkedType, MarkedRetries
        <5>2. call'[c].remaining = Append(call[c].remaining, e)
          BY <4>2, <4>3, <4>4, <4>7, KeptConcat
        <5> HIDE DEF e
        <5>3. \A i \in 1..Len(call[c].all) :
                call[c].all[i].id = e.id => call[c].all[i].retries <= e.retries
          <6>1. \A i \in 1..Len(call[c].all) : call[c].all[i].retries \in Nat
            <7>1. \A i \in 1..Len(call[c].all) : call[c].all[i] \in Mutation
              BY <4>2, ElementOfSeq
            <7>2. \A n \in Mutation : n.retries \in Nat
              BY BoundsAssumption DEF Mutation
            <7> QED BY <7>1, <7>2
          <6> QED BY <4>5, <5>1, <6>1
        <5> QED BY <3>2, <4>1, <4>2, <4>4, <5>1, <5>2, <5>3, KeepsAppend DEF RetryInv
      <4> QED BY <4>6, <4>7
    <3> QED BY <3>1, <3>2
  <2> QED BY <2>1, <2>2, <2>3 DEF Next
<1> QED BY <1>1, <1>2, TypeCorrect, OrderInvariant, PTL DEF Spec

\* With one writer at a time no step lowers the retries recorded for a mutation,
\* whatever passes die and whichever of them end in a client error.
THEOREM RetriesKept ==
  ASSUME SingleWriter
  PROVE  Spec => RetriesNeverForgotten
<1>1. TypeOK /\ OrderInv' /\ SerialInv /\ RetryInv /\ [Next]_vars
        => [KeepsRetries(store, store')]_vars
  <2> SUFFICES ASSUME TypeOK, OrderInv', SerialInv, RetryInv, [Next]_vars
               PROVE  [KeepsRetries(store, store')]_vars
    OBVIOUS
  <2>0. store \in Seq(Mutation) /\ Increasing(store) /\ KeepsRetries(store, store)
    BY KeepsReflexive DEF TypeOK, SerialInv, OrderInv
  <2>1. ASSUME store' = store PROVE KeepsRetries(store, store')
    BY <2>0, <2>1
  <2>2. CASE UNCHANGED vars
    BY <2>2
  <2>3. ASSUME NEW c \in Calls, EnqueueSave(c) PROVE KeepsRetries(store, store')
    <3> DEFINE e == Fresh(call[c].id)
    <3>1. /\ store' = Append(store, e) /\ call[c].id \in MutationIds
          /\ \A m \in Ids(store) : m < call[c].id
      BY <2>3 DEF EnqueueSave, Pushed, SerialInv, OrderInv, CallOrder
    <3>2. e \in Mutation /\ e.id = call[c].id
      BY <3>1, FreshType
    <3>3. \A i \in 1..Len(store) : store[i].id # e.id
      BY <3>1, <3>2 DEF Ids, MutationIds
    <3> HIDE DEF e
    <3> QED BY <2>0, <3>1, <3>2, <3>3, KeepsAppend
  <2>4. ASSUME NEW c \in Calls, ReplaySave(c) PROVE KeepsRetries(store, store')
    BY <2>4 DEF ReplaySave, SerialInv, RetryInv
  <2>5. ASSUME NEW c \in Calls, PruneSave(c) PROVE KeepsRetries(store, store')
    BY <2>0, <2>5, KeepsWithout DEF PruneSave, SerialInv
  <2>6. ASSUME NEW c \in Calls,
               EnqueueLoad(c) \/ ReplayLoad(c)
                 \/ (\E reply \in Replies : ReplayFetch(c, reply))
                 \/ (\E m \in MutationIds : PruneLoad(c, m)) \/ Abort(c)
        PROVE  KeepsRetries(store, store')
    BY <2>1, <2>6 DEF EnqueueLoad, ReplayLoad, ReplayFetch, PruneLoad, Abort
  <2> QED BY <2>2, <2>3, <2>4, <2>5, <2>6 DEF Next
<1> QED BY <1>1, TypeCorrect, OrderInvariant, SerialInvariant, RetryInvariant, PTL
        DEF Spec, RetriesNeverForgotten

-----------------------------------------------------------------------------
(* One writer at a time: no mutation is passed over unnoticed.             *)

\* What a replay in progress keeps carries the mark of the reply it was given.
LEMMA MarkInvariant == Spec => []MarkInv
<1>1. Init => MarkInv
  BY DEF Init, Idle, MarkInv
<1>2. TypeOK /\ OrderInv /\ MarkInv /\ [Next]_vars => MarkInv'
  <2> SUFFICES ASSUME TypeOK, OrderInv, MarkInv, [Next]_vars,
                      NEW d \in Calls, call'[d].phase = "replay"
               PROVE  AllMarked(call'[d].all, call'[d].remaining)
    BY DEF MarkInv
  <2>0. ASSUME call'[d] = call[d] PROVE AllMarked(call'[d].all, call'[d].remaining)
    BY <2>0 DEF MarkInv
  <2>1. CASE UNCHANGED vars
    BY <2>0, <2>1 DEF vars
  <2>2. ASSUME NEW c \in Calls,
               EnqueueLoad(c) \/ EnqueueSave(c) \/ ReplaySave(c)
                 \/ (\E m \in MutationIds : PruneLoad(c, m)) \/ PruneSave(c) \/ Abort(c)
        PROVE  AllMarked(call'[d].all, call'[d].remaining)
    <3>1. \E v : call' = [call EXCEPT ![c] = v] /\ v.phase # "replay"
      <4>1. Idle.phase = "idle" /\ \A p, i : Begun(p, i).phase = p
        BY DEF Idle, Begun
      <4> QED BY <2>2, <4>1 DEF EnqueueLoad, EnqueueSave, ReplaySave, PruneLoad,
                                PruneSave, Abort
    <3>2. call'[d] = call[d]
      BY <3>1 DEF TypeOK
    <3> QED BY <2>0, <3>2
  <2>3. ASSUME NEW c \in Calls, ReplayLoad(c) PROVE AllMarked(call'[d].all, call'[d].remaining)
    <3>1. CASE d = c
      <4>1. call'[d].remaining = <<>>
        BY <2>3, <3>1 DEF ReplayLoad, Begun, Idle, TypeOK
      <4> QED BY <4>1, EmptyArray DEF AllMarked
    <3>2. CASE d # c
      BY <2>0, <2>3, <3>2 DEF ReplayLoad, TypeOK
    <3> QED BY <3>1, <3>2
  <2>4. ASSUME NEW c \in Calls, NEW reply \in Replies, ReplayFetch(c, reply)
        PROVE  AllMarked(call'[d].all, call'[d].remaining)
    <3>1. CASE d # c
      BY <2>0, <2>4, <3>1 DEF ReplayFetch, TypeOK
    <3>2. CASE d = c
      <4> DEFINE at == call[c].next
                 m  == call[c].all[at]
                 r  == call[c].remaining
      <4>1. call[c] \in CallState /\ call[c].phase = "replay" /\ at <= Len(call[c].all)
        BY <2>4 DEF ReplayFetch, TypeOK
      <4>2. /\ call[c].all \in Seq(Mutation) /\ r \in Seq(Mutation)
            /\ at \in 1..Len(call[c].all)
        BY <4>1, LenProperties DEF CallState
      <4>3. m \in Mutation
        BY <4>2, ElementOfSeq
      <4>4. /\ call'[c].all = call[c].all
            /\ call'[c].remaining = r \o Kept(m, reply)
        BY <2>4, <4>1 DEF ReplayFetch, TypeOK, CallState
      <4>5. AllMarked(call[c].all, r)
        BY <4>1 DEF MarkInv
      <4>6. CASE reply = "ok"
        <5>1. call'[c].remaining = r
          BY <4>2, <4>3, <4>4, <4>6, KeptConcat
        <5> QED BY <3>2, <4>4, <4>5, <5>1
      <4>7. CASE reply # "ok"
        <5>1. call'[c].remaining = Append(r, Marked(m, reply))
          BY <4>2, <4>3, <4>4, <4>7, KeptConcat
        <5>2. Marked(m, reply) \in Mutation
          BY <4>3, MarkedType
        <5>3. /\ Len(call'[c].remaining) = Len(r) + 1
              /\ \A j \in 1..Len(r) : call'[c].remaining[j] = r[j]
              /\ call'[c].remaining[Len(r) + 1] = Marked(m, reply)
          BY <4>2, <5>1, <5>2, AppendProperties
        <5> SUFFICES ASSUME NEW j \in 1..Len(call'[c].remaining)
                     PROVE  \E i \in 1..Len(call[c].all), p \in Replies \ {"ok"} :
                              call'[c].remaining[j] = Marked(call[c].all[i], p)
          BY <3>2, <4>4 DEF AllMarked
        <5>4. CASE j \in 1..Len(r)
          BY <4>5, <5>3, <5>4 DEF AllMarked
        <5>5. CASE j = Len(r) + 1
          BY <4>2, <4>7, <5>3, <5>5
        <5>6. j \in 1..Len(r) \/ j = Len(r) + 1
          BY <4>2, <5>3, LenProperties
        <5> QED BY <5>4, <5>5, <5>6
      <4> QED BY <4>6, <4>7
    <3> QED BY <3>1, <3>2
  <2> QED BY <2>1, <2>2, <2>3, <2>4 DEF Next
<1> QED BY <1>1, <1>2, TypeCorrect, OrderInvariant, PTL DEF Spec

\* With one writer at a time a pass saves what it delivered only after it has sent
\* every mutation there was, and the array it saves records each refusal.
THEOREM PassesSkipNothing ==
  ASSUME SingleWriter
  PROVE  Spec => NothingPassedOver
<1> DEFINE PassedOver ==
      \A k, m \in MutationIds :
        fate[k] = "queued" /\ fate[m] = "queued" /\ fate'[m] = "delivered"
          => fate'[k] = "delivered" \/ FailedAgain(k)
<1>1. TypeOK /\ SerialInv /\ MarkInv /\ [Next]_vars => [PassedOver]_vars
  <2> SUFFICES ASSUME TypeOK, SerialInv, MarkInv, [Next]_vars,
                      NEW k \in MutationIds, NEW m \in MutationIds,
                      fate[k] = "queued", fate[m] = "queued", fate'[m] = "delivered"
               PROVE  fate'[k] = "delivered" \/ FailedAgain(k)
    OBVIOUS
  <2>1. PICK c \in Calls : ReplaySave(c)
    <3>1. fate'[m] # fate[m] /\ ~ UNCHANGED vars
      BY DEF vars
    <3>2. ASSUME NEW c \in Calls, EnqueueLoad(c) \/ EnqueueSave(c) \/ PruneSave(c)
                                     \/ Abort(c)
          PROVE  FALSE
      BY <3>2 DEF EnqueueLoad, EnqueueSave, PruneSave, Abort, TypeOK
    <3>3. ASSUME NEW c \in Calls,
                 ReplayLoad(c) \/ (\E reply \in Replies : ReplayFetch(c, reply))
                   \/ (\E n \in MutationIds : PruneLoad(c, n))
          PROVE  FALSE
      BY <3>1, <3>3 DEF ReplayLoad, ReplayFetch, PruneLoad
    <3> QED BY <3>1, <3>2, <3>3 DEF Next
  <2> DEFINE r == call[c].remaining
  <2>2. /\ call[c].phase = "replay" /\ call[c] \in CallState
        /\ call[c].next > Len(call[c].all)
        /\ store' = r
        /\ fate'[k] = IF k \in call[c].succeeded THEN "delivered" ELSE fate[k]
    BY <2>1 DEF ReplaySave, TypeOK
  <2>3. /\ call[c].all = store /\ CallOrder(c) /\ store \in Seq(Mutation)
        /\ SentSoFar(c) = Ids(r) \cup call[c].succeeded
        /\ Increasing(store)
    BY <2>2 DEF SerialInv, OrderInv, TypeOK
  <2>4. k \in Ids(store)
    BY DEF SerialInv, StoreIsQueued
  <2>5. SentSoFar(c) = Ids(store)
    <3>1. call[c].next - 1 = Len(store)
      BY <2>2, <2>3, LenProperties DEF CallOrder, CallState
    <3> QED BY <2>3, <3>1 DEF SentSoFar, Ids
  <2>6. CASE k \in call[c].succeeded
    BY <2>2, <2>6
  <2>7. CASE k \in Ids(r)
    <3>1. PICK j \in 1..Len(r) : r[j].id = k
      BY <2>7 DEF Ids
    <3>2. PICK i \in 1..Len(store), reply \in Replies \ {"ok"} :
            r[j] = Marked(store[i], reply)
      BY <2>2, <2>3 DEF MarkInv, AllMarked
    <3>3. store[i].id = k
      BY <2>3, <3>1, <3>2, MarkedType, ElementOfSeq
    <3> QED BY <2>2, <3>2, <3>3 DEF FailedAgain
  <2> QED BY <2>3, <2>4, <2>5, <2>6, <2>7
<1>2. [][PassedOver]_vars => NothingPassedOver
  BY DEF NothingPassedOver
<1> QED BY <1>1, <1>2, TypeCorrect, SerialInvariant, MarkInvariant, PTL DEF Spec

-----------------------------------------------------------------------------
(* One writer at a time: the queue is a durable outbox.                    *)

\* With one writer every step accepts one mutation, settles some of those that
\* are owed, or changes nothing a form relies on, although loads and saves are
\* apart and calls die between them.
THEOREM QueueIsOutbox ==
  ASSUME SingleWriter
  PROVE  Spec => ImplementsOutbox
<1>1. Init => Outbox!Init
  BY EmptyArray DEF Init, Outbox!Init, Settled
<1>2. TypeOK /\ SerialInv /\ SerialInv' /\ [Next]_vars => [Outbox!Next]_(Outbox!vars)
  <2> SUFFICES ASSUME TypeOK, SerialInv, SerialInv', [Next]_vars
               PROVE  [Outbox!Next]_(Outbox!vars)
    OBVIOUS
  <2> USE BoundsAssumption
  <2>0. ASSUME UNCHANGED <<Ids(store), Settled>> PROVE [Outbox!Next]_(Outbox!vars)
    BY <2>0 DEF Outbox!vars
  <2>1. CASE UNCHANGED vars
    BY <2>0, <2>1 DEF vars, Settled
  <2>2. ASSUME NEW c \in Calls, EnqueueLoad(c) PROVE [Outbox!Next]_(Outbox!vars)
    <3>1. issued + 1 \in MutationIds /\ fate' = [fate EXCEPT ![issued + 1] = "enqueueing"]
      BY <2>2 DEF EnqueueLoad, TypeOK, MutationIds
    <3>2. fate[issued + 1] = "unused"
      BY <3>1 DEF SerialInv, OrderInv, TypeOK
    <3>3. Settled' = Settled
      BY <3>1, <3>2 DEF Settled, TypeOK
    <3> QED BY <2>0, <2>2, <3>3 DEF EnqueueLoad
  <2>3. ASSUME NEW c \in Calls, EnqueueSave(c) PROVE [Outbox!Next]_(Outbox!vars)
    <3> DEFINE m == call[c].id
    <3>1. /\ call[c].all = store /\ store \in Seq(Mutation) /\ m \in MutationIds
          /\ fate[m] = "enqueueing"
      BY <2>3 DEF EnqueueSave, SerialInv, OrderInv, CallOrder, TypeOK
    <3>2. Ids(store') = Ids(store) \cup {m}
      BY <2>3, <3>1, FreshType, AppendIds DEF EnqueueSave, Pushed
    <3>3. fate' = [fate EXCEPT ![m] = "queued"]
      BY <2>3 DEF EnqueueSave
    <3>4. Settled' = Settled
      BY <3>1, <3>3 DEF Settled, TypeOK
    <3>5. \A k \in Ids(store) \cup Settled : k < m
      <4>1. m = issued /\ \A k \in Ids(store) : k < m
        BY <2>3, <3>1 DEF EnqueueSave, SerialInv, OrderInv, CallOrder
      <4>2. \A k \in Settled : k \in MutationIds /\ fate[k] # "unused" /\ k # m
        BY <3>1 DEF Settled
      <4>3. \A k \in MutationIds : fate[k] # "unused" => k <= issued
        BY DEF SerialInv, OrderInv, TypeOK, MutationIds
      <4>4. \A k \in Settled : k < m
        BY <4>1, <4>2, <4>3 DEF MutationIds, TypeOK
      <4> QED BY <4>1, <4>4
    <3> HIDE DEF m
    <3>6. Outbox!Accept(m)
      BY <3>2, <3>4, <3>5 DEF Outbox!Accept
    <3> QED BY <3>1, <3>6 DEF Outbox!Next
  <2>4. ASSUME NEW c \in Calls, ReplayLoad(c) PROVE [Outbox!Next]_(Outbox!vars)
    BY <2>0, <2>4 DEF ReplayLoad, Settled
  <2>5. ASSUME NEW c \in Calls, NEW reply \in Replies, ReplayFetch(c, reply)
        PROVE  [Outbox!Next]_(Outbox!vars)
    BY <2>0, <2>5 DEF ReplayFetch, Settled
  <2>6. ASSUME NEW c \in Calls, ReplaySave(c) PROVE [Outbox!Next]_(Outbox!vars)
    <3> DEFINE ms == call[c].succeeded
    <3>1. /\ call[c] \in CallState /\ CallOrder(c) /\ call[c].all = store
          /\ SentSoFar(c) = Ids(call[c].remaining) \cup ms
          /\ Ids(call[c].remaining) \cap ms = {}
          /\ call[c].next > Len(call[c].all)
      BY <2>6 DEF ReplaySave, SerialInv, OrderInv, TypeOK
    <3>2. Len(call[c].all) \in Nat /\ call[c].next \in Nat /\ ms \subseteq MutationIds
      BY <3>1, LenProperties DEF CallState
    <3>3. SentSoFar(c) = Ids(store)
      <4>1. call[c].next = Len(call[c].all) + 1
        BY <3>1, <3>2 DEF CallOrder
      <4> QED BY <3>1, <3>2, <4>1 DEF SentSoFar, Ids
    <3>4. /\ store' = call[c].remaining
          /\ \A m \in MutationIds : fate'[m] = IF m \in ms THEN "delivered" ELSE fate[m]
      BY <2>6 DEF ReplaySave
    <3>5. Ids(store') = Ids(store) \ ms /\ ms \subseteq Ids(store)
      BY <3>1, <3>3, <3>4
    <3>6. Settled' = Settled \cup ms
      BY <3>2, <3>4 DEF Settled
    <3> HIDE DEF ms
    <3>7. CASE ms = {}
      BY <2>0, <3>5, <3>6, <3>7
    <3>8. CASE ms # {}
      <4>1. Outbox!Settle(ms)
        BY <3>5, <3>6, <3>8 DEF Outbox!Settle
      <4> QED BY <3>2, <4>1 DEF Outbox!Next
    <3> QED BY <3>7, <3>8
  <2>7. ASSUME NEW c \in Calls, NEW m \in MutationIds, PruneLoad(c, m)
        PROVE  [Outbox!Next]_(Outbox!vars)
    BY <2>0, <2>7 DEF PruneLoad, Settled
  <2>8. ASSUME NEW c \in Calls, PruneSave(c) PROVE [Outbox!Next]_(Outbox!vars)
    <3> DEFINE m == call[c].id
    <3>1. /\ call[c].all = store /\ store \in Seq(Mutation) /\ Increasing(store)
          /\ m \in MutationIds /\ m \in Saved
      BY <2>8 DEF PruneSave, SerialInv, OrderInv, CallOrder, TypeOK
    <3>2. Ids(store') = Ids(store) \ {m}
      BY <2>8, <3>1, WithoutIds DEF PruneSave
    <3>3. fate' = [fate EXCEPT ![m] = IF @ = "queued" THEN "pruned" ELSE @]
      BY <2>8 DEF PruneSave
    <3>4. Settled' = Settled \cup {m}
      BY <3>1, <3>3 DEF Settled, Saved, TypeOK
    <3>5. fate[m] = "queued" <=> m \in Ids(store)
      BY <3>1 DEF SerialInv, StoreIsQueued
    <3> HIDE DEF m
    <3>6. CASE fate[m] = "queued"
      <4>1. Outbox!Settle({m})
        BY <3>2, <3>4, <3>5, <3>6 DEF Outbox!Settle
      <4> QED BY <3>1, <4>1 DEF Outbox!Next
    <3>7. CASE fate[m] # "queued"
      <4>1. m \in Settled
        BY <3>1, <3>7 DEF Saved, Settled
      <4> QED BY <2>0, <3>2, <3>4, <3>5, <3>7, <4>1
    <3> QED BY <3>6, <3>7
  <2>9. ASSUME NEW c \in Calls, Abort(c) PROVE [Outbox!Next]_(Outbox!vars)
    <3>1. \A m \in MutationIds : fate'[m] =
            IF call[c].phase = "enqueue" /\ m = call[c].id THEN "failed" ELSE fate[m]
      BY <2>9 DEF Abort
    <3>2. call[c].phase = "enqueue" => fate[call[c].id] = "enqueueing"
      BY DEF SerialInv, OrderInv, CallOrder
    <3>3. Settled' = Settled
      BY <3>1, <3>2 DEF Settled
    <3> QED BY <2>0, <2>9, <3>3 DEF Abort
  <2> QED
    BY <2>1, <2>2, <2>3, <2>4, <2>5, <2>6, <2>7, <2>8, <2>9 DEF Next
<1> QED BY <1>1, <1>2, TypeCorrect, SerialInvariant, PTL DEF Spec, ImplementsOutbox, Outbox!Spec

=============================================================================
