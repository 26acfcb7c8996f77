------------------------- MODULE OfflineFormsProofs -------------------------
(***************************************************************************)
(* Theorems about OfflineForms, for any number of forms, overlapping calls *)
(* and mutations: what a form may conclude from what withOffline told it.  *)
(***************************************************************************)
EXTENDS OfflineForms, MutationQueueProofs

-----------------------------------------------------------------------------
(* The queue under the forms is MutationQueue.                             *)

\* Every step of the forms is one of the queue, or leaves the queue alone.
LEMMA QueueStep == FormsNext => [Next]_vars
<1> SUFFICES ASSUME FormsNext PROVE [Next]_vars
  OBVIOUS
<1>1. ASSUME NEW f \in Forms, NEW answer \in Answers, Post(f, answer) PROVE [Next]_vars
  BY <1>1 DEF Post
<1>2. ASSUME NEW c \in Calls, NEW f \in Forms, QueueForm(f, c) PROVE [Next]_vars
  BY <1>2 DEF QueueForm, Next
<1>3. ASSUME NEW c \in Calls, FormQueued(c) \/ StartReplay(c) \/ Saves(c) \/ Dies(c)
      PROVE  [Next]_vars
  BY <1>3 DEF FormQueued, StartReplay, Saves, Dies, Next
<1>4. ASSUME NEW c \in Calls, NEW reply \in Replies, Send(c, reply) PROVE [Next]_vars
  BY <1>4 DEF Send, Next
<1>5. ASSUME NEW c \in Calls, NEW m \in MutationIds, StartPrune(c, m) PROVE [Next]_vars
  BY <1>5 DEF StartPrune, Next
<1> QED BY <1>1, <1>2, <1>3, <1>4, <1>5 DEF FormsNext

\* What is true of the queue on its own is true of it under the forms.
LEMMA FormsUseQueue == FormsSpec => Spec
<1>1. FormsInit => Init
  BY DEF FormsInit
<1>2. [FormsNext]_allVars => [Next]_vars
  BY QueueStep DEF allVars, vars
<1> QED BY <1>1, <1>2, PTL DEF FormsSpec, Spec

-----------------------------------------------------------------------------
(* Helpers.                                                                *)

\* The server applies a request of the forms in fs, up to the bound of the count.
LEMMA AppliedType ==
  ASSUME FormsTypeOK, NEW fs, applied' = AppliedBy(fs)
  PROVE  /\ applied' \in [Forms -> 0..2]
         /\ \A f \in Forms : f \in fs => applied'[f] > 0 /\ (applied[f] = 0 => applied'[f] = 1)
         /\ \A f \in Forms : f \notin fs => applied'[f] = applied[f]
         /\ \A f \in Forms : applied[f] > 0 => applied'[f] > 0
<1> DEFINE to(f) == IF f \in fs /\ applied[f] < 2 THEN applied[f] + 1 ELSE applied[f]
<1>1. \A f \in Forms : applied'[f] = to(f)
  BY DEF AppliedBy
<1>2. \A f \in Forms : applied[f] \in 0..2
  BY DEF FormsTypeOK
<1>3. \A f \in Forms : to(f) \in 0..2
  BY <1>2
<1>4. applied' = [f \in Forms |-> to(f)]
  BY DEF AppliedBy
<1> QED BY <1>1, <1>2, <1>3, <1>4

\* A step that leaves form f, its count, the history and what the queue says of its
\* mutation alone, but for telling the form how its mutation ended, keeps its part of
\* the invariant.
LEMMA FormSame ==
  ASSUME NEW f \in Forms, FormInv(f), NEW m, form[f].m = m,
         form'[f].m = m, applied'[f] = applied[f],
         form'[f].at = form[f].at
           \/ (m # 0 /\ form'[f].at \notin {"posting", "synced"}),
         f \in doubt => f \in doubt', overlapped => overlapped',
         form'[f].at = "queued" => m \in Saved',
         m # 0 => (Accepted(m)' => Accepted(m)),
         m # 0 /\ Accepted(m) => Accepted(m)' \/ f \in doubt'
  PROVE  FormInv(f)'
<1>1. (m # 0 /\ Accepted(m)' => applied'[f] > 0) /\ AppliedInv(f)'
  BY DEF FormInv, AppliedInv, Accepted
<1>2. (form[f].m # 0 /\ Accepted(form[f].m) => applied[f] > 0)'
  BY <1>1 DEF Accepted
<1> QED BY <1>1, <1>2 DEF FormInv, Accepted

\* What withOffline makes of an answer.
LEMMA AfterPostValue ==
  ASSUME NEW answer \in Answers
  PROVE  /\ AfterPost(answer) \in {"synced", "enqueueing", "failed"}
         /\ AfterPost(answer) = "synced" => MayHaveApplied(answer) = {TRUE}
         /\ MayHaveApplied(answer) \subseteq BOOLEAN
BY DEF AfterPost, MayHaveApplied, Answers

\* Mutations that are saved stay saved.
LEMMA SavedStays ==
  ASSUME TypeOK, OrderInv, [Next]_vars
  PROVE  Saved \subseteq Saved'
<1> USE BoundsAssumption
<1>0. ASSUME \A m \in MutationIds : fate'[m] = fate[m] \/ fate[m] \in {"unused", "enqueueing"}
                                   \/ fate'[m] \in {"queued", "delivered", "pruned"}
      PROVE  Saved \subseteq Saved'
  BY <1>0 DEF Saved
<1>1. CASE UNCHANGED vars
  BY <1>0, <1>1 DEF vars
<1>2. ASSUME NEW c \in Calls, EnqueueLoad(c) PROVE Saved \subseteq Saved'
  <2>1. issued + 1 \in MutationIds /\ fate[issued + 1] = "unused"
    BY <1>2 DEF EnqueueLoad, TypeOK, OrderInv, MutationIds
  <2> QED BY <1>0, <1>2, <2>1 DEF EnqueueLoad, TypeOK
<1>3. ASSUME NEW c \in Calls, EnqueueSave(c) \/ ReplaySave(c) \/ PruneSave(c)
      PROVE  Saved \subseteq Saved'
  BY <1>0, <1>3 DEF EnqueueSave, ReplaySave, PruneSave, TypeOK
<1>4. ASSUME NEW c \in Calls,
             ReplayLoad(c) \/ (\E reply \in Replies : ReplayFetch(c, reply))
               \/ (\E m \in MutationIds : PruneLoad(c, m))
      PROVE  Saved \subseteq Saved'
  BY <1>0, <1>4 DEF ReplayLoad, ReplayFetch, PruneLoad
<1>5. ASSUME NEW c \in Calls, Abort(c) PROVE Saved \subseteq Saved'
  <2>1. call[c].phase = "enqueue" => fate[call[c].id] = "enqueueing"
    BY DEF OrderInv, CallOrder
  <2> QED BY <1>0, <1>5, <2>1 DEF Abort
<1> QED BY <1>1, <1>2, <1>3, <1>4, <1>5 DEF Next

\* What the replays have accepted changes with the answers they get, and with the
\* death of one, only.
LEMMA AcceptedStays ==
  ASSUME TypeOK, OrderInv, NEW m \in MutationIds, NEW c \in Calls,
         EnqueueLoad(c) \/ EnqueueSave(c) \/ ReplayLoad(c) \/ ReplaySave(c)
           \/ (\E k \in MutationIds : PruneLoad(c, k)) \/ PruneSave(c) \/ Abort(c)
  PROVE  /\ Accepted(m)' => Accepted(m)
         /\ Accepted(m) => Accepted(m)' \/ (Abort(c) /\ m \in call[c].succeeded)
<1> USE BoundsAssumption
<1>1. /\ \A d \in Calls : d # c => call'[d] = call[d]
      /\ call'[c].succeeded = {}
  <2>1. \E v : call' = [call EXCEPT ![c] = v] /\ v.succeeded = {}
    <3>1. Idle.succeeded = {} /\ \A p, i : Begun(p, i).succeeded = {}
      BY DEF Idle, Begun
    <3> QED BY <3>1 DEF EnqueueLoad, EnqueueSave, ReplayLoad, ReplaySave, PruneLoad,
                        PruneSave, Abort
  <2> QED BY <2>1 DEF TypeOK
<1>2. fate[m] = "delivered" => fate'[m] = "delivered"
  <2>1. CASE EnqueueLoad(c)
    <3>1. issued + 1 \in MutationIds /\ fate[issued + 1] = "unused"
      BY <2>1 DEF EnqueueLoad, TypeOK, OrderInv, MutationIds
    <3> QED BY <2>1, <3>1 DEF EnqueueLoad, TypeOK
  <2>2. CASE EnqueueSave(c)
    <3>1. fate[call[c].id] = "enqueueing"
      BY <2>2 DEF EnqueueSave, OrderInv, CallOrder
    <3> QED BY <2>2, <3>1 DEF EnqueueSave, TypeOK
  <2>3. CASE Abort(c)
    <3>1. call[c].phase = "enqueue" => fate[call[c].id] = "enqueueing"
      BY DEF OrderInv, CallOrder
    <3> QED BY <2>3, <3>1 DEF Abort
  <2>4. CASE ReplaySave(c) \/ PruneSave(c)
    BY <2>4 DEF ReplaySave, PruneSave, TypeOK
  <2>5. CASE ReplayLoad(c) \/ \E k \in MutationIds : PruneLoad(c, k)
    BY <2>5 DEF ReplayLoad, PruneLoad
  <2> QED BY <2>1, <2>2, <2>3, <2>4, <2>5
<1>3. fate'[m] = "delivered"
        => fate[m] = "delivered" \/ (ReplaySave(c) /\ m \in call[c].succeeded)
  BY DEF EnqueueLoad, EnqueueSave, ReplayLoad, ReplaySave, PruneLoad, PruneSave, Abort, TypeOK
<1>4. call[c].phase = "replay" /\ m \in call[c].succeeded
        => fate'[m] = "delivered" \/ Abort(c)
  BY DEF EnqueueLoad, EnqueueSave, ReplayLoad, ReplaySave, PruneLoad, PruneSave
<1>5. ReplaySave(c) => call[c].phase = "replay"
  BY DEF ReplaySave
<1> QED BY <1>1, <1>2, <1>3, <1>4, <1>5 DEF Accepted

\* No two calls are in progress as long as none began beside another.
LEMMA AloneStep ==
  ASSUME TypeOK, Alone, FormsNext, ~overlapped'
  PROVE  Alone'
<1>1. ASSUME NEW c \in Calls, \A d \in Calls : d # c => call'[d] = call[d],
             call[c].phase # "idle" \/ \A d \in Calls \ {c} : call[d].phase = "idle"
      PROVE  Alone'
  BY <1>1 DEF Alone
<1>2. ASSUME NEW f \in Forms, NEW answer \in Answers, Post(f, answer) PROVE Alone'
  BY <1>2 DEF Post, vars, Alone
<1>3. ASSUME NEW c \in Calls, NEW f \in Forms, QueueForm(f, c) PROVE Alone'
  BY <1>1, <1>3 DEF QueueForm, EnqueueLoad, Overlap, TypeOK
<1>4. ASSUME NEW c \in Calls, StartReplay(c) PROVE Alone'
  BY <1>1, <1>4 DEF StartReplay, ReplayLoad, Overlap, TypeOK
<1>5. ASSUME NEW c \in Calls, NEW m \in MutationIds, StartPrune(c, m) PROVE Alone'
  BY <1>1, <1>5 DEF StartPrune, PruneLoad, Overlap, TypeOK
<1>6. ASSUME NEW c \in Calls, NEW reply \in Replies, Send(c, reply) PROVE Alone'
  BY <1>1, <1>6 DEF Send, ReplayFetch, TypeOK
<1>7. ASSUME NEW c \in Calls, FormQueued(c) \/ Saves(c) \/ Dies(c) PROVE Alone'
  BY <1>1, <1>7 DEF FormQueued, Saves, Dies, EnqueueSave, ReplaySave, PruneSave, Abort, TypeOK
<1> QED BY <1>2, <1>3, <1>4, <1>5, <1>6, <1>7 DEF FormsNext

\* Once calls have overlapped the history says so.
LEMMA OverlapStays == ASSUME FormsTypeOK, FormsNext, overlapped  PROVE overlapped'
BY DEF FormsNext, Post, QueueForm, FormQueued, StartReplay, Send, StartPrune, Saves, Dies,
       Overlap, formVars

-----------------------------------------------------------------------------
(* One lemma per step of a form.                                           *)

\* The invariants of the queue and of the forms.
Inv == TypeOK /\ OrderInv /\ FormsInv

\* The forms' variables stay in their types.
LEMMA FormsTypeStep ==
  ASSUME TypeOK, FormsTypeOK, FormsNext
  PROVE  FormsTypeOK'
<1> USE BoundsAssumption DEF FormsTypeOK
<1>1. ASSUME NEW f \in Forms, NEW answer \in Answers, Post(f, answer) PROVE FormsTypeOK'
  <2>1. AfterPost(answer) \in FormPhases
    BY AfterPostValue DEF FormPhases
  <2>2. form' \in [Forms -> FormState]
    BY <1>1, <2>1 DEF Post, FormState
  <2>3. applied' \in [Forms -> 0..2]
    BY <1>1, AppliedType DEF Post
  <2>4. doubt' \subseteq Forms /\ overlapped' \in BOOLEAN
    BY <1>1 DEF Post
  <2> QED BY <2>2, <2>3, <2>4
<1>2. ASSUME NEW c \in Calls, NEW f \in Forms, QueueForm(f, c) PROVE FormsTypeOK'
  <2>1. issued + 1 \in 0..MaxMutations
    BY <1>2 DEF QueueForm, EnqueueLoad, TypeOK
  <2>2. form' \in [Forms -> FormState]
    BY <1>2, <2>1 DEF QueueForm, FormState
  <2> QED BY <1>2, <2>2 DEF QueueForm, Overlap
<1>3. ASSUME NEW c \in Calls, FormQueued(c) PROVE FormsTypeOK'
  <2>1. form' \in [Forms -> FormState]
    BY <1>3 DEF FormQueued, FormState, FormPhases
  <2> QED BY <1>3, <2>1 DEF FormQueued
<1>4. ASSUME NEW c \in Calls, StartReplay(c) \/ Saves(c) \/ \E m \in MutationIds : StartPrune(c, m)
      PROVE  FormsTypeOK'
  BY <1>4 DEF StartReplay, StartPrune, Saves, Overlap, formVars
<1>5. ASSUME NEW c \in Calls, NEW reply \in Replies, Send(c, reply) PROVE FormsTypeOK'
  <2>1. applied' \in [Forms -> 0..2]
    BY <1>5, AppliedType DEF Send
  <2>2. doubt' \subseteq Forms
    BY <1>5 DEF Send, FormOf
  <2> QED BY <1>5, <2>1, <2>2 DEF Send
<1>6. ASSUME NEW c \in Calls, Dies(c) PROVE FormsTypeOK'
  <2>1. form' \in [Forms -> FormState]
    BY <1>6 DEF Dies, FormState, FormPhases
  <2>2. doubt' \subseteq Forms
    BY <1>6 DEF Dies, FormOf
  <2> QED BY <1>6, <2>1, <2>2 DEF Dies
<1> QED BY <1>1, <1>2, <1>3, <1>4, <1>5, <1>6 DEF FormsNext

\* The first fetch settles: a form is told "synced" only if it was applied, and one
\* that is to be queued although it was applied is in doubt.
LEMMA PostStep ==
  ASSUME Inv, NEW g \in Forms, NEW answer \in Answers, Post(g, answer), NEW f \in Forms
  PROVE  FormInv(f)'
<1>1. FormInv(f) /\ FormInv(g) /\ FormsTypeOK
  BY DEF Inv, FormsInv
<1>2. \A m : Accepted(m)' = Accepted(m)
  BY DEF Post, vars, Accepted
<1>3. Saved' = Saved /\ overlapped' = overlapped
  BY DEF Post, vars, Saved
<1>4. PICK took \in MayHaveApplied(answer) :
        /\ applied' = AppliedBy(IF took THEN {g} ELSE {})
        /\ doubt' = IF took /\ AfterPost(answer) = "enqueueing" THEN doubt \cup {g} ELSE doubt
  BY DEF Post
<1>5. took \in BOOLEAN
  BY <1>4, AfterPostValue
<1>6. CASE f # g
  <2>1. applied'[f] = applied[f]
    BY <1>1, <1>4, <1>5, <1>6, AppliedType
  <2>2. form'[f] = form[f]
    BY <1>6 DEF Post
  <2>3. f \in doubt => f \in doubt'
    BY <1>4
  <2>4. form[f].at = "queued" => form[f].m \in Saved
    BY <1>1 DEF FormInv
  <2> QED BY <1>1, <1>2, <1>3, <2>1, <2>2, <2>3, <2>4, FormSame
<1>7. CASE f = g
  <2>1. /\ form[f].at = "posting" /\ form[f].m = 0 /\ applied[f] = 0
        /\ form'[f].at = AfterPost(answer) /\ form'[f].m = 0
    BY <1>1, <1>7 DEF Post, FormInv, FormsTypeOK, FormState
  <2>2. applied'[f] = IF took THEN 1 ELSE 0
    BY <1>1, <1>4, <1>5, <1>7, <2>1, AppliedType
  <2>3. AfterPost(answer) = "synced" => took
    BY <1>4, AfterPostValue
  <2>4. AfterPost(answer) \in {"synced", "enqueueing", "failed"}
    BY AfterPostValue
  <2>5. took /\ AfterPost(answer) = "enqueueing" => f \in doubt'
    BY <1>4, <1>7
  <2> QED BY <1>5, <2>1, <2>2, <2>3, <2>4, <2>5 DEF FormInv, AppliedInv
<1> QED BY <1>6, <1>7

\* A queue call that neither sends nor concerns form f, but to say how its mutation
\* ended.
LEMMA QueueCallStep ==
  ASSUME Inv, OrderInv', FormsNext, NEW c \in Calls,
         EnqueueLoad(c) \/ EnqueueSave(c) \/ ReplayLoad(c) \/ ReplaySave(c)
           \/ (\E k \in MutationIds : PruneLoad(c, k)) \/ PruneSave(c) \/ Abort(c),
         NEW f \in Forms, form'[f].m = form[f].m, applied' = applied,
         form'[f].at = form[f].at
           \/ (form[f].m # 0 /\ form'[f].at = "failed")
           \/ (form[f].m \in Saved' /\ form[f].m # 0 /\ form'[f].at = "queued"),
         doubt \subseteq doubt',
         Abort(c) /\ form[f].m \in call[c].succeeded /\ form[f].m # 0 => f \in doubt'
  PROVE  FormInv(f)'
<1>0. PICK m : form[f].m = m
  OBVIOUS
<1>1. FormInv(f) /\ FormsTypeOK /\ TypeOK /\ OrderInv
  BY DEF Inv, FormsInv
<1>2. m # 0 => m \in MutationIds
  BY <1>0, <1>1, BoundsAssumption DEF FormsTypeOK, FormState, MutationIds
<1>3. Saved \subseteq Saved'
  BY <1>1, SavedStays, QueueStep
<1>4. overlapped => overlapped'
  BY <1>1, OverlapStays
<1>5. m # 0 => /\ Accepted(m)' => Accepted(m)
               /\ Accepted(m) => Accepted(m)' \/ f \in doubt'
  BY <1>0, <1>1, <1>2, AcceptedStays
<1>6. form'[f].at = "queued" => m \in Saved'
  BY <1>0, <1>1, <1>3 DEF FormInv
<1> QED BY <1>0, <1>1, <1>4, <1>5, <1>6, FormSame

\* A form gets its mutation, which nothing can have delivered yet.
LEMMA QueueFormStep ==
  ASSUME Inv, OrderInv', FormsNext, NEW c \in Calls, NEW g \in Forms, QueueForm(g, c),
         NEW f \in Forms
  PROVE  FormInv(f)'
<1> USE BoundsAssumption
<1>1. FormInv(f) /\ FormsTypeOK /\ TypeOK /\ OrderInv /\ EnqueueLoad(c)
  BY DEF Inv, FormsInv, QueueForm
<1>2. applied' = applied /\ doubt' = doubt /\ (overlapped => overlapped')
  BY <1>1, OverlapStays DEF QueueForm
<1>3. CASE f # g
  <2>1. form'[f] = form[f]
    BY <1>3 DEF QueueForm
  <2>2. ~Abort(c)
    BY <1>1 DEF EnqueueLoad, Abort
  <2> QED BY <1>1, <1>2, <2>1, <2>2, QueueCallStep
<1>4. CASE f = g
  <2>1. /\ form[f].at = "enqueueing" /\ form[f].m = 0
        /\ form'[f].at = "enqueueing" /\ form'[f].m = issued + 1
    BY <1>1, <1>4 DEF QueueForm, FormsTypeOK, FormState
  <2>2. issued + 1 \in MutationIds /\ fate'[issued + 1] = "enqueueing"
    BY <1>1 DEF EnqueueLoad, TypeOK, MutationIds
  <2>3. PICK m : m = issued + 1
    OBVIOUS
  <2>4. ~Accepted(m)'
    <3>1. m \notin Saved'
      BY <2>2, <2>3 DEF Saved
    <3>2. \A d \in Calls : call'[d].succeeded \subseteq Saved'
      BY DEF OrderInv, CallOrder
    <3> QED BY <2>2, <2>3, <3>1, <3>2 DEF Accepted
  <2>5. overlapped \/ f \in doubt \/ applied[f] = 0
    BY <1>1, <2>1 DEF FormInv, AppliedInv
  <2>6. form'[f].m = m
    BY <2>1, <2>3
  <2>7. (form[f].m # 0 /\ Accepted(form[f].m) => applied[f] > 0)'
    BY <2>4, <2>6 DEF Accepted
  <2> QED BY <1>2, <2>1, <2>5, <2>7 DEF FormInv, AppliedInv
<1> QED BY <1>3, <1>4

\* The array with the mutation is saved, and its form told "queued".
LEMMA FormQueuedStep ==
  ASSUME Inv, OrderInv', FormsNext, NEW c \in Calls, FormQueued(c), NEW f \in Forms
  PROVE  FormInv(f)'
<1>1. FormsTypeOK /\ TypeOK /\ OrderInv /\ EnqueueSave(c)
  BY DEF Inv, FormsInv, FormQueued
<1>2. applied' = applied /\ doubt' = doubt
  BY DEF FormQueued
<1>3. ~Abort(c)
  BY <1>1, BoundsAssumption DEF EnqueueSave, Abort, TypeOK
<1>4. form'[f].m = form[f].m
  BY <1>1 DEF FormQueued, FormsTypeOK, FormState
<1>5. form'[f].at = form[f].at
        \/ (form[f].m \in Saved' /\ form[f].m # 0 /\ form'[f].at = "queued")
  <2>1. CASE f \in FormOf(call[c].id)
    <3>1. form[f].m = call[c].id /\ form[f].m # 0 /\ form'[f].at = "queued"
      BY <1>1, <2>1 DEF FormQueued, FormOf, FormsTypeOK, FormState
    <3>2. call[c].id \in Saved'
      BY <1>1 DEF EnqueueSave, TypeOK, Saved
    <3> QED BY <3>1, <3>2
  <2>2. CASE f \notin FormOf(call[c].id)
    BY <2>2 DEF FormQueued
  <2> QED BY <2>1, <2>2
<1> QED BY <1>1, <1>2, <1>3, <1>4, <1>5, QueueCallStep

\* The other calls of the queue tell a form nothing, but that its enqueue died; what
\* a replay that dies has delivered is in doubt.
LEMMA OtherCallStep ==
  ASSUME Inv, OrderInv', FormsNext, NEW c \in Calls,
         StartReplay(c) \/ Saves(c) \/ (\E k \in MutationIds : StartPrune(c, k)) \/ Dies(c),
         NEW f \in Forms
  PROVE  FormInv(f)'
<1>1. FormsTypeOK /\ TypeOK /\ OrderInv
  BY DEF Inv, FormsInv
<1>2. CASE Dies(c)
  <2>1. Abort(c) /\ applied' = applied /\ doubt \subseteq doubt'
    BY <1>2 DEF Dies
  <2>2. form'[f].m = form[f].m
    BY <1>1, <1>2 DEF Dies, FormsTypeOK, FormState
  <2>3. form'[f].at = form[f].at \/ (form[f].m # 0 /\ form'[f].at = "failed")
    BY <1>1, <1>2 DEF Dies, FormOf, FormsTypeOK, FormState
  <2>4. form[f].m \in call[c].succeeded /\ form[f].m # 0 => f \in doubt'
    BY <1>2 DEF Dies, FormOf
  <2> QED BY <2>1, <2>2, <2>3, <2>4, QueueCallStep
<1>3. CASE ~Dies(c)
  <2>1. form' = form /\ applied' = applied /\ doubt' = doubt
    BY <1>3 DEF StartReplay, StartPrune, Saves, formVars
  <2>2. ReplayLoad(c) \/ ReplaySave(c) \/ PruneSave(c) \/ \E k \in MutationIds : PruneLoad(c, k)
    BY <1>3 DEF StartReplay, StartPrune, Saves
  <2>3. ~Abort(c)
    <3>1. aborts' = aborts /\ aborts \in Nat
      BY <1>1, <2>2 DEF ReplayLoad, ReplaySave, PruneSave, PruneLoad, TypeOK
    <3> QED BY <3>1 DEF Abort
  <2> QED BY <2>1, <2>2, <2>3, QueueCallStep
<1> QED BY <1>2, <1>3

\* A replay sends a mutation: its form's count goes up, and if nobody else is at work on
\* the array, it had not been accepted before.
LEMMA SendStep ==
  ASSUME Inv, NEW c \in Calls, NEW reply \in Replies, Send(c, reply), NEW f \in Forms
  PROVE  FormInv(f)'
<1> USE BoundsAssumption
<1> DEFINE sent == call[c].all[call[c].next]
<1>1. FormInv(f) /\ FormsTypeOK /\ TypeOK /\ OrderInv /\ ReplayFetch(c, reply)
  BY DEF Inv, FormsInv, Send
<1>2. /\ form' = form /\ overlapped' = overlapped /\ fate' = fate /\ Saved' = Saved
      /\ call[c].phase = "replay" /\ call[c] \in CallState /\ CallOrder(c)
      /\ call[c].next <= Len(call[c].all)
  BY <1>1 DEF Send, ReplayFetch, OrderInv, TypeOK, Saved
<1>3. PICK m : form[f].m = m
  OBVIOUS
<1>4. PICK took \in MayHaveApplied(IF reply = "transient" THEN "network" ELSE reply) :
        /\ applied' = AppliedBy(IF took THEN FormOf(sent.id) ELSE {})
        /\ doubt' = IF took /\ reply = "transient" THEN doubt \cup FormOf(sent.id) ELSE doubt
  BY DEF Send
<1>5. took \in BOOLEAN /\ (reply = "ok" => took) /\ (reply = "client" => ~took)
  BY <1>4 DEF MayHaveApplied, Replies
<1>6. /\ call'[c].phase = "replay"
      /\ call'[c].succeeded = IF reply = "ok" THEN call[c].succeeded \cup {sent.id}
                                              ELSE call[c].succeeded
      /\ \A d \in Calls : d # c => call'[d] = call[d]
  BY <1>1, <1>2 DEF ReplayFetch, TypeOK, CallState
<1>7. Accepted(m)' <=> Accepted(m) \/ (reply = "ok" /\ m = sent.id)
  BY <1>2, <1>6 DEF Accepted
<1>8. f \in FormOf(sent.id) <=> m = sent.id /\ m # 0
  BY <1>3 DEF FormOf
<1> HIDE DEF sent
<1>9. f \in doubt => f \in doubt'
  BY <1>4
<1>10. CASE ~(took /\ m = sent.id /\ m # 0)
  <2>1. applied'[f] = applied[f]
    BY <1>1, <1>4, <1>8, <1>10, AppliedType
  <2>2. m # 0 => (Accepted(m)' <=> Accepted(m))
    BY <1>5, <1>7, <1>10
  <2>3. form[f].at = "queued" => m \in Saved'
    BY <1>1, <1>2, <1>3 DEF FormInv
  <2> QED BY <1>1, <1>2, <1>3, <1>9, <2>1, <2>2, <2>3, FormSame
<1>11. CASE took /\ m = sent.id /\ m # 0
  <2>1. applied'[f] > 0 /\ (applied[f] = 0 => applied'[f] = 1)
    BY <1>1, <1>4, <1>8, <1>11, AppliedType
  <2>2. form'[f] = form[f] /\ form'[f].m = m /\ form'[f].at \notin {"posting", "synced"}
    BY <1>1, <1>2, <1>3, <1>11 DEF FormInv
  <2>3. reply # "ok" => f \in doubt'
    BY <1>4, <1>5, <1>8, <1>11 DEF Replies
  <2>4. ~overlapped => ~Accepted(m)
    <3> SUFFICES ASSUME ~overlapped PROVE ~Accepted(m)
      OBVIOUS
    <3>1. Alone /\ SerialInv
      BY DEF Inv, FormsInv
    <3>2. call[c].all = store /\ SentSoFar(c) = Ids(call[c].remaining) \cup call[c].succeeded
      BY <1>2, <3>1 DEF SerialInv
    <3>3. call[c].all \in Seq(Mutation) /\ call[c].next \in 1..Len(call[c].all)
      BY <1>2, LenProperties DEF CallState
    <3>4. sent \in Mutation /\ sent.id \in Ids(store) /\ sent.id \in MutationIds
      <4>1. sent \in Mutation
        BY <3>3, ElementOfSeq DEF sent
      <4>2. sent.id \in Ids(store)
        BY <3>2, <3>3, IdsMember DEF sent
      <4> QED BY <4>1, <4>2 DEF Mutation
    <3>5. fate[m] = "queued"
      BY <1>11, <3>1, <3>4 DEF SerialInv, StoreIsQueued
    <3>6. m \notin call[c].succeeded
      <4>1. \A k \in SentSoFar(c) : k < sent.id
        BY <1>1, <1>2, SentBelow DEF sent
      <4> QED BY <1>11, <3>2, <3>4, <4>1 DEF MutationIds
    <3>7. \A d \in Calls : call[d].phase = "replay" => d = c
      BY <1>2, <3>1 DEF Alone
    <3> QED BY <3>5, <3>6, <3>7 DEF Accepted
  <2>5. AppliedInv(f)'
    <3>1. CASE overlapped \/ f \in doubt \/ reply # "ok"
      BY <1>2, <1>9, <2>3, <3>1 DEF AppliedInv
    <3>2. CASE ~overlapped /\ f \notin doubt /\ reply = "ok"
      <4>1. applied[f] = 0
        BY <1>1, <1>3, <1>11, <2>4, <3>2 DEF FormInv, AppliedInv
      <4>2. Accepted(m)'
        BY <1>7, <1>11, <3>2
      <4>3. (Accepted(form[f].m))'
        BY <2>2, <4>2 DEF Accepted
      <4> QED BY <2>1, <2>2, <4>1, <4>3, <1>11 DEF AppliedInv
    <3> QED BY <3>1, <3>2
  <2>6. form[f].at = "queued" => form[f].m \in Saved'
    BY <1>1, <1>2 DEF FormInv
  <2> QED BY <2>1, <2>2, <2>5, <2>6 DEF FormInv
<1> QED BY <1>10, <1>11

-----------------------------------------------------------------------------
(* The invariant.                                                          *)

\* A queue whose calls have not overlapped is that of a single writer.
LEMMA SerialFormsStep ==
  ASSUME Inv, OrderInv', FormsNext
  PROVE  overlapped' \/ (Alone' /\ SerialInv')
<1> SUFFICES ASSUME ~overlapped' PROVE Alone' /\ SerialInv'
  OBVIOUS
<1>1. ~overlapped /\ Alone /\ SerialInv /\ TypeOK /\ FormsTypeOK
  BY OverlapStays DEF Inv, FormsInv
<1>2. Alone'
  BY <1>1, AloneStep
<1> QED BY <1>1, <1>2, SerialStep, QueueStep

\* No form has been told, or sent, anything yet.
LEMMA InitForms == FormsInit => FormsInv
<1> SUFFICES ASSUME FormsInit PROVE FormsInv
  OBVIOUS
<1>1. FormsTypeOK
  <2>1. [at |-> "posting", m |-> 0] \in FormState
    BY BoundsAssumption DEF FormState, FormPhases
  <2>2. form \in [Forms -> FormState]
    BY <2>1 DEF FormsInit
  <2>3. applied \in [Forms -> 0..2]
    BY DEF FormsInit
  <2> QED BY <2>2, <2>3 DEF FormsInit, FormsTypeOK
<1>2. Alone /\ SerialInv
  BY InitSerial DEF FormsInit, Init, Alone, Idle
<1>3. \A f \in Forms : FormInv(f)
  BY DEF FormsInit, FormInv, AppliedInv
<1> QED BY <1>1, <1>2, <1>3 DEF FormsInv

\* Every step of the forms keeps their invariant.
LEMMA FormsInvStep == TypeOK /\ OrderInv /\ OrderInv' /\ FormsInv /\ [FormsNext]_allVars => FormsInv'
<1> SUFFICES ASSUME TypeOK, OrderInv, OrderInv', FormsInv, [FormsNext]_allVars
             PROVE  FormsInv'
  OBVIOUS
<1>1. CASE FormsNext
  <2>1. Inv
    BY DEF Inv
  <2>2. FormsTypeOK' /\ (overlapped' \/ (Alone' /\ SerialInv'))
    BY <1>1, <2>1, FormsTypeStep, SerialFormsStep DEF Inv, FormsInv
  <2>3. ASSUME NEW f \in Forms PROVE FormInv(f)'
    <3>1. CASE \E g \in Forms, answer \in Answers : Post(g, answer)
      BY <2>1, <3>1, PostStep
    <3>2. CASE \E c \in Calls, g \in Forms : QueueForm(g, c)
      BY <1>1, <2>1, <3>2, QueueFormStep
    <3>3. CASE \E c \in Calls : FormQueued(c)
      BY <1>1, <2>1, <3>3, FormQueuedStep
    <3>4. CASE \E c \in Calls, reply \in Replies : Send(c, reply)
      BY <2>1, <3>4, SendStep
    <3>5. CASE \E c \in Calls : StartReplay(c) \/ Saves(c) \/ Dies(c)
                               \/ \E m \in MutationIds : StartPrune(c, m)
      BY <1>1, <2>1, <3>5, OtherCallStep
    <3> QED BY <1>1, <3>1, <3>2, <3>3, <3>4, <3>5 DEF FormsNext
  <2> QED BY <2>2, <2>3 DEF FormsInv
<1>2. CASE UNCHANGED allVars
  <2>1. FormsTypeOK' /\ (overlapped' \/ (Alone' /\ SerialInv'))
    BY <1>2 DEF allVars, vars, formVars, FormsInv, FormsTypeOK, Alone, SerialInv, StoreIsQueued,
                SentSoFar
  <2>2. \A f \in Forms : FormInv(f)'
    BY <1>2 DEF allVars, vars, formVars, FormsInv, FormInv, AppliedInv, Accepted, Saved
  <2> QED BY <2>1, <2>2 DEF FormsInv
<1> QED BY <1>1, <1>2

\* The invariant holds of every behaviour, for any forms, slots, mutations and deaths.
LEMMA FormsInvariant == FormsSpec => []FormsInv
BY InitForms, FormsInvStep, FormsUseQueue, TypeCorrect, OrderInvariant, PTL DEF FormsSpec

\* However queue calls overlap and die and answers get lost, what withOffline told a form
\* was synced has been applied once and is nowhere to be sent again.
THEOREM SyncedStaysOnce == FormsSpec => []SyncedOnce
<1>1. FormsInv => SyncedOnce
  BY DEF FormsInv, FormInv, SyncedOnce
<1> QED BY <1>1, FormsInvariant, PTL

\* The server applies a form twice only after an application nobody told the queue of, or
\* after queue calls have overlapped.
THEOREM RepeatsExplained == FormsSpec => []RepeatsNeedDoubt
<1>1. FormsInv => RepeatsNeedDoubt
  BY DEF FormsInv, FormInv, AppliedInv, RepeatsNeedDoubt
<1> QED BY <1>1, FormsInvariant, PTL

\* What a form was told is queued is in the array, applied or dismissed, unless queue
\* calls have overlapped.
THEOREM LossExplained == FormsSpec => []LossNeedsOverlap
<1>1. FormsInv /\ TypeOK => LossNeedsOverlap
  <2> SUFFICES ASSUME FormsInv, TypeOK, NEW f \in Forms, form[f].at = "queued", ~overlapped,
                      fate[form[f].m] # "pruned", form[f].m \notin Ids(store)
               PROVE  applied[f] > 0
    BY DEF LossNeedsOverlap
  <2>1. FormInv(f) /\ SerialInv
    BY DEF FormsInv
  <2>2. form[f].m \in Saved /\ form[f].m # 0
    BY <2>1, BoundsAssumption DEF FormInv, Saved, MutationIds
  <2>3. fate[form[f].m] = "delivered"
    BY <2>1, <2>2 DEF Saved, SerialInv, StoreIsQueued
  <2> QED BY <2>1, <2>2, <2>3 DEF FormInv, Accepted
<1> QED BY <1>1, FormsInvariant, FormsUseQueue, TypeCorrect, PTL

=============================================================================
