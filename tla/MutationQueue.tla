--------------------------- MODULE MutationQueue ---------------------------
(***************************************************************************)
(* The offline mutation queue of packages/offline-store: one array kept    *)
(* under a single IndexedDB key, which every operation reads whole and     *)
(* writes back whole.                                                      *)
(*                                                                         *)
(* idb-keyval's get and set are one IndexedDB transaction each, so a load  *)
(* and a save are atomic; anything may run between a load and the save     *)
(* that follows it.  A call slot is one invocation of enqueue, replay or   *)
(* prune in some page or service worker.  With one slot the module is the  *)
(* single-writer mode the source's header assumes; with several it is what *)
(* the code allows.                                                        *)
(***************************************************************************)
EXTENDS Naturals, Sequences

CONSTANTS
  Calls,          \* call slots: how many queue operations may overlap
  MaxMutations,   \* bound: mutations enqueued in a behaviour
  RetryCap,       \* bound: the value at which the counter "retries" saturates
  MaxAborts       \* bound: calls that die between their load and their save

ASSUME BoundsAssumption ==
  /\ MaxMutations \in Nat
  /\ RetryCap \in Nat \ {0}
  /\ MaxAborts \in Nat

VARIABLES
  store,    \* the array in IndexedDB
  call,     \* call[c]: the local variables of the operation in slot c
  issued,   \* how many mutation ids have been handed out
  fate,     \* history: what became of each mutation
  aborts    \* how many calls have died

vars == <<store, call, issued, fate, aborts>>

-----------------------------------------------------------------------------
(* crypto.randomUUID() is abstracted to a number: ids are numbered in the  *)
(* order in which their enqueue loads the array.                           *)
MutationIds == 1..MaxMutations

Errors == {"none", "client", "transient"}

Mutation == [id : MutationIds, retries : 0..RetryCap, lastError : Errors]

\* What a fetcher reports: 2xx or 3xx, 4xx, anything else or an exception.
Replies == {"ok", "client", "transient"}

Fates == {"unused", "enqueueing", "queued", "failed", "delivered", "pruned"}

Phases == {"idle", "enqueue", "replay", "prune"}

CallState == [phase     : Phases,
              all       : Seq(Mutation),
              next      : Nat \ {0},
              remaining : Seq(Mutation),
              succeeded : SUBSET MutationIds,
              id        : 0..MaxMutations]

Idle == [phase |-> "idle", all |-> <<>>, next |-> 1, remaining |-> <<>>,
         succeeded |-> {}, id |-> 0]

Ids(s) == {s[i].id : i \in 1..Len(s)}

Fresh(m) == [id |-> m, retries |-> 0, lastError |-> "none"]

\* Faulty variants stand next to the definition they vary: each shows that one
\* of the properties below can fail.  This one counts retries down.
MarkedCountsDown(m, reply) ==
  IF reply = "client"
  THEN [m EXCEPT !.lastError = "client"]
  ELSE [m EXCEPT !.lastError = "transient", !.retries = @ - 1]

\* Faulty: a client error starts the count again.
MarkedResets(m, reply) ==
  [m EXCEPT !.lastError = reply,
            !.retries = IF reply = "client" THEN 0
                        ELSE IF @ < RetryCap THEN @ + 1 ELSE RetryCap]

\* A replayed mutation that stays in the queue, with the error it is kept for.
Marked(m, reply) ==
  IF reply = "client"
  THEN [m EXCEPT !.lastError = "client"]
  ELSE [m EXCEPT !.lastError = "transient",
                 !.retries = IF @ < RetryCap THEN @ + 1 ELSE RetryCap]

\* Faulty: a client error is given up on instead of kept for the user.
KeptOnlyTransient(m, reply) ==
  IF reply = "transient" THEN <<Marked(m, reply)>> ELSE <<>>

\* Faulty: everything stays in the array until it is pruned.
KeptAlways(m, reply) == <<Marked(m, reply)>>

\* Faulty: a mutation that failed is put back as it was loaded.
KeptAsLoaded(m, reply) == IF reply = "ok" THEN <<>> ELSE <<m>>

\* What the replay loop keeps of a mutation once its reply is known.
Kept(m, reply) == IF reply = "ok" THEN <<>> ELSE <<Marked(m, reply)>>

\* Faulty: all.unshift(queued)
PushedFirst(all, m) == <<Fresh(m)>> \o all

\* all.push(queued)
Pushed(all, m) == Append(all, Fresh(m))

\* Faulty: all.slice(0, position), which drops what was enqueued later too.
WithoutLater(all, m) ==
  IF m \notin Ids(all)
  THEN all
  ELSE LET at == CHOOSE i \in 1..Len(all) : all[i].id = m
       IN  SubSeq(all, 1, at - 1)

\* all.filter((m) => m.id !== id), for an array that holds no id twice.
Without(all, m) ==
  IF m \notin Ids(all)
  THEN all
  ELSE LET at == CHOOSE i \in 1..Len(all) : all[i].id = m
       IN  [j \in 1..(Len(all) - 1) |-> IF j < at THEN all[j] ELSE all[j + 1]]

\* A call that has loaded the array.
Begun(phase, id) == [Idle EXCEPT !.phase = phase, !.all = store, !.id = id]

Init ==
  /\ store = <<>>
  /\ call = [c \in Calls |-> Idle]
  /\ issued = 0
  /\ fate = [m \in MutationIds |-> "unused"]
  /\ aborts = 0

-----------------------------------------------------------------------------
\* Faulty: pushes onto a shared array that the next save will write.
EnqueueLoadShared(c) ==
  /\ call[c].phase = "idle"
  /\ issued < MaxMutations
  /\ issued' = issued + 1
  /\ store' = Pushed(store, issued + 1)
  /\ call' = [call EXCEPT ![c] = Begun("enqueue", issued + 1)]
  /\ fate' = [fate EXCEPT ![issued + 1] = "enqueueing"]
  /\ UNCHANGED aborts

\* enqueue: build the record, load the array ...
EnqueueLoad(c) ==
  /\ call[c].phase = "idle"
  /\ issued < MaxMutations
  /\ issued' = issued + 1
  /\ call' = [call EXCEPT ![c] = Begun("enqueue", issued + 1)]
  /\ fate' = [fate EXCEPT ![issued + 1] = "enqueueing"]
  /\ UNCHANGED <<store, aborts>>

\* ... then save it with the record pushed; the caller is told it is queued.
EnqueueSave(c) ==
  /\ call[c].phase = "enqueue"
  /\ store' = Pushed(call[c].all, call[c].id)
  /\ fate' = [fate EXCEPT ![call[c].id] = "queued"]
  /\ call' = [call EXCEPT ![c] = Idle]
  /\ UNCHANGED <<issued, aborts>>

ReplayLoad(c) ==
  /\ call[c].phase = "idle"
  /\ call' = [call EXCEPT ![c] = Begun("replay", 0)]
  /\ UNCHANGED <<store, issued, fate, aborts>>

\* One iteration of the loop over the loaded array: send, classify the reply.
ReplayFetch(c, reply) ==
  /\ call[c].phase = "replay"
  /\ call[c].next <= Len(call[c].all)
  /\ LET m == call[c].all[call[c].next]
     IN  call' = [call EXCEPT
           ![c].next = @ + 1,
           ![c].succeeded = IF reply = "ok" THEN @ \cup {m.id} ELSE @,
           ![c].remaining = @ \o Kept(m, reply)]
  /\ UNCHANGED <<store, issued, fate, aborts>>

ReplaySave(c) ==
  /\ call[c].phase = "replay"
  /\ call[c].next > Len(call[c].all)
  /\ store' = call[c].remaining
  /\ fate' = [m \in MutationIds |->
                IF m \in call[c].succeeded THEN "delivered" ELSE fate[m]]
  /\ call' = [call EXCEPT ![c] = Idle]
  /\ UNCHANGED <<issued, aborts>>

\* prune: the user dismisses a mutation whose enqueue has returned.
PruneLoad(c, m) ==
  /\ call[c].phase = "idle"
  /\ fate[m] \in {"queued", "delivered", "pruned"}
  /\ call' = [call EXCEPT ![c] = Begun("prune", m)]
  /\ UNCHANGED <<store, issued, fate, aborts>>

PruneSave(c) ==
  /\ call[c].phase = "prune"
  /\ store' = Without(call[c].all, call[c].id)
  /\ fate' = [fate EXCEPT ![call[c].id] = IF @ = "queued" THEN "pruned" ELSE @]
  /\ call' = [call EXCEPT ![c] = Idle]
  /\ UNCHANGED <<issued, aborts>>

\* The tab or worker goes away, or an IndexedDB transaction is refused: the
\* call ends without its save and all it did in memory is lost.
Abort(c) ==
  /\ call[c].phase # "idle"
  /\ aborts < MaxAborts
  /\ aborts' = aborts + 1
  /\ fate' = [m \in MutationIds |->
                IF call[c].phase = "enqueue" /\ m = call[c].id THEN "failed" ELSE fate[m]]
  /\ call' = [call EXCEPT ![c] = Idle]
  /\ UNCHANGED <<store, issued>>

Next ==
  \E c \in Calls :
    \/ EnqueueLoad(c)
    \/ EnqueueSave(c)
    \/ ReplayLoad(c)
    \/ \E reply \in Replies : ReplayFetch(c, reply)
    \/ ReplaySave(c)
    \/ \E m \in MutationIds : PruneLoad(c, m)
    \/ PruneSave(c)
    \/ Abort(c)

Spec == Init /\ [][Next]_vars

\* The send of mutation m that succeeds.
Delivers(c, m) ==
  /\ ReplayFetch(c, "ok")
  /\ call[c].all[call[c].next].id = m

\* The user dismisses mutation m, which is still in the array.
Dismisses(c, m) == PruneLoad(c, m) /\ m \in Ids(store)

\* A promise that is awaited settles; the embedding page replays again and
\* again, as the queue's header and the README's usage section ask of it; and
\* a mutation sent over and over is accepted or, if the server keeps refusing
\* it, dismissed by the user at some point.
Fairness ==
  \A c \in Calls :
    /\ WF_vars(EnqueueSave(c))
    /\ WF_vars(ReplaySave(c))
    /\ WF_vars(PruneSave(c))
    /\ WF_vars(\E reply \in Replies : ReplayFetch(c, reply))
    /\ SF_vars(ReplayLoad(c))
    /\ \A m \in MutationIds : SF_vars(Delivers(c, m) \/ Dismisses(c, m))

FairSpec == Spec /\ Fairness

-----------------------------------------------------------------------------
TypeOK ==
  /\ store \in Seq(Mutation)
  /\ call \in [Calls -> CallState]
  /\ \A c \in Calls : call[c].phase \in {"enqueue", "prune"} => call[c].id \in MutationIds
  /\ issued \in 0..MaxMutations
  /\ fate \in [MutationIds -> Fates]
  /\ aborts \in 0..MaxAborts

Increasing(s) == \A i, j \in 1..Len(s) : i < j => s[i].id < s[j].id

\* However enqueue, replay and prune overlap, the array lists mutations in the
\* order in which their enqueues loaded it, each at most once, and so does
\* every copy of it that a call in progress holds (the FIFO the header of
\* mutation-queue.ts promises, which "last writer wins" does not break).
InsertionOrder ==
  /\ Increasing(store)
  /\ \A c \in Calls : Increasing(call[c].all) /\ Increasing(call[c].remaining)

\* However calls overlap, the array never shows a mutation whose enqueue has
\* not saved it: one still being enqueued, or whose enqueue died.
UnsavedNeverStored ==
  \A m \in Ids(store) : fate[m] \in {"queued", "delivered", "pruned"}

\* A mutation whose enqueue returned and that was neither delivered nor pruned
\* is in the array: nothing a form was told is queued gets lost.
NoLostMutation ==
  \A m \in MutationIds : fate[m] = "queued" => m \in Ids(store)

\* With one writer at a time the array holds exactly the mutations that were
\* accepted and are neither delivered nor dismissed: none is lost, and none
\* that was delivered or dismissed comes back to be sent a second time, though
\* calls may die between their load and their save.
StoreIsQueued ==
  \A m \in MutationIds : fate[m] = "queued" <=> m \in Ids(store)

\* t counts no fewer retries than s for any mutation both of them list.
KeepsRetries(s, t) ==
  \A i \in 1..Len(s), j \in 1..Len(t) : s[i].id = t[j].id => s[i].retries <= t[j].retries

\* With one writer at a time no step lowers the retries recorded for a
\* mutation, whatever passes die and whichever of them end in a client error.
RetriesNeverForgotten == [][KeepsRetries(store, store')]_vars

\* The array records that mutation k was sent once more and refused.
FailedAgain(k) ==
  \E i \in 1..Len(store), j \in 1..Len(store'), reply \in Replies \ {"ok"} :
    store[i].id = k /\ store'[j] = Marked(store[i], reply)

\* A replay goes on after a failure, so mutations are delivered out of order; with
\* one writer at a time a pass that delivers one has sent all that are owed, and the
\* lastError and retries of each that stays tell so: nothing is passed over unseen.
NothingPassedOver ==
  [][\A k, m \in MutationIds :
       fate[k] = "queued" /\ fate[m] = "queued" /\ fate'[m] = "delivered"
         => fate'[k] = "delivered" \/ FailedAgain(k)]_vars

\* What forms rely on: the ids in the array are what is owed, the mutations that
\* were delivered or dismissed are settled.
Settled == {m \in MutationIds : fate[m] \in {"delivered", "pruned"}}

Outbox == INSTANCE DurableOutbox
            WITH Mutations <- MutationIds, owed <- Ids(store), settled <- Settled

\* With one writer at a time the queue is a durable outbox: although loads and
\* saves are apart and calls die between them, every step accepts one mutation
\* or settles some of those owed, or changes nothing a form relies on.
ImplementsOutbox == Outbox!Spec

\* The inductive invariant behind InsertionOrder and UnsavedNeverStored: every
\* copy of the array holds saved mutations only, an enqueue in progress owns an
\* id above all those it loaded, and a replay keeps what it has already sent.
Saved == {m \in MutationIds : fate[m] \in {"queued", "delivered", "pruned"}}

SentSoFar(c) == {call[c].all[i].id : i \in 1..(call[c].next - 1)}

CallOrder(c) ==
  /\ Increasing(call[c].all)
  /\ Increasing(call[c].remaining)
  /\ Ids(call[c].all) \subseteq Saved
  /\ call[c].succeeded \subseteq Saved
  /\ call[c].next <= Len(call[c].all) + 1
  /\ Ids(call[c].remaining) \subseteq SentSoFar(c)
  /\ call[c].phase = "enqueue"
       => /\ call[c].id \in MutationIds
          /\ fate[call[c].id] = "enqueueing"
          /\ \A m \in Ids(call[c].all) : m < call[c].id
  /\ call[c].phase = "prune" => call[c].id \in Saved

OrderInv ==
  /\ Increasing(store)
  /\ Ids(store) \subseteq Saved
  /\ \A m \in MutationIds : fate[m] = "unused" <=> issued < m
  /\ \A c \in Calls : CallOrder(c)
  /\ \A c, d \in Calls :
       call[c].phase = "enqueue" /\ call[d].phase = "enqueue" /\ call[c].id = call[d].id
         => c = d

\* The inductive invariant behind StoreIsQueued: the one call in progress works
\* on a copy equal to the array, an enqueue holds the last id handed out, and a
\* replay has either kept or delivered each mutation it has sent, never both.
SingleWriter == \A c, d \in Calls : c = d

Alone ==
  \A c, d \in Calls : call[c].phase # "idle" /\ call[d].phase # "idle" => c = d

SerialInv ==
  /\ OrderInv
  /\ StoreIsQueued
  /\ \A c \in Calls : call[c].phase # "idle" => call[c].all = store
  /\ \A c \in Calls : call[c].phase = "enqueue" => call[c].id = issued
  /\ \A c \in Calls : call[c].phase = "replay"
       => /\ SentSoFar(c) = Ids(call[c].remaining) \cup call[c].succeeded
          /\ Ids(call[c].remaining) \cap call[c].succeeded = {}

\* Behind RetriesNeverForgotten: what a replay in progress keeps has counted on
\* from the array it loaded.
RetryInv == \A c \in Calls : KeepsRetries(call[c].all, call[c].remaining)

\* Everything in kept carries the mark of a refusal of something in all.
AllMarked(all, kept) ==
  \A j \in 1..Len(kept) :
    \E i \in 1..Len(all), reply \in Replies \ {"ok"} : kept[j] = Marked(all[i], reply)

\* Behind NothingPassedOver: all that a replay in progress keeps carries the
\* mark of the reply it has just been given.
MarkInv ==
  \A c \in Calls : call[c].phase = "replay" => AllMarked(call[c].all, call[c].remaining)

\* A mutation the server answered with a 4xx is never the one a replay is about
\* to send: "client error, do NOT retry" (header of mutation-queue.ts).
ClientErrorNotResent ==
  \A c \in Calls :
    call[c].phase = "replay" /\ call[c].next <= Len(call[c].all)
      => call[c].all[call[c].next].lastError # "client"

\* A mutation in the array leaves it, although replays keep failing on it or on
\* those before it, passes die and new mutations keep arriving.
QueueDrains ==
  \A m \in MutationIds : m \in Ids(store) ~> m \notin Ids(store)

=============================================================================
