---------------------------- MODULE OfflineForms ----------------------------
(***************************************************************************)
(* Forms that must survive a dead network: withOffline posts each one and  *)
(* queues it when the answer is a 5xx or a network error it recognises;    *)
(* pages and the service worker replay the queue, side by side.  The       *)
(* server, which may apply a request whose answer never arrives, is        *)
(* outside.  The queue's own steps are those of MutationQueue.             *)
(***************************************************************************)
EXTENDS MutationQueue

CONSTANT
  Forms           \* submissions of a form, one call of mutate() each

VARIABLES
  form,       \* form[f]: what mutate() has told the form, and its mutation's id
  applied,    \* applied[f]: how often the server applied it (0, 1, or more: 2)
  doubt,      \* history: forms whose application went unreported to the queue
  overlapped  \* history: a queue call began while another was in progress

formVars == <<form, applied, doubt, overlapped>>
allVars == <<vars, formVars>>

-----------------------------------------------------------------------------
(* "posting" is the await of fetch, "enqueueing" the await of enqueue; the  *)
(* others are how mutate() ends: data, { kind: 'queued' }, or onError.      *)
FormPhases == {"posting", "enqueueing", "synced", "queued", "failed"}

FormState == [at : FormPhases, m : 0..MaxMutations]

\* What comes back from fetch: a readable 2xx or 3xx, one whose body is not
\* JSON, a 4xx, a 5xx, a TypeError with a message the code recognises, and any
\* other rejection ("Load failed", an aborted request).
Answers == {"ok", "unreadable", "client", "server", "network", "unrecognised"}

\* Whether the server can have applied the request behind an answer.
MayHaveApplied(answer) ==
  CASE answer \in {"ok", "unreadable"} -> {TRUE}
    [] answer = "client"               -> {FALSE}
    [] OTHER                           -> BOOLEAN

\* Faulty: an error of the server is taken for an answer.
AfterPostAnyAnswer(answer) ==
  CASE answer \in {"ok", "server"} -> "synced"
    [] answer = "network"          -> "enqueueing"
    [] OTHER                       -> "failed"

\* What withOffline makes of it.
AfterPost(answer) ==
  CASE answer = "ok"                   -> "synced"
    [] answer \in {"server", "network"} -> "enqueueing"
    [] OTHER                           -> "failed"

FormOf(m) == {f \in Forms : form[f].m = m /\ m # 0}

\* The server applies the requests of the forms in fs once more; twice is as bad as
\* more.
AppliedBy(fs) == [f \in Forms |-> IF f \in fs /\ applied[f] < 2 THEN applied[f] + 1 ELSE applied[f]]

FormsInit ==
  /\ Init
  /\ form = [f \in Forms |-> [at |-> "posting", m |-> 0]]
  /\ applied = [f \in Forms |-> 0]
  /\ doubt = {}
  /\ overlapped = FALSE

-----------------------------------------------------------------------------
\* The first fetch of form f settles.
Post(f, answer) ==
  /\ form[f].at = "posting"
  /\ form' = [form EXCEPT ![f].at = AfterPost(answer)]
  /\ \E took \in MayHaveApplied(answer) :
       /\ applied' = AppliedBy(IF took THEN {f} ELSE {})
       /\ doubt' = IF took /\ AfterPost(answer) = "enqueueing" THEN doubt \cup {f} ELSE doubt
  /\ UNCHANGED <<vars, overlapped>>

\* A queue call begins in slot c.
Overlap(c) == overlapped' = (overlapped \/ \E d \in Calls \ {c} : call[d].phase # "idle")

\* enqueue on behalf of form f, up to its load ...
QueueForm(f, c) ==
  /\ form[f].at = "enqueueing"
  /\ form[f].m = 0
  /\ EnqueueLoad(c)
  /\ form' = [form EXCEPT ![f].m = issued + 1]
  /\ Overlap(c)
  /\ UNCHANGED <<applied, doubt>>

\* ... and its save, after which the form is told "queued".
FormQueued(c) ==
  /\ EnqueueSave(c)
  /\ form' = [f \in Forms |->
                IF f \in FormOf(call[c].id) THEN [form[f] EXCEPT !.at = "queued"] ELSE form[f]]
  /\ UNCHANGED <<applied, doubt, overlapped>>

StartReplay(c) ==
  /\ ReplayLoad(c)
  /\ Overlap(c)
  /\ UNCHANGED <<form, applied, doubt>>

\* The replay sends its next mutation; the server may apply it and fail to say so.
Send(c, reply) ==
  /\ ReplayFetch(c, reply)
  /\ LET fs == FormOf(call[c].all[call[c].next].id)
     IN  \E took \in MayHaveApplied(IF reply = "transient" THEN "network" ELSE reply) :
           /\ applied' = AppliedBy(IF took THEN fs ELSE {})
           /\ doubt' = IF took /\ reply = "transient" THEN doubt \cup fs ELSE doubt
  /\ UNCHANGED <<form, overlapped>>

StartPrune(c, m) ==
  /\ PruneLoad(c, m)
  /\ Overlap(c)
  /\ UNCHANGED <<form, applied, doubt>>

\* A call of the queue dies: an enqueue's form gets the error (or is gone with
\* its page), a replay's deliveries stay unrecorded.
Dies(c) ==
  /\ Abort(c)
  /\ form' = [f \in Forms |->
                IF call[c].phase = "enqueue" /\ f \in FormOf(call[c].id)
                THEN [form[f] EXCEPT !.at = "failed"] ELSE form[f]]
  /\ doubt' = doubt \cup UNION {FormOf(m) : m \in call[c].succeeded}
  /\ UNCHANGED <<applied, overlapped>>

Saves(c) == (ReplaySave(c) \/ PruneSave(c)) /\ UNCHANGED formVars

FormsNext ==
  \/ \E f \in Forms, answer \in Answers : Post(f, answer)
  \/ \E c \in Calls :
       \/ \E f \in Forms : QueueForm(f, c)
       \/ FormQueued(c)
       \/ StartReplay(c)
       \/ \E reply \in Replies : Send(c, reply)
       \/ \E m \in MutationIds : StartPrune(c, m)
       \/ Saves(c)
       \/ Dies(c)

FormsSpec == FormsInit /\ [][FormsNext]_allVars

-----------------------------------------------------------------------------
\* The types of the variables of this module, a part of FormsInv below.
FormsTypeOK ==
  /\ form \in [Forms -> FormState]
  /\ applied \in [Forms -> 0..2]
  /\ doubt \subseteq Forms
  /\ overlapped \in BOOLEAN

\* A form that was told "synced" was applied once, for good: nothing of it is
\* left anywhere that could be sent again.
SyncedOnce ==
  \A f \in Forms : form[f].at = "synced" => applied[f] = 1 /\ form[f].m = 0

\* The server applies a form twice only if it applied it without the queue
\* hearing of it (the answer was lost, or the pass that got it died before its
\* save), or if queue calls overlapped.
RepeatsNeedDoubt ==
  \A f \in Forms : applied[f] > 1 => f \in doubt \/ overlapped

\* A form that was told "queued" has been applied, was dismissed, or is still
\* in the array, unless queue calls overlapped.
LossNeedsOverlap ==
  \A f \in Forms :
    form[f].at = "queued"
      => \/ applied[f] > 0
         \/ fate[form[f].m] = "pruned"
         \/ form[f].m \in Ids(store)
         \/ overlapped

\* The inductive invariant behind the three: what the queue counts as delivered,
\* or will when the replay in progress saves, has been applied; and until calls
\* overlap the queue is that of a single writer, so that a form which was applied
\* is in the array no more, unless the queue did not hear of it.
Accepted(m) ==
  fate[m] = "delivered" \/ \E c \in Calls : call[c].phase = "replay" /\ m \in call[c].succeeded

AppliedInv(f) ==
  \/ overlapped \/ f \in doubt \/ applied[f] = 0
  \/ /\ applied[f] = 1
     /\ IF form[f].m = 0 THEN form[f].at # "enqueueing" ELSE Accepted(form[f].m)

FormInv(f) ==
  /\ form[f].at \in {"posting", "synced"} => form[f].m = 0
  /\ form[f].at = "posting" => applied[f] = 0
  /\ form[f].at = "synced" => applied[f] = 1
  /\ form[f].at = "queued" => form[f].m \in Saved
  /\ form[f].m # 0 /\ Accepted(form[f].m) => applied[f] > 0
  /\ AppliedInv(f)

FormsInv ==
  /\ FormsTypeOK
  /\ overlapped \/ (Alone /\ SerialInv)
  /\ \A f \in Forms : FormInv(f)

=============================================================================
