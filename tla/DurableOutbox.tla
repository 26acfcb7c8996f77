--------------------------- MODULE DurableOutbox ---------------------------
(***************************************************************************)
(* What a form relies on when the mutation queue told it "queued": the     *)
(* mutation is owed to the server from then on, in one step, and stays so  *)
(* until it is settled (delivered, or dismissed by the user), which is for *)
(* good.  No array, no copies of it, no calls that overlap or die.         *)
(* MutationQueue with one writer implements this module.                   *)
(***************************************************************************)
EXTENDS Naturals

CONSTANT
  Mutations      \* ids, numbered in the order in which forms hand them in

VARIABLES
  owed,      \* accepted, not settled yet
  settled    \* delivered or dismissed

vars == <<owed, settled>>

Init == owed = {} /\ settled = {}

\* A mutation is accepted once, after every one accepted before it.
Accept(m) ==
  /\ \A k \in owed \cup settled : k < m
  /\ owed' = owed \cup {m}
  /\ UNCHANGED settled

\* A pass over the queue, or a dismissal, settles some of what is owed at once
\* and leaves the rest as it was.
Settle(ms) ==
  /\ ms # {}
  /\ ms \subseteq owed
  /\ owed' = owed \ ms
  /\ settled' = settled \cup ms

Next ==
  \/ \E m \in Mutations : Accept(m)
  \/ \E ms \in SUBSET Mutations : Settle(ms)

Spec == Init /\ [][Next]_vars
=============================================================================
