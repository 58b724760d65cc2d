--------------------------- MODULE UpdateMailbox ---------------------------
(***************************************************************************)
(* What the way of a credential's updates from the watcher to the service  *)
(* promises (docs/sdk-watcher.md, "Update Queue Contract" and              *)
(* "High-Frequency Change Handling"): an update may be dropped for a later *)
(* one of the same credential, but the updates of a credential are never   *)
(* applied out of order, twice or out of thin air, and the latest one is   *)
(* applied in the end.  Different credentials are independent.             *)
(***************************************************************************)
EXTENDS Naturals, Sequences

CONSTANTS
  Ids,    \* the credentials
  Values  \* what an update can say of one: its new state, or that it is gone

VARIABLES
  told,    \* per credential: what the updates handed in said, in order
  applied  \* per credential: the number of the update applied last, 0 for none

vars == <<told, applied>>

Init ==
  /\ told = [id \in Ids |-> <<>>]
  /\ applied = [id \in Ids |-> 0]

\* Updates of some of the credentials are handed in.
Tell ==
  /\ DOMAIN told' = Ids
  /\ \A id \in Ids : \/ told'[id] = told[id]
                     \/ \E v \in Values : told'[id] = Append(told[id], v)
  /\ UNCHANGED applied

\* An update that is newer than the last one is applied.
Apply(id) ==
  /\ \E n \in (applied[id] + 1)..Len(told[id]) :
       applied' = [applied EXCEPT ![id] = n]
  /\ UNCHANGED told

Next == Tell \/ \E id \in Ids : Apply(id)

Spec == Init /\ [][Next]_vars

\* As long as there are newer updates, one is applied in the end: once no more are
\* handed in, the latest of every credential is.
Progress == WF_vars(\E id \in Ids : Apply(id))
=============================================================================
