---------------------------- MODULE AuthUpdates ----------------------------
(***************************************************************************)
(* The way of credential updates to the service: the buffer of pending     *)
(* updates and the dispatch loop of the watcher                            *)
(* (internal/watcher/dispatcher.go), the channel, and the consumer of the  *)
(* service, which drains the channel, keeps the last update of every       *)
(* credential and applies those (sdk/cliproxy/service.go).                 *)
(*                                                                         *)
(* Every update has a number, counted per credential from 1; what it says  *)
(* is kept in told, so that the buffers only hold numbers.  The buffers    *)
(* that are maps in the code are functions here, with 0 for no update: the *)
(* order in which the updates of different credentials leave them is open. *)
(***************************************************************************)
EXTENDS Naturals, Sequences, FiniteSets

CONSTANTS
  Ids,      \* the credentials
  Values,   \* what an update can say of one
  QueueCap  \* the capacity of the channel (256)

ASSUME QueueAssumption == QueueCap \in Nat \ {0}

VARIABLES
  told,     \* history: per credential, what its updates said
  pending,  \* pendingUpdates and pendingOrder
  batch,    \* the rest of the batch the dispatch loop is sending
  queue,    \* the channel authUpdates
  hands,    \* the updates the consumer has drained, the last one per credential
  applying, \* the consumer is in handleAuthUpdates
  applied   \* per credential, the update handled last

pipeline == <<told, pending, batch, queue, hands, applying, applied>>

Nothing == [id \in Ids |-> 0]

-----------------------------------------------------------------------------

PipelineInit ==
  /\ told = [id \in Ids |-> <<>>]
  /\ pending = Nothing
  /\ batch = Nothing
  /\ queue = <<>>
  /\ hands = Nothing
  /\ applying = FALSE
  /\ applied = Nothing

\* Mutant of Tell: an update does not replace the one that is pending.
TellOnce(news) ==
  /\ told' = [id \in Ids |-> IF id \in DOMAIN news THEN Append(told[id], news[id])
                                                   ELSE told[id]]
  /\ pending' = [id \in Ids |-> IF id \in DOMAIN news /\ pending[id] = 0
                                THEN Len(told[id]) + 1 ELSE pending[id]]
  /\ UNCHANGED <<batch, queue, hands, applying, applied>>

\* dispatchAuthUpdates: updates replace the pending ones of their credentials.
Tell(news) ==
  /\ told' = [id \in Ids |-> IF id \in DOMAIN news THEN Append(told[id], news[id])
                                                   ELSE told[id]]
  /\ pending' = [id \in Ids |-> IF id \in DOMAIN news THEN Len(told[id]) + 1
                                                      ELSE pending[id]]
  /\ UNCHANGED <<batch, queue, hands, applying, applied>>

\* The dispatch loop takes all that is pending once its last batch is sent.
NextPendingBatch ==
  /\ batch = Nothing
  /\ pending # Nothing
  /\ batch' = pending
  /\ pending' = Nothing
  /\ UNCHANGED <<told, queue, hands, applying, applied>>

\* Mutant of Forward: an update that finds no room is applied at once.
ForwardInline(id) ==
  /\ batch[id] # 0
  /\ \/ /\ Len(queue) < QueueCap
        /\ queue' = Append(queue, [id |-> id, n |-> batch[id]])
        /\ UNCHANGED applied
     \/ /\ Len(queue) = QueueCap
        /\ applied' = [applied EXCEPT ![id] = batch[id]]
        /\ UNCHANGED queue
  /\ batch' = [batch EXCEPT ![id] = 0]
  /\ UNCHANGED <<told, pending, hands, applying>>

\* Mutant of Forward: it waits for room for the whole batch.
ForwardBatch(id) ==
  /\ batch[id] # 0
  /\ Len(queue) + Cardinality({other \in Ids : batch[other] # 0}) <= QueueCap
  /\ queue' = Append(queue, [id |-> id, n |-> batch[id]])
  /\ batch' = [batch EXCEPT ![id] = 0]
  /\ UNCHANGED <<told, pending, hands, applying, applied>>

\* It sends an update into the channel, or waits for room in it.
Forward(id) ==
  /\ batch[id] # 0
  /\ Len(queue) < QueueCap
  /\ queue' = Append(queue, [id |-> id, n |-> batch[id]])
  /\ batch' = [batch EXCEPT ![id] = 0]
  /\ UNCHANGED <<told, pending, hands, applying, applied>>

\* The consumer takes an update out of the channel; it is coalesced with those in hand.
Receive ==
  /\ ~applying
  /\ queue # <<>>
  /\ hands' = [hands EXCEPT ![Head(queue).id] = Head(queue).n]
  /\ queue' = Tail(queue)
  /\ UNCHANGED <<told, pending, batch, applying, applied>>

\* The channel is empty: the consumer handles what it has.
StartApplying ==
  /\ ~applying
  /\ hands # Nothing
  /\ queue = <<>>
  /\ applying' = TRUE
  /\ UNCHANGED <<told, pending, batch, queue, hands, applied>>

\* One of them is handed to the manager.
Apply(id) ==
  /\ applying
  /\ hands[id] # 0
  /\ applied' = [applied EXCEPT ![id] = hands[id]]
  /\ hands' = [hands EXCEPT ![id] = 0]
  /\ applying' = (hands' # Nothing)
  /\ UNCHANGED <<told, pending, batch, queue>>

\* The dispatch loop or the consumer goes on.
Transport ==
  \/ NextPendingBatch \/ \E id \in Ids : Forward(id)
  \/ Receive \/ StartApplying \/ \E id \in Ids : Apply(id)

PipelineNext ==
  \/ \E S \in SUBSET Ids : \E news \in [S -> Values] : Tell(news)
  \/ Transport

PipelineSpec == PipelineInit /\ [][PipelineNext]_pipeline

\* The dispatch loop and the consumer are goroutines of their own: they do not stop as
\* long as one of them can go on.
PipelineFairness == WF_pipeline(Transport)

-----------------------------------------------------------------------------
(* Properties.                                                             *)

PipelineTypeOK ==
  /\ told \in [Ids -> Seq(Values)]
  /\ pending \in [Ids -> Nat]
  /\ batch \in [Ids -> Nat]
  /\ queue \in Seq([id : Ids, n : Nat \ {0}])
  /\ hands \in [Ids -> Nat]
  /\ applying \in BOOLEAN
  /\ applied \in [Ids -> Nat]

\* No update of the credential is under way.
Delivered(id) ==
  /\ pending[id] = 0
  /\ batch[id] = 0
  /\ \A i \in DOMAIN queue : queue[i].id # id
  /\ hands[id] = 0

\* The service is never left with an older update: once none of a credential is
\* under way, its latest one is the one that was handled.
LatestIsApplied == \A id \in Ids : Delivered(id) => applied[id] = Len(told[id])

\* What a teller handed in and what the service handled last are the mailbox; the
\* stages between them have no counterpart there.
Mailbox == INSTANCE UpdateMailbox
  WITH Ids <- Ids, Values <- Values, told <- told, applied <- applied

\* Updates are merged and batched on their way, but the service handles those of a
\* credential in their order, each at most once, and only updates that were handed in.
ImplementsMailbox == Mailbox!Spec

\* However saturated the channel is, the latest state of a credential is handled in
\* the end (docs/sdk-watcher.md, "High-Frequency Change Handling").
DeliversInTheEnd == Mailbox!Progress
=============================================================================
