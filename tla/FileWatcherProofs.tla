------------------------- MODULE FileWatcherProofs -------------------------
(***************************************************************************)
(* What is proved about the updates of the credentials, from the watcher   *)
(* to the service.                                                         *)
(*                                                                         *)
(* First the pipeline (AuthUpdates), for every set of credentials, of      *)
(* values, and every capacity of the channel: it implements the mailbox,   *)
(* and the service is never left with an older update.  Both rest on the   *)
(* order of what is under way.  The updates of one credential are in the   *)
(* stages of the way in the order of their numbers: what the consumer has  *)
(* in hand is later than what was applied, the channel holds later ones in *)
(* their order, the batch a later one than these, and what is pending is   *)
(* the latest.                                                             *)
(*                                                                         *)
(* Then the watcher as a whole, for every set of files, keys and           *)
(* connections, of contents and configurations, and any number of reloads  *)
(* at a time: its states are well typed, so that whatever one of the       *)
(* tellers hands in is an update the pipeline is made for, and what is     *)
(* proved about the pipeline holds of the watcher.                         *)
(*                                                                         *)
(* Last what the watcher is for: FilesAreFollowed and SourcesAreFollowed.  *)
(* They say something of the moments when all is quiet, so the invariant   *)
(* (Following) says what is under way until then.  A file's credential in  *)
(* the picture is right, or an event of the file is to come, or a reload   *)
(* is (FilesFollow); the same for keys, connections and the configuration. *)
(* What the loop has read, and the hashes it keeps, are right or an event  *)
(* is to come (HandTells, HashesTell, EventsTell).  And the last word the  *)
(* service gets on a credential is what the picture says, unless a reload  *)
(* has dropped it from the picture and is still to look (PictureIsTold).   *)
(***************************************************************************)
EXTENDS FileWatcher, SequenceTheorems, TLAPS

-----------------------------------------------------------------------------
(* The order of what is under way.                                         *)

HandsAreLater ==
  \A id \in Ids : /\ applied[id] <= Len(told[id])
                  /\ hands[id] <= Len(told[id])
                  /\ hands[id] # 0 => applied[id] < hands[id]

QueueIsLater ==
  \A i \in 1..Len(queue) : /\ applied[queue[i].id] < queue[i].n
                           /\ hands[queue[i].id] < queue[i].n
                           /\ queue[i].n <= Len(told[queue[i].id])

QueueIsInOrder ==
  \A i, j \in 1..Len(queue) :
    i < j /\ queue[i].id = queue[j].id => queue[i].n < queue[j].n

BatchIsLater ==
  \A id \in Ids : batch[id] # 0 =>
    /\ applied[id] < batch[id]
    /\ hands[id] < batch[id]
    /\ \A i \in 1..Len(queue) : queue[i].id = id => queue[i].n < batch[id]
    /\ batch[id] <= Len(told[id])

PendingIsLatest ==
  \A id \in Ids : pending[id] # 0 =>
    /\ applied[id] < pending[id]
    /\ hands[id] < pending[id]
    /\ \A i \in 1..Len(queue) : queue[i].id = id => queue[i].n < pending[id]
    /\ batch[id] < pending[id]
    /\ pending[id] <= Len(told[id])

InOrder ==
  HandsAreLater /\ QueueIsLater /\ QueueIsInOrder /\ BatchIsLater /\ PendingIsLatest

-----------------------------------------------------------------------------
(* Types.                                                                  *)

LEMMA NothingType == Nothing \in [Ids -> Nat]
BY DEF Nothing

LEMMA InitTypes == PipelineInit => PipelineTypeOK
<1> SUFFICES ASSUME PipelineInit PROVE PipelineTypeOK
  OBVIOUS
<1>1. told \in [Ids -> Seq(Values)]
  BY DEF PipelineInit
<1>2. queue \in Seq([id : Ids, n : Nat \ {0}])
  BY DEF PipelineInit
<1> QED BY <1>1, <1>2, NothingType DEF PipelineInit, PipelineTypeOK

LEMMA TellTypes ==
  ASSUME PipelineTypeOK, NEW S \in SUBSET Ids, NEW news \in [S -> Values], Tell(news)
  PROVE  PipelineTypeOK'
<1>1. told' \in [Ids -> Seq(Values)]
  <2>1. ASSUME NEW id \in Ids, id \in S
        PROVE  Append(told[id], news[id]) \in Seq(Values)
    BY <2>1 DEF PipelineTypeOK
  <2> QED BY <2>1 DEF Tell, PipelineTypeOK
<1>2. pending' \in [Ids -> Nat]
  <2>1. \A id \in Ids : Len(told[id]) \in Nat
    BY DEF PipelineTypeOK
  <2> QED BY <2>1 DEF Tell, PipelineTypeOK
<1> QED BY <1>1, <1>2 DEF Tell, PipelineTypeOK

LEMMA ForwardTypes ==
  ASSUME PipelineTypeOK, NEW id \in Ids, Forward(id)
  PROVE  PipelineTypeOK'
<1>1. [id |-> id, n |-> batch[id]] \in [id : Ids, n : Nat \ {0}]
  BY DEF Forward, PipelineTypeOK
<1> QED BY <1>1 DEF Forward, PipelineTypeOK

\* The first element of the channel, and what is left of it.
LEMMA HeadOfQueue ==
  ASSUME PipelineTypeOK, queue # <<>>
  PROVE  /\ Head(queue) = queue[1] /\ 1 \in 1..Len(queue)
         /\ Head(queue).id \in Ids /\ Head(queue).n \in Nat \ {0}
         /\ Tail(queue) \in Seq([id : Ids, n : Nat \ {0}])
         /\ Len(Tail(queue)) = Len(queue) - 1
         /\ \A i \in 1..Len(Tail(queue)) : i + 1 \in 1..Len(queue) /\ Tail(queue)[i] = queue[i + 1]
<1> DEFINE Updates == [id : Ids, n : Nat \ {0}]
<1>1. queue \in Seq(Updates)
  BY DEF PipelineTypeOK
<1>2. /\ Head(queue) \in Updates
      /\ Tail(queue) \in Seq(Updates)
      /\ Len(Tail(queue)) = Len(queue) - 1
      /\ \A i \in 1..Len(Tail(queue)) : Tail(queue)[i] = queue[i + 1]
  <2> HIDE DEF Updates
  <2> QED BY <1>1, HeadTailProperties
<1>3. Len(queue) \in Nat /\ Len(queue) # 0
  <2> HIDE DEF Updates
  <2> QED BY <1>1, EmptySeq, LenProperties
<1>4. Head(queue) = queue[1]
  <2> HIDE DEF Updates
  <2> QED BY <1>1, <1>3
<1> QED BY <1>2, <1>3, <1>4

LEMMA ReceiveTypes ==
  ASSUME PipelineTypeOK, Receive
  PROVE  PipelineTypeOK'
<1>1. hands' \in [Ids -> Nat]
  BY HeadOfQueue DEF Receive, PipelineTypeOK
<1> QED BY <1>1, HeadOfQueue DEF Receive, PipelineTypeOK

LEMMA ApplyTypes ==
  ASSUME PipelineTypeOK, NEW id \in Ids, Apply(id)
  PROVE  PipelineTypeOK'
BY DEF Apply, PipelineTypeOK

LEMMA NextTypes == PipelineTypeOK /\ [PipelineNext]_pipeline => PipelineTypeOK'
<1> SUFFICES ASSUME PipelineTypeOK, [PipelineNext]_pipeline
             PROVE  PipelineTypeOK'
  OBVIOUS
<1>1. CASE \E S \in SUBSET Ids : \E news \in [S -> Values] : Tell(news)
  BY <1>1, TellTypes
<1>2. CASE NextPendingBatch
  BY <1>2, NothingType DEF NextPendingBatch, PipelineTypeOK
<1>3. CASE \E id \in Ids : Forward(id)
  BY <1>3, ForwardTypes
<1>4. CASE Receive
  BY <1>4, ReceiveTypes
<1>5. CASE StartApplying
  BY <1>5 DEF StartApplying, PipelineTypeOK
<1>6. CASE \E id \in Ids : Apply(id)
  BY <1>6, ApplyTypes
<1>7. CASE UNCHANGED pipeline
  BY <1>7 DEF pipeline, PipelineTypeOK
<1> QED BY <1>1, <1>2, <1>3, <1>4, <1>5, <1>6, <1>7 DEF PipelineNext, Transport

\* Every state of the pipeline is well typed (PipelineTypeOK): what is in the buffers are
\* numbers of updates of known credentials.
THEOREM PipelineTypes == PipelineSpec => []PipelineTypeOK
BY InitTypes, NextTypes, PTL DEF PipelineSpec

-----------------------------------------------------------------------------
(* The order of what is under way.                                         *)

\* The numbers that the order is about.
LEMMA Numbers ==
  ASSUME PipelineTypeOK, NEW id \in Ids
  PROVE  /\ applied[id] \in Nat /\ hands[id] \in Nat /\ batch[id] \in Nat
         /\ pending[id] \in Nat /\ Len(told[id]) \in Nat
<1>1. Len(told[id]) \in Nat
  BY DEF PipelineTypeOK
<1> QED BY <1>1 DEF PipelineTypeOK

LEMMA QueuedNumbers ==
  ASSUME PipelineTypeOK
  PROVE  /\ Len(queue) \in Nat
         /\ \A i \in 1..Len(queue) : queue[i].id \in Ids /\ queue[i].n \in Nat \ {0}
<1> DEFINE Updates == [id : Ids, n : Nat \ {0}]
<1>1. queue \in Seq(Updates)
  BY DEF PipelineTypeOK
<1>2. Len(queue) \in Nat /\ \A i \in 1..Len(queue) : queue[i] \in Updates
  <2> HIDE DEF Updates
  <2> QED BY <1>1, ElementOfSeq, LenProperties
<1> QED BY <1>2

LEMMA InitInOrder == PipelineInit => InOrder
<1> SUFFICES ASSUME PipelineInit PROVE InOrder
  OBVIOUS
<1>1. Len(queue) = 0 /\ \A id \in Ids : Len(told[id]) = 0
  BY DEF PipelineInit
<1> QED BY <1>1 DEF PipelineInit, Nothing, InOrder, HandsAreLater, QueueIsLater,
        QueueIsInOrder, BatchIsLater, PendingIsLatest

\* A new update has the next number.
LEMMA TellShape ==
  ASSUME PipelineTypeOK, NEW S \in SUBSET Ids, NEW news \in [S -> Values], Tell(news),
         NEW id \in Ids
  PROVE  \/ /\ Len(told'[id]) = Len(told[id]) /\ told'[id] = told[id]
            /\ pending'[id] = pending[id]
         \/ /\ Len(told'[id]) = Len(told[id]) + 1 /\ told'[id] = Append(told[id], news[id])
            /\ news[id] \in Values
            /\ pending'[id] = Len(told[id]) + 1
<1>1. told[id] \in Seq(Values)
  BY DEF PipelineTypeOK
<1>2. CASE id \in S
  <2>1. Len(Append(told[id], news[id])) = Len(told[id]) + 1
    BY <1>1, <1>2
  <2> QED BY <1>2, <2>1 DEF Tell
<1>3. CASE id \notin S
  BY <1>3 DEF Tell
<1> QED BY <1>2, <1>3

LEMMA TellInOrder ==
  ASSUME PipelineTypeOK, InOrder,
         NEW S \in SUBSET Ids, NEW news \in [S -> Values], Tell(news)
  PROVE  InOrder'
<1>1. UNCHANGED <<batch, queue, hands, applied>>
  BY DEF Tell
<1>2. \A id \in Ids : /\ Len(told[id]) \in Nat /\ Len(told'[id]) \in Nat
                       /\ Len(told[id]) <= Len(told'[id])
  <2> TAKE id \in Ids
  <2>1. Len(told[id]) \in Nat
    BY Numbers
  <2>2. Len(told'[id]) = Len(told[id]) \/ Len(told'[id]) = Len(told[id]) + 1
    BY TellShape
  <2> QED BY <2>1, <2>2
<1>3. HandsAreLater'
  BY <1>1, <1>2, Numbers DEF InOrder, HandsAreLater
<1>4. QueueIsLater'
  <2> SUFFICES ASSUME NEW i \in 1..Len(queue)
               PROVE  /\ applied[queue[i].id] < queue[i].n
                      /\ hands[queue[i].id] < queue[i].n
                      /\ queue[i].n <= Len(told'[queue[i].id])
    BY <1>1 DEF QueueIsLater
  <2>1. queue[i].id \in Ids /\ queue[i].n \in Nat
    BY QueuedNumbers
  <2> QED BY <1>2, <2>1 DEF InOrder, QueueIsLater
<1>5. QueueIsInOrder'
  BY <1>1 DEF InOrder, QueueIsInOrder
<1>6. BatchIsLater'
  BY <1>1, <1>2, Numbers, QueuedNumbers DEF InOrder, BatchIsLater
<1>7. PendingIsLatest'
  <2> SUFFICES ASSUME NEW id \in Ids, pending'[id] # 0
               PROVE  /\ applied[id] < pending'[id]
                      /\ hands[id] < pending'[id]
                      /\ \A i \in 1..Len(queue) : queue[i].id = id => queue[i].n < pending'[id]
                      /\ batch[id] < pending'[id]
                      /\ pending'[id] <= Len(told'[id])
    BY <1>1 DEF PendingIsLatest
  <2>1. CASE pending'[id] = pending[id] /\ Len(told'[id]) = Len(told[id])
    BY <2>1 DEF InOrder, PendingIsLatest
  <2>2. CASE pending'[id] = Len(told[id]) + 1 /\ Len(told'[id]) = Len(told[id]) + 1
    <3>1. applied[id] <= Len(told[id]) /\ hands[id] <= Len(told[id])
      BY DEF InOrder, HandsAreLater
    <3>2. \A i \in 1..Len(queue) : queue[i].id = id => queue[i].n <= Len(told[id])
      BY DEF InOrder, QueueIsLater
    <3>3. batch[id] <= Len(told[id])
      BY Numbers DEF InOrder, BatchIsLater
    <3> QED BY <2>2, <3>1, <3>2, <3>3, Numbers, QueuedNumbers
  <2> QED BY <2>1, <2>2, TellShape
<1> QED BY <1>3, <1>4, <1>5, <1>6, <1>7 DEF InOrder

LEMMA NextBatchInOrder ==
  ASSUME PipelineTypeOK, InOrder, NextPendingBatch
  PROVE  InOrder'
<1>1. UNCHANGED <<told, queue, hands, applied>>
  BY DEF NextPendingBatch
<1>2. \A id \in Ids : pending'[id] = 0
  BY DEF NextPendingBatch, Nothing
<1>3. BatchIsLater'
  BY DEF NextPendingBatch, InOrder, PendingIsLatest, BatchIsLater
<1> QED BY <1>1, <1>2, <1>3
     DEF InOrder, HandsAreLater, QueueIsLater, QueueIsInOrder, PendingIsLatest

\* The channel with one more update.
LEMMA ForwardShape ==
  ASSUME PipelineTypeOK, NEW id \in Ids, Forward(id)
  PROVE  /\ Len(queue') = Len(queue) + 1
         /\ \A i \in 1..Len(queue) : queue'[i] = queue[i]
         /\ queue'[Len(queue) + 1].id = id
         /\ queue'[Len(queue) + 1].n = batch[id]
<1> DEFINE Updates == [id : Ids, n : Nat \ {0}]
           update == [id |-> id, n |-> batch[id]]
<1>1. queue \in Seq(Updates)
  BY DEF PipelineTypeOK
<1>2. update \in Updates
  BY DEF Forward, PipelineTypeOK
<1>3. queue' = Append(queue, update)
  BY DEF Forward
<1>4. /\ Len(queue') = Len(queue) + 1
      /\ \A i \in 1..Len(queue) : queue'[i] = queue[i]
      /\ queue'[Len(queue) + 1] = update
  <2> HIDE DEF Updates, update
  <2> QED BY <1>1, <1>2, <1>3, AppendProperties
<1> QED BY <1>4

LEMMA ForwardInOrder ==
  ASSUME PipelineTypeOK, InOrder, NEW id \in Ids, Forward(id)
  PROVE  InOrder'
<1> DEFINE last == Len(queue) + 1
<1>1. UNCHANGED <<told, pending, hands, applied>> /\ batch[id] # 0
  BY DEF Forward
<1>2. \A other \in Ids : batch'[other] = (IF other = id THEN 0 ELSE batch[other])
  BY DEF Forward, PipelineTypeOK
<1>3. /\ Len(queue') = last
      /\ \A i \in 1..Len(queue) : queue'[i] = queue[i]
      /\ queue'[last].id = id /\ queue'[last].n = batch[id]
  BY ForwardShape
<1>4. \A i \in 1..last : i \in 1..Len(queue) \/ i = last
  BY QueuedNumbers
<1>5. HandsAreLater'
  BY <1>1 DEF InOrder, HandsAreLater
<1>6. QueueIsLater'
  BY <1>1, <1>3, <1>4 DEF InOrder, QueueIsLater, BatchIsLater
<1>7. QueueIsInOrder'
  <2> SUFFICES ASSUME NEW i \in 1..last, NEW j \in 1..last, i < j, queue'[i].id = queue'[j].id
               PROVE  queue'[i].n < queue'[j].n
    BY <1>3 DEF QueueIsInOrder
  <2>1. i \in 1..Len(queue)
    BY QueuedNumbers
  <2>2. CASE j = last
    BY <1>1, <1>3, <2>1, <2>2 DEF InOrder, BatchIsLater
  <2>3. CASE j \in 1..Len(queue)
    BY <1>3, <2>1, <2>3 DEF InOrder, QueueIsInOrder
  <2> QED BY <1>4, <2>2, <2>3
<1>8. BatchIsLater'
  <2> SUFFICES ASSUME NEW other \in Ids, other # id, batch[other] # 0
               PROVE  /\ applied[other] < batch[other]
                      /\ hands[other] < batch[other]
                      /\ \A i \in 1..last : queue'[i].id = other => queue'[i].n < batch[other]
                      /\ batch[other] <= Len(told[other])
    BY <1>1, <1>2, <1>3 DEF BatchIsLater
  <2> QED BY <1>3, <1>4 DEF InOrder, BatchIsLater
<1>9. PendingIsLatest'
  <2> SUFFICES ASSUME NEW other \in Ids, pending[other] # 0
               PROVE  /\ applied[other] < pending[other]
                      /\ hands[other] < pending[other]
                      /\ \A i \in 1..last : queue'[i].id = other => queue'[i].n < pending[other]
                      /\ batch'[other] < pending[other]
                      /\ pending[other] <= Len(told[other])
    BY <1>1, <1>3 DEF PendingIsLatest
  <2>1. \A i \in 1..last : queue'[i].id = other => queue'[i].n < pending[other]
    BY <1>3, <1>4 DEF InOrder, PendingIsLatest
  <2>2. batch'[other] < pending[other]
    BY <1>2, Numbers DEF InOrder, PendingIsLatest
  <2> QED BY <2>1, <2>2 DEF InOrder, PendingIsLatest
<1> QED BY <1>5, <1>6, <1>7, <1>8, <1>9 DEF InOrder

LEMMA ReceiveInOrder ==
  ASSUME PipelineTypeOK, InOrder, Receive
  PROVE  InOrder'
<1> DEFINE first == queue[1]
<1>1. UNCHANGED <<told, pending, batch, applied>> /\ queue # <<>> /\ queue' = Tail(queue)
  BY DEF Receive
<1>2. /\ 1 \in 1..Len(queue) /\ first.id \in Ids /\ first.n \in Nat \ {0}
      /\ Len(queue') = Len(queue) - 1
      /\ \A i \in 1..Len(queue') : i + 1 \in 1..Len(queue) /\ queue'[i] = queue[i + 1]
  BY <1>1, HeadOfQueue
<1>3. \A id \in Ids : hands'[id] = (IF id = first.id THEN first.n ELSE hands[id])
  BY <1>1, HeadOfQueue DEF Receive, PipelineTypeOK
<1>4. HandsAreLater'
  BY <1>1, <1>2, <1>3 DEF InOrder, HandsAreLater, QueueIsLater
<1>5. QueueIsLater'
  <2> SUFFICES ASSUME NEW i \in 1..Len(queue')
               PROVE  /\ applied[queue'[i].id] < queue'[i].n
                      /\ hands'[queue'[i].id] < queue'[i].n
                      /\ queue'[i].n <= Len(told[queue'[i].id])
    BY <1>1 DEF QueueIsLater
  <2>1. /\ i + 1 \in 1..Len(queue) /\ 1 < i + 1
        /\ queue'[i] = queue[i + 1] /\ queue[i + 1].id \in Ids
    BY <1>2, QueuedNumbers
  <2>2. first.id = queue[i + 1].id => first.n < queue[i + 1].n
    BY <1>2, <2>1 DEF InOrder, QueueIsInOrder
  <2> QED BY <1>3, <2>1, <2>2 DEF InOrder, QueueIsLater
<1>6. QueueIsInOrder'
  <2> SUFFICES ASSUME NEW i \in 1..Len(queue'), NEW j \in 1..Len(queue'),
                      i < j, queue'[i].id = queue'[j].id
               PROVE  queue'[i].n < queue'[j].n
    BY DEF QueueIsInOrder
  <2>1. i + 1 < j + 1
    OBVIOUS
  <2> QED BY <1>2, <2>1 DEF InOrder, QueueIsInOrder
<1>7. BatchIsLater'
  BY <1>1, <1>2, <1>3 DEF InOrder, BatchIsLater
<1>8. PendingIsLatest'
  BY <1>1, <1>2, <1>3 DEF InOrder, PendingIsLatest
<1> QED BY <1>4, <1>5, <1>6, <1>7, <1>8 DEF InOrder

LEMMA ApplyInOrder ==
  ASSUME PipelineTypeOK, InOrder, NEW id \in Ids, Apply(id)
  PROVE  InOrder'
<1>1. UNCHANGED <<told, pending, batch, queue>> /\ hands[id] # 0
  BY DEF Apply
<1>2. \A other \in Ids : /\ applied'[other] = (IF other = id THEN hands[id] ELSE applied[other])
                          /\ hands'[other] = (IF other = id THEN 0 ELSE hands[other])
  BY DEF Apply, PipelineTypeOK
<1>3. HandsAreLater'
  BY <1>1, <1>2, Numbers DEF InOrder, HandsAreLater
<1>4. QueueIsLater'
  BY <1>1, <1>2, QueuedNumbers DEF InOrder, QueueIsLater
<1>5. QueueIsInOrder'
  BY <1>1 DEF InOrder, QueueIsInOrder
<1>6. BatchIsLater'
  <2> SUFFICES ASSUME NEW other \in Ids, batch'[other] # 0
               PROVE  /\ applied'[other] < batch'[other]
                      /\ hands'[other] < batch'[other]
                      /\ \A i \in 1..Len(queue') : queue'[i].id = other => queue'[i].n < batch'[other]
                      /\ batch'[other] <= Len(told'[other])
    BY DEF BatchIsLater
  <2>1. /\ applied[other] < batch[other]
        /\ hands[other] < batch[other]
        /\ \A i \in 1..Len(queue) : queue[i].id = other => queue[i].n < batch[other]
        /\ batch[other] <= Len(told[other])
    BY <1>1 DEF InOrder, BatchIsLater
  <2>2. 0 < batch[other]
    BY <1>1, Numbers
  <2> QED BY <1>1, <1>2, <2>1, <2>2
<1>7. PendingIsLatest'
  BY <1>1, <1>2, Numbers DEF InOrder, PendingIsLatest
<1> QED BY <1>3, <1>4, <1>5, <1>6, <1>7 DEF InOrder

LEMMA NextInOrder ==
  PipelineTypeOK /\ InOrder /\ [PipelineNext]_pipeline => InOrder'
<1> SUFFICES ASSUME PipelineTypeOK, InOrder, [PipelineNext]_pipeline
             PROVE  InOrder'
  OBVIOUS
<1>1. CASE \E S \in SUBSET Ids : \E news \in [S -> Values] : Tell(news)
  BY <1>1, TellInOrder
<1>2. CASE NextPendingBatch
  BY <1>2, NextBatchInOrder
<1>3. CASE \E id \in Ids : Forward(id)
  BY <1>3, ForwardInOrder
<1>4. CASE Receive
  BY <1>4, ReceiveInOrder
<1>5. CASE UNCHANGED <<told, pending, batch, queue, hands, applied>>
  BY <1>5 DEF InOrder, HandsAreLater, QueueIsLater, QueueIsInOrder, BatchIsLater, PendingIsLatest
<1>6. CASE \E id \in Ids : Apply(id)
  BY <1>6, ApplyInOrder
<1>7. StartApplying \/ UNCHANGED pipeline => UNCHANGED <<told, pending, batch, queue, hands, applied>>
  BY DEF StartApplying, pipeline
<1> QED BY <1>1, <1>2, <1>3, <1>4, <1>5, <1>6, <1>7 DEF PipelineNext, Transport

THEOREM PipelineInOrder == PipelineSpec => []InOrder
<1>1. PipelineInit => PipelineTypeOK /\ InOrder
  BY InitTypes, InitInOrder
<1>2. PipelineTypeOK /\ InOrder /\ [PipelineNext]_pipeline => PipelineTypeOK' /\ InOrder'
  BY NextTypes, NextInOrder
<1> QED BY <1>1, <1>2, PTL DEF PipelineSpec

-----------------------------------------------------------------------------
(* The way of the updates implements the mailbox.                          *)

LEMMA InitImplements == PipelineInit => Mailbox!Init
BY DEF PipelineInit, Nothing, Mailbox!Init

LEMMA TellImplements ==
  ASSUME PipelineTypeOK, NEW S \in SUBSET Ids, NEW news \in [S -> Values], Tell(news)
  PROVE  Mailbox!Tell
<1>1. DOMAIN told' = Ids /\ UNCHANGED applied
  BY DEF Tell
<1>2. ASSUME NEW id \in Ids
      PROVE  told'[id] = told[id] \/ \E v \in Values : told'[id] = Append(told[id], v)
  BY <1>2, TellShape
<1> QED BY <1>1, <1>2 DEF Mailbox!Tell

\* What the consumer handles is later than what was applied before.
LEMMA ApplyImplements ==
  ASSUME PipelineTypeOK, InOrder, NEW id \in Ids, Apply(id)
  PROVE  Mailbox!Apply(id)
<1>1. applied' = [applied EXCEPT ![id] = hands[id]] /\ UNCHANGED told
  BY DEF Apply
<1>2. hands[id] \in (applied[id] + 1)..Len(told[id])
  BY Numbers DEF Apply, InOrder, HandsAreLater
<1> QED BY <1>1, <1>2 DEF Mailbox!Apply

LEMMA NextImplements ==
  PipelineTypeOK /\ InOrder /\ [PipelineNext]_pipeline => [Mailbox!Next]_Mailbox!vars
<1> SUFFICES ASSUME PipelineTypeOK, InOrder, [PipelineNext]_pipeline
             PROVE  Mailbox!Next \/ UNCHANGED <<told, applied>>
  BY DEF Mailbox!vars
<1>1. CASE \E S \in SUBSET Ids : \E news \in [S -> Values] : Tell(news)
  BY <1>1, TellImplements DEF Mailbox!Next
<1>2. CASE NextPendingBatch \/ Receive \/ StartApplying \/ UNCHANGED pipeline
  BY <1>2 DEF NextPendingBatch, Receive, StartApplying, pipeline
<1>3. CASE \E id \in Ids : Forward(id)
  BY <1>3 DEF Forward
<1>4. CASE \E id \in Ids : Apply(id)
  BY <1>4, ApplyImplements DEF Mailbox!Next
<1> QED BY <1>1, <1>2, <1>3, <1>4 DEF PipelineNext, Transport

\* ImplementsMailbox: for any number of credentials, of updates and any capacity of the
\* channel, the service handles the updates of a credential in the order in which they
\* were handed in, each at most once (dispatchAuthUpdates to handleAuthUpdates).
THEOREM PipelineImplementsMailbox == PipelineSpec => ImplementsMailbox
<1> USE DEF ImplementsMailbox, Mailbox!Spec
<1>1. PipelineInit => Mailbox!Init
  BY InitImplements
<1>2. PipelineTypeOK /\ InOrder /\ [PipelineNext]_pipeline => [Mailbox!Next]_Mailbox!vars
  BY NextImplements
<1> QED BY <1>1, <1>2, PipelineTypes, PipelineInOrder, PTL DEF PipelineSpec

-----------------------------------------------------------------------------
(* The latest update is not lost.                                          *)

\* The update n of a credential is in the channel.
Queued(id, n) == \E i \in 1..Len(queue) : queue[i].id = id /\ queue[i].n = n

\* Where the latest update of a credential is.
Somewhere(id) ==
  \/ Len(told[id]) \in {applied[id], hands[id], batch[id], pending[id]}
  \/ Queued(id, Len(told[id]))

LatestIsUnderWay == \A id \in Ids : Somewhere(id)

LEMMA InitUnderWay == PipelineInit => LatestIsUnderWay
BY DEF PipelineInit, Nothing, LatestIsUnderWay, Somewhere

LEMMA TellUnderWay ==
  ASSUME PipelineTypeOK, LatestIsUnderWay,
         NEW S \in SUBSET Ids, NEW news \in [S -> Values], Tell(news)
  PROVE  LatestIsUnderWay'
<1>1. UNCHANGED <<batch, queue, hands, applied>>
  BY DEF Tell
<1>2. ASSUME NEW id \in Ids PROVE Somewhere(id)'
  <2>1. CASE Len(told'[id]) = Len(told[id]) /\ pending'[id] = pending[id]
    BY <1>1, <2>1 DEF LatestIsUnderWay, Somewhere, Queued
  <2>2. CASE Len(told'[id]) = Len(told[id]) + 1 /\ pending'[id] = Len(told[id]) + 1
    BY <2>2 DEF Somewhere
  <2> QED BY <2>1, <2>2, TellShape
<1> QED BY <1>2 DEF LatestIsUnderWay

\* No credential without an update misses it: the number 0 is nowhere else.
LEMMA NextBatchUnderWay ==
  ASSUME PipelineTypeOK, LatestIsUnderWay, NextPendingBatch
  PROVE  LatestIsUnderWay'
<1>1. UNCHANGED <<told, queue, hands, applied>> /\ batch' = pending
  BY DEF NextPendingBatch
<1>2. \A id \in Ids : batch[id] = 0 /\ pending'[id] = 0
  BY DEF NextPendingBatch, Nothing
<1> QED BY <1>1, <1>2 DEF LatestIsUnderWay, Somewhere, Queued

LEMMA ForwardUnderWay ==
  ASSUME PipelineTypeOK, InOrder, LatestIsUnderWay, NEW id \in Ids, Forward(id)
  PROVE  LatestIsUnderWay'
<1>1. UNCHANGED <<told, pending, hands, applied>>
  BY DEF Forward
<1>2. \A other \in Ids : batch'[other] = (IF other = id THEN 0 ELSE batch[other])
  BY DEF Forward, PipelineTypeOK
<1>3. \A other \in Ids : Queued(other, Len(told[other])) => Queued(other, Len(told[other]))'
  BY <1>1, ForwardShape, QueuedNumbers DEF Queued
<1>4. Len(queue) + 1 \in 1..Len(queue')
  BY ForwardShape, QueuedNumbers
<1>5. ASSUME NEW other \in Ids PROVE Somewhere(other)'
  <2>1. CASE Len(told[other]) = batch[other] /\ other = id
    <3>1. queue'[Len(queue) + 1].id = other /\ queue'[Len(queue) + 1].n = Len(told'[other])
      BY <1>1, <2>1, ForwardShape
    <3> QED BY <1>4, <3>1 DEF Somewhere, Queued
  <2>2. CASE ~(Len(told[other]) = batch[other] /\ other = id)
    <3>1. Somewhere(other) /\ Len(told[other]) \in Nat
      BY Numbers DEF LatestIsUnderWay
    <3>2. CASE Queued(other, Len(told[other]))
      BY <1>1, <1>3, <3>1, <3>2 DEF Somewhere
    <3>3. CASE Len(told[other]) \in {applied[other], hands[other], batch[other], pending[other]}
      BY <1>1, <1>2, <2>2, <3>3 DEF Somewhere
    <3> QED BY <3>1, <3>2, <3>3 DEF Somewhere
  <2> QED BY <2>1, <2>2
<1> QED BY <1>5 DEF LatestIsUnderWay

LEMMA ReceiveUnderWay ==
  ASSUME PipelineTypeOK, InOrder, LatestIsUnderWay, Receive
  PROVE  LatestIsUnderWay'
<1> DEFINE first == queue[1]
<1>1. UNCHANGED <<told, pending, batch, applied>> /\ queue # <<>> /\ queue' = Tail(queue)
  BY DEF Receive
<1>2. /\ 1 \in 1..Len(queue) /\ Len(queue) \in Nat
      /\ first.id \in Ids /\ first.n \in Nat \ {0}
      /\ Len(queue') = Len(queue) - 1
      /\ \A i \in 1..Len(queue') : queue'[i] = queue[i + 1]
  BY <1>1, HeadOfQueue, QueuedNumbers
<1>3. \A id \in Ids : hands'[id] = (IF id = first.id THEN first.n ELSE hands[id])
  BY <1>1, HeadOfQueue DEF Receive, PipelineTypeOK
<1>4. ASSUME NEW id \in Ids PROVE Somewhere(id)'
  <2>1. CASE id = first.id /\ Len(told[id]) = first.n
    BY <1>1, <1>3, <2>1 DEF Somewhere
  <2>2. CASE Queued(id, Len(told[id])) /\ ~(id = first.id /\ Len(told[id]) = first.n)
    <3>1. PICK i \in 1..Len(queue) : queue[i].id = id /\ queue[i].n = Len(told[id])
      BY <2>2 DEF Queued
    <3>2. i # 1
      BY <2>2, <3>1
    <3>3. i - 1 \in 1..Len(queue') /\ queue'[i - 1] = queue[i]
      BY <1>2, <3>1, <3>2
    <3>4. Queued(id, Len(told[id]))'
      BY <1>1, <3>1, <3>3 DEF Queued
    <3> QED BY <3>4 DEF Somewhere
  <2>3. CASE Len(told[id]) \in {applied[id], batch[id], pending[id]}
    BY <1>1, <2>3 DEF Somewhere
  <2>4. CASE Len(told[id]) = hands[id]
    <3>1. id # first.id
      BY <1>2, <2>4, Numbers DEF InOrder, QueueIsLater
    <3> QED BY <1>1, <1>3, <2>4, <3>1 DEF Somewhere
  <2> QED BY <2>1, <2>2, <2>3, <2>4 DEF LatestIsUnderWay, Somewhere
<1> QED BY <1>4 DEF LatestIsUnderWay

LEMMA ApplyUnderWay ==
  ASSUME PipelineTypeOK, InOrder, LatestIsUnderWay, NEW id \in Ids, Apply(id)
  PROVE  LatestIsUnderWay'
<1>1. UNCHANGED <<told, pending, batch, queue>> /\ hands[id] # 0
  BY DEF Apply
<1>2. \A other \in Ids : /\ applied'[other] = (IF other = id THEN hands[id] ELSE applied[other])
                          /\ hands'[other] = (IF other = id THEN 0 ELSE hands[other])
  BY DEF Apply, PipelineTypeOK
<1>3. Len(told[id]) # applied[id]
  BY <1>1, Numbers DEF InOrder, HandsAreLater
<1> QED BY <1>1, <1>2, <1>3 DEF LatestIsUnderWay, Somewhere, Queued

LEMMA NextUnderWay ==
  PipelineTypeOK /\ InOrder /\ LatestIsUnderWay /\ [PipelineNext]_pipeline => LatestIsUnderWay'
<1> SUFFICES ASSUME PipelineTypeOK, InOrder, LatestIsUnderWay, [PipelineNext]_pipeline
             PROVE  LatestIsUnderWay'
  OBVIOUS
<1>1. CASE \E S \in SUBSET Ids : \E news \in [S -> Values] : Tell(news)
  BY <1>1, TellUnderWay
<1>2. CASE NextPendingBatch
  BY <1>2, NextBatchUnderWay
<1>3. CASE \E id \in Ids : Forward(id)
  BY <1>3, ForwardUnderWay
<1>4. CASE Receive
  BY <1>4, ReceiveUnderWay
<1>5. CASE StartApplying \/ UNCHANGED pipeline
  BY <1>5 DEF StartApplying, pipeline, LatestIsUnderWay, Somewhere, Queued
<1>6. CASE \E id \in Ids : Apply(id)
  BY <1>6, ApplyUnderWay
<1> QED BY <1>1, <1>2, <1>3, <1>4, <1>5, <1>6 DEF PipelineNext, Transport

LEMMA UnderWayUntilApplied ==
  PipelineTypeOK /\ InOrder /\ LatestIsUnderWay => LatestIsApplied
<1> SUFFICES ASSUME PipelineTypeOK, InOrder, LatestIsUnderWay, NEW id \in Ids, Delivered(id)
             PROVE  applied[id] = Len(told[id])
  BY DEF LatestIsApplied
<1>1. ~Queued(id, Len(told[id]))
  <2>1. DOMAIN queue = 1..Len(queue)
    BY DEF PipelineTypeOK
  <2> QED BY <2>1 DEF Delivered, Queued
<1>2. Len(told[id]) \in {applied[id], 0}
  BY <1>1 DEF LatestIsUnderWay, Somewhere, Delivered
<1> QED BY <1>2, Numbers DEF InOrder, HandsAreLater

\* LatestIsApplied: whatever was merged, batched or drained on the way, the service is not
\* left with an older update of a credential than the last one handed in.
THEOREM NeverLeftWithOlder == PipelineSpec => []LatestIsApplied
<1>1. PipelineInit => LatestIsUnderWay
  BY InitUnderWay
<1>2. /\ PipelineTypeOK /\ InOrder /\ LatestIsUnderWay /\ [PipelineNext]_pipeline
      => LatestIsUnderWay'
  BY NextUnderWay
<1>3. PipelineTypeOK /\ InOrder /\ LatestIsUnderWay => LatestIsApplied
  BY UnderWayUntilApplied
<1> QED BY <1>1, <1>2, <1>3, PipelineTypes, PipelineInOrder, PTL DEF PipelineSpec

-----------------------------------------------------------------------------
(* The watcher.                                                            *)

\* Updates of some credentials.
Updates == UNION {[S -> Values] : S \in SUBSET Ids}

Events == [file : Files, op : {"write", "remove"}] \cup [file : {None}, op : {"config"}]

Stages == {"idle", "rescanning", "loading", "publishing", "forgetting", "snapshotting",
           "scanning", "refreshing", "rehashing"}

SourceType ==
  /\ disk \in [Files -> Texts \cup {None, Empty}]
  /\ configFile \in Configs
  /\ changes \in 0..MaxChanges

PictureType ==
  /\ hashes \in [Files -> Texts \cup {None}]
  /\ files \subseteq Files
  /\ current \in [Ids -> Values]
  /\ runtime \subseteq Runtimes
  /\ recent \subseteq Files
  /\ config \in Configs
  /\ configHash \in Configs \cup {None}
  /\ armed \in BOOLEAN

\* A goroutine at work knows the file or the configuration it works on.
HandType ==
  /\ hand \in [at : {"idle", "settling", "reading", "building"}, file : Files \cup {None},
               data : Texts \cup {None}, cfg : Configs \cup {None}]
  /\ hand.at # "idle" => hand.file \in Files
  /\ hand.at = "building" => hand.data \in Texts /\ hand.cfg \in Configs

ReloadRecords ==
  [at : Stages, cfg : Configs \cup {None}, force : BOOLEAN, forgot : SUBSET Ids,
   under : Configs \cup {None}, found : [Names -> Values] \cup {<<>>}]

ReloadType ==
  /\ reload \in [Reloads -> ReloadRecords]
  /\ \A r \in Reloads : /\ reload[r].at = "publishing" => reload[r].cfg \in Configs
                        /\ reload[r].at = "scanning" => reload[r].under \in Configs
                        /\ reload[r].at = "refreshing" => reload[r].found \in [Names -> Values]

LoginType ==
  /\ login \in [at : {"idle", "saved"}, file : Files \cup {None},
                data : LoginContents \cup {None}, fresh : SUBSET LoginContents]
  /\ login.at = "saved" => login.file \in Files /\ login.data \in LoginContents

WatcherType ==
  /\ SourceType
  /\ PictureType
  /\ HandType
  /\ ReloadType
  /\ LoginType
  /\ events \in Seq(Events)
  /\ outbox \in [Tellers -> Updates]
  /\ missed \subseteq Ids \cup {"config"}

-----------------------------------------------------------------------------
(* The credentials and the news about them.                                *)

LEMMA KindsOfIds ==
  /\ Files \subseteq Names /\ Keys \subseteq Names /\ Names \subseteq Ids
  /\ Runtimes \subseteq Ids /\ Files \subseteq Ids
BY WatcherAssumption DEF WatcherAssumption, Names

LEMMA KindsOfValues == {KeyAuth, RuntimeAuth, Gone} \subseteq Values
BY WatcherAssumption DEF WatcherAssumption

LEMMA LoginValue ==
  ASSUME NEW data \in LoginContents
  PROVE  <<data, LoginRecord>> \in Values
BY WatcherAssumption DEF WatcherAssumption, Texts

LEMMA FileAuthType ==
  ASSUME NEW content, NEW cfg \in Configs
  PROVE  FileAuth(content, cfg) \in Values
BY WatcherAssumption DEF WatcherAssumption, FileAuth

LEMMA SnapshotType ==
  ASSUME NEW cfg \in Configs, NEW found
  PROVE  Snapshot(cfg, found) \in [Names -> Values]
BY FileAuthType, KindsOfValues DEF Snapshot

LEMMA MergedType ==
  ASSUME NEW found \in [Names -> Values]
  PROVE  Merged(found) \in [Ids -> Values]
BY KindsOfValues DEF Merged

LEMMA QuietlyType == Quietly \in Updates
<1>1. Quietly \in [{} -> Values]
  BY DEF Quietly
<1> QED BY <1>1 DEF Updates

LEMMA NewsType ==
  ASSUME NEW S \in SUBSET Ids, NEW new \in [S -> Values], NEW old, NEW force \in BOOLEAN
  PROVE  News(old, new, force) \in Updates
<1> DEFINE D == {i \in DOMAIN new : \/ new[i] # old[i]
                                    \/ force /\ new[i] # Gone}
<1>1. D \subseteq S
  OBVIOUS
<1>2. News(old, new, force) = [id \in D |-> new[id]]
  BY DEF News
<1>3. [id \in D |-> new[id]] \in [D -> Values]
  <2> HIDE DEF D
  <2> QED BY <1>1
<1>4. D \in SUBSET Ids
  BY <1>1
<1> HIDE DEF D
<1> QED BY <1>2, <1>3, <1>4 DEF Updates

\* One update of one credential.
LEMMA OneUpdate ==
  ASSUME NEW one \in Ids, NEW v \in Values
  PROVE  [id \in {one} |-> v] \in Updates
<1>1. [id \in {one} |-> v] \in [{one} -> Values]
  OBVIOUS
<1> QED BY <1>1 DEF Updates

LEMMA AtStartType == AtStart \in [Ids -> Values]
BY WatcherAssumption, SnapshotType, KindsOfValues DEF WatcherAssumption, AtStart

\* A teller that finds out news of known credentials.
LEMMA FindsType ==
  ASSUME outbox \in [Tellers -> Updates], missed \subseteq Ids \cup {"config"},
         NEW teller, NEW news \in Updates, NEW alsoMissed \in SUBSET Ids,
         Finds(teller, news, alsoMissed)
  PROVE  outbox' \in [Tellers -> Updates] /\ missed' \subseteq Ids \cup {"config"}
<1>1. DOMAIN news \subseteq Ids
  BY DEF Updates
<1> QED BY <1>1 DEF Finds

LEMMA ReloadStep ==
  ASSUME ReloadType, NEW r \in Reloads, NEW new \in ReloadRecords,
         new.at = "publishing" => new.cfg \in Configs,
         new.at = "scanning" => new.under \in Configs,
         new.at = "refreshing" => new.found \in [Names -> Values],
         reload' = [reload EXCEPT ![r] = new]
  PROVE  ReloadType'
<1> HIDE DEF ReloadRecords
<1> QED BY DEF ReloadType

-----------------------------------------------------------------------------
(* Every action keeps the types.  The parts that it leaves alone come      *)
(* first, one step for each of the others follows.                         *)

LEMMA WriteFileTypes ==
  ASSUME WatcherType, NEW f \in Files, NEW content \in Contents \cup {Empty}, WriteFile(f, content)
  PROVE  WatcherType'
<1>1. /\ PictureType'
      /\ HandType'
      /\ ReloadType'
      /\ LoginType'
      /\ outbox' \in [Tellers -> Updates]
      /\ missed' \subseteq Ids \cup {"config"}
  BY DEF WriteFile, sources, picture, WatcherType, PictureType, HandType, ReloadType, LoginType
<1>2. SourceType'
  BY DEF WriteFile, Change, WatcherType, SourceType, Texts
<1>3. events' \in Seq(Events)
  <2>1. [file |-> f, op |-> "write"] \in Events
    BY DEF Events
  <2> QED BY <2>1 DEF WriteFile, Notify, WatcherType
<1> QED BY <1>1, <1>2, <1>3 DEF WatcherType

LEMMA RemoveFileTypes ==
  ASSUME WatcherType, NEW f \in Files, RemoveFile(f)
  PROVE  WatcherType'
<1>1. /\ PictureType'
      /\ HandType'
      /\ ReloadType'
      /\ LoginType'
      /\ outbox' \in [Tellers -> Updates]
      /\ missed' \subseteq Ids \cup {"config"}
  BY DEF RemoveFile, sources, picture, WatcherType, PictureType, HandType, ReloadType, LoginType
<1>2. SourceType'
  BY DEF RemoveFile, Change, WatcherType, SourceType
<1>3. events' \in Seq(Events)
  <2>1. [file |-> f, op |-> "remove"] \in Events
    BY DEF Events
  <2> QED BY <2>1 DEF RemoveFile, Notify, WatcherType
<1> QED BY <1>1, <1>2, <1>3 DEF WatcherType

LEMMA WriteConfigTypes ==
  ASSUME WatcherType, NEW c \in Configs, WriteConfig(c)
  PROVE  WatcherType'
<1>1. /\ PictureType'
      /\ HandType'
      /\ ReloadType'
      /\ LoginType'
      /\ outbox' \in [Tellers -> Updates]
      /\ missed' \subseteq Ids \cup {"config"}
  BY DEF WriteConfig, sources, picture, WatcherType, PictureType, HandType, ReloadType, LoginType
<1>2. SourceType'
  BY DEF WriteConfig, Change, WatcherType, SourceType
<1>3. events' \in Seq(Events)
  <2>1. [file |-> None, op |-> "config"] \in Events
    BY DEF Events
  <2> QED BY <2>1 DEF WriteConfig, Notify, WatcherType
<1> QED BY <1>1, <1>2, <1>3 DEF WatcherType

LEMMA LoginTypes ==
  ASSUME WatcherType, NEW f \in Files, NEW content \in LoginContents, Login(f, content)
  PROVE  WatcherType'
<1>1. /\ PictureType'
      /\ HandType'
      /\ ReloadType'
      /\ outbox' \in [Tellers -> Updates]
      /\ missed' \subseteq Ids \cup {"config"}
  BY DEF Login, sources, picture, WatcherType, PictureType, HandType, ReloadType
<1>2. SourceType'
  BY DEF Login, Change, WatcherType, SourceType, Texts
<1>3. events' \in Seq(Events)
  <2>1. [file |-> f, op |-> "write"] \in Events
    BY DEF Events
  <2> QED BY <2>1 DEF Login, Notify, WatcherType
<1>4. LoginType'
  BY DEF Login, WatcherType, LoginType
<1> QED BY <1>1, <1>2, <1>3, <1>4 DEF WatcherType

LEMMA PublishLoginTypes ==
  ASSUME WatcherType, PublishLogin
  PROVE  WatcherType'
<1>1. /\ SourceType'
      /\ HandType'
      /\ ReloadType'
      /\ events' \in Seq(Events)
  BY DEF PublishLogin, sources, picture, WatcherType, SourceType, HandType, ReloadType
<1>2. PictureType'
  <2>1. login.file \in Files /\ <<login.data, LoginRecord>> \in Values
    BY LoginValue DEF PublishLogin, WatcherType, LoginType
  <2> QED BY <2>1, KindsOfIds DEF PublishLogin, WatcherType, PictureType
<1>3. LoginType'
  BY DEF PublishLogin, WatcherType, LoginType
<1>4. /\ outbox' \in [Tellers -> Updates]
      /\ missed' \subseteq Ids \cup {"config"}
  <2>1. login.file \in Ids /\ <<login.data, LoginRecord>> \in Values
    BY LoginValue, KindsOfIds DEF PublishLogin, WatcherType, LoginType
  <2>2. [id \in {login.file} |-> <<login.data, LoginRecord>>] \in Updates
    BY <2>1, OneUpdate
  <2> DEFINE news == [id \in {login.file} |-> <<login.data, LoginRecord>>]
             late == {id \in {login.file} : disk[login.file] # login.data /\ Handled(login.file)}
  <2>3. Finds("login", news, late)
    BY DEF PublishLogin
  <2>4. late \in SUBSET Ids
    BY <2>1
  <2> HIDE DEF news, late
  <2> QED BY <2>2, <2>3, <2>4, FindsType DEF WatcherType, news
<1> QED BY <1>1, <1>2, <1>3, <1>4 DEF WatcherType

LEMMA ConnectTypes ==
  ASSUME WatcherType, NEW w \in Runtimes, Connect(w)
  PROVE  WatcherType'
<1>1. /\ HandType'
      /\ ReloadType'
      /\ LoginType'
      /\ events' \in Seq(Events)
  BY DEF Connect, sources, picture, WatcherType, HandType, ReloadType, LoginType
<1>2. SourceType'
  BY DEF Connect, Change, WatcherType, SourceType
<1>3. PictureType'
  BY KindsOfIds, KindsOfValues DEF Connect, WatcherType, PictureType
<1>4. /\ outbox' \in [Tellers -> Updates]
      /\ missed' \subseteq Ids \cup {"config"}
  <2> DEFINE news == [id \in {w} |-> RuntimeAuth]
  <2>1. news \in Updates
    BY OneUpdate, KindsOfIds, KindsOfValues
  <2>2. Finds(w, news, {})
    BY DEF Connect
  <2>3. {} \in SUBSET Ids
    OBVIOUS
  <2> HIDE DEF news
  <2> QED BY <2>1, <2>2, <2>3, FindsType DEF WatcherType
<1> QED BY <1>1, <1>2, <1>3, <1>4 DEF WatcherType

LEMMA DisconnectTypes ==
  ASSUME WatcherType, NEW w \in Runtimes, Disconnect(w)
  PROVE  WatcherType'
<1>1. /\ HandType'
      /\ ReloadType'
      /\ LoginType'
      /\ events' \in Seq(Events)
  BY DEF Disconnect, sources, picture, WatcherType, HandType, ReloadType, LoginType
<1>2. SourceType'
  BY DEF Disconnect, Change, WatcherType, SourceType
<1>3. PictureType'
  BY KindsOfIds, KindsOfValues DEF Disconnect, WatcherType, PictureType
<1>4. /\ outbox' \in [Tellers -> Updates]
      /\ missed' \subseteq Ids \cup {"config"}
  <2> DEFINE news == [id \in {w} |-> Gone]
  <2>1. news \in Updates
    BY OneUpdate, KindsOfIds, KindsOfValues
  <2>2. Finds(w, news, {})
    BY DEF Disconnect
  <2>3. {} \in SUBSET Ids
    OBVIOUS
  <2> HIDE DEF news
  <2> QED BY <2>1, <2>2, <2>3, FindsType DEF WatcherType
<1> QED BY <1>1, <1>2, <1>3, <1>4 DEF WatcherType

LEMMA TakeEventTypes ==
  ASSUME WatcherType, TakeEvent
  PROVE  WatcherType'
<1>0. /\ Head(events).op \in {"write", "remove"} => Head(events).file \in Files
      /\ Tail(events) \in Seq(Events)
  <2>1. events \in Seq(Events) /\ events # <<>>
    BY DEF TakeEvent, WatcherType
  <2>2. Head(events) \in Events /\ Tail(events) \in Seq(Events)
    BY <2>1, HeadTailProperties
  <2> QED BY <2>2 DEF Events
<1>1. /\ SourceType'
      /\ ReloadType'
      /\ LoginType'
      /\ outbox' \in [Tellers -> Updates]
  BY DEF TakeEvent, sources, picture, WatcherType, SourceType, ReloadType, LoginType
<1>2. PictureType'
  BY <1>0 DEF TakeEvent, WatcherType, PictureType
<1>3. HandType'
  BY <1>0 DEF TakeEvent, WatcherType, HandType
<1>4. events' \in Seq(Events)
  BY <1>0 DEF TakeEvent
<1>5. missed' \subseteq Ids \cup {"config"}
  BY <1>0, KindsOfIds DEF TakeEvent, WatcherType
<1> QED BY <1>1, <1>2, <1>3, <1>4, <1>5 DEF WatcherType

LEMMA SettleEndsTypes ==
  ASSUME WatcherType, SettleEnds
  PROVE  WatcherType'
<1>0. hand.file \in Files
  BY DEF SettleEnds, WatcherType, HandType
<1>1. /\ SourceType'
      /\ ReloadType'
      /\ LoginType'
      /\ events' \in Seq(Events)
  BY DEF SettleEnds, sources, picture, WatcherType, SourceType, ReloadType, LoginType
<1>2. PictureType'
  BY <1>0, KindsOfIds, KindsOfValues DEF SettleEnds, WatcherType, PictureType
<1>3. HandType'
  BY <1>0 DEF SettleEnds, Resting, WatcherType, HandType
<1>4. /\ outbox' \in [Tellers -> Updates]
      /\ missed' \subseteq Ids \cup {"config"}
  <2> DEFINE news == [id \in files \cap {hand.file} |-> Gone]
  <2>1. CASE UNCHANGED outbox /\ missed' \subseteq missed \cup {hand.file}
    BY <1>0, <2>1, KindsOfIds DEF WatcherType
  <2>2. CASE Finds("loop", news, {})
    <3>1. files \cap {hand.file} \in SUBSET Ids /\ {} \in SUBSET Ids
      BY <1>0, KindsOfIds
    <3>2. news \in [files \cap {hand.file} -> Values]
      BY KindsOfValues
    <3> HIDE DEF news
    <3>3. news \in Updates
      BY <3>1, <3>2 DEF Updates
    <3> QED BY <2>2, <3>1, <3>3, FindsType DEF WatcherType
  <2> QED BY <2>1, <2>2 DEF SettleEnds
<1> QED BY <1>1, <1>2, <1>3, <1>4 DEF WatcherType

LEMMA ReadFileTypes ==
  ASSUME WatcherType, ReadFile
  PROVE  WatcherType'
<1>0. hand.file \in Files
  BY DEF ReadFile, WatcherType, HandType
<1>1. /\ SourceType'
      /\ ReloadType'
      /\ LoginType'
      /\ events' \in Seq(Events)
      /\ outbox' \in [Tellers -> Updates]
  BY DEF ReadFile, sources, picture, WatcherType, SourceType, ReloadType, LoginType
<1>2. PictureType'
  BY <1>0 DEF ReadFile, WatcherType, PictureType
<1>3. HandType'
  <2>1. CASE hand' = Resting
    BY <2>1 DEF Resting, HandType
  <2>2. CASE /\ disk[hand.file] \in Texts
             /\ hand' = [hand EXCEPT !.at = "building", !.data = disk[hand.file], !.cfg = config]
    <3>1. config \in Configs
      BY DEF WatcherType, PictureType
    <3> QED BY <1>0, <2>2, <3>1 DEF WatcherType, HandType
  <2> QED BY <2>1, <2>2 DEF ReadFile
<1>4. missed' \subseteq Ids \cup {"config"}
  BY <1>0, KindsOfIds DEF ReadFile, WatcherType
<1> QED BY <1>1, <1>2, <1>3, <1>4 DEF WatcherType

LEMMA BuildAuthTypes ==
  ASSUME WatcherType, BuildAuth
  PROVE  WatcherType'
<1> DEFINE built == [id \in {hand.file} |-> FileAuth(hand.data, hand.cfg)]
<1>0. hand.file \in Files /\ built \in [{hand.file} -> Values]
  <2>1. hand.file \in Files /\ hand.cfg \in Configs
    BY DEF BuildAuth, WatcherType, HandType
  <2>2. FileAuth(hand.data, hand.cfg) \in Values
    BY <2>1, FileAuthType
  <2> QED BY <2>1, <2>2
<1>1. /\ SourceType'
      /\ ReloadType'
      /\ LoginType'
      /\ events' \in Seq(Events)
  BY DEF BuildAuth, sources, picture, WatcherType, SourceType, ReloadType, LoginType
<1>2. PictureType'
  <2>1. built[hand.file] \in Values
    BY <1>0
  <2> HIDE DEF built
  <2>2. current' = [current EXCEPT ![hand.file] = built[hand.file]]
    BY DEF BuildAuth, built
  <2>3. files' = files \cup {hand.file}
    BY DEF BuildAuth
  <2> QED BY <1>0, <2>1, <2>2, <2>3, KindsOfIds DEF BuildAuth, WatcherType, PictureType
<1>3. HandType'
  BY DEF BuildAuth, Resting, WatcherType, HandType
<1>4. /\ outbox' \in [Tellers -> Updates]
      /\ missed' \subseteq Ids \cup {"config"}
  <2> DEFINE over == {id \in {hand.file} : /\ hand.cfg.excluded # config.excluded
                                           /\ \A r \in Reloads : ~Active(r)}
  <2>1. Finds("loop", News(current, built, FALSE), over)
    BY DEF BuildAuth
  <2>2. over \in SUBSET Ids
    BY <1>0, KindsOfIds
  <2>3. News(current, built, FALSE) \in Updates
    <3> HIDE DEF built
    <3>1. {hand.file} \in SUBSET Ids
      BY <1>0, KindsOfIds
    <3> QED BY <1>0, <3>1, NewsType
  <2> HIDE DEF over, built
  <2> QED BY <2>1, <2>2, <2>3, FindsType DEF WatcherType
<1> QED BY <1>1, <1>2, <1>3, <1>4 DEF WatcherType

LEMMA RescanTypes ==
  ASSUME WatcherType, NEW r \in Reloads, Rescan(r)
  PROVE  WatcherType'
<1>1. /\ SourceType'
      /\ HandType'
      /\ LoginType'
      /\ events' \in Seq(Events)
      /\ outbox' \in [Tellers -> Updates]
      /\ missed' \subseteq Ids \cup {"config"}
  BY DEF Rescan, sources, picture, WatcherType, SourceType, HandType, LoginType
<1>2. PictureType'
  BY DEF Rescan, WatcherType, SourceType, PictureType
<1>3. ReloadType'
  <2> DEFINE new == [reload[r] EXCEPT !.at = "snapshotting"]
  <2>1. /\ new \in ReloadRecords
        /\ new.at = "publishing" => new.cfg \in Configs
        /\ new.at = "scanning" => new.under \in Configs
        /\ new.at = "refreshing" => new.found \in [Names -> Values]
    BY DEF WatcherType, ReloadType, ReloadRecords, Stages
  <2>2. reload' = [reload EXCEPT ![r] = new]
    BY DEF Rescan
  <2> HIDE DEF new
  <2> QED BY <2>1, <2>2, ReloadStep DEF WatcherType
<1> QED BY <1>1, <1>2, <1>3 DEF WatcherType

LEMMA ReloadStartsTypes ==
  ASSUME WatcherType, NEW r \in Reloads, ReloadStarts(r)
  PROVE  WatcherType'
<1>1. /\ SourceType'
      /\ HandType'
      /\ LoginType'
      /\ events' \in Seq(Events)
      /\ outbox' \in [Tellers -> Updates]
      /\ missed' \subseteq Ids \cup {"config"}
  BY DEF ReloadStarts, Change, picture, WatcherType, SourceType, HandType, LoginType
<1>2. PictureType'
  BY DEF ReloadStarts, WatcherType, PictureType
<1>3. ReloadType'
  <2> DEFINE new == [reload[r] EXCEPT !.at = IF configFile = configHash THEN "idle" ELSE "loading"]
  <2>1. /\ new \in ReloadRecords
        /\ new.at = "publishing" => new.cfg \in Configs
        /\ new.at = "scanning" => new.under \in Configs
        /\ new.at = "refreshing" => new.found \in [Names -> Values]
    BY DEF WatcherType, ReloadType, ReloadRecords, Stages
  <2>2. reload' = [reload EXCEPT ![r] = new]
    BY DEF ReloadStarts
  <2> HIDE DEF new
  <2> QED BY <2>1, <2>2, ReloadStep DEF WatcherType
<1> QED BY <1>1, <1>2, <1>3 DEF WatcherType

LEMMA LoadConfigTypes ==
  ASSUME WatcherType, NEW r \in Reloads, LoadConfig(r)
  PROVE  WatcherType'
<1>1. /\ SourceType'
      /\ PictureType'
      /\ HandType'
      /\ LoginType'
      /\ events' \in Seq(Events)
      /\ outbox' \in [Tellers -> Updates]
      /\ missed' \subseteq Ids \cup {"config"}
  BY DEF LoadConfig, sources, picture, WatcherType, SourceType, PictureType, HandType, LoginType
<1>2. ReloadType'
  <2> DEFINE new == [reload[r] EXCEPT !.at = "publishing", !.cfg = configFile]
  <2>1. /\ new \in ReloadRecords
        /\ new.at = "publishing" => new.cfg \in Configs
        /\ new.at = "scanning" => new.under \in Configs
        /\ new.at = "refreshing" => new.found \in [Names -> Values]
    BY DEF SourceType, WatcherType, ReloadType, ReloadRecords, Stages
  <2>2. reload' = [reload EXCEPT ![r] = new]
    BY DEF LoadConfig
  <2> HIDE DEF new
  <2> QED BY <2>1, <2>2, ReloadStep DEF WatcherType
<1> QED BY <1>1, <1>2 DEF WatcherType

LEMMA PublishConfigTypes ==
  ASSUME WatcherType, NEW r \in Reloads, PublishConfig(r)
  PROVE  WatcherType'
<1>1. /\ SourceType'
      /\ HandType'
      /\ LoginType'
      /\ events' \in Seq(Events)
      /\ outbox' \in [Tellers -> Updates]
      /\ missed' \subseteq Ids \cup {"config"}
  BY DEF PublishConfig, sources, picture, WatcherType, SourceType, HandType, LoginType
<1>2. PictureType'
  BY DEF PublishConfig, WatcherType, ReloadType, PictureType
<1>3. ReloadType'
  <2> DEFINE new == [reload[r] EXCEPT
                       !.at = IF config.excluded # reload[r].cfg.excluded THEN "forgetting"
                                                                          ELSE "snapshotting",
                       !.force = config.retry # reload[r].cfg.retry]
  <2>1. /\ new \in ReloadRecords
        /\ new.at = "publishing" => new.cfg \in Configs
        /\ new.at = "scanning" => new.under \in Configs
        /\ new.at = "refreshing" => new.found \in [Names -> Values]
    <3>1. /\ reload[r] \in ReloadRecords
          /\ (config.retry # reload[r].cfg.retry) \in BOOLEAN
      BY DEF WatcherType, ReloadType
    <3>2. \A at \in {"forgetting", "snapshotting"}, force \in BOOLEAN :
            [reload[r] EXCEPT !.at = at, !.force = force] \in ReloadRecords
      BY <3>1 DEF ReloadRecords, Stages
    <3>3. new.at \in {"forgetting", "snapshotting"}
      BY <3>1 DEF ReloadRecords
    <3> QED BY <3>1, <3>2, <3>3
  <2>2. reload' = [reload EXCEPT ![r] = new]
    BY DEF PublishConfig
  <2> HIDE DEF new
  <2> QED BY <2>1, <2>2, ReloadStep DEF WatcherType
<1> QED BY <1>1, <1>2, <1>3 DEF WatcherType

LEMMA ForgetAffectedTypes ==
  ASSUME WatcherType, NEW r \in Reloads, ForgetAffected(r)
  PROVE  WatcherType'
<1>1. /\ SourceType'
      /\ HandType'
      /\ LoginType'
      /\ events' \in Seq(Events)
      /\ outbox' \in [Tellers -> Updates]
      /\ missed' \subseteq Ids \cup {"config"}
  BY DEF ForgetAffected, sources, picture, WatcherType, SourceType, HandType, LoginType
<1>2. PictureType'
  BY KindsOfValues DEF ForgetAffected, WatcherType, PictureType
<1>3. ReloadType'
  <2> DEFINE new == [reload[r] EXCEPT
                       !.at = "snapshotting", !.forgot = {id \in Affected : current[id] # Gone}]
  <2>1. /\ new \in ReloadRecords
        /\ new.at = "publishing" => new.cfg \in Configs
        /\ new.at = "scanning" => new.under \in Configs
        /\ new.at = "refreshing" => new.found \in [Names -> Values]
    <3>1. {id \in Affected : current[id] # Gone} \in SUBSET Ids
      BY KindsOfIds, WatcherAssumption DEF WatcherAssumption
    <3> QED BY <3>1 DEF WatcherType, ReloadType, ReloadRecords, Stages
  <2>2. reload' = [reload EXCEPT ![r] = new]
    BY DEF ForgetAffected
  <2> HIDE DEF new
  <2> QED BY <2>1, <2>2, ReloadStep DEF WatcherType
<1> QED BY <1>1, <1>2, <1>3 DEF WatcherType

LEMMA LookUpConfigTypes ==
  ASSUME WatcherType, NEW r \in Reloads, LookUpConfig(r)
  PROVE  WatcherType'
<1>1. /\ SourceType'
      /\ PictureType'
      /\ HandType'
      /\ LoginType'
      /\ events' \in Seq(Events)
      /\ outbox' \in [Tellers -> Updates]
      /\ missed' \subseteq Ids \cup {"config"}
  BY DEF LookUpConfig, sources, picture, WatcherType, SourceType, PictureType, HandType, LoginType
<1>2. ReloadType'
  <2> DEFINE new == [reload[r] EXCEPT !.at = "scanning", !.under = config]
  <2>1. /\ new \in ReloadRecords
        /\ new.at = "publishing" => new.cfg \in Configs
        /\ new.at = "scanning" => new.under \in Configs
        /\ new.at = "refreshing" => new.found \in [Names -> Values]
    BY DEF WatcherType, PictureType, ReloadType, ReloadRecords, Stages
  <2>2. reload' = [reload EXCEPT ![r] = new]
    BY DEF LookUpConfig
  <2> HIDE DEF new
  <2> QED BY <2>1, <2>2, ReloadStep DEF WatcherType
<1> QED BY <1>1, <1>2 DEF WatcherType

LEMMA TakeSnapshotTypes ==
  ASSUME WatcherType, NEW r \in Reloads, TakeSnapshot(r)
  PROVE  WatcherType'
<1>1. /\ SourceType'
      /\ PictureType'
      /\ HandType'
      /\ LoginType'
      /\ events' \in Seq(Events)
      /\ outbox' \in [Tellers -> Updates]
      /\ missed' \subseteq Ids \cup {"config"}
  BY DEF TakeSnapshot, sources, picture, WatcherType, SourceType, PictureType, HandType, LoginType
<1>2. ReloadType'
  <2> DEFINE new == [reload[r] EXCEPT !.at = "refreshing", !.found = Snapshot(reload[r].under, disk)]
  <2>1. /\ new \in ReloadRecords
        /\ new.at = "publishing" => new.cfg \in Configs
        /\ new.at = "scanning" => new.under \in Configs
        /\ new.at = "refreshing" => new.found \in [Names -> Values]
    <3>1. Snapshot(reload[r].under, disk) \in [Names -> Values]
      BY SnapshotType DEF TakeSnapshot, WatcherType, SourceType, ReloadType
    <3> QED BY <3>1 DEF WatcherType, ReloadType, ReloadRecords, Stages
  <2>2. reload' = [reload EXCEPT ![r] = new]
    BY DEF TakeSnapshot
  <2> HIDE DEF new
  <2> QED BY <2>1, <2>2, ReloadStep DEF WatcherType
<1> QED BY <1>1, <1>2 DEF WatcherType

LEMMA RefreshAuthStateTypes ==
  ASSUME WatcherType, NEW r \in Reloads, RefreshAuthState(r)
  PROVE  WatcherType'
<1>0. Merged(reload[r].found) \in [Ids -> Values]
  <2>1. reload[r].found \in [Names -> Values]
    BY DEF RefreshAuthState, WatcherType, ReloadType
  <2> QED BY <2>1, MergedType
<1>1. /\ SourceType'
      /\ HandType'
      /\ LoginType'
      /\ events' \in Seq(Events)
  BY DEF RefreshAuthState, sources, picture, WatcherType, SourceType, HandType, LoginType
<1>2. PictureType'
  <2>1. current' \in [Ids -> Values]
    BY <1>0 DEF RefreshAuthState
  <2> QED BY <2>1 DEF RefreshAuthState, WatcherType, PictureType
<1>3. ReloadType'
  <2> DEFINE new == [reload[r] EXCEPT
                       !.at = IF reload[r].cfg = None THEN "idle" ELSE "rehashing",
                       !.force = FALSE, !.forgot = {}, !.under = None, !.found = <<>>]
  <2>1. /\ new \in ReloadRecords
        /\ new.at = "publishing" => new.cfg \in Configs
        /\ new.at = "scanning" => new.under \in Configs
        /\ new.at = "refreshing" => new.found \in [Names -> Values]
    BY DEF WatcherType, ReloadType, ReloadRecords, Stages
  <2>2. reload' = [reload EXCEPT ![r] = new]
    BY DEF RefreshAuthState
  <2> HIDE DEF new
  <2> QED BY <2>1, <2>2, ReloadStep DEF WatcherType
<1>4. /\ outbox' \in [Tellers -> Updates]
      /\ missed' \subseteq Ids \cup {"config"}
  <2> DEFINE news == News(current, Merged(reload[r].found), reload[r].force)
             overtaken == {f \in Files : /\ disk[f] # Empty /\ Handled(f)
                                         /\ reload[r].found[f] # Snapshot(config, disk)[f]}
             outdated == {id \in Names : /\ Outdated(id, reload[r].found[id])
                                         /\ \A x \in Reloads \ {r} : ~Active(x)}
             forgotten == {id \in reload[r].forgot :
                             /\ Merged(reload[r].found)[id] = Gone /\ current[id] = Gone
                             /\ LastWords(id) # {Gone}}
  <2>1. Finds(r, news, overtaken \cup outdated \cup forgotten)
    BY DEF RefreshAuthState
  <2>2. overtaken \cup outdated \cup forgotten \in SUBSET Ids
    <3>1. reload[r].forgot \subseteq Ids
      BY DEF WatcherType, ReloadType, ReloadRecords
    <3> QED BY <3>1, KindsOfIds
  <2>3. news \in Updates
    <3>1. reload[r].force \in BOOLEAN /\ Ids \in SUBSET Ids
      BY DEF WatcherType, ReloadType, ReloadRecords
    <3> QED BY <1>0, <3>1, NewsType
  <2> HIDE DEF news, overtaken, outdated, forgotten
  <2> QED BY <2>1, <2>2, <2>3, FindsType DEF WatcherType
<1> QED BY <1>1, <1>2, <1>3, <1>4 DEF WatcherType

LEMMA RehashTypes ==
  ASSUME WatcherType, NEW r \in Reloads, Rehash(r)
  PROVE  WatcherType'
<1>1. /\ SourceType'
      /\ HandType'
      /\ LoginType'
      /\ events' \in Seq(Events)
      /\ outbox' \in [Tellers -> Updates]
  BY DEF Rehash, sources, picture, WatcherType, SourceType, HandType, LoginType
<1>2. PictureType'
  BY DEF Rehash, WatcherType, SourceType, PictureType
<1>3. ReloadType'
  <2> DEFINE new == NoReload
  <2>1. /\ new \in ReloadRecords
        /\ new.at = "publishing" => new.cfg \in Configs
        /\ new.at = "scanning" => new.under \in Configs
        /\ new.at = "refreshing" => new.found \in [Names -> Values]
    BY DEF NoReload, ReloadRecords, Stages
  <2>2. reload' = [reload EXCEPT ![r] = new]
    BY DEF Rehash
  <2> HIDE DEF new
  <2> QED BY <2>1, <2>2, ReloadStep DEF WatcherType
<1>4. missed' \subseteq Ids \cup {"config"}
  BY DEF Rehash, WatcherType
<1> QED BY <1>1, <1>2, <1>3, <1>4 DEF WatcherType

LEMMA HandInTypes ==
  ASSUME WatcherType, NEW t \in Tellers, HandIn(t)
  PROVE  WatcherType'
<1>1. /\ SourceType'
      /\ PictureType'
      /\ HandType'
      /\ ReloadType'
      /\ LoginType'
      /\ events' \in Seq(Events)
      /\ missed' \subseteq Ids \cup {"config"}
  BY DEF HandIn, sources, picture, WatcherType, SourceType, PictureType, HandType, ReloadType, LoginType
<1>2. outbox' \in [Tellers -> Updates]
  BY QuietlyType DEF HandIn, WatcherType
<1> QED BY <1>1, <1>2 DEF WatcherType

LEMMA TransportTypes ==
  ASSUME WatcherType, UNCHANGED watcher
  PROVE  WatcherType'
BY DEF watcher, sources, picture, WatcherType, SourceType, PictureType, HandType, ReloadType,
   LoginType

LEMMA InitType == Init => WatcherType
<1> SUFFICES ASSUME Init PROVE WatcherType
  OBVIOUS
<1> USE DEF Init
<1>1. SourceType
  <2>1. disk = StartFiles /\ configFile = StartConfig /\ changes = 0
    OBVIOUS
  <2>2. /\ StartFiles \in [Files -> Texts \cup {None}]
        /\ StartConfig \in Configs /\ MaxChanges \in Nat
    BY WatcherAssumption DEF WatcherAssumption
  <2> HIDE DEF Init
  <2> QED BY <2>1, <2>2 DEF SourceType
<1>2. PictureType
  BY WatcherAssumption, KindsOfValues DEF WatcherAssumption, PictureType
<1>3. HandType
  BY DEF Resting, HandType
<1>4. ReloadType
  <2> DEFINE first == [NoReload EXCEPT !.at = "rescanning",
                                       !.forgot = {id \in Names : AtStart[id] # Gone}]
  <2>1. {id \in Names : AtStart[id] # Gone} \in SUBSET Ids
    BY KindsOfIds
  <2>2. NoReload \in ReloadRecords /\ NoReload.at = "idle"
    BY DEF NoReload, ReloadRecords, Stages
  <2>3. first \in ReloadRecords /\ first.at = "rescanning"
    BY <2>1 DEF NoReload, ReloadRecords, Stages
  <2>4. reload = [r \in Reloads |-> IF r = StartReload THEN first ELSE NoReload]
    OBVIOUS
  <2> HIDE DEF first, Init
  <2>5. reload \in [Reloads -> ReloadRecords]
    BY <2>2, <2>3, <2>4
  <2>6. \A r \in Reloads : reload[r].at \in {"idle", "rescanning"}
    BY <2>2, <2>3, <2>4
  <2> QED BY <2>5, <2>6 DEF ReloadType
<1>5. LoginType
  BY DEF LoginType
<1>6. outbox \in [Tellers -> Updates]
  BY QuietlyType
<1>7. events \in Seq(Events) /\ missed \subseteq Ids \cup {"config"}
  <2>1. events = <<>> /\ missed = {}
    OBVIOUS
  <2> HIDE DEF Init
  <2> QED BY <2>1
<1> HIDE DEF Init
<1> QED BY <1>1, <1>2, <1>3, <1>4, <1>5, <1>6, <1>7 DEF WatcherType

LEMMA UsersTypes == WatcherType /\ Users => WatcherType'
BY WriteFileTypes, RemoveFileTypes, LoginTypes, WriteConfigTypes, ConnectTypes, DisconnectTypes
   DEF Users

LEMMA WorkTypes == WatcherType /\ Work => WatcherType'
BY TakeEventTypes, SettleEndsTypes, ReadFileTypes, BuildAuthTypes, PublishLoginTypes,
   RescanTypes, ReloadStartsTypes, LoadConfigTypes, PublishConfigTypes, ForgetAffectedTypes,
   LookUpConfigTypes, TakeSnapshotTypes, RefreshAuthStateTypes, RehashTypes, HandInTypes
   DEF Work

LEMMA NextKeepsTypes == WatcherType /\ [Next]_vars => WatcherType'
<1>1. WatcherType /\ UNCHANGED vars => WatcherType'
  BY TransportTypes DEF vars
<1>2. WatcherType /\ Transport /\ UNCHANGED watcher => WatcherType'
  BY TransportTypes
<1> QED BY <1>1, <1>2, UsersTypes, WorkTypes DEF Next

-----------------------------------------------------------------------------
(* The watcher is a pipeline whose updates are what the tellers find out.  *)

\* All that users and the goroutines of the watcher do to the pipeline is to hand in
\* updates of known credentials.
LEMMA UsersLeavePipeline == Users => UNCHANGED pipeline
BY DEF Users, WriteFile, RemoveFile, WriteConfig, Login, Connect, Disconnect

LEMMA WorkHandsIn ==
  ASSUME WatcherType, Work
  PROVE  [PipelineNext]_pipeline
<1>1. CASE \E t \in Tellers : HandIn(t)
  <2>1. PICK t \in Tellers : Tell(outbox[t])
    BY <1>1 DEF HandIn
  <2>2. PICK S \in SUBSET Ids : outbox[t] \in [S -> Values]
    BY DEF WatcherType, Updates
  <2> QED BY <2>1, <2>2 DEF PipelineNext
<1>2. CASE TakeEvent \/ SettleEnds \/ ReadFile \/ BuildAuth \/ PublishLogin
  BY <1>2 DEF TakeEvent, SettleEnds, ReadFile, BuildAuth, PublishLogin
<1>3. CASE \E r \in Reloads :
             \/ Rescan(r) \/ ReloadStarts(r) \/ LoadConfig(r) \/ PublishConfig(r)
             \/ ForgetAffected(r) \/ LookUpConfig(r) \/ TakeSnapshot(r) \/ RefreshAuthState(r)
             \/ Rehash(r)
  BY <1>3 DEF Rescan, ReloadStarts, LoadConfig, PublishConfig, ForgetAffected, LookUpConfig,
     TakeSnapshot,
     RefreshAuthState, Rehash
<1> QED BY <1>1, <1>2, <1>3 DEF Work

LEMMA NextIsPipelineStep == WatcherType /\ [Next]_vars => [PipelineNext]_pipeline
<1>1. UNCHANGED vars => UNCHANGED pipeline
  BY DEF vars
<1> QED BY <1>1, UsersLeavePipeline, WorkHandsIn DEF Next, PipelineNext

LEMMA WatcherTyped == Spec => []WatcherType
BY InitType, NextKeepsTypes, PTL DEF Spec

\* The watcher, with whatever users do and however its goroutines interleave, is a way of
\* updates as AuthUpdates describes it.
THEOREM WatcherIsPipeline == Spec => PipelineSpec
<1>1. Init => PipelineInit
  BY DEF Init
<1> QED BY <1>1, NextIsPipelineStep, WatcherTyped, PTL DEF Spec, PipelineSpec

\* TypeOK: the watcher's caches, the records of its goroutines and its outboxes are what
\* they are declared to be.
THEOREM WatcherTypeCorrect == Spec => []TypeOK
<1>1. WatcherType /\ PipelineTypeOK => TypeOK
  <2> SUFFICES ASSUME WatcherType, PipelineTypeOK PROVE TypeOK
    OBVIOUS
  <2>1. events \in Seq([file : Files \cup {None}, op : {"write", "remove", "config"}])
    <3> DEFINE All == [file : Files \cup {None}, op : {"write", "remove", "config"}]
    <3>1. Events \subseteq All
      BY DEF Events
    <3>2. events \in Seq(Events)
      BY DEF WatcherType
    <3> HIDE DEF All
    <3>3. events \in Seq(All)
      BY <3>1, <3>2
    <3> QED BY <3>3 DEF All
  <2>2. \A r \in Reloads : /\ DOMAIN reload[r] = DOMAIN NoReload
                            /\ {reload[r].cfg, reload[r].under} \subseteq Configs \cup {None}
                            /\ reload[r].forgot \subseteq Ids
    BY DEF WatcherType, ReloadType, ReloadRecords, NoReload
  <2>3. \A t \in Tellers : /\ DOMAIN outbox[t] \subseteq Ids
                            /\ \A id \in DOMAIN outbox[t] : outbox[t][id] \in Values
    BY DEF WatcherType, Updates
  <2> QED BY <2>1, <2>2, <2>3 DEF TypeOK, WatcherType, SourceType, PictureType, HandType, LoginType
<1> QED BY <1>1, WatcherTyped, WatcherIsPipeline, PipelineTypes, PTL

\* ImplementsMailbox, of the whole watcher: no interleaving of file events, reloads,
\* logins and connections makes the service handle the updates of a credential out of order or twice.
THEOREM WatcherImplementsMailbox == Spec => ImplementsMailbox
BY WatcherIsPipeline, PipelineImplementsMailbox, PTL

\* LatestIsApplied, of the whole watcher: the service is not left with an older update of a
\* credential than the one that was handed in last.
THEOREM WatcherNeverLeavesOlder == Spec => []LatestIsApplied
BY WatcherIsPipeline, NeverLeftWithOlder, PTL

-----------------------------------------------------------------------------
(* What the watcher still has to do.  These are the parts of the invariant *)
(* from which FilesAreFollowed and SourcesAreFollowed follow.              *)

\* An event of a file is on its way to the event loop, or the loop is at work on the file.
About(e, f) == e.file = f /\ e.op # "config"
Announced(f) == \E i \in 1..Len(events) : About(events[i], f)
Stirred(f) == Announced(f) \/ (hand.at # "idle" /\ hand.file = f)

SomeActive == \E r \in Reloads : Active(r)

\* A reload of the configuration, from its first look at the file to its last.
Reloading(r) == reload[r].at = "loading" \/ reload[r].cfg # None
SomeReloading == \E r \in Reloads : Reloading(r)

\* The last event of a file tells whether it is there.
EventsTell ==
  \A f \in Files : \A i \in 1..Len(events) :
    /\ About(events[i], f)
    /\ \A j \in (i + 1)..Len(events) : ~About(events[j], f)
    => (events[i].op = "remove" <=> disk[f] = None)

\* What the event loop has read is what the file says, or there is an event to come.
HandTells ==
  /\ hand.at = "reading" /\ disk[hand.file] = None => Announced(hand.file)
  /\ hand.at = "building" => /\ hashes[hand.file] = hand.data
                             /\ disk[hand.file] # hand.data => Announced(hand.file)

\* So is the hash that is kept of a file; and of such a file the watcher knows the credential.
HashesTell ==
  \A f \in Files :
    /\ f \notin missed /\ disk[f] # Empty =>
         \/ hashes[f] = IF disk[f] \in Texts THEN disk[f] ELSE None
         \/ Stirred(f)
         \/ \E r \in Reloads : reload[r].at = "rescanning"
    /\ hashes[f] # None => f \in files \/ (hand.at = "building" /\ hand.file = f)

\* A file's credential is right, or something is under way that puts it right.
Right(f, v) ==
  \/ v = FileAuth(disk[f], config)
  \/ disk[f] \in LoginContents /\ v = <<disk[f], LoginRecord>>

FilesFollow ==
  \A f \in Files \ missed :
    disk[f] # Empty => Right(f, current[f]) \/ Stirred(f) \/ SomeActive

\* The exclusions of a file's credential are those in force.
UpToDate(v) ==
  \/ v = Gone
  \/ \E content \in Texts : v = <<content, config.excluded>>
  \/ \E content \in LoginContents : v = <<content, LoginRecord>>

ExclusionsFollow == \A f \in Files \ missed : UpToDate(current[f]) \/ SomeActive

\* The picture has the keys of the configuration, and the providers that are connected.
KeyState(k) == IF k \in config.keys THEN KeyAuth ELSE Gone
KeysFollow == \A k \in Keys \ missed : current[k] = KeyState(k) \/ SomeActive

SocketState(w) == IF w \in runtime THEN RuntimeAuth ELSE Gone
SocketsFollow == \A w \in Runtimes : current[w] = SocketState(w)

\* The configuration in force is the one in the file, or a reload is to come; and the
\* hash that is kept is that of the configuration in force.
ConfigFollows ==
  "config" \notin missed =>
    /\ \/ config = configFile
       \/ \E i \in 1..Len(events) : events[i].op = "config"
       \/ armed
       \/ SomeReloading
    /\ configHash = None \/ config = configHash \/ SomeReloading

\* What reloads have in hand.
FoundInFile(v) == v = Gone \/ \E content \in Texts, c \in Configs : v = <<content, c.excluded>>
ReloadHolds(r) ==
  /\ Active(r) => outbox[r] = Quietly
  /\ reload[r].forgot # {} => reload[r].at \in {"rescanning", "snapshotting", "scanning", "refreshing"}
  /\ reload[r].at \in {"publishing", "forgetting", "rehashing"} => reload[r].cfg # None
  /\ reload[r].at = "idle" => reload[r].cfg = None
  /\ reload[r].at = "refreshing" => \A f \in Files : FoundInFile(reload[r].found[f])
ReloadsHold == \A r \in Reloads : ReloadHolds(r)

\* Nobody finds out news before the last ones are handed in.
OthersHold ==
  /\ hand.at # "idle" => outbox["loop"] = Quietly
  /\ login.at = "saved" => outbox["login"] = Quietly

\* The service has what the picture has, or is told so, but for what a reload has
\* dropped from the picture.
Forgotten(id) == current[id] = Gone /\ \E r \in Reloads : id \in reload[r].forgot
PictureIsTold ==
  \A id \in Ids \ missed : \A v \in LastWords(id) : v = current[id] \/ Forgotten(id)

Following ==
  /\ EventsTell /\ HandTells /\ HashesTell
  /\ FilesFollow /\ ExclusionsFollow /\ KeysFollow /\ SocketsFollow /\ ConfigFollows
  /\ ReloadsHold /\ OthersHold /\ PictureIsTold

-----------------------------------------------------------------------------
(* When all is quiet, it has done it.                                      *)

LEMMA QuietIsTold ==
  ASSUME WatcherType, PipelineTypeOK, Following, LatestIsApplied, Quiet, NEW id \in Ids \ missed
  PROVE  Held(id) = current[id]
<1>1. Delivered(id) /\ AtRest
  BY DEF Quiet
<1>2. applied[id] = Len(told[id])
  BY <1>1 DEF LatestIsApplied
<1>3. Held(id) = LastTold(id)
  <2>1. told[id] \in Seq(Values)
    BY DEF PipelineTypeOK
  <2>2. told[id] = <<>> <=> Len(told[id]) = 0
    BY <2>1
  <2> QED BY <1>2, <2>2 DEF Held, LastTold
<1>4. Untold(id) = {}
  <2>1. \A t \in Tellers : outbox[t] = Quietly
    BY <1>1 DEF AtRest
  <2> QED BY <2>1 DEF Untold, Quietly
<1>5. ~Forgotten(id)
  BY <1>1 DEF AtRest, Following, ReloadsHold, ReloadHolds, Forgotten
<1> QED BY <1>3, <1>4, <1>5 DEF Following, PictureIsTold, LastWords

LEMMA QuietFiles ==
  ASSUME WatcherType, PipelineTypeOK, Following, LatestIsApplied
  PROVE  FilesAreFollowed
<1> SUFFICES ASSUME Quiet, NEW f \in Files \ missed, disk[f] # Empty
             PROVE  Right(f, Held(f))
  BY DEF FilesAreFollowed, Right
<1>1. Held(f) = current[f]
  BY QuietIsTold, KindsOfIds
<1>2. ~Stirred(f) /\ ~SomeActive
  BY DEF Quiet, AtRest, Stirred, Announced, SomeActive, Active
<1> QED BY <1>1, <1>2 DEF Following, FilesFollow

LEMMA QuietSources ==
  ASSUME WatcherType, PipelineTypeOK, Following, LatestIsApplied
  PROVE  SourcesAreFollowed
<1> SUFFICES ASSUME Quiet
             PROVE  /\ "config" \in missed \/ config = configFile
                    /\ \A k \in Keys \ missed : Held(k) = KeyState(k)
                    /\ \A w \in Runtimes \ missed : Held(w) = SocketState(w)
  BY DEF SourcesAreFollowed, KeyState, SocketState
<1>1. AtRest
  BY DEF Quiet
<1>2. ~SomeActive /\ ~SomeReloading
  BY <1>1 DEF AtRest, SomeActive, Active, SomeReloading, Reloading, Following, ReloadsHold, ReloadHolds
<1>3. "config" \in missed \/ config = configFile
  BY <1>1, <1>2 DEF AtRest, Following, ConfigFollows
<1>4. \A k \in Keys \ missed : Held(k) = KeyState(k)
  BY <1>2, QuietIsTold, KindsOfIds DEF Following, KeysFollow
<1>5. \A w \in Runtimes \ missed : Held(w) = SocketState(w)
  BY QuietIsTold, KindsOfIds DEF Following, SocketsFollow
<1> QED BY <1>3, <1>4, <1>5

-----------------------------------------------------------------------------
(* What a step leaves alone stays.                                         *)

LEMMA EventsTellStands ==
  ASSUME EventsTell, UNCHANGED <<events, disk>>
  PROVE  EventsTell'
BY DEF EventsTell, About

LEMMA HandTellsStands ==
  ASSUME HandTells, UNCHANGED <<events, disk, hand, hashes>>
  PROVE  HandTells'
BY DEF HandTells, Announced, About

LEMMA HashesTellStands ==
  ASSUME HashesTell, UNCHANGED <<events, disk, hand, hashes>>, files \subseteq files',
         missed \subseteq missed',
         \A r \in Reloads : reload[r].at = "rescanning" => reload'[r].at = "rescanning"
  PROVE  HashesTell'
BY DEF HashesTell, Stirred, Announced, About

LEMMA FilesFollowStands ==
  ASSUME FilesFollow, UNCHANGED <<events, disk, hand, config>>, missed \subseteq missed',
         SomeActive => SomeActive',
         \A f \in Files \ missed' : current'[f] = current[f]
  PROVE  FilesFollow'
BY DEF FilesFollow, Right, Stirred, Announced, About

LEMMA ExclusionsFollowStands ==
  ASSUME ExclusionsFollow, UNCHANGED config, missed \subseteq missed',
         SomeActive => SomeActive',
         \A f \in Files \ missed' : current'[f] = current[f]
  PROVE  ExclusionsFollow'
BY DEF ExclusionsFollow, UpToDate

LEMMA KeysFollowStands ==
  ASSUME KeysFollow, UNCHANGED config, missed \subseteq missed', SomeActive => SomeActive',
         \A k \in Keys : current'[k] = current[k]
  PROVE  KeysFollow'
BY DEF KeysFollow, KeyState

LEMMA SocketsFollowStands ==
  ASSUME SocketsFollow, UNCHANGED runtime, \A w \in Runtimes : current'[w] = current[w]
  PROVE  SocketsFollow'
BY DEF SocketsFollow, SocketState

LEMMA ConfigFollowsStands ==
  ASSUME ConfigFollows, UNCHANGED <<config, configFile, configHash, armed>>,
         missed \subseteq missed', SomeReloading => SomeReloading',
         (\E i \in 1..Len(events) : events[i].op = "config")
           => \E i \in 1..Len(events') : events'[i].op = "config"
  PROVE  ConfigFollows'
BY DEF ConfigFollows

LEMMA ReloadsHoldStands ==
  ASSUME ReloadsHold, UNCHANGED reload,
         \A r \in Reloads : outbox[r] = Quietly => outbox'[r] = Quietly
  PROVE  ReloadsHold'
BY DEF ReloadsHold, ReloadHolds, Active, FoundInFile, Quietly

LEMMA OthersHoldStands ==
  ASSUME OthersHold, UNCHANGED <<hand, login>>,
         outbox["loop"] = Quietly => outbox'["loop"] = Quietly,
         outbox["login"] = Quietly => outbox'["login"] = Quietly
  PROVE  OthersHold'
BY DEF OthersHold, Quietly

LEMMA PictureIsToldStands ==
  ASSUME PictureIsTold, UNCHANGED <<told, outbox, current>>, missed \subseteq missed',
         \A r \in Reloads : reload[r].forgot \subseteq reload'[r].forgot
  PROVE  PictureIsTold'
<1>1. \A id \in Ids : LastWords(id)' = LastWords(id)
  BY DEF LastWords, LastTold, Untold
<1>2. \A id \in Ids : Forgotten(id) => Forgotten(id)'
  BY DEF Forgotten
<1> QED BY <1>1, <1>2 DEF PictureIsTold

\* While a reload is to come nothing more is asked of the picture.
LEMMA ActiveFollows ==
  ASSUME SomeActive'
  PROVE  FilesFollow' /\ ExclusionsFollow' /\ KeysFollow'
BY DEF FilesFollow, ExclusionsFollow, KeysFollow

\* Nothing of it is disturbed by the pipeline, or by a step that only hands in.
LEMMA ReloadsStandStill ==
  ASSUME UNCHANGED reload
  PROVE  /\ SomeActive => SomeActive'
         /\ SomeReloading => SomeReloading'
         /\ \A r \in Reloads : reload[r].at = "rescanning" => reload'[r].at = "rescanning"
         /\ \A r \in Reloads : reload[r].forgot \subseteq reload'[r].forgot
BY DEF SomeActive, Active, SomeReloading, Reloading

-----------------------------------------------------------------------------
(* The events of the files.                                                *)

\* A file is changed, and the event is on its way.
Changed(f, content) ==
  \E op \in {"write", "remove"} :
    /\ op = "remove" <=> content = None
    /\ disk' = [disk EXCEPT ![f] = content]
    /\ events' = Append(events, [file |-> f, op |-> op])

LEMMA AppendedEvent ==
  ASSUME events \in Seq(Events), NEW e \in Events, events' = Append(events, e)
  PROVE  /\ Len(events') = Len(events) + 1 /\ Len(events) \in Nat
         /\ events'[Len(events) + 1] = e
         /\ \A i \in 1..Len(events) : events'[i] = events[i]
         /\ \A f : Announced(f)' <=> Announced(f) \/ About(e, f)
<1>1. /\ Len(events') = Len(events) + 1 /\ Len(events) \in Nat
      /\ events'[Len(events) + 1] = e
      /\ \A i \in 1..Len(events) : events'[i] = events[i]
  <2> HIDE DEF Events
  <2> QED OBVIOUS
<1>2. ASSUME NEW f
      PROVE  Announced(f)' <=> Announced(f) \/ About(e, f)
  <2>1. 1..Len(events') = 1..Len(events) \cup {Len(events) + 1}
    BY <1>1
  <2> QED BY <1>1, <2>1 DEF Announced, About
<1> QED BY <1>1, <1>2

LEMMA ChangedAnnounces ==
  ASSUME WatcherType, NEW f \in Files, NEW content, Changed(f, content)
  PROVE  /\ Announced(f)'
         /\ \A g \in Files : Announced(g) => Announced(g)'
         /\ \A g \in Files \ {f} : disk'[g] = disk[g]
         /\ (\E i \in 1..Len(events) : events[i].op = "config")
              => \E i \in 1..Len(events') : events'[i].op = "config"
<1>1. PICK op \in {"write", "remove"} :
        disk' = [disk EXCEPT ![f] = content] /\ events' = Append(events, [file |-> f, op |-> op])
  BY DEF Changed
<1> DEFINE e == [file |-> f, op |-> op]
<1>2. e \in Events /\ About(e, f)
  BY <1>1 DEF Events, About
<1>3. events \in Seq(Events)
  BY DEF WatcherType
<1>4. \A g \in Files \ {f} : disk'[g] = disk[g]
  BY <1>1 DEF WatcherType, SourceType
<1> HIDE DEF e
<1>5. /\ Len(events') = Len(events) + 1 /\ Len(events) \in Nat
      /\ \A i \in 1..Len(events) : events'[i] = events[i]
      /\ \A g : Announced(g)' <=> Announced(g) \/ About(e, g)
  BY <1>1, <1>2, <1>3, AppendedEvent DEF e
<1> QED BY <1>2, <1>4, <1>5

LEMMA ChangedTells ==
  ASSUME WatcherType, EventsTell, NEW f \in Files, NEW content, Changed(f, content)
  PROVE  EventsTell'
<1>1. PICK op \in {"write", "remove"} :
        /\ op = "remove" <=> content = None
        /\ disk' = [disk EXCEPT ![f] = content] /\ events' = Append(events, [file |-> f, op |-> op])
  BY DEF Changed
<1> DEFINE e == [file |-> f, op |-> op]
<1>2. e \in Events /\ About(e, f) /\ e.op = op
  BY <1>1 DEF Events, About
<1>3. events \in Seq(Events) /\ disk'[f] = content /\ \A g \in Files \ {f} : disk'[g] = disk[g]
  BY <1>1 DEF WatcherType, SourceType
<1>4. \A g : About(e, g) => g = f
  BY DEF About
<1> HIDE DEF e
<1>5. /\ Len(events') = Len(events) + 1 /\ Len(events) \in Nat
      /\ events'[Len(events) + 1] = e
      /\ \A i \in 1..Len(events) : events'[i] = events[i]
  BY <1>1, <1>2, <1>3, AppendedEvent DEF e
<1> SUFFICES ASSUME NEW g \in Files, NEW i \in 1..Len(events'), About(events'[i], g),
                    \A j \in (i + 1)..Len(events') : ~About(events'[j], g)
             PROVE  events'[i].op = "remove" <=> disk'[g] = None
  BY DEF EventsTell, About
<1>6. CASE i = Len(events) + 1
  BY <1>1, <1>2, <1>3, <1>4, <1>5, <1>6
<1>7. CASE i # Len(events) + 1
  <2>1. i \in 1..Len(events) /\ Len(events) + 1 \in (i + 1)..Len(events')
    BY <1>5, <1>7
  <2>2. g # f
    BY <1>2, <1>5, <2>1
  <2>3. \A j \in (i + 1)..Len(events) : ~About(events[j], g)
    <3> TAKE j \in (i + 1)..Len(events)
    <3>1. j \in (i + 1)..Len(events') /\ j \in 1..Len(events)
      BY <1>5, <2>1
    <3> QED BY <1>5, <3>1
  <2> QED BY <1>3, <1>5, <2>1, <2>2, <2>3 DEF EventsTell
<1> QED BY <1>6, <1>7

\* An event is taken: the others stay, in their order.
LEMMA TakenEvent ==
  ASSUME events \in Seq(Events), events # <<>>, events' = Tail(events)
  PROVE  /\ Head(events) = events[1] /\ Len(events) \in Nat \ {0} /\ Len(events') = Len(events) - 1
         /\ \A i \in 1..Len(events') : events'[i] = events[i + 1]
         /\ \A f : Announced(f) <=> About(Head(events), f) \/ Announced(f)'
<1>1. /\ Head(events) = events[1] /\ Len(events) \in Nat \ {0} /\ Len(events') = Len(events) - 1
      /\ \A i \in 1..Len(events') : events'[i] = events[i + 1]
  <2> HIDE DEF Events
  <2> QED OBVIOUS
<1>2. ASSUME NEW f
      PROVE  Announced(f) <=> About(Head(events), f) \/ Announced(f)'
  <2>1. ASSUME Announced(f), ~About(Head(events), f)
        PROVE  Announced(f)'
    <3>1. PICK i \in 1..Len(events) : About(events[i], f)
      BY <2>1 DEF Announced
    <3>2. i # 1 /\ i - 1 \in 1..Len(events') /\ events'[i - 1] = events[i]
      BY <1>1, <2>1, <3>1
    <3> QED BY <3>1, <3>2 DEF Announced, About
  <2>2. ASSUME Announced(f)'
        PROVE  Announced(f)
    <3>1. PICK i \in 1..Len(events') : About(events'[i], f)
      BY <2>2 DEF Announced, About
    <3>2. i + 1 \in 1..Len(events) /\ events'[i] = events[i + 1]
      BY <1>1, <3>1
    <3> QED BY <3>1, <3>2 DEF Announced
  <2>3. About(Head(events), f) => Announced(f)
    BY <1>1 DEF Announced
  <2> QED BY <2>1, <2>2, <2>3
<1> QED BY <1>1, <1>2

LEMMA TakenTells ==
  ASSUME EventsTell, events \in Seq(Events), events # <<>>, events' = Tail(events), UNCHANGED disk
  PROVE  /\ EventsTell'
         /\ \A f \in Files : About(Head(events), f) /\ ~Announced(f)'
                             => (Head(events).op = "remove" <=> disk[f] = None)
<1>1. /\ Head(events) = events[1] /\ Len(events) \in Nat \ {0} /\ Len(events') = Len(events) - 1
      /\ \A i \in 1..Len(events') : events'[i] = events[i + 1]
  BY TakenEvent
<1>2. EventsTell'
  <2> SUFFICES ASSUME NEW g \in Files, NEW i \in 1..Len(events'), About(events'[i], g),
                      \A j \in (i + 1)..Len(events') : ~About(events'[j], g)
               PROVE  events'[i].op = "remove" <=> disk'[g] = None
    BY DEF EventsTell, About
  <2>1. i + 1 \in 1..Len(events) /\ events'[i] = events[i + 1]
    BY <1>1
  <2>2. \A j \in ((i + 1) + 1)..Len(events) : ~About(events[j], g)
    <3> TAKE j \in ((i + 1) + 1)..Len(events)
    <3>1. j - 1 \in (i + 1)..Len(events') /\ j - 1 \in 1..Len(events') /\ events'[j - 1] = events[j]
      BY <1>1, <2>1
    <3> QED BY <3>1
  <2> QED BY <2>1, <2>2 DEF EventsTell
<1>3. ASSUME NEW f \in Files, About(Head(events), f), ~Announced(f)'
      PROVE  Head(events).op = "remove" <=> disk[f] = None
  <2>1. 1 \in 1..Len(events)
    BY <1>1
  <2>2. \A j \in (1 + 1)..Len(events) : ~About(events[j], f)
    <3> TAKE j \in (1 + 1)..Len(events)
    <3>1. j - 1 \in 1..Len(events') /\ events'[j - 1] = events[j]
      BY <1>1
    <3> QED BY <1>3, <3>1 DEF Announced, About
  <2> QED BY <1>1, <1>3, <2>1, <2>2 DEF EventsTell
<1> QED BY <1>2, <1>3

-----------------------------------------------------------------------------
(* Users.                                                                  *)

LEMMA ChangedFollows ==
  ASSUME WatcherType, Following, NEW f \in Files, NEW content, Changed(f, content),
         UNCHANGED <<told, configFile, picture, hand, reload, outbox, missed>>,
         OthersHold'
  PROVE  Following'
<1> USE DEF picture
<1>1. EventsTell'
  BY ChangedTells DEF Following
<1>2. /\ Announced(f)'
      /\ \A g \in Files : Announced(g) => Announced(g)'
      /\ \A g \in Files \ {f} : disk'[g] = disk[g]
      /\ (\E i \in 1..Len(events) : events[i].op = "config")
           => \E i \in 1..Len(events') : events'[i].op = "config"
  BY ChangedAnnounces
<1>3. HandTells'
  BY <1>2 DEF Following, HandTells, WatcherType, HandType
<1>4. Stirred(f)' /\ \A g \in Files : Stirred(g) => Stirred(g)'
  BY <1>2 DEF Stirred
<1>5. HashesTell'
  BY <1>2, <1>4 DEF Following, HashesTell
<1>6. /\ SomeActive => SomeActive'
      /\ SomeReloading => SomeReloading'
      /\ \A r \in Reloads : reload[r].forgot \subseteq reload'[r].forgot
  BY ReloadsStandStill
<1>7. FilesFollow'
  BY <1>2, <1>4, <1>6 DEF Following, FilesFollow, Right
<1>8. ExclusionsFollow' /\ KeysFollow' /\ SocketsFollow'
  BY <1>6, ExclusionsFollowStands, KeysFollowStands, SocketsFollowStands DEF Following
<1>9. ConfigFollows' /\ ReloadsHold' /\ PictureIsTold'
  BY <1>2, <1>6, ConfigFollowsStands, ReloadsHoldStands, PictureIsToldStands DEF Following
<1> QED BY <1>1, <1>3, <1>5, <1>7, <1>8, <1>9 DEF Following

LEMMA WriteFileFollows ==
  ASSUME WatcherType, Following, NEW f \in Files, NEW content \in Contents \cup {Empty},
         WriteFile(f, content)
  PROVE  Following'
<1>1. content # None
  BY WatcherAssumption DEF WatcherAssumption, Texts
<1>2. Changed(f, content)
  BY <1>1 DEF WriteFile, Notify, Changed
<1>3. UNCHANGED <<told, configFile, picture, hand, reload, outbox, missed, login>>
  BY DEF WriteFile, pipeline
<1>4. OthersHold'
  BY <1>3, OthersHoldStands DEF Following
<1> QED BY <1>2, <1>3, <1>4, ChangedFollows

LEMMA RemoveFileFollows ==
  ASSUME WatcherType, Following, NEW f \in Files, RemoveFile(f)
  PROVE  Following'
<1>1. Changed(f, None)
  BY DEF RemoveFile, Notify, Changed
<1>2. UNCHANGED <<told, configFile, picture, hand, reload, outbox, missed, login>>
  BY DEF RemoveFile, pipeline
<1>3. OthersHold'
  BY <1>2, OthersHoldStands DEF Following
<1> QED BY <1>1, <1>2, <1>3, ChangedFollows

LEMMA LoginFollows ==
  ASSUME WatcherType, Following, NEW f \in Files, NEW content \in LoginContents, Login(f, content)
  PROVE  Following'
<1>1. content # None
  BY WatcherAssumption DEF WatcherAssumption, Texts
<1>2. Changed(f, content)
  BY <1>1 DEF Login, Notify, Changed
<1>3. UNCHANGED <<told, configFile, picture, hand, reload, outbox, missed>>
  BY DEF Login, pipeline
<1>4. OthersHold'
  BY <1>3 DEF Login, Following, OthersHold, Quietly
<1> QED BY <1>2, <1>3, <1>4, ChangedFollows

LEMMA WriteConfigFollows ==
  ASSUME WatcherType, Following, NEW c \in Configs, WriteConfig(c)
  PROVE  Following'
<1> DEFINE e == [file |-> None, op |-> "config"]
<1>1. /\ UNCHANGED <<told, disk, hashes, files, current, runtime, recent, config, configHash, armed,
                     hand, reload, login, outbox, missed>>
      /\ events' = Append(events, e)
  BY DEF WriteConfig, Notify, pipeline, picture
<1>2. e \in Events /\ e.op = "config" /\ \A f : ~About(e, f)
  BY DEF Events, About
<1>3. events \in Seq(Events)
  BY DEF WatcherType
<1> HIDE DEF e
<1>4. /\ Len(events') = Len(events) + 1 /\ Len(events) \in Nat
      /\ events'[Len(events) + 1] = e
      /\ \A i \in 1..Len(events) : events'[i] = events[i]
      /\ \A f : Announced(f)' <=> Announced(f)
  BY <1>1, <1>2, <1>3, AppendedEvent
<1>5. EventsTell'
  <2> SUFFICES ASSUME NEW g \in Files, NEW i \in 1..Len(events'), About(events'[i], g),
                      \A j \in (i + 1)..Len(events') : ~About(events'[j], g)
               PROVE  events'[i].op = "remove" <=> disk[g] = None
    BY <1>1 DEF EventsTell, About
  <2>1. i # Len(events) + 1
    BY <1>2, <1>4
  <2>2. i \in 1..Len(events)
    BY <1>4, <2>1
  <2>3. \A j \in (i + 1)..Len(events) : ~About(events[j], g)
    <3> TAKE j \in (i + 1)..Len(events)
    <3>1. j \in (i + 1)..Len(events') /\ j \in 1..Len(events)
      BY <1>4, <2>2
    <3> QED BY <1>4, <3>1
  <2> QED BY <1>4, <2>2, <2>3 DEF Following, EventsTell
<1>6. \A f : Stirred(f)' <=> Stirred(f)
  BY <1>1, <1>4 DEF Stirred
<1>7. HandTells' /\ HashesTell'
  BY <1>1, <1>4, <1>6 DEF Following, HandTells, HashesTell
<1>8. /\ SomeActive => SomeActive'
      /\ \A r \in Reloads : reload[r].forgot \subseteq reload'[r].forgot
  BY <1>1, ReloadsStandStill
<1>9. FilesFollow'
  BY <1>1, <1>6, <1>8 DEF Following, FilesFollow, Right
<1>10. ExclusionsFollow' /\ KeysFollow' /\ SocketsFollow'
  BY <1>1, <1>8, ExclusionsFollowStands, KeysFollowStands, SocketsFollowStands DEF Following
<1>11. ConfigFollows'
  <2>1. \E i \in 1..Len(events') : events'[i].op = "config"
    BY <1>2, <1>4
  <2> QED BY <1>1, <2>1 DEF Following, ConfigFollows, SomeReloading, Reloading
<1>12. ReloadsHold' /\ OthersHold' /\ PictureIsTold'
  BY <1>1, <1>8, ReloadsHoldStands, OthersHoldStands, PictureIsToldStands DEF Following
<1> QED BY <1>5, <1>7, <1>9, <1>10, <1>11, <1>12 DEF Following

-----------------------------------------------------------------------------
(* News.                                                                   *)

\* Somebody finds out news, and changes the picture accordingly.
LEMMA FindsTells ==
  ASSUME WatcherType, PictureIsTold, UNCHANGED told,
         NEW t \in Tellers, outbox[t] = Quietly,
         NEW news, NEW alsoMissed, Finds(t, news, alsoMissed),
         \A id \in (Ids \ missed') \cap DOMAIN news : current'[id] = news[id],
         \A id \in (Ids \ missed') \ DOMAIN news :
           \A v \in LastWords(id) : v = current[id] \/ Forgotten(id)
                                    => v = current'[id] \/ Forgotten(id)'
  PROVE  PictureIsTold' /\ missed \subseteq missed'
<1>1. missed \subseteq missed' /\ outbox' = [outbox EXCEPT ![t] = news]
  BY DEF Finds
<1>2. outbox' = [x \in Tellers |-> IF x = t THEN news ELSE outbox[x]]
  BY <1>1 DEF WatcherType
<1>3. DOMAIN outbox[t] = {}
  BY DEF Quietly
<1> SUFFICES ASSUME NEW id \in Ids \ missed', NEW v \in LastWords(id)'
             PROVE  v = current'[id] \/ Forgotten(id)'
  BY <1>1 DEF PictureIsTold
<1>4. CASE id \in DOMAIN news
  <2>1. \A x \in Untold(id) : outbox[x][id] = news[id]
    BY <1>4 DEF Finds
  <2>2. t \in Untold(id)' /\ \A x \in Untold(id)' : x = t \/ x \in Untold(id)
    BY <1>2, <1>4 DEF Untold
  <2>3. PICK x \in Untold(id)' : v = outbox'[x][id]
    BY <2>2 DEF LastWords
  <2>4. x \in Tellers
    BY <2>3 DEF Untold
  <2>5. outbox'[x][id] = news[id]
    BY <1>2, <2>1, <2>2, <2>3, <2>4
  <2> QED BY <1>4, <2>3, <2>5
<1>5. CASE id \notin DOMAIN news
  <2>1. Untold(id)' = Untold(id) /\ t \notin Untold(id)
    BY <1>2, <1>3, <1>5 DEF Untold
  <2>2. \A x \in Untold(id) : outbox'[x][id] = outbox[x][id]
    BY <1>2, <2>1 DEF Untold
  <2>3. LastTold(id)' = LastTold(id)
    BY DEF LastTold
  <2>4. LastWords(id)' = LastWords(id)
    BY <2>1, <2>2, <2>3 DEF LastWords
  <2> QED BY <1>1, <1>5, <2>4 DEF PictureIsTold
<1> QED BY <1>4, <1>5

\* What is in an outbox is handed in.
LEMMA HandInTells ==
  ASSUME WatcherType, PipelineTypeOK, PictureIsTold, NEW t \in Tellers, HandIn(t)
  PROVE  PictureIsTold'
<1>1. /\ outbox' = [outbox EXCEPT ![t] = Quietly]
      /\ told' = [id \in Ids |-> IF id \in DOMAIN outbox[t] THEN Append(told[id], outbox[t][id])
                                                            ELSE told[id]]
      /\ UNCHANGED <<current, reload, missed>>
  BY DEF HandIn, Tell, picture
<1>2. outbox' = [x \in Tellers |-> IF x = t THEN Quietly ELSE outbox[x]]
  BY <1>1 DEF WatcherType
<1>3. DOMAIN Quietly = {}
  BY DEF Quietly
<1> SUFFICES ASSUME NEW id \in Ids \ missed, NEW v \in LastWords(id)'
             PROVE  v = current[id] \/ Forgotten(id)
  BY <1>1 DEF PictureIsTold, Forgotten
<1>4. Untold(id)' = Untold(id) \ {t} /\ \A x \in Untold(id)' : outbox'[x][id] = outbox[x][id]
  BY <1>2, <1>3 DEF Untold
<1>5. CASE Untold(id)' # {}
  <2>1. PICK x \in Untold(id)' : v = outbox'[x][id]
    BY <1>5 DEF LastWords
  <2>2. v \in LastWords(id)
    BY <1>4, <2>1 DEF LastWords
  <2> QED BY <2>2 DEF PictureIsTold
<1>6. CASE Untold(id)' = {} /\ t \in Untold(id)
  <2>1. told[id] \in Seq(Values) /\ outbox[t][id] \in Values /\ told'[id] = Append(told[id], outbox[t][id])
    BY <1>1, <1>6 DEF Untold, PipelineTypeOK, WatcherType, Updates
  <2>2. told'[id] # <<>> /\ told'[id][Len(told'[id])] = outbox[t][id]
    BY <2>1
  <2>3. v = outbox[t][id]
    BY <1>6, <2>2 DEF LastWords, LastTold
  <2>4. v \in LastWords(id)
    BY <1>6, <2>3 DEF LastWords
  <2> QED BY <2>4 DEF PictureIsTold
<1>7. CASE Untold(id)' = {} /\ t \notin Untold(id)
  <2>1. told'[id] = told[id] /\ Untold(id) = {}
    BY <1>1, <1>4, <1>7 DEF Untold
  <2>2. LastWords(id)' = LastWords(id)
    BY <1>7, <2>1 DEF LastWords, LastTold
  <2> QED BY <2>2 DEF PictureIsTold
<1> QED BY <1>5, <1>6, <1>7

LEMMA TellersDiffer ==
  /\ Reloads \subseteq Tellers /\ Runtimes \subseteq Tellers /\ {"loop", "login"} \subseteq Tellers
  /\ \A r \in Reloads : r \notin {"loop", "login"} /\ r \notin Runtimes
  /\ \A w \in Runtimes : w \notin {"loop", "login"}
BY WatcherAssumption DEF WatcherAssumption, Tellers

LEMMA KindsDiffer ==
  /\ \A f \in Files : f \notin Keys /\ f \notin Runtimes
  /\ \A w \in Runtimes : w \notin Names /\ w \notin Files /\ w \notin Keys
  /\ \A k \in Keys : k \notin Files /\ k \notin Runtimes
BY WatcherAssumption DEF WatcherAssumption, Names

\* Only its own outbox is touched by a teller.
LEMMA FindsAlone ==
  ASSUME WatcherType, NEW t \in Tellers, NEW news, NEW alsoMissed, Finds(t, news, alsoMissed)
  PROVE  /\ missed \subseteq missed' /\ alsoMissed \subseteq missed'
         /\ \A x \in Tellers \ {t} : outbox'[x] = outbox[x]
BY DEF Finds, WatcherType

LEMMA PublishLoginFollows ==
  ASSUME WatcherType, Following, PublishLogin
  PROVE  Following'
<1> DEFINE f == login.file
           record == <<login.data, LoginRecord>>
           news == [id \in {f} |-> record]
           over == {id \in {f} : disk[f] # login.data /\ Handled(f)}
<1>1. f \in Files /\ login.data \in LoginContents /\ login.at = "saved"
  BY DEF PublishLogin, WatcherType, LoginType
<1>2. /\ UNCHANGED <<told, disk, configFile, events, hashes, runtime, config, configHash, armed, hand, reload>>
      /\ current' = [current EXCEPT ![f] = record] /\ files \subseteq files'
      /\ Finds("login", news, over) /\ login'.at = "idle"
  BY DEF PublishLogin, pipeline, sources, WatcherType, LoginType
<1>3. /\ current'[f] = record /\ \A id \in Ids \ {f} : current'[id] = current[id]
      /\ DOMAIN news = {f} /\ news[f] = record
  BY <1>1, <1>2, KindsOfIds DEF WatcherType, PictureType
<1>4. over = {} \/ f \in over
  OBVIOUS
<1> HIDE DEF news, over, f
<1>5. /\ missed \subseteq missed' /\ over \subseteq missed'
      /\ \A x \in Tellers \ {"login"} : outbox'[x] = outbox[x]
  BY <1>2, FindsAlone, TellersDiffer
<1>6. /\ SomeActive => SomeActive'
      /\ SomeReloading => SomeReloading'
      /\ \A r \in Reloads : reload[r].at = "rescanning" => reload'[r].at = "rescanning"
  BY <1>2, ReloadsStandStill
<1>7. EventsTell' /\ HandTells' /\ HashesTell'
  BY <1>2, <1>5, <1>6, EventsTellStands, HandTellsStands, HashesTellStands DEF Following
<1>8. FilesFollow'
  <2>1. \A g \in Files : Stirred(g)' <=> Stirred(g)
    BY <1>2 DEF Stirred, Announced, About
  <2> SUFFICES ASSUME NEW g \in Files \ missed', disk[g] # Empty
               PROVE  Right(g, current[g])' \/ Stirred(g) \/ SomeActive
    BY <1>2, <1>6, <2>1 DEF FilesFollow
  <2>2. CASE g # f
    BY <1>2, <1>3, <1>5, <2>2, KindsOfIds DEF Following, FilesFollow, Right
  <2>3. CASE g = f /\ disk[f] = login.data
    BY <1>1, <1>2, <1>3, <2>3 DEF Right
  <2>4. CASE g = f /\ disk[f] # login.data
    <3>1. ~Handled(f)
      BY <1>5, <2>4 DEF over
    <3> QED BY <1>1, <1>5, <2>4, <3>1 DEF Handled, Following, HashesTell, Stirred, SomeActive, Active
  <2> QED BY <2>2, <2>3, <2>4
<1>9. ExclusionsFollow'
  <2>1. \E content \in LoginContents : current'[f] = <<content, LoginRecord>>
    BY <1>1, <1>3
  <2> SUFFICES ASSUME NEW g \in Files \ missed'
               PROVE  UpToDate(current[g])' \/ SomeActive'
    BY DEF ExclusionsFollow
  <2>2. CASE g = f
    BY <2>1, <2>2 DEF UpToDate
  <2>3. CASE g # f
    <3>1. current'[g] = current[g] /\ (UpToDate(current[g]) \/ SomeActive)
      BY <1>3, <1>5, <2>3, KindsOfIds DEF Following, ExclusionsFollow
    <3> QED BY <1>2, <1>6, <3>1 DEF UpToDate
  <2> QED BY <2>2, <2>3
<1>10. KeysFollow' /\ SocketsFollow'
  <2>1. \A id \in Keys \cup Runtimes : id \in Ids \ {f}
    BY <1>1, KindsDiffer, KindsOfIds
  <2> QED BY <1>2, <1>3, <1>5, <1>6, <2>1, KeysFollowStands, SocketsFollowStands DEF Following
<1>11. ConfigFollows'
  BY <1>2, <1>5, <1>6, ConfigFollowsStands DEF Following
<1>12. ReloadsHold' /\ OthersHold'
  <2>1. \A r \in Reloads : outbox'[r] = outbox[r]
    BY <1>5, TellersDiffer
  <2>2. outbox'["loop"] = outbox["loop"]
    BY <1>5, TellersDiffer
  <2> QED BY <1>2, <2>1, <2>2, ReloadsHoldStands DEF Following, OthersHold, Quietly
<1>13. PictureIsTold'
  <2>1. outbox["login"] = Quietly
    BY <1>1 DEF Following, OthersHold
  <2>2. \A id \in Ids \ {f} : Forgotten(id) => Forgotten(id)'
    BY <1>2, <1>3 DEF Forgotten
  <2> QED BY <1>2, <1>3, <2>1, <2>2, FindsTells, TellersDiffer DEF Following
<1> QED BY <1>7, <1>8, <1>9, <1>10, <1>11, <1>12, <1>13 DEF Following

\* A provider connects, or goes.
LEMMA SocketFollows ==
  ASSUME WatcherType, Following, NEW w \in Runtimes, Connect(w) \/ Disconnect(w)
  PROVE  Following'
<1>0. PICK v : \/ Connect(w) /\ v = RuntimeAuth
               \/ Disconnect(w) /\ v = Gone
  OBVIOUS
<1> DEFINE news == [id \in {w} |-> v]
<1>1. /\ UNCHANGED <<told, disk, configFile, events, hashes, files, config, configHash, armed, hand, reload,
                     login>>
      /\ current' = [current EXCEPT ![w] = v]
      /\ Finds(w, news, {}) /\ outbox[w] = Quietly
  BY <1>0 DEF Connect, Disconnect, pipeline
<1>2. /\ \A x \in Runtimes \ {w} : x \in runtime' <=> x \in runtime
      /\ v = IF w \in runtime' THEN RuntimeAuth ELSE Gone
  BY <1>0 DEF Connect, Disconnect
<1>3. /\ current'[w] = v /\ \A id \in Ids \ {w} : current'[id] = current[id]
      /\ DOMAIN news = {w} /\ news[w] = v
  BY <1>1, KindsOfIds DEF WatcherType, PictureType
<1> HIDE DEF news
<1>4. /\ missed \subseteq missed'
      /\ \A x \in Tellers \ {w} : outbox'[x] = outbox[x]
  BY <1>1, FindsAlone, TellersDiffer
<1>5. /\ SomeActive => SomeActive'
      /\ SomeReloading => SomeReloading'
      /\ \A r \in Reloads : reload[r].at = "rescanning" => reload'[r].at = "rescanning"
  BY <1>1, ReloadsStandStill
<1>6. EventsTell' /\ HandTells' /\ HashesTell'
  BY <1>1, <1>4, <1>5, EventsTellStands, HandTellsStands, HashesTellStands DEF Following
<1>7. FilesFollow' /\ ExclusionsFollow' /\ KeysFollow'
  <2>1. \A id \in Names : id \in Ids \ {w}
    BY KindsDiffer, KindsOfIds
  <2>2. \A id \in Files \cup Keys : current'[id] = current[id]
    BY <1>3, <2>1, KindsOfIds
  <2> QED BY <1>1, <1>4, <1>5, <2>2, FilesFollowStands, ExclusionsFollowStands, KeysFollowStands
          DEF Following
<1>8. SocketsFollow'
  <2>1. \A x \in Runtimes \ {w} : current'[x] = current[x]
    BY <1>3, KindsOfIds
  <2> QED BY <1>2, <1>3, <2>1 DEF Following, SocketsFollow, SocketState
<1>9. ConfigFollows'
  BY <1>1, <1>4, <1>5, ConfigFollowsStands DEF Following
<1>10. ReloadsHold' /\ OthersHold'
  <2>1. \A r \in Reloads : outbox'[r] = outbox[r]
    BY <1>4, TellersDiffer
  <2>2. outbox'["loop"] = outbox["loop"] /\ outbox'["login"] = outbox["login"]
    BY <1>4, TellersDiffer
  <2> QED BY <1>1, <2>1, <2>2, ReloadsHoldStands, OthersHoldStands DEF Following
<1>11. PictureIsTold'
  <2>1. \A id \in Ids \ {w} : Forgotten(id) => Forgotten(id)'
    BY <1>1, <1>3 DEF Forgotten
  <2> QED BY <1>1, <1>3, <2>1, FindsTells, TellersDiffer DEF Following
<1> QED BY <1>6, <1>7, <1>8, <1>9, <1>10, <1>11 DEF Following

LEMMA HandInFollows ==
  ASSUME WatcherType, PipelineTypeOK, Following, NEW t \in Tellers, HandIn(t)
  PROVE  Following'
<1>1. /\ UNCHANGED <<disk, configFile, events, hashes, files, current, runtime, config, configHash, armed,
                     hand, reload, login, missed>>
      /\ outbox' = [outbox EXCEPT ![t] = Quietly]
  BY DEF HandIn, sources, picture
<1>2. \A x \in Tellers : outbox[x] = Quietly => outbox'[x] = Quietly
  BY <1>1 DEF WatcherType
<1>3. /\ SomeActive => SomeActive'
      /\ SomeReloading => SomeReloading'
      /\ \A r \in Reloads : reload[r].at = "rescanning" => reload'[r].at = "rescanning"
  BY <1>1, ReloadsStandStill
<1>4. EventsTell' /\ HandTells' /\ HashesTell'
  BY <1>1, <1>3, EventsTellStands, HandTellsStands, HashesTellStands DEF Following
<1>5. FilesFollow' /\ ExclusionsFollow' /\ KeysFollow' /\ SocketsFollow'
  BY <1>1, <1>3, FilesFollowStands, ExclusionsFollowStands, KeysFollowStands, SocketsFollowStands
     DEF Following
<1>6. ConfigFollows' /\ ReloadsHold' /\ OthersHold'
  BY <1>1, <1>2, <1>3, TellersDiffer, ConfigFollowsStands, ReloadsHoldStands, OthersHoldStands
     DEF Following
<1>7. PictureIsTold'
  BY HandInTells DEF Following
<1> QED BY <1>4, <1>5, <1>6, <1>7 DEF Following

\* The pipeline, once something is handed in, concerns nobody here.
LEMMA ApartFollows ==
  ASSUME Following, UNCHANGED <<told, watcher>>
  PROVE  Following'
<1>1. UNCHANGED <<disk, configFile, events, hashes, files, current, runtime, config, configHash, armed,
                  hand, reload, login, missed, outbox>>
  BY DEF watcher, sources, picture
<1>2. /\ SomeActive => SomeActive'
      /\ SomeReloading => SomeReloading'
      /\ \A r \in Reloads : reload[r].at = "rescanning" => reload'[r].at = "rescanning"
      /\ \A r \in Reloads : reload[r].forgot \subseteq reload'[r].forgot
  BY <1>1, ReloadsStandStill
<1>3. EventsTell' /\ HandTells' /\ HashesTell'
  BY <1>1, <1>2, EventsTellStands, HandTellsStands, HashesTellStands DEF Following
<1>4. FilesFollow' /\ ExclusionsFollow' /\ KeysFollow' /\ SocketsFollow'
  BY <1>1, <1>2, FilesFollowStands, ExclusionsFollowStands, KeysFollowStands, SocketsFollowStands
     DEF Following
<1>5. ConfigFollows' /\ ReloadsHold' /\ OthersHold'
  BY <1>1, <1>2, ConfigFollowsStands, ReloadsHoldStands, OthersHoldStands DEF Following
<1>6. PictureIsTold'
  BY <1>1, <1>2, PictureIsToldStands DEF Following
<1> QED BY <1>3, <1>4, <1>5, <1>6 DEF Following

-----------------------------------------------------------------------------
(* The event loop.                                                         *)

LEMMA TakeEventFollows ==
  ASSUME WatcherType, Following, TakeEvent
  PROVE  Following'
<1> DEFINE e == Head(events)
<1>1. /\ events # <<>> /\ events' = Tail(events) /\ hand.at = "idle" /\ outbox["loop"] = Quietly
      /\ UNCHANGED <<told, disk, configFile, hashes, files, current, runtime, config, configHash,
                     reload, login, outbox>>
  BY DEF TakeEvent, pipeline, sources
<1>2. events \in Seq(Events)
  BY DEF WatcherType
<1>3. /\ e = events[1] /\ e \in Events /\ Len(events) \in Nat \ {0} /\ Len(events') = Len(events) - 1
      /\ \A i \in 1..Len(events') : events'[i] = events[i + 1]
      /\ \A f : Announced(f) <=> About(e, f) \/ Announced(f)'
  <2>1. events[1] \in Events
    <3> HIDE DEF Events
    <3> QED BY <1>1, <1>2
  <2> QED BY <1>1, <1>2, <2>1, TakenEvent
<1>4. /\ EventsTell'
      /\ \A f \in Files : About(e, f) /\ ~Announced(f)' => (e.op = "remove" <=> disk[f] = None)
  BY <1>1, <1>2, TakenTells DEF Following
<1>5. /\ missed \subseteq missed'
      /\ armed => armed'
      /\ \/ e.op = "config" /\ armed' = TRUE /\ UNCHANGED hand
         \/ e.op = "remove" /\ UNCHANGED hand /\ (disk[e.file] = None => e.file \in missed')
         \/ e.op = "remove" /\ hand'.at = "settling" /\ hand'.file = e.file
         \/ e.op = "write" /\ hand'.at = "reading" /\ hand'.file = e.file
  <2> DEFINE settling == [hand EXCEPT !.at = "settling", !.file = e.file]
             reading == [hand EXCEPT !.at = "reading", !.file = e.file]
  <2>1. /\ settling.at = "settling" /\ settling.file = e.file
        /\ reading.at = "reading" /\ reading.file = e.file
    BY DEF WatcherType, HandType
  <2>2. \/ e.op = "config" /\ armed' = TRUE /\ UNCHANGED <<hand, missed>>
        \/ /\ e.op = "remove" /\ UNCHANGED <<hand, armed>>
           /\ missed' = missed \cup {f \in {e.file} : disk[f] = None}
        \/ e.op = "remove" /\ hand' = settling /\ UNCHANGED <<armed, missed>>
        \/ e.op = "write" /\ hand' = reading /\ UNCHANGED <<armed, missed>>
    BY DEF TakeEvent
  <2> HIDE DEF e, settling, reading
  <2>3. missed \subseteq missed' /\ (armed => armed')
    BY <2>2
  <2> QED BY <2>1, <2>2, <2>3
<1> HIDE DEF e
<1>6. ASSUME NEW f \in Files \ missed'
      PROVE  Stirred(f) => Stirred(f)'
  <2>1. Stirred(f) => About(e, f) \/ Announced(f)'
    BY <1>1, <1>3 DEF Stirred
  <2>2. ASSUME About(e, f), ~Announced(f)'
        PROVE  hand'.at # "idle" /\ hand'.file = f
    <3>1. e.file = f /\ e.op # "config" /\ (e.op = "remove" <=> disk[f] = None)
      BY <1>4, <2>2 DEF About
    <3>2. CASE e.op = "remove"
      BY <1>5, <3>1, <3>2
    <3>3. CASE e.op # "remove"
      BY <1>5, <3>1, <3>3
    <3> QED BY <3>2, <3>3
  <2> QED BY <2>1, <2>2 DEF Stirred
<1>7. HandTells'
  <2>1. hand'.at # "building"
    BY <1>1, <1>5
  <2>2. ASSUME NEW f, hand'.at = "reading", hand'.file = f, disk[f] = None
        PROVE  Announced(f)'
    <3>1. e.op = "write" /\ f = e.file
      BY <1>1, <1>5, <2>2
    <3>2. About(e, f) /\ f \in Files
      BY <1>3, <3>1 DEF About, Events
    <3> QED BY <1>4, <2>2, <3>1, <3>2
  <2> QED BY <1>1, <2>1, <2>2 DEF HandTells
<1>8. /\ SomeActive => SomeActive'
      /\ SomeReloading => SomeReloading'
      /\ \A r \in Reloads : reload[r].at = "rescanning" => reload'[r].at = "rescanning"
      /\ \A r \in Reloads : reload[r].forgot \subseteq reload'[r].forgot
  BY <1>1, ReloadsStandStill
<1>9. HashesTell'
  BY <1>1, <1>5, <1>6, <1>8 DEF Following, HashesTell
<1>10. FilesFollow'
  BY <1>1, <1>5, <1>6, <1>8 DEF Following, FilesFollow, Right
<1>11. ExclusionsFollow' /\ KeysFollow' /\ SocketsFollow'
  BY <1>1, <1>5, <1>8, ExclusionsFollowStands, KeysFollowStands, SocketsFollowStands DEF Following
<1>12. ConfigFollows'
  <2>1. ASSUME NEW i \in 1..Len(events), events[i].op = "config"
        PROVE  armed' \/ \E j \in 1..Len(events') : events'[j].op = "config"
    <3>1. CASE i = 1
      BY <1>3, <1>5, <2>1, <3>1
    <3>2. CASE i # 1
      <4>1. i - 1 \in 1..Len(events') /\ events'[i - 1] = events[i]
        BY <1>3, <3>2
      <4> QED BY <2>1, <4>1
    <3> QED BY <3>1, <3>2
  <2> QED BY <1>1, <1>5, <1>8, <2>1 DEF Following, ConfigFollows
<1>13. ReloadsHold' /\ OthersHold' /\ PictureIsTold'
  <2>1. OthersHold'
    BY <1>1 DEF Following, OthersHold, Quietly
  <2> QED BY <1>1, <1>5, <1>8, <2>1, ReloadsHoldStands, PictureIsToldStands DEF Following
<1> QED BY <1>4, <1>7, <1>9, <1>10, <1>11, <1>12, <1>13 DEF Following

\* What the event loop does to a file it has in hand, beside the file's hash, credential and
\* news.
LEMMA LoopFollows ==
  ASSUME WatcherType, Following, missed \subseteq missed',
         UNCHANGED <<told, disk, configFile, events, runtime, config, configHash, armed, reload, login>>,
         \A r \in Reloads : outbox'[r] = outbox[r], outbox'["login"] = outbox["login"],
         hand'.at # "idle" => outbox'["loop"] = outbox["loop"] /\ hand.at # "idle",
         \A id \in Keys \cup Runtimes : current'[id] = current[id],
         HandTells', HashesTell', FilesFollow', ExclusionsFollow', PictureIsTold'
  PROVE  Following'
<1>1. /\ SomeActive => SomeActive'
      /\ SomeReloading => SomeReloading'
  BY ReloadsStandStill
<1>2. EventsTell' /\ KeysFollow' /\ SocketsFollow' /\ ConfigFollows' /\ ReloadsHold'
  BY <1>1, EventsTellStands, KeysFollowStands, SocketsFollowStands, ConfigFollowsStands,
     ReloadsHoldStands DEF Following
<1>3. OthersHold'
  BY DEF Following, OthersHold, Quietly
<1> QED BY <1>2, <1>3 DEF Following

\* A file that the event loop does not have in hand is not its business.
LEMMA OtherFilesStand ==
  ASSUME WatcherType, Following, missed \subseteq missed',
         UNCHANGED <<disk, events, config, reload>>,
         NEW f \in Files, f # hand.file,
         hashes'[f] = hashes[f], f \in files => f \in files', current'[f] = current[f]
  PROVE  /\ f \notin missed' /\ disk[f] # Empty =>
              /\ \/ hashes'[f] = IF disk[f] \in Texts THEN disk[f] ELSE None
                 \/ Stirred(f)'
                 \/ \E r \in Reloads : reload[r].at = "rescanning"
              /\ Right(f, current[f])' \/ Stirred(f)' \/ SomeActive'
         /\ f \notin missed' => UpToDate(current[f])' \/ SomeActive'
         /\ hashes'[f] # None => f \in files'
<1>1. Announced(f)' <=> Announced(f)
  BY DEF Announced, About
<1>2. Stirred(f) => Stirred(f)'
  BY <1>1 DEF Stirred
<1>3. SomeActive => SomeActive'
  BY ReloadsStandStill
<1>4. ASSUME f \notin missed', disk[f] # Empty
      PROVE  /\ \/ hashes'[f] = IF disk[f] \in Texts THEN disk[f] ELSE None
                \/ Stirred(f)'
                \/ \E r \in Reloads : reload[r].at = "rescanning"
             /\ Right(f, current[f])' \/ Stirred(f)' \/ SomeActive'
  BY <1>2, <1>3, <1>4 DEF Following, HashesTell, FilesFollow, Right
<1>5. ASSUME f \notin missed'
      PROVE  UpToDate(current[f])' \/ SomeActive'
  <2>1. UpToDate(current[f]) \/ SomeActive
    BY <1>5 DEF Following, ExclusionsFollow
  <2> QED BY <1>3, <2>1 DEF UpToDate
<1>6. hashes'[f] # None => f \in files'
  BY DEF Following, HashesTell
<1> QED BY <1>4, <1>5, <1>6

\* So the three parts about files are left to show for the one it has in hand.
LEMMA OneFileFollows ==
  ASSUME WatcherType, Following, missed \subseteq missed',
         UNCHANGED <<disk, events, config, reload>>,
         NEW f \in Files, f = hand.file,
         \A g \in Files \ {f} : hashes'[g] = hashes[g] /\ current'[g] = current[g]
                                /\ (g \in files => g \in files'),
         f \notin missed' /\ disk[f] # Empty =>
           /\ \/ hashes'[f] = IF disk[f] \in Texts THEN disk[f] ELSE None
              \/ Stirred(f)'
              \/ \E r \in Reloads : reload[r].at = "rescanning"
           /\ Right(f, current[f])' \/ Stirred(f)' \/ SomeActive',
         f \notin missed' => UpToDate(current[f])' \/ SomeActive',
         hashes'[f] # None => f \in files' \/ (hand'.at = "building" /\ hand'.file = f)
  PROVE  HashesTell' /\ FilesFollow' /\ ExclusionsFollow'
<1>1. ASSUME NEW g \in Files
      PROVE  /\ g \notin missed' /\ disk[g] # Empty =>
                  /\ \/ hashes'[g] = IF disk[g] \in Texts THEN disk[g] ELSE None
                     \/ Stirred(g)'
                     \/ \E r \in Reloads : reload[r].at = "rescanning"
                  /\ Right(g, current[g])' \/ Stirred(g)' \/ SomeActive'
             /\ g \notin missed' => UpToDate(current[g])' \/ SomeActive'
             /\ hashes'[g] # None => g \in files' \/ (hand'.at = "building" /\ hand'.file = g)
  <2>1. CASE g = f
    BY <2>1
  <2>2. CASE g # f
    BY <2>2, OtherFilesStand
  <2> QED BY <2>1, <2>2
<1>2. HashesTell'
  BY <1>1 DEF HashesTell
<1>3. FilesFollow'
  BY <1>1 DEF FilesFollow
<1>4. ExclusionsFollow'
  BY <1>1 DEF ExclusionsFollow
<1> QED BY <1>2, <1>3, <1>4

LEMMA SettleEndsFollows ==
  ASSUME WatcherType, Following, SettleEnds
  PROVE  Following'
<1>0. PICK f \in Files : f = hand.file
  BY DEF SettleEnds, WatcherType, HandType
<1> DEFINE news == [id \in files \cap {f} |-> Gone]
<1>1. /\ hand.at = "settling" /\ outbox["loop"] = Quietly
      /\ UNCHANGED <<told, disk, configFile, events, runtime, config, configHash, armed, reload, login>>
  BY DEF SettleEnds, pipeline, sources, Following, OthersHold
<1>2. /\ SomeActive => SomeActive'
      /\ \A r \in Reloads : reload[r].forgot \subseteq reload'[r].forgot
  BY <1>1, ReloadsStandStill
<1>3. CASE disk[f] # None
  <2>1. /\ UNCHANGED <<hashes, files, current, outbox, missed>>
        /\ hand'.at = "reading" /\ hand'.file = hand.file
    BY <1>0, <1>3 DEF SettleEnds, WatcherType, HandType
  <2>2. \A g : Stirred(g) => Stirred(g)'
    BY <1>1, <2>1 DEF Stirred, Announced, About
  <2>3. HandTells'
    BY <1>0, <1>1, <1>3, <2>1 DEF HandTells
  <2>4. HashesTell'
    BY <1>1, <2>1, <2>2 DEF Following, HashesTell
  <2>5. FilesFollow'
    BY <1>1, <1>2, <2>1, <2>2 DEF Following, FilesFollow, Right
  <2>6. ExclusionsFollow' /\ PictureIsTold'
    BY <1>1, <1>2, <2>1, ExclusionsFollowStands, PictureIsToldStands DEF Following
  <2> QED BY <1>1, <2>1, <2>3, <2>4, <2>5, <2>6, LoopFollows
<1>4. CASE disk[f] = None /\ hashes[f] = None
  <2>1. /\ UNCHANGED <<hashes, files, current, outbox>> /\ hand'.at = "idle"
        /\ missed' = missed \cup {id \in {f} : current[f] # Gone}
    BY <1>0, <1>4 DEF SettleEnds, Resting
  <2>2. missed \subseteq missed' /\ (f \notin missed' => current[f] = Gone)
    BY <2>1
  <2>3. None \notin Texts
    BY WatcherAssumption DEF WatcherAssumption
  <2>4. f \notin missed' => Right(f, current[f])' /\ UpToDate(current[f])'
    BY <1>1, <1>4, <2>1, <2>2, <2>3 DEF Right, FileAuth, UpToDate
  <2>5. HashesTell' /\ FilesFollow' /\ ExclusionsFollow'
    <3>1. hashes'[f] = None /\ disk[f] \notin Texts
      BY <1>4, <2>1, <2>3
    <3> QED BY <1>0, <1>1, <1>4, <2>1, <2>2, <2>4, <3>1, OneFileFollows
  <2>6. HandTells'
    BY <2>1 DEF HandTells
  <2>7. PictureIsTold'
    BY <1>1, <1>2, <2>1, <2>2, PictureIsToldStands DEF Following
  <2> QED BY <1>1, <2>1, <2>2, <2>5, <2>6, <2>7, LoopFollows
<1>5. CASE disk[f] = None /\ hashes[f] # None
  <2>1. /\ hashes' = [hashes EXCEPT ![f] = None] /\ files' = files \ {f} /\ hand'.at = "idle"
        /\ current' = [current EXCEPT ![f] = IF f \in files THEN Gone ELSE @]
        /\ Finds("loop", news, {})
    BY <1>0, <1>5 DEF SettleEnds, Resting
  <2>2. f \in files
    BY <1>0, <1>1, <1>5 DEF Following, HashesTell
  <2>3. None \notin Texts
    BY WatcherAssumption DEF WatcherAssumption
  <2>4. /\ hashes'[f] = None /\ current'[f] = Gone
        /\ \A g \in Files \ {f} : hashes'[g] = hashes[g]
        /\ \A g \in Ids \ {f} : current'[g] = current[g]
        /\ DOMAIN news = {f} /\ news[f] = Gone
    BY <2>1, <2>2, KindsOfIds DEF WatcherType, PictureType
  <2> HIDE DEF news
  <2>5. Right(f, current[f])' /\ UpToDate(current[f])'
    BY <1>1, <1>5, <2>3, <2>4 DEF Right, FileAuth, UpToDate
  <2>6. /\ missed \subseteq missed'
        /\ \A x \in Tellers \ {"loop"} : outbox'[x] = outbox[x]
    BY <2>1, FindsAlone, TellersDiffer
  <2>7. HashesTell' /\ FilesFollow' /\ ExclusionsFollow'
    <3>1. disk[f] \notin Texts
      BY <1>5, <2>3
    <3>2. \A g \in Files \ {f} : hashes'[g] = hashes[g] /\ current'[g] = current[g]
                                 /\ (g \in files => g \in files')
      BY <2>1, <2>4, KindsOfIds
    <3> QED BY <1>0, <1>1, <2>4, <2>5, <2>6, <3>1, <3>2, OneFileFollows
  <2>8. HandTells'
    BY <2>1 DEF HandTells
  <2>9. PictureIsTold'
    <3>1. \A id \in Ids \ {f} : Forgotten(id) => Forgotten(id)'
      BY <1>2, <2>4 DEF Forgotten
    <3> QED BY <1>1, <2>1, <2>4, <3>1, FindsTells, TellersDiffer DEF Following
  <2>10. /\ \A r \in Reloads : outbox'[r] = outbox[r]
         /\ outbox'["login"] = outbox["login"]
    BY <2>6, TellersDiffer
  <2>11. \A id \in Keys \cup Runtimes : current'[id] = current[id]
    BY <2>4, KindsOfIds, KindsDiffer
  <2> QED BY <1>1, <2>1, <2>6, <2>7, <2>8, <2>9, <2>10, <2>11, LoopFollows
<1> QED BY <1>3, <1>4, <1>5

\* What is up to date and says what the file says is right.
LEMMA UpToDateIsRight ==
  ASSUME NEW f \in Files, NEW v, UpToDate(v), v # Gone, v[1] = disk[f], disk[f] \in Texts
  PROVE  Right(f, v)
<1>1. ASSUME NEW content \in Texts, v = <<content, config.excluded>>
      PROVE  Right(f, v)
  BY <1>1 DEF Right, FileAuth
<1>2. ASSUME NEW content \in LoginContents, v = <<content, LoginRecord>>
      PROVE  Right(f, v)
  BY <1>2 DEF Right
<1> QED BY <1>1, <1>2 DEF UpToDate

LEMMA ReadFileFollows ==
  ASSUME WatcherType, Following, ReadFile
  PROVE  Following'
<1>0. PICK f \in Files : f = hand.file
  BY DEF ReadFile, WatcherType, HandType
<1> DEFINE unchanged == disk[f] \in Texts /\ hashes[f] = disk[f]
<1>1. /\ hand.at = "reading"
      /\ UNCHANGED <<told, disk, configFile, events, files, current, runtime, config, configHash, armed,
                     reload, login, outbox>>
  BY DEF ReadFile, pipeline, sources
<1>2. /\ SomeActive => SomeActive'
      /\ \A r \in Reloads : reload[r].forgot \subseteq reload'[r].forgot
  BY <1>1, ReloadsStandStill
<1>3. CASE disk[f] \notin Texts \/ unchanged
  <2>1. /\ UNCHANGED hashes /\ hand'.at = "idle"
        /\ missed' = missed \cup {id \in {f} : unchanged /\ (current[f] = Gone \/ current[f][1] # disk[f])}
    BY <1>0, <1>3 DEF ReadFile, Resting
  <2>2. missed \subseteq missed'
    BY <2>1
  <2>3. disk[f] \in Texts \/ disk[f] = None \/ disk[f] = Empty
    BY DEF WatcherType, SourceType
  <2>4. disk[f] = None => Stirred(f)'
    <3>1. disk[f] = None => Announced(f)
      BY <1>0, <1>1 DEF Following, HandTells
    <3> QED BY <1>1, <3>1 DEF Stirred, Announced, About
  <2>5. ASSUME f \notin missed'
        PROVE  UpToDate(current[f])' \/ SomeActive'
    <3>1. UpToDate(current[f]) \/ SomeActive
      BY <2>2, <2>5 DEF Following, ExclusionsFollow
    <3> QED BY <1>1, <1>2, <3>1 DEF UpToDate
  <2>6. ASSUME f \notin missed', disk[f] \in Texts
        PROVE  Right(f, current[f])' \/ SomeActive'
    <3>1. current[f] # Gone /\ current[f][1] = disk[f]
      BY <1>3, <2>1, <2>6
    <3>2. UpToDate(current[f]) \/ SomeActive
      BY <2>2, <2>6 DEF Following, ExclusionsFollow
    <3>3. Right(f, current[f]) \/ SomeActive
      BY <2>6, <3>1, <3>2, UpToDateIsRight
    <3> QED BY <1>1, <1>2, <3>3 DEF Right
  <2>7. hashes'[f] # None => f \in files'
    BY <1>0, <1>1, <2>1 DEF Following, HashesTell
  <2>8. disk[f] \in Texts => hashes'[f] = disk[f]
    BY <1>3, <2>1
  <2>9. HashesTell' /\ FilesFollow' /\ ExclusionsFollow'
    BY <1>0, <1>1, <2>1, <2>2, <2>3, <2>4, <2>5, <2>6, <2>7, <2>8, OneFileFollows
  <2>10. HandTells'
    BY <2>1 DEF HandTells
  <2>11. PictureIsTold'
    BY <1>1, <1>2, <2>2, PictureIsToldStands DEF Following
  <2> QED BY <1>1, <2>1, <2>2, <2>9, <2>10, <2>11, LoopFollows
<1>4. CASE disk[f] \in Texts /\ ~unchanged
  <2>1. /\ hashes' = [hashes EXCEPT ![f] = disk[f]] /\ UNCHANGED missed
        /\ hand' = [hand EXCEPT !.at = "building", !.data = disk[f], !.cfg = config]
    BY <1>0, <1>4 DEF ReadFile
  <2>2. /\ hand'.at = "building" /\ hand'.file = f /\ hand'.data = disk[f]
    BY <1>0, <2>1 DEF WatcherType, HandType
  <2>3. hashes'[f] = disk[f] /\ \A g \in Files \ {f} : hashes'[g] = hashes[g]
    BY <2>1 DEF WatcherType, PictureType
  <2>4. Stirred(f)'
    BY <2>2 DEF Stirred
  <2>5. f \notin missed' => UpToDate(current[f])' \/ SomeActive'
    <3>1. f \notin missed => UpToDate(current[f]) \/ SomeActive
      BY DEF Following, ExclusionsFollow
    <3> QED BY <1>1, <1>2, <2>1, <3>1 DEF UpToDate
  <2>6. HashesTell' /\ FilesFollow' /\ ExclusionsFollow'
    BY <1>0, <1>1, <2>1, <2>2, <2>3, <2>4, <2>5, OneFileFollows
  <2>7. HandTells'
    BY <1>1, <2>2, <2>3 DEF HandTells
  <2>8. PictureIsTold'
    BY <1>1, <1>2, <2>1, PictureIsToldStands DEF Following
  <2> QED BY <1>1, <2>1, <2>6, <2>7, <2>8, LoopFollows
<1> QED BY <1>3, <1>4

LEMMA BuildAuthFollows ==
  ASSUME WatcherType, Following, BuildAuth
  PROVE  Following'
<1>0. PICK f \in Files : f = hand.file
  BY DEF BuildAuth, WatcherType, HandType
<1>1. PICK data \in Texts, cfg \in Configs : data = hand.data /\ cfg = hand.cfg
  BY DEF BuildAuth, WatcherType, HandType
<1> DEFINE built == [id \in {f} |-> FileAuth(data, cfg)]
           news == News(current, built, FALSE)
           over == {id \in {f} : cfg.excluded # config.excluded /\ \A r \in Reloads : ~Active(r)}
<1>2. /\ hand.at = "building" /\ hand'.at = "idle"
      /\ UNCHANGED <<told, disk, configFile, events, hashes, runtime, config, configHash, armed, reload, login>>
      /\ files' = files \cup {f} /\ current' = [current EXCEPT ![f] = built[f]]
      /\ Finds("loop", news, over)
  BY <1>0, <1>1 DEF BuildAuth, pipeline, sources, Resting
<1>3. outbox["loop"] = Quietly
  BY <1>2 DEF Following, OthersHold
<1>4. /\ SomeActive => SomeActive'
      /\ \A r \in Reloads : reload[r].forgot \subseteq reload'[r].forgot
  BY <1>2, ReloadsStandStill
<1>5. /\ built[f] = <<data, cfg.excluded>> /\ current'[f] = built[f]
      /\ \A id \in Ids \ {f} : current'[id] = current[id]
      /\ f \in files' /\ files \subseteq files'
  BY <1>2, KindsOfIds DEF FileAuth, WatcherType, PictureType
<1>6. /\ DOMAIN news \subseteq {f} /\ (f \in DOMAIN news => news[f] = built[f])
      /\ f \notin DOMAIN news => built[f] = current[f]
  BY DEF News
<1>7. f \in over \/ cfg.excluded = config.excluded \/ SomeActive
  BY DEF SomeActive
<1> HIDE DEF built, news, over
<1>8. /\ missed \subseteq missed' /\ over \subseteq missed'
      /\ \A x \in Tellers \ {"loop"} : outbox'[x] = outbox[x]
  BY <1>2, FindsAlone, TellersDiffer
<1>9. /\ hashes[f] = data
      /\ disk[f] # data => Announced(f)
  BY <1>0, <1>1, <1>2 DEF Following, HandTells
<1>10. disk[f] # data => Stirred(f)'
  BY <1>2, <1>9 DEF Stirred, Announced, About
<1>11. f \notin missed' => UpToDate(current[f])' \/ SomeActive'
  <2>1. f \notin missed' => cfg.excluded = config.excluded \/ SomeActive'
    BY <1>4, <1>7, <1>8
  <2> QED BY <1>2, <1>5, <2>1 DEF UpToDate
<1>12. f \notin missed' => Right(f, current[f])' \/ Stirred(f)' \/ SomeActive'
  <2>1. f \notin missed' => cfg.excluded = config.excluded \/ SomeActive'
    BY <1>4, <1>7, <1>8
  <2>2. disk[f] = data /\ cfg.excluded = config.excluded => Right(f, current[f])'
    BY <1>2, <1>5 DEF Right, FileAuth
  <2> QED BY <1>10, <2>1, <2>2
<1>13. HashesTell' /\ FilesFollow' /\ ExclusionsFollow'
  <2>1. \A g \in Files \ {f} : hashes'[g] = hashes[g] /\ current'[g] = current[g]
                               /\ (g \in files => g \in files')
    BY <1>2, <1>5, KindsOfIds
  <2>2. hashes'[f] = (IF disk[f] \in Texts THEN disk[f] ELSE None) \/ Stirred(f)'
    BY <1>2, <1>9, <1>10
  <2> QED BY <1>0, <1>2, <1>5, <1>8, <1>11, <1>12, <2>1, <2>2, OneFileFollows
<1>14. HandTells'
  BY <1>2 DEF HandTells
<1>15. PictureIsTold'
  <2>1. \A id \in Ids \ DOMAIN news : current'[id] = current[id]
    BY <1>5, <1>6
  <2>2. \A id \in Ids \ DOMAIN news : Forgotten(id) => Forgotten(id)'
    BY <1>4, <2>1 DEF Forgotten
  <2>3. \A id \in DOMAIN news : current'[id] = news[id]
    BY <1>5, <1>6
  <2> QED BY <1>2, <1>3, <2>1, <2>2, <2>3, FindsTells, TellersDiffer DEF Following
<1>16. /\ \A r \in Reloads : outbox'[r] = outbox[r]
       /\ outbox'["login"] = outbox["login"]
  BY <1>8, TellersDiffer
<1>17. \A id \in Keys \cup Runtimes : current'[id] = current[id]
  BY <1>5, KindsOfIds, KindsDiffer
<1> QED BY <1>2, <1>8, <1>13, <1>14, <1>15, <1>16, <1>17, LoopFollows

-----------------------------------------------------------------------------
(* A reload goes on.                                                       *)

LEMMA OneReload ==
  ASSUME WatcherType, NEW r \in Reloads, NEW new, reload' = [reload EXCEPT ![r] = new]
  PROVE  reload'[r] = new /\ \A x \in Reloads \ {r} : reload'[x] = reload[x]
BY DEF WatcherType, ReloadType

\* While it has something to do, the files, exclusions and keys are its concern.
LEMMA GoesOnFollows ==
  ASSUME Following, NEW r \in Reloads, Active(r)', ReloadHolds(r)',
         \A x \in Reloads \ {r} : reload'[x] = reload[x],
         UNCHANGED <<told, disk, events, runtime, hand, login, outbox, missed>>,
         \A w \in Runtimes : current'[w] = current[w],
         HandTells', HashesTell', ConfigFollows', PictureIsTold'
  PROVE  Following'
<1>1. EventsTell'
  BY EventsTellStands DEF Following
<1>2. FilesFollow' /\ ExclusionsFollow' /\ KeysFollow'
  <2>1. SomeActive'
    BY DEF SomeActive
  <2> QED BY <2>1, ActiveFollows
<1>3. SocketsFollow' /\ OthersHold'
  BY SocketsFollowStands, OthersHoldStands DEF Following
<1>4. ReloadsHold'
  <2> SUFFICES ASSUME NEW x \in Reloads \ {r}
               PROVE  ReloadHolds(x)'
    BY DEF ReloadsHold
  <2>1. ReloadHolds(x) /\ reload'[x] = reload[x] /\ outbox'[x] = outbox[x]
    BY DEF Following, ReloadsHold
  <2> QED BY <2>1 DEF ReloadHolds, Active, FoundInFile, Quietly
<1> QED BY <1>1, <1>2, <1>3, <1>4 DEF Following

LEMMA RescanFollows ==
  ASSUME WatcherType, Following, NEW r \in Reloads, Rescan(r)
  PROVE  Following'
<1>1. /\ reload[r].at = "rescanning" /\ hand.at = "idle"
      /\ UNCHANGED <<told, disk, configFile, events, current, runtime, config, configHash, armed, hand,
                     login, outbox, missed>>
      /\ hashes' = [f \in Files |-> IF disk[f] \in Texts THEN disk[f] ELSE None]
      /\ files' = {f \in Files : disk[f] \in Texts}
      /\ reload' = [reload EXCEPT ![r] = [reload[r] EXCEPT !.at = "snapshotting"]]
  BY DEF Rescan, pipeline, sources
<1>2. /\ reload'[r] = [reload[r] EXCEPT !.at = "snapshotting"]
      /\ \A x \in Reloads \ {r} : reload'[x] = reload[x]
  BY <1>1, OneReload
<1>3. /\ reload'[r].at = "snapshotting" /\ reload'[r].cfg = reload[r].cfg
      /\ reload'[r].forgot = reload[r].forgot
  BY <1>2 DEF WatcherType, ReloadType, ReloadRecords
<1>4. ReloadHolds(r)
  BY DEF Following, ReloadsHold
<1>5. Active(r)' /\ ReloadHolds(r)'
  BY <1>1, <1>3, <1>4 DEF ReloadHolds, Active, Quietly
<1>6. HandTells'
  BY <1>1 DEF HandTells
<1>7. HashesTell'
  BY <1>1 DEF HashesTell
<1>8. ConfigFollows'
  <2>1. SomeReloading => SomeReloading'
    BY <1>1, <1>2, <1>3 DEF SomeReloading, Reloading
  <2> QED BY <1>1, <2>1, ConfigFollowsStands DEF Following
<1>9. PictureIsTold'
  <2>1. \A x \in Reloads : reload[x].forgot \subseteq reload'[x].forgot
    BY <1>2, <1>3
  <2> QED BY <1>1, <2>1, PictureIsToldStands DEF Following
<1> QED BY <1>1, <1>2, <1>5, <1>6, <1>7, <1>8, <1>9, GoesOnFollows

\* The reload finds the configuration as it was, or loads it.
LEMMA ReloadStartsFollows ==
  ASSUME WatcherType, Following, NEW r \in Reloads, ReloadStarts(r)
  PROVE  Following'
<1>1. /\ reload[r].at = "idle" /\ outbox[r] = Quietly
      /\ UNCHANGED <<told, disk, configFile, events, hashes, files, current, runtime, config, configHash,
                     hand, login, outbox, missed>>
      /\ reload' = [reload EXCEPT
                      ![r] = [reload[r] EXCEPT !.at = IF configFile = configHash THEN "idle" ELSE "loading"]]
  BY DEF ReloadStarts, pipeline, sources
<1>2. /\ reload'[r] = [reload[r] EXCEPT !.at = IF configFile = configHash THEN "idle" ELSE "loading"]
      /\ \A x \in Reloads \ {r} : reload'[x] = reload[x]
  BY <1>1, OneReload
<1>3. /\ reload'[r].at = IF configFile = configHash THEN "idle" ELSE "loading"
      /\ reload'[r].cfg = reload[r].cfg /\ reload'[r].forgot = reload[r].forgot
  BY <1>2 DEF WatcherType, ReloadType, ReloadRecords
<1>4. ReloadHolds(r)
  BY DEF Following, ReloadsHold
<1>5. /\ \A x \in Reloads : reload[x].at = "rescanning" => reload'[x].at = "rescanning"
      /\ \A x \in Reloads : reload[x].forgot \subseteq reload'[x].forgot
      /\ SomeActive => SomeActive'
  BY <1>1, <1>2, <1>3 DEF SomeActive, Active
<1>6. EventsTell' /\ HandTells' /\ HashesTell' /\ PictureIsTold'
  BY <1>1, <1>5, EventsTellStands, HandTellsStands, HashesTellStands, PictureIsToldStands DEF Following
<1>7. CASE configFile # configHash
  <2>1. Active(r)' /\ ReloadHolds(r)'
    BY <1>1, <1>3, <1>4, <1>7 DEF ReloadHolds, Active, Quietly
  <2>2. SomeReloading'
    BY <1>3, <1>7 DEF SomeReloading, Reloading
  <2>3. ConfigFollows'
    BY <2>2 DEF ConfigFollows
  <2> QED BY <1>1, <1>2, <1>6, <2>1, <2>3, GoesOnFollows
<1>8. CASE configFile = configHash
  <2>1. ReloadsHold'
    <3>1. \A x \in Reloads : reload'[x].at = reload[x].at /\ reload'[x].cfg = reload[x].cfg
                             /\ reload'[x].forgot = reload[x].forgot
      BY <1>1, <1>2, <1>3, <1>8
    <3>2. \A x \in Reloads : reload[x].at = "refreshing" => reload'[x].found = reload[x].found
      BY <1>1, <1>2
    <3> QED BY <1>1, <3>1, <3>2 DEF Following, ReloadsHold, ReloadHolds, Active, FoundInFile, Quietly
  <2>2. FilesFollow' /\ ExclusionsFollow' /\ KeysFollow'
    BY <1>1, <1>5, KindsOfIds, FilesFollowStands, ExclusionsFollowStands, KeysFollowStands DEF Following
  <2>3. SocketsFollow' /\ OthersHold'
    BY <1>1, SocketsFollowStands, OthersHoldStands DEF Following
  <2>4. ConfigFollows'
    <3>1. configHash # None
      BY <1>8, WatcherAssumption DEF WatcherAssumption, WatcherType, SourceType
    <3>2. SomeReloading => SomeReloading'
      BY <1>1, <1>2, <1>3 DEF SomeReloading, Reloading
    <3>3. "config" \notin missed => config = configFile \/ SomeReloading
      BY <1>8, <3>1 DEF Following, ConfigFollows
    <3> QED BY <1>1, <1>8, <3>2, <3>3 DEF ConfigFollows
  <2> QED BY <1>6, <2>1, <2>2, <2>3, <2>4 DEF Following
<1> QED BY <1>7, <1>8

LEMMA LoadConfigFollows ==
  ASSUME WatcherType, Following, NEW r \in Reloads, LoadConfig(r)
  PROVE  Following'
<1>1. /\ reload[r].at = "loading"
      /\ UNCHANGED <<told, disk, configFile, events, hashes, files, current, runtime, config, configHash,
                     armed, hand, login, outbox, missed>>
      /\ reload' = [reload EXCEPT ![r] = [reload[r] EXCEPT !.at = "publishing", !.cfg = configFile]]
  BY DEF LoadConfig, pipeline, sources, picture
<1>2. /\ reload'[r] = [reload[r] EXCEPT !.at = "publishing", !.cfg = configFile]
      /\ \A x \in Reloads \ {r} : reload'[x] = reload[x]
  BY <1>1, OneReload
<1>3. /\ reload'[r].at = "publishing" /\ reload'[r].cfg = configFile
      /\ reload'[r].forgot = reload[r].forgot
  BY <1>2 DEF WatcherType, ReloadType, ReloadRecords
<1>4. ReloadHolds(r) /\ configFile # None
  BY WatcherAssumption DEF WatcherAssumption, Following, ReloadsHold, WatcherType, SourceType
<1>5. Active(r)' /\ ReloadHolds(r)'
  BY <1>1, <1>3, <1>4 DEF ReloadHolds, Active, Quietly
<1>6. /\ \A x \in Reloads : reload[x].at = "rescanning" => reload'[x].at = "rescanning"
      /\ \A x \in Reloads : reload[x].forgot \subseteq reload'[x].forgot
  BY <1>1, <1>2, <1>3
<1>7. HandTells' /\ HashesTell' /\ PictureIsTold'
  BY <1>1, <1>6, HandTellsStands, HashesTellStands, PictureIsToldStands DEF Following
<1>8. ConfigFollows'
  <2>1. SomeReloading'
    BY <1>3, <1>4 DEF SomeReloading, Reloading
  <2> QED BY <2>1 DEF ConfigFollows
<1> QED BY <1>1, <1>2, <1>5, <1>7, <1>8, GoesOnFollows

LEMMA PublishConfigFollows ==
  ASSUME WatcherType, Following, NEW r \in Reloads, PublishConfig(r)
  PROVE  Following'
<1>1. PICK at \in {"forgetting", "snapshotting"}, force \in BOOLEAN :
        /\ reload[r].at = "publishing"
        /\ UNCHANGED <<told, disk, configFile, events, hashes, files, current, runtime, configHash,
                       armed, hand, login, outbox, missed>>
        /\ reload' = [reload EXCEPT ![r] = [reload[r] EXCEPT !.at = at, !.force = force]]
  BY DEF PublishConfig, pipeline, sources
<1>2. /\ reload'[r] = [reload[r] EXCEPT !.at = at, !.force = force]
      /\ \A x \in Reloads \ {r} : reload'[x] = reload[x]
  BY <1>1, OneReload
<1>3. /\ reload'[r].at = at /\ reload'[r].cfg = reload[r].cfg
      /\ reload'[r].forgot = reload[r].forgot
  BY <1>2 DEF WatcherType, ReloadType, ReloadRecords
<1>4. ReloadHolds(r)
  BY DEF Following, ReloadsHold
<1>5. Active(r)' /\ ReloadHolds(r)'
  BY <1>1, <1>3, <1>4 DEF ReloadHolds, Active, Quietly
<1>6. /\ \A x \in Reloads : reload[x].at = "rescanning" => reload'[x].at = "rescanning"
      /\ \A x \in Reloads : reload[x].forgot \subseteq reload'[x].forgot
  BY <1>1, <1>2, <1>3
<1>7. HandTells' /\ HashesTell' /\ PictureIsTold'
  BY <1>1, <1>6, HandTellsStands, HashesTellStands, PictureIsToldStands DEF Following
<1>8. ConfigFollows'
  <2>1. SomeReloading'
    BY <1>1, <1>3, <1>4 DEF SomeReloading, Reloading, ReloadHolds
  <2> QED BY <2>1 DEF ConfigFollows
<1> QED BY <1>1, <1>2, <1>5, <1>7, <1>8, GoesOnFollows

\* What is dropped from the picture is remembered as forgotten.
LEMMA ForgetAffectedFollows ==
  ASSUME WatcherType, Following, NEW r \in Reloads, ForgetAffected(r)
  PROVE  Following'
<1> DEFINE dropped == {id \in Affected : current[id] # Gone}
<1>1. /\ reload[r].at = "forgetting"
      /\ UNCHANGED <<told, disk, configFile, events, hashes, files, runtime, config, configHash,
                     armed, hand, login, outbox, missed>>
      /\ current' = [id \in Ids |-> IF id \in Affected THEN Gone ELSE current[id]]
      /\ reload' = [reload EXCEPT ![r] = [reload[r] EXCEPT !.at = "snapshotting", !.forgot = dropped]]
  BY DEF ForgetAffected, pipeline, sources
<1>2. /\ reload'[r] = [reload[r] EXCEPT !.at = "snapshotting", !.forgot = dropped]
      /\ \A x \in Reloads \ {r} : reload'[x] = reload[x]
  BY <1>1, OneReload
<1>3. /\ reload'[r].at = "snapshotting" /\ reload'[r].cfg = reload[r].cfg
      /\ reload'[r].forgot = dropped
  BY <1>2 DEF WatcherType, ReloadType, ReloadRecords
<1>4. ReloadHolds(r)
  BY DEF Following, ReloadsHold
<1>5. Active(r)' /\ ReloadHolds(r)'
  BY <1>1, <1>3, <1>4 DEF ReloadHolds, Active, Quietly
<1>6. \A x \in Reloads : reload[x].at = "rescanning" => reload'[x].at = "rescanning"
  BY <1>1, <1>2
<1>7. HandTells' /\ HashesTell'
  BY <1>1, <1>6, HandTellsStands, HashesTellStands DEF Following
<1>8. ConfigFollows'
  <2>1. SomeReloading'
    BY <1>1, <1>3, <1>4 DEF SomeReloading, Reloading, ReloadHolds
  <2> QED BY <2>1 DEF ConfigFollows
<1>9. \A w \in Runtimes : current'[w] = current[w]
  BY <1>1, KindsOfIds, KindsDiffer, WatcherAssumption DEF WatcherAssumption
<1>10. PictureIsTold'
  <2>1. \A id \in Ids : LastWords(id)' = LastWords(id)
    BY <1>1 DEF LastWords, LastTold, Untold
  <2> SUFFICES ASSUME NEW id \in Ids \ missed, NEW v \in LastWords(id)
               PROVE  v = current'[id] \/ Forgotten(id)'
    BY <1>1, <2>1 DEF PictureIsTold
  <2>2. v = current[id] \/ Forgotten(id)
    BY DEF Following, PictureIsTold
  <2>3. reload[r].forgot = {}
    BY <1>1, <1>4 DEF ReloadHolds
  <2>4. Forgotten(id) => Forgotten(id)'
    BY <1>1, <1>2, <2>3 DEF Forgotten
  <2>5. id \in dropped => Forgotten(id)'
    BY <1>1, <1>3 DEF Forgotten
  <2> QED BY <1>1, <2>2, <2>4, <2>5
<1> QED BY <1>1, <1>2, <1>5, <1>7, <1>8, <1>9, <1>10, GoesOnFollows

LEMMA LookUpConfigFollows ==
  ASSUME WatcherType, Following, NEW r \in Reloads, LookUpConfig(r)
  PROVE  Following'
<1>1. /\ reload[r].at = "snapshotting"
      /\ UNCHANGED <<told, disk, configFile, events, hashes, files, current, runtime, config, configHash,
                     armed, hand, login, outbox, missed>>
      /\ reload' = [reload EXCEPT ![r] = [reload[r] EXCEPT !.at = "scanning", !.under = config]]
  BY DEF LookUpConfig, pipeline, sources, picture
<1>3. /\ reload'[r] = [reload[r] EXCEPT !.at = "scanning", !.under = config]
      /\ \A x \in Reloads \ {r} : reload'[x] = reload[x]
  BY <1>1, OneReload
<1>4. /\ reload'[r].at = "scanning" /\ reload'[r].cfg = reload[r].cfg
      /\ reload'[r].forgot = reload[r].forgot
  BY <1>3 DEF WatcherType, ReloadType, ReloadRecords
<1>5. ReloadHolds(r)
  BY DEF Following, ReloadsHold
<1>6. Active(r)' /\ ReloadHolds(r)'
  BY <1>1, <1>4, <1>5 DEF ReloadHolds, Active, Quietly
<1>7. /\ \A x \in Reloads : reload[x].at = "rescanning" => reload'[x].at = "rescanning"
      /\ \A x \in Reloads : reload[x].forgot \subseteq reload'[x].forgot
  BY <1>1, <1>3, <1>4
<1>8. HandTells' /\ HashesTell' /\ PictureIsTold'
  BY <1>1, <1>7, HandTellsStands, HashesTellStands, PictureIsToldStands DEF Following
<1>9. ConfigFollows'
  <2>1. SomeReloading => SomeReloading'
    BY <1>1, <1>3, <1>4 DEF SomeReloading, Reloading
  <2> QED BY <1>1, <2>1, ConfigFollowsStands DEF Following
<1> QED BY <1>1, <1>3, <1>6, <1>8, <1>9, GoesOnFollows

LEMMA TakeSnapshotFollows ==
  ASSUME WatcherType, Following, NEW r \in Reloads, TakeSnapshot(r)
  PROVE  Following'
<1> DEFINE snapshot == Snapshot(reload[r].under, disk)
<1>1. /\ reload[r].at = "scanning"
      /\ UNCHANGED <<told, disk, configFile, events, hashes, files, current, runtime, config, configHash,
                     armed, hand, login, outbox, missed>>
      /\ reload' = [reload EXCEPT ![r] = [reload[r] EXCEPT !.at = "refreshing", !.found = snapshot]]
  BY DEF TakeSnapshot, pipeline, sources, picture
<1>2. \A f \in Files : FoundInFile(snapshot[f])
  BY <1>1, KindsOfIds DEF Snapshot, FileAuth, FoundInFile, WatcherType, ReloadType
<1> HIDE DEF snapshot
<1>3. /\ reload'[r] = [reload[r] EXCEPT !.at = "refreshing", !.found = snapshot]
      /\ \A x \in Reloads \ {r} : reload'[x] = reload[x]
  BY <1>1, OneReload
<1>4. /\ reload'[r].at = "refreshing" /\ reload'[r].cfg = reload[r].cfg
      /\ reload'[r].forgot = reload[r].forgot /\ reload'[r].found = snapshot
  BY <1>3 DEF WatcherType, ReloadType, ReloadRecords
<1>5. ReloadHolds(r)
  BY DEF Following, ReloadsHold
<1>6. Active(r)' /\ ReloadHolds(r)'
  <2>1. \A f \in Files : FoundInFile(reload[r].found[f])'
    BY <1>2, <1>4 DEF FoundInFile
  <2> QED BY <1>1, <1>4, <1>5, <2>1 DEF ReloadHolds, Active, Quietly
<1>7. /\ \A x \in Reloads : reload[x].at = "rescanning" => reload'[x].at = "rescanning"
      /\ \A x \in Reloads : reload[x].forgot \subseteq reload'[x].forgot
  BY <1>1, <1>3, <1>4
<1>8. HandTells' /\ HashesTell' /\ PictureIsTold'
  BY <1>1, <1>7, HandTellsStands, HashesTellStands, PictureIsToldStands DEF Following
<1>9. ConfigFollows'
  <2>1. SomeReloading => SomeReloading'
    BY <1>1, <1>3, <1>4 DEF SomeReloading, Reloading
  <2> QED BY <1>1, <2>1, ConfigFollowsStands DEF Following
<1> QED BY <1>1, <1>3, <1>6, <1>8, <1>9, GoesOnFollows

\* What a reload makes the picture it has found in the files and the configuration.  Where
\* that is not what they say now, the event loop or another reload has it in hand, or it
\* is among the exceptions.
LEMMA RefreshAuthStateFollows ==
  ASSUME WatcherType, Following, NEW r \in Reloads, RefreshAuthState(r)
  PROVE  Following'
<1> DEFINE found == reload[r].found
           new == Merged(found)
           news == News(current, new, reload[r].force)
           overtaken == {f \in Files : disk[f] # Empty /\ Handled(f) /\ found[f] # Snapshot(config, disk)[f]}
           outdated == {id \in Names : Outdated(id, found[id]) /\ \A x \in Reloads \ {r} : ~Active(x)}
           forgotten == {id \in reload[r].forgot : /\ new[id] = Gone /\ current[id] = Gone
                                                   /\ LastWords(id) # {Gone}}
           next == [reload[r] EXCEPT !.at = IF reload[r].cfg = None THEN "idle" ELSE "rehashing",
                                     !.force = FALSE, !.forgot = {}, !.under = None, !.found = <<>>]
<1>1. /\ reload[r].at = "refreshing"
      /\ UNCHANGED <<told, disk, configFile, events, hashes, files, runtime, config, configHash, armed,
                     hand, login>>
      /\ current' = new
      /\ Finds(r, news, overtaken \cup outdated \cup forgotten)
      /\ reload' = [reload EXCEPT ![r] = next]
  BY DEF RefreshAuthState, pipeline, sources
<1>2. reload'[r] = next /\ \A x \in Reloads \ {r} : reload'[x] = reload[x]
  <2> HIDE DEF next
  <2> QED BY <1>1, OneReload
<1>3. /\ reload'[r].at = IF reload[r].cfg = None THEN "idle" ELSE "rehashing"
      /\ reload'[r].cfg = reload[r].cfg /\ reload'[r].forgot = {}
  BY <1>2 DEF WatcherType, ReloadType, ReloadRecords
<1>4. /\ \A id \in Names : current'[id] = found[id]
      /\ \A w \in Runtimes : current'[w] = SocketState(w)
      /\ DOMAIN new = Ids
  BY <1>1, KindsOfIds, KindsDiffer DEF Merged, SocketState
<1>5. \A f \in Files : Snapshot(config, disk)[f] = FileAuth(disk[f], config)
  BY KindsOfIds DEF Snapshot
<1>6. \A k \in Keys : Snapshot(config, disk)[k] = KeyState(k)
  BY KindsOfIds, KindsDiffer DEF Snapshot, KeyState
<1>7. \A f \in Files : f \in overtaken \/ disk[f] = Empty \/ ~Handled(f)
                       \/ found[f] = FileAuth(disk[f], config)
  BY <1>5
<1>8. \A id \in Names : id \in outdated \/ ~Outdated(id, found[id])
                        \/ \E x \in Reloads \ {r} : Active(x)
  OBVIOUS
<1>9. \A id \in reload[r].forgot : id \in forgotten \/ new[id] # Gone \/ current[id] # Gone
                                   \/ LastWords(id) = {Gone}
  OBVIOUS
<1>10. /\ \A id \in DOMAIN news : news[id] = new[id]
       /\ \A id \in Ids \ DOMAIN news : new[id] = current[id]
  BY <1>4 DEF News
<1>11. ReloadHolds(r)
  BY DEF Following, ReloadsHold
<1>12. /\ outbox[r] = Quietly
       /\ \A f \in Files : FoundInFile(found[f])
  BY <1>1, <1>11 DEF ReloadHolds, Active
<1> HIDE DEF found, new, news, overtaken, outdated, forgotten, next
<1>13. /\ missed \subseteq missed'
       /\ overtaken \subseteq missed' /\ outdated \subseteq missed' /\ forgotten \subseteq missed'
       /\ \A x \in Tellers \ {r} : outbox'[x] = outbox[x]
  <2>1. overtaken \cup outdated \cup forgotten \subseteq missed'
    BY <1>1, FindsAlone, TellersDiffer
  <2> QED BY <1>1, <2>1, FindsAlone, TellersDiffer
<1>14. /\ \A x \in Reloads : reload[x].at = "rescanning" => reload'[x].at = "rescanning"
       /\ SomeReloading => SomeReloading'
       /\ (\E x \in Reloads \ {r} : Active(x)) => SomeActive'
  BY <1>1, <1>2, <1>3 DEF SomeReloading, Reloading, SomeActive, Active
<1>15. EventsTell' /\ HandTells' /\ HashesTell'
  BY <1>1, <1>13, <1>14, EventsTellStands, HandTellsStands, HashesTellStands DEF Following
<1>16. FilesFollow'
  <2> SUFFICES ASSUME NEW f \in Files \ missed', disk[f] # Empty
               PROVE  Right(f, current[f])' \/ Stirred(f)' \/ SomeActive'
    BY <1>1 DEF FilesFollow
  <2>1. Stirred(f)' <=> Stirred(f)
    BY <1>1 DEF Stirred, Announced, About
  <2>2. CASE found[f] = FileAuth(disk[f], config)
    BY <1>1, <1>4, <2>2, KindsOfIds DEF Right
  <2>3. CASE ~Handled(f)
    <3>1. Stirred(f) \/ hashes[f] # IF disk[f] \in Texts THEN disk[f] ELSE None
      BY <2>3 DEF Handled, Stirred
    <3>2. Stirred(f) \/ \E x \in Reloads : reload[x].at = "rescanning"
      BY <1>13, <3>1 DEF Following, HashesTell
    <3>3. (\E x \in Reloads : reload[x].at = "rescanning") => \E x \in Reloads \ {r} : Active(x)
      BY <1>1 DEF Active
    <3> QED BY <1>14, <2>1, <3>2, <3>3
  <2> QED BY <1>7, <1>13, <2>2, <2>3
<1>17. ExclusionsFollow'
  <2> SUFFICES ASSUME NEW f \in Files \ missed'
               PROVE  UpToDate(current[f])' \/ SomeActive'
    BY DEF ExclusionsFollow
  <2>1. CASE ~Outdated(f, found[f])
    <3>1. found[f] = Gone \/ found[f][2] = config.excluded
      BY <2>1 DEF Outdated
    <3>2. FoundInFile(found[f]) /\ current'[f] = found[f]
      BY <1>4, <1>12, KindsOfIds
    <3>3. ASSUME NEW content \in Texts, NEW c \in Configs, found[f] = <<content, c.excluded>>
          PROVE  UpToDate(current[f])'
      <4>1. found[f] = Gone \/ found[f] = <<content, config.excluded>>
        BY <3>1, <3>3
      <4> QED BY <1>1, <3>2, <4>1 DEF UpToDate
    <3>4. CASE found[f] = Gone
      BY <3>2, <3>4 DEF UpToDate
    <3> QED BY <3>2, <3>3, <3>4 DEF FoundInFile
  <2>2. f \in Names /\ f \notin outdated
    BY <1>13, KindsOfIds
  <2> QED BY <1>8, <1>14, <2>1, <2>2
<1>18. KeysFollow'
  <2> SUFFICES ASSUME NEW k \in Keys \ missed'
               PROVE  current'[k] = KeyState(k)' \/ SomeActive'
    BY DEF KeysFollow
  <2>1. KeyState(k)' = KeyState(k)
    BY <1>1 DEF KeyState
  <2>2. k \in Names /\ k \notin outdated /\ k \notin Files
    BY <1>13, KindsOfIds, KindsDiffer
  <2>3. ~Outdated(k, found[k]) => found[k] = KeyState(k)
    BY <1>6, <2>2 DEF Outdated
  <2> QED BY <1>4, <1>8, <1>14, <2>1, <2>2, <2>3
<1>19. SocketsFollow'
  BY <1>1, <1>4 DEF SocketsFollow, SocketState
<1>20. ConfigFollows'
  BY <1>1, <1>13, <1>14, ConfigFollowsStands DEF Following
<1>21. ReloadsHold'
  <2>1. ReloadHolds(r)'
    BY <1>3 DEF ReloadHolds, Active
  <2>2. ASSUME NEW x \in Reloads \ {r}
        PROVE  ReloadHolds(x)'
    <3>1. ReloadHolds(x) /\ reload'[x] = reload[x] /\ outbox'[x] = outbox[x]
      BY <1>2, <1>13, TellersDiffer DEF Following, ReloadsHold
    <3> QED BY <3>1 DEF ReloadHolds, Active, FoundInFile, Quietly
  <2> QED BY <2>1, <2>2 DEF ReloadsHold
<1>22. OthersHold'
  <2>1. outbox'["loop"] = outbox["loop"] /\ outbox'["login"] = outbox["login"]
    BY <1>13, TellersDiffer
  <2> QED BY <1>1, <2>1, OthersHoldStands DEF Following
<1>23. PictureIsTold'
  <2>1. \A id \in DOMAIN news : current'[id] = news[id]
    BY <1>1, <1>10
  <2>2. ASSUME NEW id \in (Ids \ missed') \ DOMAIN news, NEW v \in LastWords(id),
               v = current[id] \/ Forgotten(id)
        PROVE  v = current'[id] \/ Forgotten(id)'
    <3>1. current'[id] = current[id] /\ new[id] = current[id]
      BY <1>1, <1>10
    <3>2. ASSUME NEW x \in Reloads, id \in reload[x].forgot, current[id] = Gone
          PROVE  v = current'[id] \/ Forgotten(id)'
      <4>1. CASE x = r
        BY <1>9, <1>13, <3>1, <3>2, <4>1
      <4>2. CASE x # r
        BY <1>2, <3>1, <3>2, <4>2 DEF Forgotten
      <4> QED BY <4>1, <4>2
    <3> QED BY <2>2, <3>1, <3>2 DEF Forgotten
  <2> QED BY <1>1, <1>12, <2>1, <2>2, FindsTells, TellersDiffer DEF Following
<1> QED BY <1>15, <1>16, <1>17, <1>18, <1>19, <1>20, <1>21, <1>22, <1>23 DEF Following

LEMMA RehashFollows ==
  ASSUME WatcherType, Following, NEW r \in Reloads, Rehash(r)
  PROVE  Following'
<1>1. /\ reload[r].at = "rehashing"
      /\ UNCHANGED <<told, disk, configFile, events, hashes, files, current, runtime, config, armed, hand,
                     login, outbox>>
      /\ configHash' = configFile /\ missed' = missed \cup {m \in {"config"} : configFile # config}
      /\ reload' = [reload EXCEPT ![r] = NoReload]
  BY DEF Rehash, pipeline, sources
<1>2. /\ reload'[r] = NoReload /\ \A x \in Reloads \ {r} : reload'[x] = reload[x]
      /\ missed \subseteq missed'
  BY <1>1, OneReload
<1>3. /\ \A x \in Reloads : reload[x].at = "rescanning" => reload'[x].at = "rescanning"
      /\ SomeActive => SomeActive'
  BY <1>1, <1>2 DEF SomeActive, Active
<1>4. \A x \in Reloads : reload[x].forgot \subseteq reload'[x].forgot
  <2>1. reload[r].forgot = {}
    BY <1>1 DEF Following, ReloadsHold, ReloadHolds
  <2> QED BY <1>2, <2>1
<1>5. EventsTell' /\ HandTells' /\ HashesTell' /\ PictureIsTold'
  BY <1>1, <1>2, <1>3, <1>4, EventsTellStands, HandTellsStands, HashesTellStands, PictureIsToldStands
     DEF Following
<1>6. FilesFollow' /\ ExclusionsFollow' /\ KeysFollow' /\ SocketsFollow' /\ OthersHold'
  BY <1>1, <1>2, <1>3, KindsOfIds, FilesFollowStands, ExclusionsFollowStands, KeysFollowStands,
     SocketsFollowStands, OthersHoldStands DEF Following
<1>7. ConfigFollows'
  BY <1>1 DEF ConfigFollows
<1>8. ReloadsHold'
  <2>1. ReloadHolds(r)'
    BY <1>2 DEF ReloadHolds, Active, NoReload
  <2>2. ASSUME NEW x \in Reloads \ {r}
        PROVE  ReloadHolds(x)'
    <3>1. ReloadHolds(x) /\ reload'[x] = reload[x] /\ outbox'[x] = outbox[x]
      BY <1>1, <1>2 DEF Following, ReloadsHold
    <3> QED BY <3>1 DEF ReloadHolds, Active, FoundInFile, Quietly
  <2> QED BY <2>1, <2>2 DEF ReloadsHold
<1> QED BY <1>5, <1>6, <1>7, <1>8 DEF Following

LEMMA InitFollows == Init => Following
<1> SUFFICES ASSUME Init
             PROVE  Following
  OBVIOUS
<1> DEFINE loaded == {id \in Names : AtStart[id] # Gone}
<1>1. /\ told = [id \in Ids |-> <<>>] /\ configFile = StartConfig /\ events = <<>>
      /\ hashes = [f \in Files |-> None] /\ current = [id \in Ids |-> Gone] /\ runtime = {}
      /\ config = StartConfig /\ configHash = None /\ hand = Resting /\ login.at = "idle"
      /\ reload = [r \in Reloads |-> IF r = StartReload
                                     THEN [NoReload EXCEPT !.at = "rescanning", !.forgot = loaded]
                                     ELSE NoReload]
      /\ outbox = [t \in Tellers |-> Quietly]
  BY DEF Init, PipelineInit
<1>2. StartReload \in Reloads
  BY WatcherAssumption DEF WatcherAssumption, StartReload
<1>3. /\ reload[StartReload].at = "rescanning" /\ reload[StartReload].forgot = loaded
      /\ reload[StartReload].cfg = None
      /\ \A r \in Reloads \ {StartReload} : reload[r] = NoReload
  BY <1>1, <1>2 DEF NoReload
<1>4. SomeActive
  BY <1>2, <1>3 DEF SomeActive, Active
<1>5. EventsTell /\ HandTells /\ HashesTell
  <2>1. Len(events) = 0
    BY <1>1
  <2>2. EventsTell
    BY <2>1 DEF EventsTell
  <2>3. HandTells
    BY <1>1 DEF HandTells, Resting
  <2>4. HashesTell
    BY <1>1, <1>2, <1>3 DEF HashesTell
  <2> QED BY <2>2, <2>3, <2>4
<1>6. FilesFollow /\ ExclusionsFollow /\ KeysFollow /\ ConfigFollows
  BY <1>1, <1>4 DEF FilesFollow, ExclusionsFollow, KeysFollow, ConfigFollows
<1>7. SocketsFollow
  BY <1>1, KindsOfIds DEF SocketsFollow, SocketState
<1>8. ReloadsHold
  <2>1. \A r \in Reloads : outbox[r] = Quietly
    BY <1>1, TellersDiffer
  <2> QED BY <1>3, <2>1 DEF ReloadsHold, ReloadHolds, NoReload
<1>9. OthersHold
  BY <1>1 DEF OthersHold, Resting
<1>10. PictureIsTold
  <2> SUFFICES ASSUME NEW id \in Ids, NEW v \in LastWords(id)
               PROVE  v = current[id] \/ Forgotten(id)
    BY DEF PictureIsTold
  <2>1. Untold(id) = {}
    BY <1>1 DEF Untold, Quietly
  <2>2. v = AtStart[id]
    BY <1>1, <2>1 DEF LastWords, LastTold
  <2>3. id \notin Names => AtStart[id] = Gone
    BY DEF AtStart
  <2>4. current[id] = Gone
    BY <1>1
  <2> QED BY <1>2, <1>3, <2>2, <2>3, <2>4 DEF Forgotten
<1> HIDE DEF loaded
<1> QED BY <1>5, <1>6, <1>7, <1>8, <1>9, <1>10 DEF Following

LEMMA NextFollows ==
  ASSUME WatcherType, PipelineTypeOK, Following, [Next]_vars
  PROVE  Following'
<1>1. ASSUME Users
      PROVE  Following'
  <2>1. ASSUME NEW f \in Files, NEW content \in Contents \cup {Empty}, WriteFile(f, content)
        PROVE  Following'
    BY <2>1, WriteFileFollows
  <2>2. ASSUME NEW f \in Files, RemoveFile(f)
        PROVE  Following'
    BY <2>2, RemoveFileFollows
  <2>3. ASSUME NEW f \in Files, NEW content \in LoginContents, Login(f, content)
        PROVE  Following'
    BY <2>3, LoginFollows
  <2>4. ASSUME NEW c \in Configs, WriteConfig(c)
        PROVE  Following'
    BY <2>4, WriteConfigFollows
  <2>5. ASSUME NEW w \in Runtimes, Connect(w) \/ Disconnect(w)
        PROVE  Following'
    BY <2>5, SocketFollows
  <2> QED BY <1>1, <2>1, <2>2, <2>3, <2>4, <2>5 DEF Users
<1>2. ASSUME TakeEvent \/ SettleEnds \/ ReadFile \/ BuildAuth \/ PublishLogin
      PROVE  Following'
  BY <1>2, TakeEventFollows, SettleEndsFollows, ReadFileFollows, BuildAuthFollows, PublishLoginFollows
<1>3. ASSUME NEW r \in Reloads,
             \/ Rescan(r) \/ ReloadStarts(r) \/ LoadConfig(r) \/ PublishConfig(r)
             \/ ForgetAffected(r) \/ LookUpConfig(r) \/ TakeSnapshot(r) \/ RefreshAuthState(r)
             \/ Rehash(r)
      PROVE  Following'
  BY <1>3, RescanFollows, ReloadStartsFollows, LoadConfigFollows, PublishConfigFollows,
     ForgetAffectedFollows, LookUpConfigFollows, TakeSnapshotFollows, RefreshAuthStateFollows, RehashFollows
<1>4. ASSUME NEW t \in Tellers, HandIn(t)
      PROVE  Following'
  BY <1>4, HandInFollows
<1>5. ASSUME Transport /\ UNCHANGED watcher
      PROVE  Following'
  <2>1. UNCHANGED told
    BY <1>5 DEF Transport, NextPendingBatch, Forward, Receive, StartApplying, Apply
  <2> QED BY <1>5, <2>1, ApartFollows
<1>6. ASSUME UNCHANGED vars
      PROVE  Following'
  <2>1. UNCHANGED <<told, watcher>>
    BY <1>6 DEF vars, pipeline
  <2> QED BY <2>1, ApartFollows
<1> QED BY <1>1, <1>2, <1>3, <1>4, <1>5, <1>6 DEF Next, Work

LEMMA AlwaysFollowing == Spec => []Following
<1>1. Spec => []PipelineTypeOK
  BY WatcherIsPipeline, PipelineTypes, PTL
<1> QED BY <1>1, InitFollows, NextFollows, WatcherTyped, PTL DEF Spec

\* FilesAreFollowed, for any number of files, contents and reloads at a time: when all is
\* quiet the service has the credential each file says, but for the exceptions in missed.
THEOREM FilesStayFollowed == Spec => []FilesAreFollowed
<1>1. Spec => []PipelineTypeOK
  BY WatcherIsPipeline, PipelineTypes, PTL
<1> QED BY <1>1, QuietFiles, WatcherTyped, AlwaysFollowing, WatcherNeverLeavesOlder, PTL

\* SourcesAreFollowed, likewise: when all is quiet the configuration in force is the one in
\* the file, and the service has its API keys and the providers that are connected, and
\* no other.
THEOREM SourcesStayFollowed == Spec => []SourcesAreFollowed
<1>1. Spec => []PipelineTypeOK
  BY WatcherIsPipeline, PipelineTypes, PTL
<1> QED BY <1>1, QuietSources, WatcherTyped, AlwaysFollowing, WatcherNeverLeavesOlder, PTL
=============================================================================
