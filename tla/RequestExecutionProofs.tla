----------------------- MODULE RequestExecutionProofs -----------------------
(***************************************************************************)
(* What is proved about requests, for any number of requests and           *)
(* credentials, any pools of upstream models and any retry settings: every *)
(* call is reported once, output comes from one credential, a request has in *)
(* hand what its place asks for, and what it costs is bounded.             *)
(*                                                                         *)
(* The first two are inductive once the states are told apart in which a call *)
(* is under way, and a credential has begun to serve; the other two once the *)
(* rounds that are over, and what is spent in this one, pay for the calls. *)
(***************************************************************************)
EXTENDS RequestExecution, FiniteSetTheorems, WellFoundedInduction, TLAPS

\* A request is a record with these fields.
Fields ==
  {"at", "tried", "attempted", "auth", "models", "copy", "padded", "failed", "last", "stream",
   "limit", "attempt", "until", "cancelled", "calls", "marks", "waited", "served", "quiet"}
IsRequest(q) == q = [f \in Fields |-> q[f]]

\* Open, of a request as it is.
InCall(q) ==
  \/ q.at \in {"provider", "bootstrap", "closing"}
  \/ q.at \in {"relay", "relaying"} /\ ~q.failed

\* Its calls are reported, but for the one that is under way, or that the client left.
Reported(q) ==
  /\ q.calls \in Nat /\ q.marks \in Nat
  /\ q.failed \in BOOLEAN
  /\ q.failed => q.at \in {"relay", "relaying"}
  /\ \/ InCall(q) /\ q.calls = q.marks + 1
     \/ ~InCall(q) /\ q.calls = q.marks
     \/ q.at = "cancelled" /\ q.calls = q.marks + 1

\* It was served by nobody, or by the credential it has in hand, or has ended.
Serves(q) ==
  \/ q.served = {}
  \/ q.at \in {"relay", "relaying"} /\ q.served = {q.auth}
  \/ q.at \in Ended /\ \E a : q.served = {a}

Sound(q) == IsRequest(q) /\ Reported(q) /\ Serves(q)

AllSound == /\ req = [r \in Requests |-> req[r]]
            /\ \A r \in Requests : Sound(req[r])

-----------------------------------------------------------------------------
(* The records the steps are made of.                                      *)

\* What a step keeps of a request.
Keeps(q, p) == q.calls = p.calls /\ q.marks = p.marks /\ q.served = p.served

LEMMA ReleasedRecord ==
  ASSUME NEW p, IsRequest(p), NEW place
  PROVE  /\ IsRequest(Released(p, place)) /\ Keeps(Released(p, place), p)
         /\ Released(p, place).at = place /\ Released(p, place).failed = FALSE
BY DEF IsRequest, Fields, Released, Keeps

LEMMA FinishedRecord ==
  ASSUME NEW p, IsRequest(p), NEW how
  PROVE  /\ IsRequest(Finished(p, how)) /\ Keeps(Finished(p, how), p)
         /\ Finished(p, how).at = how /\ Finished(p, how).failed = FALSE
<1> DEFINE q == Released(p, how)
<1>1. IsRequest(q) /\ Keeps(q, p) /\ q.at = how /\ q.failed = FALSE
  BY ReleasedRecord
<1> HIDE DEF q
<1>2. LET f == [q EXCEPT !.tried = {}, !.attempted = {}]
      IN IsRequest(f) /\ Keeps(f, p) /\ f.at = how /\ f.failed = FALSE
  BY <1>1 DEF IsRequest, Fields, Keeps
<1> QED BY <1>2 DEF Finished, q

LEMMA FailingRecord ==
  ASSUME NEW p, IsRequest(p), NEW err
  PROVE  /\ IsRequest(Failing(p, err)) /\ Keeps(Failing(p, err), p)
         /\ Failing(p, err).at \in {"returned", "failed", "pick"} /\ Failing(p, err).failed = FALSE
<1> DEFINE place == IF p.stream THEN "returned" ELSE IF err.invalid THEN "failed" ELSE "pick"
           q == Released(p, place)
<1>1. IsRequest(q) /\ Keeps(q, p) /\ q.at = place /\ q.failed = FALSE
  BY ReleasedRecord
<1>2. place \in {"returned", "failed", "pick"}
  OBVIOUS
<1> HIDE DEF q, place
<1>3. LET f == [q EXCEPT !.last = err]
      IN IsRequest(f) /\ Keeps(f, p) /\ f.at = place /\ f.failed = FALSE
  BY <1>1 DEF IsRequest, Fields, Keeps
<1> QED BY <1>2, <1>3 DEF Failing, q, place

LEMMA NextModelRecord ==
  ASSUME NEW p, IsRequest(p), p.failed = FALSE, NEW err
  PROVE  /\ IsRequest(NextModel(p, err)) /\ Keeps(NextModel(p, err), p)
         /\ NextModel(p, err).at \in {"returned", "failed", "pick", "call"}
         /\ NextModel(p, err).failed = FALSE
<1>1. LET f == [p EXCEPT !.models = Tail(@), !.at = "call", !.padded = FALSE]
      IN IsRequest(f) /\ Keeps(f, p) /\ f.at = "call" /\ f.failed = FALSE
  BY DEF IsRequest, Fields, Keeps
<1> QED BY <1>1, FailingRecord DEF NextModel

\* A request that a report of another one has disturbed.
LEMMA DisturbedRecord ==
  ASSUME NEW p, Sound(p)
  PROVE  LET q == [p EXCEPT !.quiet = FALSE]
         IN Sound(q) /\ Keeps(q, p)
BY DEF Sound, IsRequest, Fields, Reported, InCall, Serves, Keeps

-----------------------------------------------------------------------------
(* The steps of a request.                                                 *)

\* What a step may make of a request.
Follows(p, q) == Sound(q) /\ (p.served # {} => q.calls = p.calls)

AllFollow ==
  /\ req' = [x \in Requests |-> req'[x]]
  /\ \A x \in Requests : Follows(req[x], req'[x])

LEMMA BecomeFollows ==
  ASSUME AllSound, NEW r \in Requests, NEW q, Follows(req[r], q), Become(r, q)
  PROVE  AllFollow
BY DEF AllSound, Become, AllFollow, Follows

LEMMA RewriteFollows ==
  ASSUME AllSound, NEW r \in Requests, NEW cred, NEW q, Follows(req[r], q), Rewrite(r, cred, q)
  PROVE  AllFollow
<1>1. req' = [x \in Requests |-> IF x = r THEN q ELSE [req[x] EXCEPT !.quiet = FALSE]]
  BY DEF Rewrite
<1>2. ASSUME NEW x \in Requests, x # r PROVE Follows(req[x], req'[x])
  <2> DEFINE d == [req[x] EXCEPT !.quiet = FALSE]
  <2>1. Sound(d) /\ Keeps(d, req[x])
    BY DisturbedRecord DEF AllSound
  <2>2. req'[x] = d
    BY <1>1, <1>2
  <2> HIDE DEF d
  <2> QED BY <2>1, <2>2 DEF Follows, Keeps
<1> QED BY <1>1, <1>2 DEF AllFollow

\* A report, of the record as it is without it.
LEMMA MarkFollows ==
  ASSUME AllSound, NEW r \in Requests, NEW cred, NEW q,
         IsRequest(q), q.calls = req[r].calls, q.marks = req[r].marks,
         InCall(req[r]), Serves(q), q.failed \in BOOLEAN,
         q.failed => q.at \in {"relay", "relaying"}, ~InCall(q),
         Mark(r, cred, q)
  PROVE  AllFollow
<1> DEFINE m == [q EXCEPT !.marks = @ + 1]
<1>1. Reported(req[r])
  BY DEF AllSound, Sound
<1>2. /\ IsRequest(m) /\ m.at = q.at /\ m.calls = q.calls /\ m.marks = q.marks + 1
      /\ m.failed = q.failed /\ m.served = q.served /\ m.auth = q.auth
  BY DEF IsRequest, Fields
<1>3. Rewrite(r, cred, m)
  BY DEF Mark
<1> HIDE DEF m
<1>4. Reported(m) /\ Serves(m)
  BY <1>1, <1>2 DEF Reported, InCall, Serves
<1>5. Follows(req[r], m)
  BY <1>2, <1>4 DEF Follows, Sound
<1> QED BY <1>3, <1>5, RewriteFollows

\* Steps that are not calls and end none.

LEMMA ExhaustedFollows ==
  ASSUME AllSound, NEW r \in Requests, Exhausted(r)
  PROVE  AllFollow
<1> DEFINE q == [req[r] EXCEPT !.at = "failed", !.last = IF @ = NoError THEN PickError ELSE @]
<1>1. Sound(req[r])
  BY DEF AllSound
<1>2. Become(r, q)
  BY DEF Exhausted
<1>3. Follows(req[r], q)
  BY <1>1 DEF Exhausted, Follows, Sound, IsRequest, Fields, Reported, InCall, Serves, Ended
<1> HIDE DEF q
<1> QED BY <1>2, <1>3, BecomeFollows

LEMMA PickFailsFollows ==
  ASSUME AllSound, NEW r \in Requests, PickFails(r)
  PROVE  AllFollow
<1> DEFINE q == [req[r] EXCEPT !.at = "failed", !.last = IF @ = NoError THEN PickError ELSE @]
<1>1. Sound(req[r])
  BY DEF AllSound
<1>2. Become(r, q)
  BY DEF PickFails
<1>3. Follows(req[r], q)
  BY <1>1 DEF PickFails, MayPick, Follows, Sound, IsRequest, Fields, Reported, InCall, Serves, Ended
<1> HIDE DEF q
<1> QED BY <1>2, <1>3, BecomeFollows

LEMMA StreamOpensFollows ==
  ASSUME AllSound, NEW r \in Requests, StreamOpens(r)
  PROVE  AllFollow
<1> DEFINE q == [req[r] EXCEPT !.at = "bootstrap"]
<1>1. Sound(req[r])
  BY DEF AllSound
<1>2. Become(r, q)
  BY DEF StreamOpens
<1>3. Follows(req[r], q)
  BY <1>1 DEF StreamOpens, Follows, Sound, IsRequest, Fields, Reported, InCall, Serves, Ended
<1> HIDE DEF q
<1> QED BY <1>2, <1>3, BecomeFollows

LEMMA EmptyChunkFollows ==
  ASSUME AllSound, NEW r \in Requests, EmptyChunk(r)
  PROVE  AllFollow
<1> DEFINE q == [req[r] EXCEPT !.padded = TRUE]
<1>1. Sound(req[r])
  BY DEF AllSound
<1>2. Become(r, q)
  BY DEF EmptyChunk
<1>3. Follows(req[r], q)
  BY <1>1 DEF EmptyChunk, Follows, Sound, IsRequest, Fields, Reported, InCall, Serves, Ended
<1> HIDE DEF q
<1> QED BY <1>2, <1>3, BecomeFollows

LEMMA FirstPayloadFollows ==
  ASSUME AllSound, NEW r \in Requests, FirstPayload(r)
  PROVE  AllFollow
<1> DEFINE q == [req[r] EXCEPT !.at = "relay", !.padded = FALSE]
<1>1. Sound(req[r])
  BY DEF AllSound
<1>2. Become(r, q)
  BY DEF FirstPayload
<1>3. Follows(req[r], q)
  BY <1>1 DEF FirstPayload, Follows, Sound, IsRequest, Fields, Reported, InCall, Serves, Ended
<1> HIDE DEF q
<1> QED BY <1>2, <1>3, BecomeFollows

LEMMA NextPayloadFollows ==
  ASSUME AllSound, NEW r \in Requests, NextPayload(r)
  PROVE  AllFollow
<1> DEFINE q == [req[r] EXCEPT !.at = "relay"]
<1>1. Sound(req[r])
  BY DEF AllSound
<1>2. Become(r, q)
  BY DEF NextPayload
<1>3. Follows(req[r], q)
  BY <1>1 DEF NextPayload, Follows, Sound, IsRequest, Fields, Reported, InCall, Serves, Ended
<1> HIDE DEF q
<1> QED BY <1>2, <1>3, BecomeFollows

LEMMA WaitEndsFollows ==
  ASSUME AllSound, NEW r \in Requests, WaitEnds(r)
  PROVE  AllFollow
<1> DEFINE q == [req[r] EXCEPT !.at = "pick", !.tried = {}, !.attempted = {}, !.last = NoError,
                            !.attempt = @ + 1, !.until = 0]
<1>1. Sound(req[r])
  BY DEF AllSound
<1>2. Become(r, q)
  BY DEF WaitEnds
<1>3. Follows(req[r], q)
  BY <1>1 DEF WaitEnds, Follows, Sound, IsRequest, Fields, Reported, InCall, Serves, Ended
<1> HIDE DEF q
<1> QED BY <1>2, <1>3, BecomeFollows

LEMMA CancelFollows ==
  ASSUME AllSound, NEW r \in Requests, Cancel(r)
  PROVE  AllFollow
<1> DEFINE q == [req[r] EXCEPT !.cancelled = TRUE]
<1>1. Sound(req[r])
  BY DEF AllSound
<1>2. Become(r, q)
  BY DEF Cancel
<1>3. Follows(req[r], q)
  BY <1>1 DEF Cancel, Follows, Sound, IsRequest, Fields, Reported, InCall, Serves, Ended
<1> HIDE DEF q
<1> QED BY <1>2, <1>3, BecomeFollows

LEMMA CancelledFollows ==
  ASSUME AllSound, NEW r \in Requests, Cancelled(r), req[r].at \notin Ended
  PROVE  AllFollow
<1> DEFINE q == Finished(req[r], "cancelled")
<1>1. Sound(req[r])
  BY DEF AllSound
<1>2. IsRequest(q) /\ Keeps(q, req[r]) /\ q.at = "cancelled" /\ q.failed = FALSE
  BY <1>1, FinishedRecord DEF Sound
<1>3. Become(r, q)
  BY DEF Cancelled
<1> HIDE DEF q
<1>4. Follows(req[r], q)
  BY <1>1, <1>2 DEF Follows, Sound, Keeps, Reported, InCall, Serves, Ended
<1> QED BY <1>3, <1>4, BecomeFollows

LEMMA CallFollows ==
  ASSUME AllSound, NEW r \in Requests, Call(r)
  PROVE  AllFollow
<1> DEFINE q == [req[r] EXCEPT !.at = "provider", !.calls = @ + 1]
<1>1. Sound(req[r]) /\ req[r].at = "call"
  BY DEF AllSound, Call
<1>2. Become(r, q)
  BY DEF Call
<1>3. /\ IsRequest(q) /\ q.at = "provider" /\ q.calls = req[r].calls + 1
      /\ q.marks = req[r].marks /\ q.failed = req[r].failed /\ q.served = req[r].served
  BY <1>1 DEF Sound, IsRequest, Fields
<1> HIDE DEF q
<1>4. req[r].served = {}
  BY <1>1 DEF Sound, Serves, Ended
<1>5. Reported(q)
  BY <1>1, <1>3 DEF Sound, Reported, InCall
<1>6. Follows(req[r], q)
  BY <1>3, <1>4, <1>5 DEF Follows, Sound, Serves
<1> QED BY <1>2, <1>6, BecomeFollows

\* A credential is picked, or passed over.
LEMMA PickFollows ==
  ASSUME AllSound, NEW r \in Requests, NEW a \in Auths, Pick(r, a)
  PROVE  AllFollow
<1>1. Sound(req[r]) /\ req[r].at = "pick"
  BY DEF AllSound, Pick, MayPick
<1>2. PICK models \in Rotations(Pool[a]), place \in PlacesAfterPick(a) :
        LET usable == Usable(a, models) IN
        Become(r, IF usable = <<>> THEN [req[r] EXCEPT !.tried = @ \union {a}]
                  ELSE WithModels(req[r], a, usable, place))
  BY DEF Pick
<1> DEFINE over == [req[r] EXCEPT !.tried = @ \union {a}]
           in == WithModels(req[r], a, Usable(a, models), place)
<1>3. Become(r, over) \/ Become(r, in)
  BY <1>2
<1>4. Follows(req[r], over)
  BY <1>1 DEF Follows, Sound, IsRequest, Fields, Reported, InCall, Serves
<1>5. Follows(req[r], in)
  <2>1. place \in {"call", "prepare"}
    BY DEF PlacesAfterPick
  <2>2. /\ IsRequest(in) /\ Keeps(in, req[r]) /\ in.at = place /\ in.failed = req[r].failed
    BY <1>1 DEF WithModels, Sound, IsRequest, Fields, Keeps
  <2> HIDE DEF in
  <2> QED BY <1>1, <2>1, <2>2 DEF Follows, Sound, Keeps, Reported, InCall, Serves, Ended
<1> HIDE DEF over, in
<1> QED BY <1>3, <1>4, <1>5, BecomeFollows

\* A credential is prepared.
LEMMA PrepareStartsFollows ==
  ASSUME AllSound, NEW r \in Requests, PrepareStarts(r)
  PROVE  AllFollow
<1> DEFINE copied == [req[r] EXCEPT !.at = "preparing", !.copy = {auths[req[r].auth]}]
           ready == [req[r] EXCEPT !.at = "call"]
<1>1. Sound(req[r]) /\ req[r].at = "prepare"
  BY DEF AllSound, PrepareStarts
<1>2. Become(r, copied) \/ Become(r, ready)
  BY DEF PrepareStarts
<1>3. Follows(req[r], copied)
  BY <1>1 DEF Follows, Sound, IsRequest, Fields, Reported, InCall, Serves, Ended
<1>4. Follows(req[r], ready)
  BY <1>1 DEF Follows, Sound, IsRequest, Fields, Reported, InCall, Serves, Ended
<1> HIDE DEF copied, ready
<1> QED BY <1>2, <1>3, <1>4, BecomeFollows

LEMMA PrepareSucceedsFollows ==
  ASSUME AllSound, NEW r \in Requests, PrepareSucceeds(r)
  PROVE  AllFollow
<1> DEFINE q == [req[r] EXCEPT !.at = "call", !.copy = {}]
<1>1. Sound(req[r]) /\ req[r].at = "preparing"
  BY DEF AllSound, PrepareSucceeds
<1>2. PICK cred : Rewrite(r, cred, q)
  BY DEF PrepareSucceeds
<1>3. Follows(req[r], q)
  BY <1>1 DEF Follows, Sound, IsRequest, Fields, Reported, InCall, Serves, Ended
<1> HIDE DEF q
<1> QED BY <1>2, <1>3, RewriteFollows

LEMMA PrepareFailsFollows ==
  ASSUME AllSound, NEW r \in Requests, NEW err, PrepareFails(r, err)
  PROVE  AllFollow
<1> DEFINE p == Released(req[r], "pick")
           q == [p EXCEPT !.last = err]
<1>1. Sound(req[r]) /\ req[r].at = "preparing"
  BY DEF AllSound, PrepareFails
<1>2. PICK cred : Rewrite(r, cred, q)
  BY DEF PrepareFails
<1>3. IsRequest(p) /\ Keeps(p, req[r]) /\ p.at = "pick" /\ p.failed = FALSE
  BY <1>1, ReleasedRecord DEF Sound
<1> HIDE DEF p
<1>4. IsRequest(q) /\ Keeps(q, req[r]) /\ q.at = "pick" /\ q.failed = FALSE
  BY <1>3 DEF IsRequest, Fields, Keeps
<1> HIDE DEF q
<1>5. Follows(req[r], q)
  BY <1>1, <1>4 DEF Follows, Sound, Keeps, Reported, InCall, Serves, Ended
<1> QED BY <1>2, <1>5, RewriteFollows

\* An answer that is not a stream.
LEMMA AnswerArrivesFollows ==
  ASSUME AllSound, NEW r \in Requests, AnswerArrives(r)
  PROVE  AllFollow
<1> DEFINE p == [req[r] EXCEPT !.served = @ \union {req[r].auth}]
           q == Finished(p, "ok")
<1>1. Sound(req[r]) /\ req[r].at = "provider"
  BY DEF AllSound, AnswerArrives
<1>2. PICK cred : Mark(r, cred, q)
  BY DEF AnswerArrives
<1>3. /\ IsRequest(p) /\ p.calls = req[r].calls /\ p.marks = req[r].marks
      /\ p.served = req[r].served \union {req[r].auth}
  BY <1>1 DEF Sound, IsRequest, Fields
<1> HIDE DEF p
<1>4. IsRequest(q) /\ Keeps(q, p) /\ q.at = "ok" /\ q.failed = FALSE
  BY <1>3, FinishedRecord
<1> HIDE DEF q
<1>5. req[r].served = {}
  BY <1>1 DEF Sound, Serves, Ended
<1>6. Serves(q) /\ ~InCall(q) /\ InCall(req[r])
  BY <1>1, <1>3, <1>4, <1>5 DEF Keeps, Serves, InCall, Ended
<1> QED BY <1>2, <1>3, <1>4, <1>6, MarkFollows DEF Keeps

\* A call that fails: the next upstream model, the next credential or the end of the round.
LEMMA FailureFollows ==
  ASSUME AllSound, NEW r \in Requests, NEW cred, NEW err,
         req[r].at \in {"provider", "bootstrap"}, Mark(r, cred, NextModel(req[r], err))
  PROVE  AllFollow
<1> DEFINE q == NextModel(req[r], err)
<1>1. Sound(req[r]) /\ req[r].failed = FALSE /\ req[r].served = {}
  BY DEF AllSound, Sound, Reported, Serves, Ended
<1>2. /\ IsRequest(q) /\ Keeps(q, req[r]) /\ q.failed = FALSE
      /\ q.at \in {"returned", "failed", "pick", "call"}
  BY <1>1, NextModelRecord DEF Sound
<1> HIDE DEF q
<1>3. Serves(q) /\ ~InCall(q) /\ InCall(req[r])
  BY <1>1, <1>2 DEF Keeps, Serves, InCall
<1> QED BY <1>2, <1>3, MarkFollows DEF Keeps, q

LEMMA CallFailsFollows ==
  ASSUME AllSound, NEW r \in Requests, NEW err, CallFails(r, err)
  PROVE  AllFollow
BY CancelledFollows, FailureFollows DEF CallFails, Ended

LEMMA BootstrapFailsFollows ==
  ASSUME AllSound, NEW r \in Requests, NEW err, BootstrapFails(r, err)
  PROVE  AllFollow
BY CancelledFollows, FailureFollows DEF BootstrapFails, Ended

LEMMA BootstrapCancelledFollows ==
  ASSUME AllSound, NEW r \in Requests, BootstrapCancelled(r)
  PROVE  AllFollow
BY CancelledFollows DEF BootstrapCancelled, Ended

\* A stream that ends before its first payload, with or without an empty chunk.
LEMMA StreamClosesFollows ==
  ASSUME AllSound, NEW r \in Requests, StreamCloses(r)
  PROVE  AllFollow
<1> DEFINE q == [req[r] EXCEPT !.at = "closing", !.padded = FALSE]
<1>1. Sound(req[r]) /\ req[r].at = "bootstrap"
  BY DEF AllSound, StreamCloses
<1>2. Follows(req[r], q)
  BY <1>1 DEF Follows, Sound, IsRequest, Fields, Reported, InCall, Serves, Ended
<1>3. Become(r, q) \/ \E cred : Mark(r, cred, NextModel(req[r], EmptyStream))
  BY DEF StreamCloses
<1> HIDE DEF q
<1> QED BY <1>1, <1>2, <1>3, BecomeFollows, FailureFollows

LEMMA StreamReturnsFollows ==
  ASSUME AllSound, NEW r \in Requests, StreamReturns(r)
  PROVE  AllFollow
<1> DEFINE q == [req[r] EXCEPT !.at = IF req[r].last.invalid THEN "failed" ELSE "pick"]
<1>1. Sound(req[r]) /\ req[r].at = "returned"
  BY DEF AllSound, StreamReturns
<1>2. Follows(req[r], q)
  BY <1>1 DEF Follows, Sound, IsRequest, Fields, Reported, InCall, Serves, Ended
<1>3. Become(r, q) \/ Cancelled(r)
  BY DEF StreamReturns
<1> HIDE DEF q
<1> QED BY <1>1, <1>2, <1>3, BecomeFollows, CancelledFollows DEF Ended

\* A payload goes to the client: the credential serves the request from now on.
LEMMA DeliverFollows ==
  ASSUME AllSound, NEW r \in Requests, Deliver(r)
  PROVE  AllFollow
<1> DEFINE q == [req[r] EXCEPT !.at = "relaying", !.served = @ \union {req[r].auth}]
<1>1. Sound(req[r]) /\ req[r].at = "relay"
  BY DEF AllSound, Deliver
<1>2. Become(r, q)
  BY DEF Deliver
<1>3. /\ IsRequest(q) /\ q.at = "relaying" /\ q.calls = req[r].calls /\ q.marks = req[r].marks
      /\ q.failed = req[r].failed /\ q.auth = req[r].auth
      /\ q.served = req[r].served \union {req[r].auth}
  BY <1>1 DEF Sound, IsRequest, Fields
<1> HIDE DEF q
<1>4. req[r].served = {} \/ req[r].served = {req[r].auth}
  BY <1>1 DEF Sound, Serves, Ended
<1>5. Serves(q)
  BY <1>3, <1>4 DEF Serves
<1>6. Follows(req[r], q)
  BY <1>1, <1>3, <1>5 DEF Follows, Sound, Reported, InCall
<1> QED BY <1>2, <1>6, BecomeFollows

LEMMA AbandonFollows ==
  ASSUME AllSound, NEW r \in Requests, Abandon(r)
  PROVE  AllFollow
BY CancelledFollows DEF Abandon, Ended

\* An error chunk.
LEMMA StreamBreaksFollows ==
  ASSUME AllSound, NEW r \in Requests, NEW err, StreamBreaks(r, err)
  PROVE  AllFollow
<1> DEFINE again == [req[r] EXCEPT !.at = "relay"]
           q == [req[r] EXCEPT !.at = "relay", !.failed = TRUE]
<1>1. Sound(req[r]) /\ req[r].at = "relaying"
  BY DEF AllSound, StreamBreaks
<1>2. CASE req[r].failed
  <2>1. Become(r, again)
    BY <1>2 DEF StreamBreaks
  <2>2. Follows(req[r], again)
    BY <1>1 DEF Follows, Sound, IsRequest, Fields, Reported, InCall, Serves, Ended
  <2> HIDE DEF again
  <2> QED BY <2>1, <2>2, BecomeFollows
<1>3. CASE ~req[r].failed
  <2>1. PICK cred : Mark(r, cred, q)
    BY <1>3 DEF StreamBreaks
  <2>2. IsRequest(q) /\ Keeps(q, req[r]) /\ q.at = "relay" /\ q.failed = TRUE /\ q.auth = req[r].auth
    BY <1>1 DEF Sound, IsRequest, Fields, Keeps
  <2> HIDE DEF q
  <2>3. Serves(q) /\ ~InCall(q) /\ InCall(req[r])
    BY <1>1, <1>3, <2>2 DEF Sound, Keeps, Serves, InCall, Ended
  <2> QED BY <2>1, <2>2, <2>3, MarkFollows DEF Keeps
<1> QED BY <1>2, <1>3

LEMMA StreamEndsFollows ==
  ASSUME AllSound, NEW r \in Requests, StreamEnds(r)
  PROVE  AllFollow
<1> DEFINE broken == Finished(req[r], "error")
           q == Finished(req[r], "ok")
<1>1. Sound(req[r]) /\ req[r].at \in {"relaying", "closing"}
  BY DEF AllSound, StreamEnds
<1>2. CASE req[r].failed
  <2>1. Become(r, broken)
    BY <1>2 DEF StreamEnds
  <2>2. IsRequest(broken) /\ Keeps(broken, req[r]) /\ broken.at = "error" /\ broken.failed = FALSE
    BY <1>1, FinishedRecord DEF Sound
  <2> HIDE DEF broken
  <2>3. Follows(req[r], broken)
    BY <1>1, <1>2, <2>2 DEF Follows, Sound, Keeps, Reported, InCall, Serves, Ended
  <2> QED BY <2>1, <2>3, BecomeFollows
<1>3. CASE ~req[r].failed
  <2>1. PICK cred : Mark(r, cred, q)
    BY <1>3 DEF StreamEnds
  <2>2. IsRequest(q) /\ Keeps(q, req[r]) /\ q.at = "ok" /\ q.failed = FALSE
    BY <1>1, FinishedRecord DEF Sound
  <2> HIDE DEF q
  <2>3. Serves(q) /\ ~InCall(q) /\ InCall(req[r])
    BY <1>1, <1>3, <2>2 DEF Sound, Keeps, Serves, InCall, Ended
  <2> QED BY <2>1, <2>2, <2>3, MarkFollows DEF Keeps
<1> QED BY <1>2, <1>3

\* A round that has failed: another one, or the end.
LEMMA RetryFollows ==
  ASSUME AllSound, NEW r \in Requests, Retry(r)
  PROVE  AllFollow
<1>1. Sound(req[r]) /\ req[r].at = "failed"
  BY DEF AllSound, Retry
<1>2. PICK wait :
        Become(r, [req[r] EXCEPT !.at = "wait", !.until = now + wait, !.waited = @ + wait,
                                 !.quiet = TRUE])
  BY DEF Retry
<1> DEFINE q == [req[r] EXCEPT !.at = "wait", !.until = now + wait, !.waited = @ + wait,
                               !.quiet = TRUE]
<1>3. IsRequest(q) /\ Keeps(q, req[r]) /\ q.at = "wait" /\ q.failed = req[r].failed
  BY <1>1 DEF Sound, IsRequest, Fields, Keeps
<1> HIDE DEF q
<1>4. Follows(req[r], q)
  BY <1>1, <1>3 DEF Follows, Sound, Keeps, Reported, InCall, Serves, Ended
<1> QED BY <1>2, <1>4, BecomeFollows DEF q

LEMMA GiveUpFollows ==
  ASSUME AllSound, NEW r \in Requests, GiveUp(r)
  PROVE  AllFollow
<1> DEFINE q == Finished(req[r], "error")
<1>1. Sound(req[r]) /\ req[r].at = "failed"
  BY DEF AllSound, GiveUp
<1>2. Become(r, q)
  BY DEF GiveUp
<1>3. IsRequest(q) /\ Keeps(q, req[r]) /\ q.at = "error" /\ q.failed = FALSE
  BY <1>1, FinishedRecord DEF Sound
<1> HIDE DEF q
<1>4. Follows(req[r], q)
  BY <1>1, <1>3 DEF Follows, Sound, Keeps, Reported, InCall, Serves, Ended
<1> QED BY <1>2, <1>4, BecomeFollows

LEMMA WaitCancelledFollows ==
  ASSUME AllSound, NEW r \in Requests, WaitCancelled(r)
  PROVE  AllFollow
BY CancelledFollows DEF WaitCancelled, Ended

\* The results of other requests touch none but their notes.
LEMMA OtherResultFollows ==
  ASSUME AllSound, NEW a, NEW k, NEW err, OtherResult(a, k, err)
  PROVE  AllFollow
<1>1. req' = [x \in Requests |-> [req[x] EXCEPT !.quiet = FALSE]]
  BY DEF OtherResult
<1>2. ASSUME NEW x \in Requests PROVE Follows(req[x], req'[x])
  <2> DEFINE d == [req[x] EXCEPT !.quiet = FALSE]
  <2>1. Sound(d) /\ Keeps(d, req[x])
    BY DisturbedRecord DEF AllSound
  <2>2. req'[x] = d
    BY <1>1
  <2> HIDE DEF d
  <2> QED BY <2>1, <2>2 DEF Follows, Keeps
<1> QED BY <1>1, <1>2 DEF AllFollow

LEMMA UnchangedFollows ==
  ASSUME AllSound, UNCHANGED req
  PROVE  AllFollow
BY DEF AllSound, AllFollow, Follows

LEMMA StepFollows ==
  ASSUME AllSound, NEW r \in Requests, Step(r)
  PROVE  AllFollow
BY ExhaustedFollows, PickFailsFollows, PickFollows, PrepareStartsFollows, PrepareSucceedsFollows,
   PrepareFailsFollows, CallFollows, AnswerArrivesFollows, CallFailsFollows, StreamOpensFollows,
   EmptyChunkFollows, FirstPayloadFollows, StreamClosesFollows, BootstrapFailsFollows,
   BootstrapCancelledFollows, StreamReturnsFollows, DeliverFollows, AbandonFollows,
   NextPayloadFollows, StreamBreaksFollows, StreamEndsFollows, RetryFollows, GiveUpFollows,
   WaitEndsFollows, WaitCancelledFollows
   DEF Step

LEMMA NextFollows == AllSound /\ [Next]_vars => AllFollow
<1> SUFFICES ASSUME AllSound, [Next]_vars PROVE AllFollow
  OBVIOUS
<1>1. CASE UNCHANGED req
  BY <1>1, UnchangedFollows
<1>2. Tick \/ UNCHANGED vars => UNCHANGED req
  BY DEF Tick, vars
<1> QED BY <1>1, <1>2, StepFollows, CancelFollows, OtherResultFollows DEF Next

-----------------------------------------------------------------------------
(* The theorems.                                                           *)

LEMMA InitSound == Init => AllSound
<1> SUFFICES ASSUME Init PROVE AllSound
  OBVIOUS
<1>1. req \in [Requests -> {Start(stream, limit) : stream \in BOOLEAN, limit \in Limits}]
  BY DEF Init
<1>2. ASSUME NEW stream, NEW limit PROVE Sound(Start(stream, limit))
  BY DEF Start, Sound, IsRequest, Fields, Reported, InCall, Serves
<1>3. ASSUME NEW r \in Requests PROVE Sound(req[r])
  <2>1. PICK stream \in BOOLEAN, limit \in Limits : req[r] = Start(stream, limit)
    BY <1>1
  <2> QED BY <1>2, <2>1
<1> QED BY <1>1, <1>3 DEF AllSound

LEMMA NextSound == AllSound /\ [Next]_vars => AllSound'
BY NextFollows DEF AllFollow, AllSound, Follows

LEMMA AlwaysSound == Spec => []AllSound
BY InitSound, NextSound, PTL DEF Spec

\* EveryCallIsReported: whatever way a call ends, through answers, errors before and after
\* the first payload, closed streams, pools and rounds, MarkResult hears of it exactly once.
THEOREM CallsAreReported == Spec => []EveryCallIsReported
<1>1. AllSound => EveryCallIsReported
  <2> SUFFICES ASSUME AllSound, NEW r \in Requests
               PROVE  LET unreported == req[r].calls - req[r].marks - (IF Open(r) THEN 1 ELSE 0) IN
                      unreported = 0 \/ (req[r].at = "cancelled" /\ unreported = 1)
    BY DEF EveryCallIsReported
  <2>1. Reported(req[r])
    BY DEF AllSound, Sound
  <2>2. Open(r) <=> InCall(req[r])
    BY DEF Open, InCall
  <2>3. req[r].at = "cancelled" => ~InCall(req[r])
    BY DEF InCall
  <2> QED BY <2>1, <2>2, <2>3 DEF Reported
<1> QED BY <1>1, AlwaysSound, PTL

\* OneCredentialServes: a client never gets output of two credentials, and a request that
\* has delivered a payload calls no provider again.
THEOREM OneServes == Spec => OneCredentialServes
<1>1. AllSound /\ [Next]_vars => [ServesAlone]_vars
  <2> SUFFICES ASSUME AllSound, [Next]_vars, NEW r \in Requests
               PROVE  /\ Cardinality(req'[r].served) <= 1
                      /\ req[r].served # {} => req'[r].calls = req[r].calls
    BY DEF ServesAlone
  <2>1. Follows(req[r], req'[r])
    BY NextFollows DEF AllFollow
  <2>2. req'[r].served = {} \/ \E a : req'[r].served = {a}
    BY <2>1 DEF Follows, Sound, Serves
  <2>3. Cardinality(req'[r].served) \in {0, 1}
    BY <2>2, FS_EmptySet, FS_Singleton
  <2> QED BY <2>1, <2>3 DEF Follows
<1> QED BY <1>1, AlwaysSound, PTL DEF Spec, OneCredentialServes

-----------------------------------------------------------------------------
(* Numbers.                                                                *)

\* A non-empty set of naturals has a least element, and Min returns it.
LEMMA MinOfNaturals ==
  ASSUME NEW S \in SUBSET Nat, S # {}
  PROVE  /\ Min(S) \in S
         /\ \A x \in S : Min(S) <= x
<1>1. PICK x \in S : \A y \in S : ~(<<y, x>> \in OpToRel(<, Nat))
  <2> DEFINE R == OpToRel(<, Nat)
  <2>1. IsWellFoundedOn(R, Nat)
    BY NatLessThanWellFounded
  <2> HIDE DEF R
  <2>2. \E x \in S : \A y \in S : ~(<<y, x>> \in R)
    BY <2>1, WFMin
  <2> QED
    BY <2>2 DEF R
<1>2. \A y \in S : x <= y
  <2>1. ASSUME NEW y \in S
        PROVE  ~(y < x)
    BY <1>1, Zenon DEF OpToRel
  <2> QED
    BY <2>1
<1> QED
  BY <1>2 DEF Min

\* A non-empty set of naturals up to a bound has a greatest element, and Max
\* returns it.
LEMMA MaxOfBounded ==
  ASSUME NEW n \in Nat, NEW S \in SUBSET (0 .. n), S # {}
  PROVE  /\ Max(S) \in S
         /\ \A x \in S : Max(S) >= x
<1> DEFINE T == {y \in 0 .. n : n - y \in S}
<1>1. ASSUME NEW x \in S
      PROVE  n - x \in T
  <2>1. x \in 0 .. n
    OBVIOUS
  <2>2. n - x \in 0 .. n /\ n - (n - x) = x
    BY <2>1
  <2> QED
    BY <2>2
<1>2. T \in SUBSET Nat /\ T # {}
  <2>1. PICK x \in S : TRUE
    OBVIOUS
  <2>2. n - x \in T
    BY <1>1
  <2>3. \A y \in 0 .. n : y \in Nat
    OBVIOUS
  <2> QED
    BY <2>2, <2>3
<1>3. \A y \in T : y \in 0 .. n /\ n - y \in S
  OBVIOUS
<1> HIDE DEF T
<1>4. /\ Min(T) \in T
      /\ \A z \in T : Min(T) <= z
  BY <1>2, MinOfNaturals
<1>5. n - Min(T) \in S
  BY <1>3, <1>4
<1>6. \A z \in S : n - Min(T) >= z
  <2>1. ASSUME NEW z \in S
        PROVE  Min(T) <= n - z
    BY <1>1, <1>4
  <2>2. \A z \in S : z \in 0 .. n
    OBVIOUS
  <2> QED
    BY <1>3, <1>4, <2>1, <2>2
<1> QED
  BY <1>5, <1>6 DEF Max

-----------------------------------------------------------------------------
(* The cost of a round.                                                    *)

\* Trying a credential may cost a call for each of its upstream models.
LEMMA TargetsAdd ==
  ASSUME NEW S \in SUBSET Auths
  PROVE  /\ IsFiniteSet(Targets(S)) /\ Cardinality(Targets(S)) \in Nat
         /\ \A a \in S : Cardinality(Targets(S)) = Cardinality(Targets(S \ {a})) + Len(Pool[a])
<1>1. ASSUME NEW a \in Auths
      PROVE  Len(Pool[a]) \in Nat /\ DOMAIN Pool[a] = 1 .. Len(Pool[a])
  BY RequestAssumption
<1>2. ASSUME NEW a \in Auths
      PROVE  IsFiniteSet({a} \X DOMAIN Pool[a]) /\ Cardinality({a} \X DOMAIN Pool[a]) = Len(Pool[a])
  <2> DEFINE n == Len(Pool[a])
  <2>1. n \in Nat /\ DOMAIN Pool[a] = 1 .. n
    BY <1>1
  <2> HIDE DEF n
  <2>2. IsFiniteSet(1 .. n) /\ Cardinality(1 .. n) = n
    <3>1. n \in Int /\ n >= 0
      BY <2>1
    <3>2. IsFiniteSet(1 .. n) /\ Cardinality(1 .. n) = IF 1 > n THEN 0 ELSE n - 1 + 1
      BY <3>1, FS_Interval, 1 \in Int
    <3> QED
      BY <3>1, <3>2
  <2>3. IsFiniteSet({a}) /\ Cardinality({a}) = 1
    BY FS_Singleton
  <2>4. IsFiniteSet({a} \X (1 .. n)) /\ Cardinality({a} \X (1 .. n)) = 1 * n
    BY <2>2, <2>3, FS_Product
  <2> QED
    BY <2>1, <2>4 DEF n
<1>3. ASSUME NEW R \in SUBSET Auths
      PROVE  IsFiniteSet(Targets(R)) /\ Cardinality(Targets(R)) \in Nat
  <2> DEFINE longest == UNION {{a} \X DOMAIN Pool[a] : a \in Auths}
             parts == {{a} \X DOMAIN Pool[a] : a \in R}
  <2>1. IsFiniteSet(R)
    BY RequestAssumption, FS_Subset
  <2>2. IsFiniteSet(parts)
    <3> DEFINE f == [a \in R |-> {a} \X DOMAIN Pool[a]]
    <3>1. f \in Surjection(R, parts)
      BY DEF Surjection
    <3> HIDE DEF f, parts
    <3> QED
      BY <2>1, <3>1, FS_Surjection
  <2>3. \A T \in parts : IsFiniteSet(T)
    BY <1>2
  <2> HIDE DEF parts
  <2>4. IsFiniteSet(UNION parts)
    BY <2>2, <2>3, FS_UNION
  <2> QED
    BY <2>4, FS_CardinalityType DEF Targets, parts
<1>4. ASSUME NEW a \in S
      PROVE  Cardinality(Targets(S)) = Cardinality(Targets(S \ {a})) + Len(Pool[a])
  <2> DEFINE A == Targets(S \ {a})
             B == {a} \X DOMAIN Pool[a]
  <2>1. Targets(S) = A \union B /\ A \intersect B = {}
    BY DEF Targets
  <2>2. IsFiniteSet(A) /\ Cardinality(A) \in Nat
    BY <1>3
  <2>3. IsFiniteSet(B) /\ Cardinality(B) = Len(Pool[a]) /\ Len(Pool[a]) \in Nat
    BY <1>1, <1>2
  <2> HIDE DEF A, B
  <2>4. Cardinality(A \union B) = Cardinality(A) + Cardinality(B) - Cardinality({})
    BY <2>1, <2>2, <2>3, FS_Union
  <2> QED
    BY <2>1, <2>2, <2>3, <2>4, FS_EmptySet DEF A
<1> QED
  BY <1>3, <1>4

\* A round never costs more than the most expensive set of credentials it may try.
LEMMA RoundCosts ==
  ASSUME NEW S \in SUBSET Auths, NEW limit \in Nat, limit > 0 => Cardinality(S) <= limit
  PROVE  /\ MostPerRound(limit) \in Nat
         /\ Cardinality(Targets(S)) <= MostPerRound(limit)
<1> DEFINE allowed == {R \in SUBSET Auths : limit = 0 \/ Cardinality(R) <= limit}
           costs == {Cardinality(Targets(R)) : R \in allowed}
           n == Cardinality(Targets(Auths))
<1>1. n \in Nat /\ IsFiniteSet(Targets(Auths))
  <2>1. Auths \in SUBSET Auths
    OBVIOUS
  <2> QED
    BY <2>1, TargetsAdd
<1>2. ASSUME NEW R \in SUBSET Auths
      PROVE  Cardinality(Targets(R)) \in 0 .. n
  <2>1. Targets(R) \in SUBSET Targets(Auths)
    BY DEF Targets
  <2>2. Cardinality(Targets(R)) <= n
    BY <1>1, <2>1, FS_Subset
  <2>3. Cardinality(Targets(R)) \in Nat
    BY TargetsAdd
  <2> HIDE DEF n
  <2> QED
    BY <1>1, <2>2, <2>3
<1>3. S \in allowed
  OBVIOUS
<1>4. costs \in SUBSET (0 .. n) /\ Cardinality(Targets(S)) \in costs
  BY <1>2, <1>3
<1> HIDE DEF costs, n
<1>5. Max(costs) \in costs /\ \A x \in costs : Max(costs) >= x
  BY <1>1, <1>4, MaxOfBounded
<1>6. \A x \in costs : x \in Nat
  BY <1>4
<1>7. MostPerRound(limit) = Max(costs)
  BY DEF MostPerRound, costs
<1> QED
  BY <1>4, <1>5, <1>6, <1>7

\* The upstream models that are left are some of those a credential has: what the
\* loop of filterExecutionModels has kept after n of them.
KeptOf(g, a, models, n) ==
  g = [k \in 0 .. n |->
         IF k = 0 THEN <<>>
         ELSE IF BlockedFor(auths[a], StateModel(a, models[k]), now) THEN g[k - 1]
         ELSE Append(g[k - 1], models[k])]

LEMMA KeptExists ==
  ASSUME NEW a, NEW models, NEW n \in Nat
  PROVE  \E g : KeptOf(g, a, models, n)
<1> DEFINE Bad == {m \in Nat : ~ \E g : KeptOf(g, a, models, m)}
<1> SUFFICES ASSUME Bad # {} PROVE FALSE
  OBVIOUS
<1> DEFINE m == Min(Bad)
<1>1. m \in Bad /\ \A x \in Bad : m <= x
  BY MinOfNaturals
<1> HIDE DEF m
<1>2. CASE m = 0
  <2>1. KeptOf([k \in 0 .. 0 |-> <<>>], a, models, 0)
    BY DEF KeptOf
  <2> QED
    BY <2>1, <1>1, <1>2
<1>3. CASE m # 0
  <2>1. m - 1 \in Nat /\ m \in Nat /\ m - 1 \notin Bad
    BY <1>1, <1>3
  <2>2. PICK g : KeptOf(g, a, models, m - 1)
    BY <2>1
  <2> DEFINE step(f, k) == IF k = 0 THEN <<>>
                           ELSE IF BlockedFor(auths[a], StateModel(a, models[k]), now) THEN f[k - 1]
                           ELSE Append(f[k - 1], models[k])
             last == IF BlockedFor(auths[a], StateModel(a, models[m]), now) THEN g[m - 1]
                     ELSE Append(g[m - 1], models[m])
             h == [k \in 0 .. m |-> IF k < m THEN g[k] ELSE last]
  <2>3. \A k \in 0 .. m - 1 : g[k] = step(g, k)
    BY <2>1, <2>2 DEF KeptOf
  <2>4. \A k \in 0 .. m : h[k] = step(h, k)
    <3> SUFFICES ASSUME NEW k \in 0 .. m
                 PROVE  h[k] = step(h, k)
      OBVIOUS
    <3>1. k # 0 => h[k - 1] = g[k - 1]
      BY <2>1
    <3>2. CASE k < m
      BY <2>1, <2>3, <3>1, <3>2
    <3>3. CASE ~(k < m)
      BY <2>1, <1>3, <3>1, <3>3
    <3> QED
      BY <3>2, <3>3
  <2>5. KeptOf(h, a, models, m)
    BY <2>4 DEF KeptOf
  <2> QED
    BY <2>5, <1>1
<1> QED
  BY <1>2, <1>3

LEMMA UsableType ==
  ASSUME NEW a, NEW models \in Seq(Models)
  PROVE  Usable(a, models) \in Seq(Models) /\ Len(Usable(a, models)) <= Len(models)
<1> DEFINE n == Len(models)
           g == CHOOSE f : KeptOf(f, a, models, n)
           Bad == {m \in 0 .. n : ~(g[m] \in Seq(Models) /\ Len(g[m]) <= m)}
<1>1. n \in Nat /\ \A k \in 1 .. n : models[k] \in Models
  OBVIOUS
<1>2. Usable(a, models) = g[n]
  BY DEF Usable, KeptOf
<1> HIDE DEF n
<1>3. KeptOf(g, a, models, n)
  BY <1>1, KeptExists
<1> HIDE DEF g
<1>4. Bad = {}
  <2> SUFFICES ASSUME Bad # {} PROVE FALSE
    OBVIOUS
  <2> DEFINE m == Min(Bad)
  <2>1. Bad \in SUBSET Nat
    BY <1>1
  <2>2. m \in Bad /\ \A x \in Bad : m <= x
    BY <2>1, MinOfNaturals
  <2> HIDE DEF m
  <2>3. CASE m = 0
    <3>1. g[0] = <<>>
      BY <1>1, <1>3 DEF KeptOf
    <3>2. <<>> \in Seq(Models) /\ Len(<<>>) = 0
      OBVIOUS
    <3>3. g[m] \in Seq(Models) /\ Len(g[m]) <= m
      BY <2>3, <3>1, <3>2
    <3> QED
      BY <2>2, <3>3
  <2>4. CASE m # 0
    <3>1. m \in 1 .. n /\ m - 1 \in 0 .. n /\ m - 1 \notin Bad
      BY <1>1, <2>2, <2>4
    <3>2. g[m - 1] \in Seq(Models) /\ Len(g[m - 1]) <= m - 1
      BY <3>1
    <3>3. g[m] = g[m - 1] \/ g[m] = Append(g[m - 1], models[m])
      <4>1. \A k \in 0 .. n : k # 0 =>
              g[k] = IF BlockedFor(auths[a], StateModel(a, models[k]), now) THEN g[k - 1]
                     ELSE Append(g[k - 1], models[k])
        BY <1>3 DEF KeptOf
      <4>2. m \in 0 .. n
        BY <3>1
      <4> QED
        BY <2>4, <4>1, <4>2
    <3>4. models[m] \in Models
      BY <1>1, <3>1
    <3>5. g[m] \in Seq(Models) /\ Len(g[m]) <= m
      <4>1. ASSUME NEW q \in Seq(Models), NEW x \in Models, NEW k \in Nat, Len(q) <= k - 1
            PROVE  /\ q \in Seq(Models) /\ Len(q) <= k
                   /\ Append(q, x) \in Seq(Models) /\ Len(Append(q, x)) <= k
        BY <4>1
      <4>2. m \in Nat
        BY <3>1, <1>1
      <4> QED
        BY <3>2, <3>3, <3>4, <4>1, <4>2
    <3> QED
      BY <2>2, <3>5
  <2> QED
    BY <2>3, <2>4
<1>5. n \in 0 .. n
  BY <1>1
<1> QED
  BY <1>2, <1>4, <1>5 DEF n

\* A rotation has the models it rotates.
LEMMA RotationType ==
  ASSUME NEW s \in Seq(Models), NEW t \in Rotations(s)
  PROVE  t \in Seq(Models) /\ Len(t) = Len(s)
<1>1. PICK i \in 1 .. Len(s) : t = SubSeq(s, i, Len(s)) \o SubSeq(s, 1, i - 1)
  BY DEF Rotations
<1>2. /\ SubSeq(s, i, Len(s)) \in Seq(Models) /\ Len(SubSeq(s, i, Len(s))) = Len(s) - i + 1
      /\ SubSeq(s, 1, i - 1) \in Seq(Models) /\ Len(SubSeq(s, 1, i - 1)) = i - 1
  OBVIOUS
<1> QED
  BY <1>1, <1>2

-----------------------------------------------------------------------------
(* What a request has in hand, and what it has spent.                      *)

\* The fields of a request fit its place.
Placed(q) ==
  /\ q.at \in Places
  /\ q.attempted \subseteq q.tried /\ q.tried \subseteq Auths
  /\ q.at \in Using <=> q.auth # NoAuth
  /\ q.at = "preparing" <=> q.copy # {}
  /\ q.auth # NoAuth => /\ q.auth \in q.attempted
                        /\ q.models \in Seq(Models) /\ q.models # <<>>
                        /\ Len(q.models) <= Len(Pool[q.auth])

\* Some credential allows the rounds it has made, and the one it waits for.
Patient(q) ==
  /\ q.attempt \in Nat /\ q.waited \in Nat
  /\ q.attempt > 0 => \E a \in Auths : q.attempt <= Retries[a]
  /\ q.at = "wait" => \E a \in Auths : q.attempt < Retries[a]
  /\ \/ q.waited <= q.attempt * MaxWait
     \/ q.at \in {"wait"} \union Ended /\ q.waited <= q.attempt * MaxWait + MaxWait

\* The places in which a credential is in hand, and its call still to come.
Before == {"prepare", "preparing", "call"}

\* What this round may have spent: all of the credentials that were given up, and of the
\* one in hand the upstream models that have been called.
Spent(q) ==
  IF q.auth = NoAuth THEN Cardinality(Targets(q.attempted))
  ELSE Cardinality(Targets(q.attempted \ {q.auth})) + Len(Pool[q.auth]) - Len(q.models)
         + (IF q.at \in Before THEN 0 ELSE 1)

\* The calls of a request are paid for by its rounds.
Thrifty(q) ==
  /\ q.limit \in Nat /\ q.calls \in Nat
  /\ q.limit > 0 => Cardinality(q.attempted) <= q.limit
  /\ q.calls <= q.attempt * MostPerRound(q.limit)
                  + IF q.at \in Ended THEN MostPerRound(q.limit) ELSE Spent(q)

Careful(q) == Placed(q) /\ Patient(q) /\ Thrifty(q)

AllCareful == \A r \in Requests : Careful(req[r])

\* What has been spent is at most what the credentials tried may cost, and that at
\* most what a round may.
LEMMA SpentIsBounded ==
  ASSUME NEW q, Careful(q)
  PROVE  /\ Spent(q) \in Nat /\ Spent(q) <= Cardinality(Targets(q.attempted))
         /\ Cardinality(Targets(q.attempted)) \in Nat /\ MostPerRound(q.limit) \in Nat
         /\ Cardinality(Targets(q.attempted)) <= MostPerRound(q.limit)
         /\ q.attempt * MostPerRound(q.limit) \in Nat /\ q.attempt * MaxWait \in Nat
<1>1. q.attempted \in SUBSET Auths
  BY DEF Careful, Placed
<1>2. /\ MostPerRound(q.limit) \in Nat
      /\ Cardinality(Targets(q.attempted)) <= MostPerRound(q.limit)
  BY <1>1, RoundCosts DEF Careful, Thrifty
<1>3. Cardinality(Targets(q.attempted)) \in Nat
  BY <1>1, TargetsAdd
<1>4. ASSUME NEW x \in Nat, NEW y \in Nat
      PROVE  x * y \in Nat
  OBVIOUS
<1>5. q.attempt * MostPerRound(q.limit) \in Nat /\ q.attempt * MaxWait \in Nat
  BY <1>2, <1>4, RequestAssumption DEF Careful, Patient
<1>6. CASE q.auth = NoAuth
  BY <1>2, <1>3, <1>5, <1>6 DEF Spent
<1>7. CASE q.auth # NoAuth
  <2>1. /\ q.auth \in q.attempted /\ q.models \in Seq(Models) /\ q.models # <<>>
        /\ Len(q.models) <= Len(Pool[q.auth])
    BY <1>7 DEF Careful, Placed
  <2>2. Len(q.models) \in Nat \ {0}
    BY <2>1
  <2>3. Len(Pool[q.auth]) \in Nat
    BY <1>1, <2>1, RequestAssumption
  <2>4. Cardinality(Targets(q.attempted \ {q.auth})) \in Nat
    BY <1>1, TargetsAdd
  <2>5. Cardinality(Targets(q.attempted)) =
          Cardinality(Targets(q.attempted \ {q.auth})) + Len(Pool[q.auth])
    BY <1>1, <2>1, TargetsAdd
  <2>6. Spent(q) = Cardinality(Targets(q.attempted \ {q.auth})) + Len(Pool[q.auth])
                     - Len(q.models) + (IF q.at \in Before THEN 0 ELSE 1)
    BY <1>7 DEF Spent
  <2>7. ASSUME NEW x \in Nat, NEW y \in Nat, NEW z \in Nat \ {0}, NEW d \in {0, 1}, z <= y
        PROVE  x + y - z + d \in Nat /\ x + y - z + d <= x + y
    BY <2>7
  <2>8. Spent(q) \in Nat /\ Spent(q) <= Cardinality(Targets(q.attempted))
    BY <2>1, <2>2, <2>3, <2>4, <2>5, <2>6, <2>7
  <2> QED
    BY <1>2, <1>3, <1>5, <2>8
<1> QED
  BY <1>6, <1>7

\* What a step inside a place's group keeps.
Alike(q, p) ==
  /\ q.tried = p.tried /\ q.attempted = p.attempted /\ q.auth = p.auth /\ q.models = p.models
  /\ q.attempt = p.attempt /\ q.waited = p.waited /\ q.limit = p.limit /\ q.calls = p.calls

\* A step that spends nothing.
LEMMA AlikeCareful ==
  ASSUME NEW p, NEW q, Careful(p), Alike(q, p), q.at \in Places,
         q.at \in Using <=> p.at \in Using, q.at \in Before <=> p.at \in Before,
         q.at \in Ended <=> p.at \in Ended, q.at = "wait" <=> p.at = "wait",
         q.at = "preparing" <=> q.copy # {}
  PROVE  Careful(q)
<1>1. Placed(q)
  BY DEF Careful, Placed, Alike
<1>2. Patient(q)
  BY DEF Careful, Patient, Alike
<1>3. Spent(q) = Spent(p)
  BY DEF Spent, Alike
<1>4. Thrifty(q)
  BY <1>3 DEF Careful, Thrifty, Alike
<1> QED
  BY <1>1, <1>2, <1>4 DEF Careful

\* What a step that gives a credential up keeps.
Alone(q, p) ==
  /\ q.auth = NoAuth /\ q.copy = {}
  /\ q.attempt = p.attempt /\ q.waited = p.waited /\ q.limit = p.limit /\ q.calls = p.calls

\* A credential that is given up has been spent.
LEMMA ReleasedCareful ==
  ASSUME NEW p, NEW q, Careful(p), p.at \in Using, Alone(q, p),
         q.tried = p.tried, q.attempted = p.attempted, q.at \in {"pick", "returned", "failed"}
  PROVE  Careful(q)
<1>1. Placed(q)
  BY DEF Careful, Placed, Alone, Places, Using
<1>2. p.at \notin Ended /\ p.at # "wait" /\ q.at \notin Ended /\ q.at # "wait"
  BY DEF Using, Ended
<1>3. Patient(q)
  BY <1>2 DEF Careful, Patient, Alone
<1>4. Spent(q) = Cardinality(Targets(p.attempted))
  BY DEF Spent, Alone
<1>5. /\ p.calls \in Nat /\ p.calls <= p.attempt * MostPerRound(p.limit) + Spent(p)
      /\ Spent(p) \in Nat /\ Spent(p) <= Spent(q) /\ Spent(q) \in Nat
      /\ p.attempt * MostPerRound(p.limit) \in Nat
  BY <1>2, <1>4, SpentIsBounded DEF Careful, Thrifty
<1>6. p.calls <= p.attempt * MostPerRound(p.limit) + Spent(q)
  BY <1>5
<1>7. Thrifty(q)
  BY <1>2, <1>6 DEF Careful, Thrifty, Alone
<1> QED
  BY <1>1, <1>3, <1>7 DEF Careful

\* A request that ends has not spent more than its last round may cost.
LEMMA FinishedCareful ==
  ASSUME NEW p, NEW q, Careful(p), p.at \notin Ended, Alone(q, p),
         q.tried = {}, q.attempted = {}, q.at \in Ended
  PROVE  Careful(q)
<1>1. Placed(q)
  BY DEF Careful, Placed, Alone, Places, Using, Ended
<1>2. q.at # "wait"
  BY DEF Ended
<1>3. Patient(q)
  BY <1>2 DEF Careful, Patient, Alone
<1>4. /\ p.calls \in Nat /\ p.calls <= p.attempt * MostPerRound(p.limit) + Spent(p)
      /\ Spent(p) \in Nat /\ Spent(p) <= MostPerRound(p.limit) /\ MostPerRound(p.limit) \in Nat
      /\ p.attempt * MostPerRound(p.limit) \in Nat
  <2>1. /\ Spent(p) \in Nat /\ Spent(p) <= Cardinality(Targets(p.attempted))
        /\ Cardinality(Targets(p.attempted)) \in Nat /\ MostPerRound(p.limit) \in Nat
        /\ Cardinality(Targets(p.attempted)) <= MostPerRound(p.limit)
        /\ p.attempt * MostPerRound(p.limit) \in Nat
    BY SpentIsBounded
  <2> QED
    BY <2>1 DEF Careful, Thrifty
<1>5. p.calls <= p.attempt * MostPerRound(p.limit) + MostPerRound(p.limit)
  BY <1>4
<1>6. Cardinality(q.attempted) = 0
  BY FS_EmptySet
<1>7. Thrifty(q)
  BY <1>5, <1>6 DEF Careful, Thrifty, Alone
<1> QED
  BY <1>1, <1>3, <1>7 DEF Careful

-----------------------------------------------------------------------------
(* Every step is careful.                                                  *)

LEMMA BecomeCareful ==
  ASSUME AllSound, AllCareful, NEW r \in Requests, NEW q, Careful(q), Become(r, q)
  PROVE  AllCareful'
<1>1. req' = [req EXCEPT ![r] = q] /\ req = [x \in Requests |-> req[x]]
  BY DEF Become, AllSound
<1>2. \A x \in Requests : req'[x] = IF x = r THEN q ELSE req[x]
  BY <1>1
<1> QED BY <1>2 DEF AllCareful

\* The others take notice of a report, and go on as they were.
LEMMA DisturbedCareful ==
  ASSUME NEW p, IsRequest(p), Careful(p)
  PROVE  Careful([p EXCEPT !.quiet = FALSE])
<1> DEFINE q == [p EXCEPT !.quiet = FALSE]
<1>1. Alike(q, p) /\ q.at = p.at /\ q.copy = p.copy
  BY DEF IsRequest, Fields, Alike
<1> HIDE DEF q
<1>2. p.at \in Places /\ (p.at = "preparing" <=> p.copy # {})
  BY DEF Careful, Placed
<1> QED BY <1>1, <1>2, AlikeCareful DEF q

LEMMA RewriteCareful ==
  ASSUME AllSound, AllCareful, NEW r \in Requests, NEW cred, NEW q, Careful(q), Rewrite(r, cred, q)
  PROVE  AllCareful'
<1>1. req' = [x \in Requests |-> IF x = r THEN q ELSE [req[x] EXCEPT !.quiet = FALSE]]
  BY DEF Rewrite
<1>2. ASSUME NEW x \in Requests, x # r PROVE Careful(req'[x])
  BY <1>1, <1>2, DisturbedCareful DEF AllSound, Sound, AllCareful
<1>3. req'[r] = q
  BY <1>1
<1> QED BY <1>2, <1>3 DEF AllCareful

LEMMA MarkCareful ==
  ASSUME AllSound, AllCareful, NEW r \in Requests, NEW cred, NEW q,
         IsRequest(q), Careful(q), Mark(r, cred, q)
  PROVE  AllCareful'
<1> DEFINE m == [q EXCEPT !.marks = @ + 1]
<1>1. Alike(m, q) /\ m.at = q.at /\ m.copy = q.copy
  BY DEF IsRequest, Fields, Alike
<1>2. Rewrite(r, cred, m)
  BY DEF Mark
<1> HIDE DEF m
<1>3. q.at \in Places /\ (q.at = "preparing" <=> q.copy # {})
  BY DEF Careful, Placed
<1>4. Careful(m)
  BY <1>1, <1>3, AlikeCareful
<1> QED BY <1>2, <1>4, RewriteCareful

\* What Released and Finished leave.
LEMMA ReleasedFields ==
  ASSUME NEW p, IsRequest(p), NEW place
  PROVE  LET q == Released(p, place) IN
         /\ IsRequest(q) /\ Alone(q, p) /\ q.at = place
         /\ q.tried = p.tried /\ q.attempted = p.attempted
BY DEF IsRequest, Fields, Released, Alone

LEMMA FinishedFields ==
  ASSUME NEW p, IsRequest(p), NEW how
  PROVE  LET q == Finished(p, how) IN
         IsRequest(q) /\ Alone(q, p) /\ q.at = how /\ q.tried = {} /\ q.attempted = {}
<1> DEFINE q == Released(p, how)
<1>1. IsRequest(q) /\ Alone(q, p) /\ q.at = how
  BY ReleasedFields
<1> HIDE DEF q
<1>2. LET f == [q EXCEPT !.tried = {}, !.attempted = {}] IN
      IsRequest(f) /\ Alone(f, p) /\ f.at = how /\ f.tried = {} /\ f.attempted = {}
  BY <1>1 DEF IsRequest, Fields, Alone
<1> QED BY <1>2 DEF Finished, q

\* A request that ends, from wherever it is.
LEMMA EndCareful ==
  ASSUME NEW p, IsRequest(p), Careful(p), p.at \notin Ended, NEW how \in Ended
  PROVE  IsRequest(Finished(p, how)) /\ Careful(Finished(p, how))
<1> DEFINE q == Finished(p, how)
<1>1. IsRequest(q) /\ Alone(q, p) /\ q.at = how /\ q.tried = {} /\ q.attempted = {}
  BY FinishedFields
<1> HIDE DEF q
<1>2. Careful(q)
  BY <1>1, FinishedCareful
<1> QED BY <1>1, <1>2 DEF q

\* A credential that is given up with an error.
LEMMA GivenUpCareful ==
  ASSUME NEW p, IsRequest(p), Careful(p), p.at \in Using, NEW err,
         NEW place \in {"pick", "returned", "failed"}
  PROVE  LET q == [Released(p, place) EXCEPT !.last = err] IN IsRequest(q) /\ Careful(q)
<1> DEFINE l == Released(p, place)
           q == [l EXCEPT !.last = err]
<1>1. IsRequest(l) /\ Alone(l, p) /\ l.at = place /\ l.tried = p.tried /\ l.attempted = p.attempted
  BY ReleasedFields
<1> HIDE DEF l
<1>2. IsRequest(q) /\ Alone(q, p) /\ q.at = place /\ q.tried = p.tried /\ q.attempted = p.attempted
  BY <1>1 DEF IsRequest, Fields, Alone
<1> HIDE DEF q
<1>3. Careful(q)
  BY <1>2, ReleasedCareful
<1> QED BY <1>2, <1>3 DEF q, l

\* A call has failed: the next upstream model costs what this one has cost.
LEMMA NextModelCareful ==
  ASSUME NEW p, IsRequest(p), Careful(p), p.at \in {"provider", "bootstrap"}, NEW err
  PROVE  IsRequest(NextModel(p, err)) /\ Careful(NextModel(p, err))
<1>1. p.at \in Using
  BY DEF Using
<1>2. CASE err.invalid \/ Len(p.models) = 1
  <2> DEFINE place == IF p.stream THEN "returned" ELSE IF err.invalid THEN "failed" ELSE "pick"
  <2>1. place \in {"pick", "returned", "failed"}
    OBVIOUS
  <2>2. NextModel(p, err) = [Released(p, place) EXCEPT !.last = err]
    BY <1>2 DEF NextModel, Failing
  <2> HIDE DEF place
  <2>3. LET q == [Released(p, place) EXCEPT !.last = err] IN IsRequest(q) /\ Careful(q)
    BY <1>1, <2>1, GivenUpCareful
  <2> QED BY <2>2, <2>3
<1>3. CASE ~(err.invalid \/ Len(p.models) = 1)
  <2> DEFINE q == [p EXCEPT !.models = Tail(@), !.at = "call", !.padded = FALSE]
  <2>1. /\ IsRequest(q) /\ q.at = "call" /\ q.models = Tail(p.models) /\ q.copy = p.copy
        /\ q.tried = p.tried /\ q.attempted = p.attempted /\ q.auth = p.auth
        /\ q.attempt = p.attempt /\ q.waited = p.waited /\ q.limit = p.limit /\ q.calls = p.calls
    BY DEF IsRequest, Fields
  <2>2. q = NextModel(p, err)
    BY <1>3 DEF NextModel
  <2> HIDE DEF q
  <2>3. /\ p.auth # NoAuth /\ p.auth \in p.attempted
        /\ p.models \in Seq(Models) /\ p.models # <<>> /\ Len(p.models) <= Len(Pool[p.auth])
        /\ p.auth \in Auths
    BY <1>1 DEF Careful, Placed
  <2>4. /\ q.models \in Seq(Models) /\ q.models # <<>> /\ Len(q.models) = Len(p.models) - 1
        /\ Len(p.models) \in Nat
    <3>1. ASSUME NEW s \in Seq(Models), s # <<>>, Len(s) # 1
          PROVE  /\ Tail(s) \in Seq(Models) /\ Len(Tail(s)) = Len(s) - 1
                 /\ Len(s) \in Nat /\ Tail(s) # <<>>
      <4>1. Len(s) \in Nat /\ Len(s) > 1
        <5>1. Len(s) \in Nat /\ Len(s) # 0
          BY <3>1
        <5>2. ASSUME NEW n \in Nat, n # 0, n # 1
              PROVE  n > 1
          BY <5>2
        <5> QED BY <3>1, <5>1, <5>2
      <4>2. Tail(s) \in Seq(Models) /\ Len(Tail(s)) = Len(s) - 1
        BY <3>1, <4>1
      <4>3. Len(Tail(s)) # 0
        BY <4>1, <4>2
      <4>4. Len(<<>>) = 0
        OBVIOUS
      <4>5. Tail(s) # <<>>
        BY <4>3, <4>4
      <4> QED BY <4>1, <4>2, <4>5
    <3> QED BY <1>3, <2>1, <2>3, <3>1
  <2>5. Len(Pool[p.auth]) \in Nat
    BY <2>3, RequestAssumption
  <2>6. Placed(q)
    BY <2>1, <2>3, <2>4, <2>5 DEF Careful, Placed, Places, Using
  <2>7. Patient(q)
    BY <2>1 DEF Careful, Patient, Ended
  <2>8. Cardinality(Targets(p.attempted \ {p.auth})) \in Nat
    <3>1. p.attempted \ {p.auth} \in SUBSET Auths
      BY DEF Careful, Placed
    <3> QED BY <3>1, TargetsAdd
  <2>9. Spent(q) = Spent(p)
    <3>1. Spent(p) = Cardinality(Targets(p.attempted \ {p.auth})) + Len(Pool[p.auth])
                       - Len(p.models) + 1
      BY <2>3 DEF Spent, Before
    <3>2. Spent(q) = Cardinality(Targets(p.attempted \ {p.auth})) + Len(Pool[p.auth])
                       - Len(q.models) + 0
      BY <2>1, <2>3 DEF Spent, Before
    <3>3. Len(q.models) = Len(p.models) - 1 /\ Len(p.models) \in Nat
      BY <2>4
    <3> DEFINE x == Cardinality(Targets(p.attempted \ {p.auth}))
               y == Len(Pool[p.auth])
               z == Len(p.models)
               w == Len(q.models)
    <3>4. /\ x \in Nat /\ y \in Nat /\ z \in Nat /\ w = z - 1
          /\ Spent(p) = x + y - z + 1 /\ Spent(q) = x + y - w + 0
      BY <2>5, <2>8, <3>1, <3>2, <3>3
    <3> HIDE DEF x, y, z, w
    <3> QED BY <3>4
  <2>10. Thrifty(q)
    BY <2>1, <2>9 DEF Careful, Thrifty, Ended
  <2> QED BY <2>1, <2>2, <2>6, <2>7, <2>10 DEF Careful
<1> QED BY <1>2, <1>3

\* A credential is picked: what it may cost is set aside.
LEMMA WithModelsCareful ==
  ASSUME NEW p, IsRequest(p), Careful(p), p.at = "pick",
         p.limit > 0 => Cardinality(p.attempted) < p.limit,
         NEW a \in Auths \ p.tried, NEW usable \in Seq(Models) \ {<<>>},
         Len(usable) <= Len(Pool[a]), NEW place \in {"prepare", "call"}
  PROVE  Careful(WithModels(p, a, usable, place))
<1> DEFINE q == WithModels(p, a, usable, place)
<1>1. /\ q.at = place /\ q.models = usable /\ q.copy = p.copy /\ q.auth = a
      /\ q.tried = p.tried \union {a} /\ q.attempted = p.attempted \union {a}
      /\ q.attempt = p.attempt /\ q.waited = p.waited /\ q.limit = p.limit /\ q.calls = p.calls
  BY DEF WithModels, IsRequest, Fields
<1> HIDE DEF q
<1>2. /\ p.attempted \subseteq p.tried /\ p.tried \subseteq Auths /\ p.auth = NoAuth /\ p.copy = {}
  BY DEF Careful, Placed, Using
<1>3. a # NoAuth /\ a \notin p.attempted
  BY <1>2, RequestAssumption
<1>4. Placed(q)
  BY <1>1, <1>2, <1>3 DEF Placed, Places, Using
<1>5. Patient(q)
  BY <1>1 DEF Careful, Patient, Ended
<1>6. IsFiniteSet(p.attempted)
  BY <1>2, RequestAssumption, FS_Subset
<1>7. Cardinality(q.attempted) = Cardinality(p.attempted) + 1 /\ Cardinality(p.attempted) \in Nat
  BY <1>1, <1>3, <1>6, FS_AddElement, FS_CardinalityType
<1>8. Spent(q) \in Nat /\ Spent(p) \in Nat /\ Spent(p) <= Spent(q)
  <2>1. Spent(p) = Cardinality(Targets(p.attempted))
    BY <1>2 DEF Spent
  <2>2. q.attempted \ {q.auth} = p.attempted
    BY <1>1, <1>3
  <2>3. Spent(q) = Cardinality(Targets(p.attempted)) + Len(Pool[a]) - Len(usable) + 0
    BY <1>1, <1>3, <2>2 DEF Spent, Before
  <2>4. Cardinality(Targets(p.attempted)) \in Nat
    BY <1>2, TargetsAdd
  <2>5. Len(Pool[a]) \in Nat /\ Len(usable) \in Nat
    BY RequestAssumption
  <2> QED BY <2>1, <2>3, <2>4, <2>5
<1>9. p.attempt * MostPerRound(p.limit) \in Nat
  BY SpentIsBounded
<1>10. Thrifty(q)
  BY <1>1, <1>7, <1>8, <1>9 DEF Careful, Thrifty, Ended
<1> QED BY <1>4, <1>5, <1>10 DEF Careful, q

\* The next round begins with nothing spent.
LEMMA NextRoundCareful ==
  ASSUME NEW p, NEW q, Careful(p), p.at = "wait",
         q.at = "pick", q.tried = {}, q.attempted = {}, q.auth = p.auth, q.copy = p.copy,
         q.attempt = p.attempt + 1, q.waited = p.waited, q.limit = p.limit, q.calls = p.calls
  PROVE  Careful(q)
<1>1. p.auth = NoAuth /\ p.copy = {} /\ p.attempt \in Nat /\ p.calls \in Nat
  BY DEF Careful, Placed, Patient, Thrifty, Using
<1>2. Placed(q)
  BY <1>1 DEF Placed, Places, Using
<1> DEFINE most == MostPerRound(p.limit)
<1>3. /\ Spent(p) \in Nat /\ Spent(p) <= Cardinality(Targets(p.attempted))
      /\ Cardinality(Targets(p.attempted)) \in Nat /\ most \in Nat
      /\ Cardinality(Targets(p.attempted)) <= most
      /\ p.attempt * most \in Nat /\ p.attempt * MaxWait \in Nat
  BY SpentIsBounded
<1>4. /\ (p.attempt + 1) * MaxWait = p.attempt * MaxWait + MaxWait
      /\ (p.attempt + 1) * most = p.attempt * most + most
  <2>1. ASSUME NEW x \in Nat, NEW y \in Nat
        PROVE  (x + 1) * y = x * y + y
    OBVIOUS
  <2> HIDE DEF most
  <2> QED BY <1>1, <1>3, <2>1, RequestAssumption
<1>5. PICK a \in Auths : p.attempt < Retries[a]
  BY DEF Careful, Patient
<1>6. Retries[a] \in Nat /\ MaxWait \in Nat
  BY RequestAssumption
<1>7. p.attempt + 1 <= Retries[a] /\ p.attempt + 1 \in Nat
  BY <1>1, <1>5, <1>6
<1>8. Patient(q)
  <2>1. p.waited <= (p.attempt + 1) * MaxWait
    <3>1. /\ p.waited \in Nat
          /\ p.waited <= p.attempt * MaxWait \/ p.waited <= p.attempt * MaxWait + MaxWait
      BY DEF Careful, Patient
    <3>2. ASSUME NEW w \in Nat, NEW x \in Nat, NEW y \in Nat, w <= x \/ w <= x + y
          PROVE  w <= x + y
      BY <3>2
    <3>3. p.waited <= p.attempt * MaxWait + MaxWait
      BY <1>3, <1>6, <3>1, <3>2
    <3> QED BY <1>4, <3>3
  <2> QED BY <1>7, <2>1 DEF Careful, Patient
<1>9. Spent(q) = Cardinality(Targets({})) /\ Spent(q) \in Nat
  <2>1. {} \in SUBSET Auths
    OBVIOUS
  <2> QED BY <1>1, <2>1, TargetsAdd DEF Spent
<1>10. p.calls <= (p.attempt + 1) * most
  <2>1. p.calls <= p.attempt * most + Spent(p)
    BY DEF Careful, Thrifty, Ended
  <2> HIDE DEF most
  <2> QED BY <1>1, <1>3, <1>4, <2>1
<1>11. p.calls <= (p.attempt + 1) * most + Spent(q)
  <2> HIDE DEF most
  <2> QED BY <1>1, <1>3, <1>4, <1>9, <1>10
<1>12. Cardinality(q.attempted) = 0
  BY FS_EmptySet
<1>13. Thrifty(q)
  BY <1>11, <1>12 DEF Careful, Thrifty, Ended
<1> QED BY <1>2, <1>8, <1>13 DEF Careful

\* A wait is one that some credential allows, and not too long.
LEMMA RetryWaitsAllowed ==
  ASSUME NEW q, NEW wait \in RetryWaits(q)
  PROVE  wait \in 0 .. MaxWait /\ \E a \in Auths : q.attempt < Retries[a]
<1>1. CASE Waits(q.attempt) # {}
  <2>1. \E a \in Auths : q.attempt < Retries[a]
    BY <1>1 DEF Waits
  <2>2. wait \in 0 .. MaxWait
    BY <1>1 DEF RetryWaits
  <2> QED BY <2>1, <2>2
<1>2. CASE Waits(q.attempt) = {}
  BY <1>2, RequestAssumption DEF RetryWaits
<1> QED BY <1>1, <1>2

-----------------------------------------------------------------------------
(* The steps, one by one.                                                  *)

\* Steps that spend nothing.

LEMMA ExhaustedCareful ==
  ASSUME AllSound, AllCareful, NEW r \in Requests, Exhausted(r)
  PROVE  AllCareful'
<1> DEFINE p == req[r]
           q == [p EXCEPT !.at = "failed", !.last = IF @ = NoError THEN PickError ELSE @]
<1>1. IsRequest(p) /\ Careful(p) /\ p.at = "pick"
  BY DEF AllSound, Sound, AllCareful, Exhausted
<1>2. Become(r, q)
  BY DEF Exhausted
<1>3. Alike(q, p) /\ q.copy = p.copy
  BY <1>1 DEF IsRequest, Fields, Alike
<1>4. q.at \in {"failed"}
  BY <1>1 DEF IsRequest, Fields
<1>5. p.copy = {}
  BY <1>1 DEF Careful, Placed
<1> HIDE DEF p, q
<1>6. Careful(q)
  BY <1>1, <1>3, <1>4, <1>5, AlikeCareful DEF Places, Using, Before, Ended
<1> QED BY <1>2, <1>6, BecomeCareful

LEMMA PickFailsCareful ==
  ASSUME AllSound, AllCareful, NEW r \in Requests, PickFails(r)
  PROVE  AllCareful'
<1> DEFINE p == req[r]
           q == [p EXCEPT !.at = "failed", !.last = IF @ = NoError THEN PickError ELSE @]
<1>1. IsRequest(p) /\ Careful(p) /\ p.at = "pick"
  BY DEF AllSound, Sound, AllCareful, PickFails, MayPick
<1>2. Become(r, q)
  BY DEF PickFails, MayPick
<1>3. Alike(q, p) /\ q.copy = p.copy
  BY <1>1 DEF IsRequest, Fields, Alike
<1>4. q.at \in {"failed"}
  BY <1>1 DEF IsRequest, Fields
<1>5. p.copy = {}
  BY <1>1 DEF Careful, Placed
<1> HIDE DEF p, q
<1>6. Careful(q)
  BY <1>1, <1>3, <1>4, <1>5, AlikeCareful DEF Places, Using, Before, Ended
<1> QED BY <1>2, <1>6, BecomeCareful

LEMMA StreamOpensCareful ==
  ASSUME AllSound, AllCareful, NEW r \in Requests, StreamOpens(r)
  PROVE  AllCareful'
<1> DEFINE p == req[r]
           q == [p EXCEPT !.at = "bootstrap"]
<1>1. IsRequest(p) /\ Careful(p) /\ p.at = "provider"
  BY DEF AllSound, Sound, AllCareful, StreamOpens
<1>2. Become(r, q)
  BY DEF StreamOpens
<1>3. Alike(q, p) /\ q.copy = p.copy
  BY <1>1 DEF IsRequest, Fields, Alike
<1>4. q.at \in {"bootstrap"}
  BY <1>1 DEF IsRequest, Fields
<1>5. p.copy = {}
  BY <1>1 DEF Careful, Placed
<1> HIDE DEF p, q
<1>6. Careful(q)
  BY <1>1, <1>3, <1>4, <1>5, AlikeCareful DEF Places, Using, Before, Ended
<1> QED BY <1>2, <1>6, BecomeCareful

LEMMA EmptyChunkCareful ==
  ASSUME AllSound, AllCareful, NEW r \in Requests, EmptyChunk(r)
  PROVE  AllCareful'
<1> DEFINE p == req[r]
           q == [p EXCEPT !.padded = TRUE]
<1>1. IsRequest(p) /\ Careful(p) /\ p.at = "bootstrap"
  BY DEF AllSound, Sound, AllCareful, EmptyChunk
<1>2. Become(r, q)
  BY DEF EmptyChunk
<1>3. Alike(q, p) /\ q.copy = p.copy
  BY <1>1 DEF IsRequest, Fields, Alike
<1>4. q.at \in {"bootstrap"}
  BY <1>1 DEF IsRequest, Fields
<1>5. p.copy = {}
  BY <1>1 DEF Careful, Placed
<1> HIDE DEF p, q
<1>6. Careful(q)
  BY <1>1, <1>3, <1>4, <1>5, AlikeCareful DEF Places, Using, Before, Ended
<1> QED BY <1>2, <1>6, BecomeCareful

LEMMA FirstPayloadCareful ==
  ASSUME AllSound, AllCareful, NEW r \in Requests, FirstPayload(r)
  PROVE  AllCareful'
<1> DEFINE p == req[r]
           q == [p EXCEPT !.at = "relay", !.padded = FALSE]
<1>1. IsRequest(p) /\ Careful(p) /\ p.at = "bootstrap"
  BY DEF AllSound, Sound, AllCareful, FirstPayload
<1>2. Become(r, q)
  BY DEF FirstPayload
<1>3. Alike(q, p) /\ q.copy = p.copy
  BY <1>1 DEF IsRequest, Fields, Alike
<1>4. q.at \in {"relay"}
  BY <1>1 DEF IsRequest, Fields
<1>5. p.copy = {}
  BY <1>1 DEF Careful, Placed
<1> HIDE DEF p, q
<1>6. Careful(q)
  BY <1>1, <1>3, <1>4, <1>5, AlikeCareful DEF Places, Using, Before, Ended
<1> QED BY <1>2, <1>6, BecomeCareful

LEMMA NextPayloadCareful ==
  ASSUME AllSound, AllCareful, NEW r \in Requests, NextPayload(r)
  PROVE  AllCareful'
<1> DEFINE p == req[r]
           q == [p EXCEPT !.at = "relay"]
<1>1. IsRequest(p) /\ Careful(p) /\ p.at = "relaying"
  BY DEF AllSound, Sound, AllCareful, NextPayload
<1>2. Become(r, q)
  BY DEF NextPayload
<1>3. Alike(q, p) /\ q.copy = p.copy
  BY <1>1 DEF IsRequest, Fields, Alike
<1>4. q.at \in {"relay"}
  BY <1>1 DEF IsRequest, Fields
<1>5. p.copy = {}
  BY <1>1 DEF Careful, Placed
<1> HIDE DEF p, q
<1>6. Careful(q)
  BY <1>1, <1>3, <1>4, <1>5, AlikeCareful DEF Places, Using, Before, Ended
<1> QED BY <1>2, <1>6, BecomeCareful

LEMMA DeliverCareful ==
  ASSUME AllSound, AllCareful, NEW r \in Requests, Deliver(r)
  PROVE  AllCareful'
<1> DEFINE p == req[r]
           q == [p EXCEPT !.at = "relaying", !.served = @ \union {p.auth}]
<1>1. IsRequest(p) /\ Careful(p) /\ p.at = "relay"
  BY DEF AllSound, Sound, AllCareful, Deliver
<1>2. Become(r, q)
  BY DEF Deliver
<1>3. Alike(q, p) /\ q.copy = p.copy
  BY <1>1 DEF IsRequest, Fields, Alike
<1>4. q.at \in {"relaying"}
  BY <1>1 DEF IsRequest, Fields
<1>5. p.copy = {}
  BY <1>1 DEF Careful, Placed
<1> HIDE DEF p, q
<1>6. Careful(q)
  BY <1>1, <1>3, <1>4, <1>5, AlikeCareful DEF Places, Using, Before, Ended
<1> QED BY <1>2, <1>6, BecomeCareful

\* The client goes away.
LEMMA CancelCareful ==
  ASSUME AllSound, AllCareful, NEW r \in Requests, Cancel(r)
  PROVE  AllCareful'
<1> DEFINE p == req[r]
           q == [p EXCEPT !.cancelled = TRUE]
<1>1. IsRequest(p) /\ Careful(p)
  BY DEF AllSound, Sound, AllCareful
<1>2. Become(r, q)
  BY DEF Cancel
<1>3. Alike(q, p) /\ q.copy = p.copy /\ q.at = p.at
  BY <1>1 DEF IsRequest, Fields, Alike
<1>4. p.at \in Places /\ (p.at = "preparing" <=> p.copy # {})
  BY <1>1 DEF Careful, Placed
<1> HIDE DEF p, q
<1>5. Careful(q)
  BY <1>1, <1>3, <1>4, AlikeCareful
<1> QED BY <1>2, <1>5, BecomeCareful

LEMMA CancelledCareful ==
  ASSUME AllSound, AllCareful, NEW r \in Requests, Cancelled(r), req[r].at \notin Ended
  PROVE  AllCareful'
<1>1. IsRequest(req[r]) /\ Careful(req[r])
  BY DEF AllSound, Sound, AllCareful
<1>2. Careful(Finished(req[r], "cancelled"))
  BY <1>1, EndCareful DEF Ended
<1> QED BY <1>2, BecomeCareful DEF Cancelled

\* A credential is picked, or passed over.
LEMMA PickCareful ==
  ASSUME AllSound, AllCareful, NEW r \in Requests, NEW a \in Auths, Pick(r, a)
  PROVE  AllCareful'
<1> DEFINE p == req[r]
           over == [p EXCEPT !.tried = @ \union {a}]
<1>1. /\ IsRequest(p) /\ Careful(p) /\ p.at = "pick" /\ a \in Auths \ p.tried
      /\ p.limit > 0 => Cardinality(p.attempted) < p.limit
  BY DEF AllSound, Sound, AllCareful, Pick, MayPick, Free
<1>2. PICK models \in Rotations(Pool[a]), place \in PlacesAfterPick(a) :
        LET usable == Usable(a, models) IN
        Become(r, IF usable = <<>> THEN over ELSE WithModels(p, a, usable, place))
  BY DEF Pick
<1>3. CASE Usable(a, models) = <<>>
  <2>1. /\ over.tried = p.tried \union {a} /\ over.attempted = p.attempted /\ over.auth = p.auth
        /\ over.models = p.models /\ over.attempt = p.attempt /\ over.waited = p.waited
        /\ over.limit = p.limit /\ over.calls = p.calls /\ over.at = "pick" /\ over.copy = p.copy
    BY <1>1 DEF IsRequest, Fields
  <2>2. Become(r, over)
    BY <1>2, <1>3
  <2> HIDE DEF over, p
  <2>3. Placed(over)
    BY <1>1, <2>1 DEF Careful, Placed
  <2>4. Patient(over) /\ Thrifty(over)
    BY <1>1, <2>1 DEF Careful, Patient, Thrifty, Spent
  <2>5. Careful(over)
    BY <2>3, <2>4 DEF Careful
  <2> QED BY <2>2, <2>5, BecomeCareful
<1>4. CASE Usable(a, models) # <<>>
  <2> DEFINE usable == Usable(a, models)
  <2>1. Pool[a] \in Seq(Models)
    BY RequestAssumption
  <2>2. models \in Seq(Models) /\ Len(models) = Len(Pool[a])
    BY <2>1, RotationType
  <2>3. usable \in Seq(Models) \ {<<>>} /\ Len(usable) <= Len(Pool[a])
    BY <1>4, <2>2, UsableType
  <2>4. place \in {"prepare", "call"}
    BY DEF PlacesAfterPick
  <2>5. Become(r, WithModels(p, a, usable, place))
    BY <1>2, <1>4
  <2> HIDE DEF p, usable
  <2>6. Careful(WithModels(p, a, usable, place))
    BY <1>1, <2>3, <2>4, WithModelsCareful
  <2> QED BY <2>5, <2>6, BecomeCareful
<1> QED BY <1>3, <1>4

\* A credential is prepared.
LEMMA PrepareStartsCareful ==
  ASSUME AllSound, AllCareful, NEW r \in Requests, PrepareStarts(r)
  PROVE  AllCareful'
<1> DEFINE p == req[r]
           copied == [p EXCEPT !.at = "preparing", !.copy = {auths[req[r].auth]}]
           ready == [p EXCEPT !.at = "call"]
<1>1. IsRequest(p) /\ Careful(p) /\ p.at = "prepare"
  BY DEF AllSound, Sound, AllCareful, PrepareStarts
<1>2. Become(r, copied) \/ Become(r, ready)
  BY DEF PrepareStarts
<1>3. /\ Alike(copied, p) /\ copied.at = "preparing" /\ copied.copy # {}
      /\ Alike(ready, p) /\ ready.at = "call" /\ ready.copy = p.copy
  BY <1>1 DEF IsRequest, Fields, Alike
<1>4. p.copy = {}
  BY <1>1 DEF Careful, Placed
<1> HIDE DEF p, copied, ready
<1>5. Careful(copied)
  BY <1>1, <1>3, AlikeCareful DEF Places, Using, Before, Ended
<1>6. Careful(ready)
  BY <1>1, <1>3, <1>4, AlikeCareful DEF Places, Using, Before, Ended
<1> QED BY <1>2, <1>5, <1>6, BecomeCareful

LEMMA PrepareSucceedsCareful ==
  ASSUME AllSound, AllCareful, NEW r \in Requests, PrepareSucceeds(r)
  PROVE  AllCareful'
<1> DEFINE p == req[r]
           q == [p EXCEPT !.at = "call", !.copy = {}]
<1>1. IsRequest(p) /\ Careful(p) /\ p.at = "preparing"
  BY DEF AllSound, Sound, AllCareful, PrepareSucceeds
<1>2. PICK cred : Rewrite(r, cred, q)
  BY DEF PrepareSucceeds
<1>3. Alike(q, p) /\ q.at = "call" /\ q.copy = {}
  BY <1>1 DEF IsRequest, Fields, Alike
<1> HIDE DEF p, q
<1>4. Careful(q)
  BY <1>1, <1>3, AlikeCareful DEF Places, Using, Before, Ended
<1> QED BY <1>2, <1>4, RewriteCareful

LEMMA PrepareFailsCareful ==
  ASSUME AllSound, AllCareful, NEW r \in Requests, NEW err, PrepareFails(r, err)
  PROVE  AllCareful'
<1> DEFINE p == req[r]
           q == [Released(p, "pick") EXCEPT !.last = err]
<1>1. IsRequest(p) /\ Careful(p) /\ p.at \in Using
  BY DEF AllSound, Sound, AllCareful, PrepareFails, Using
<1>2. PICK cred : Rewrite(r, cred, q)
  BY DEF PrepareFails
<1> HIDE DEF p
<1>3. Careful(q)
  BY <1>1, GivenUpCareful
<1> QED BY <1>2, <1>3, RewriteCareful

\* A call: one upstream model of the credential in hand is paid for.
LEMMA CallCareful ==
  ASSUME AllSound, AllCareful, NEW r \in Requests, Call(r)
  PROVE  AllCareful'
<1> DEFINE p == req[r]
           q == [p EXCEPT !.at = "provider", !.calls = @ + 1]
<1>1. IsRequest(p) /\ Careful(p) /\ p.at = "call"
  BY DEF AllSound, Sound, AllCareful, Call
<1>2. Become(r, q)
  BY DEF Call
<1>3. /\ q.tried = p.tried /\ q.attempted = p.attempted /\ q.auth = p.auth /\ q.models = p.models
      /\ q.attempt = p.attempt /\ q.waited = p.waited /\ q.limit = p.limit
      /\ q.calls = p.calls + 1 /\ q.at = "provider" /\ q.copy = p.copy
  BY <1>1 DEF IsRequest, Fields
<1> HIDE DEF p, q
<1>4. Placed(q)
  BY <1>1, <1>3 DEF Careful, Placed, Places, Using
<1>5. Patient(q)
  BY <1>1, <1>3 DEF Careful, Patient, Ended
<1>6. Spent(q) = Spent(p) + 1
  <2> DEFINE x == Cardinality(Targets(p.attempted \ {p.auth})) + Len(Pool[p.auth]) - Len(p.models)
  <2>1. p.auth # NoAuth /\ q.auth = p.auth
    BY <1>1, <1>3 DEF Careful, Placed, Using
  <2>2. Spent(p) = x + 0 /\ Spent(q) = x + 1
    BY <1>1, <1>3, <2>1 DEF Spent, Before
  <2>3. x \in Int
    <3>1. p.attempted \in SUBSET Auths /\ p.auth \in Auths /\ p.models \in Seq(Models)
      BY <1>1, <2>1 DEF Careful, Placed
    <3>2. Cardinality(Targets(p.attempted \ {p.auth})) \in Nat
      BY <3>1, TargetsAdd
    <3>3. Len(Pool[p.auth]) \in Nat /\ Len(p.models) \in Nat
      BY <3>1, RequestAssumption
    <3>4. ASSUME NEW k \in Nat, NEW m \in Nat, NEW n \in Nat
          PROVE  k + m - n \in Int
      OBVIOUS
    <3> QED BY <3>2, <3>3, <3>4
  <2> HIDE DEF x
  <2> QED BY <2>2, <2>3
<1>7. Spent(p) \in Nat /\ p.attempt * MostPerRound(p.limit) \in Nat
  BY <1>1, SpentIsBounded
<1>8. Thrifty(q)
  BY <1>1, <1>3, <1>6, <1>7 DEF Careful, Thrifty, Ended
<1>9. Careful(q)
  BY <1>4, <1>5, <1>8 DEF Careful
<1> QED BY <1>2, <1>9, BecomeCareful

LEMMA AnswerArrivesCareful ==
  ASSUME AllSound, AllCareful, NEW r \in Requests, AnswerArrives(r)
  PROVE  AllCareful'
<1> DEFINE p == req[r]
           s == [p EXCEPT !.served = @ \union {req[r].auth}]
           q == Finished(s, "ok")
<1>1. IsRequest(p) /\ Careful(p) /\ p.at = "provider"
  BY DEF AllSound, Sound, AllCareful, AnswerArrives
<1>2. PICK cred : Mark(r, cred, q)
  BY DEF AnswerArrives
<1>3. IsRequest(s) /\ Alike(s, p) /\ s.at = p.at /\ s.copy = p.copy
  BY <1>1 DEF IsRequest, Fields, Alike
<1> HIDE DEF p, s
<1>4. p.at \in Places /\ (p.at = "preparing" <=> p.copy # {})
  BY <1>1 DEF Careful, Placed
<1>5. Careful(s)
  BY <1>1, <1>3, <1>4, AlikeCareful
<1>6. IsRequest(q) /\ Careful(q)
  BY <1>1, <1>3, <1>5, EndCareful DEF Ended
<1> QED BY <1>2, <1>6, MarkCareful

\* A call that fails.
LEMMA FailureCareful ==
  ASSUME AllSound, AllCareful, NEW r \in Requests, NEW cred, NEW err,
         req[r].at \in {"provider", "bootstrap"}, Mark(r, cred, NextModel(req[r], err))
  PROVE  AllCareful'
<1>1. IsRequest(req[r]) /\ Careful(req[r])
  BY DEF AllSound, Sound, AllCareful
<1>2. IsRequest(NextModel(req[r], err)) /\ Careful(NextModel(req[r], err))
  BY <1>1, NextModelCareful
<1> QED BY <1>2, MarkCareful

LEMMA CallFailsCareful ==
  ASSUME AllSound, AllCareful, NEW r \in Requests, NEW err, CallFails(r, err)
  PROVE  AllCareful'
BY CancelledCareful, FailureCareful DEF CallFails, Ended

LEMMA BootstrapFailsCareful ==
  ASSUME AllSound, AllCareful, NEW r \in Requests, NEW err, BootstrapFails(r, err)
  PROVE  AllCareful'
BY CancelledCareful, FailureCareful DEF BootstrapFails, Ended

LEMMA StreamClosesCareful ==
  ASSUME AllSound, AllCareful, NEW r \in Requests, StreamCloses(r)
  PROVE  AllCareful'
<1> DEFINE p == req[r]
           q == [p EXCEPT !.at = "closing", !.padded = FALSE]
<1>1. IsRequest(p) /\ Careful(p) /\ p.at = "bootstrap"
  BY DEF AllSound, Sound, AllCareful, StreamCloses
<1>2. Become(r, q) \/ \E cred : Mark(r, cred, NextModel(p, EmptyStream))
  BY DEF StreamCloses
<1>3. Alike(q, p) /\ q.copy = p.copy /\ q.at = "closing"
  BY <1>1 DEF IsRequest, Fields, Alike
<1>4. p.copy = {}
  BY <1>1 DEF Careful, Placed
<1> HIDE DEF q
<1>5. Careful(q)
  BY <1>1, <1>3, <1>4, AlikeCareful DEF Places, Using, Before, Ended
<1> QED BY <1>1, <1>2, <1>5, BecomeCareful, FailureCareful

LEMMA StreamReturnsCareful ==
  ASSUME AllSound, AllCareful, NEW r \in Requests, StreamReturns(r)
  PROVE  AllCareful'
<1> DEFINE p == req[r]
           q == [p EXCEPT !.at = IF req[r].last.invalid THEN "failed" ELSE "pick"]
<1>1. IsRequest(p) /\ Careful(p) /\ p.at = "returned"
  BY DEF AllSound, Sound, AllCareful, StreamReturns
<1>2. Become(r, q) \/ Cancelled(r)
  BY DEF StreamReturns
<1>3. Alike(q, p) /\ q.copy = p.copy /\ q.at \in {"failed", "pick"}
  BY <1>1 DEF IsRequest, Fields, Alike
<1>4. p.copy = {}
  BY <1>1 DEF Careful, Placed
<1> HIDE DEF q
<1>5. Careful(q)
  BY <1>1, <1>3, <1>4, AlikeCareful DEF Places, Using, Before, Ended
<1> QED BY <1>1, <1>2, <1>5, BecomeCareful, CancelledCareful DEF Ended

\* An error chunk, and the end of a stream that has been answered.
LEMMA StreamBreaksCareful ==
  ASSUME AllSound, AllCareful, NEW r \in Requests, NEW err, StreamBreaks(r, err)
  PROVE  AllCareful'
<1> DEFINE p == req[r]
           again == [p EXCEPT !.at = "relay"]
           q == [p EXCEPT !.at = "relay", !.failed = TRUE]
<1>1. IsRequest(p) /\ Careful(p) /\ p.at = "relaying"
  BY DEF AllSound, Sound, AllCareful, StreamBreaks
<1>2. Become(r, again) \/ \E cred : Mark(r, cred, q)
  BY DEF StreamBreaks
<1>3. /\ Alike(again, p) /\ again.copy = p.copy /\ again.at = "relay"
      /\ Alike(q, p) /\ q.copy = p.copy /\ q.at = "relay" /\ IsRequest(q)
  BY <1>1 DEF IsRequest, Fields, Alike
<1>4. p.copy = {}
  BY <1>1 DEF Careful, Placed
<1> HIDE DEF p, again, q
<1>5. Careful(again) /\ Careful(q)
  BY <1>1, <1>3, <1>4, AlikeCareful DEF Places, Using, Before, Ended
<1> QED BY <1>2, <1>3, <1>5, BecomeCareful, MarkCareful

LEMMA StreamEndsCareful ==
  ASSUME AllSound, AllCareful, NEW r \in Requests, StreamEnds(r)
  PROVE  AllCareful'
<1> DEFINE p == req[r]
<1>1. IsRequest(p) /\ Careful(p) /\ p.at \notin Ended
  BY DEF AllSound, Sound, AllCareful, StreamEnds, Ended
<1>2. Become(r, Finished(p, "error")) \/ \E cred : Mark(r, cred, Finished(p, "ok"))
  BY DEF StreamEnds
<1> HIDE DEF p
<1>3. Careful(Finished(p, "error")) /\ IsRequest(Finished(p, "ok")) /\ Careful(Finished(p, "ok"))
  BY <1>1, EndCareful DEF Ended
<1> QED BY <1>2, <1>3, BecomeCareful, MarkCareful

\* Between rounds.
LEMMA RetryCareful ==
  ASSUME AllSound, AllCareful, NEW r \in Requests, Retry(r)
  PROVE  AllCareful'
<1> DEFINE p == req[r]
<1>1. IsRequest(p) /\ Careful(p) /\ p.at = "failed"
  BY DEF AllSound, Sound, AllCareful, Retry
<1>2. PICK wait \in RetryWaits(p) :
        Become(r, [p EXCEPT !.at = "wait", !.until = now + wait, !.waited = @ + wait,
                            !.quiet = TRUE])
  BY DEF Retry
<1> DEFINE q == [p EXCEPT !.at = "wait", !.until = now + wait, !.waited = @ + wait, !.quiet = TRUE]
<1>3. /\ q.tried = p.tried /\ q.attempted = p.attempted /\ q.auth = p.auth /\ q.models = p.models
      /\ q.attempt = p.attempt /\ q.limit = p.limit /\ q.calls = p.calls
      /\ q.waited = p.waited + wait /\ q.at = "wait" /\ q.copy = p.copy
  BY <1>1 DEF IsRequest, Fields
<1>4. wait \in 0 .. MaxWait /\ \E a \in Auths : p.attempt < Retries[a]
  BY RetryWaitsAllowed
<1>5. Become(r, q)
  BY <1>2
<1> HIDE DEF p, q
<1>6. Placed(q)
  BY <1>1, <1>3 DEF Careful, Placed, Places, Using
<1>7. p.attempt * MaxWait \in Nat /\ MaxWait \in Nat
  BY <1>1, SpentIsBounded, RequestAssumption
<1>8. Patient(q)
  <2>1. p.waited \in Nat /\ p.waited <= p.attempt * MaxWait
    BY <1>1 DEF Careful, Patient, Ended
  <2>2. q.waited \in Nat /\ q.waited <= p.attempt * MaxWait + MaxWait
    BY <1>3, <1>4, <1>7, <2>1
  <2> QED BY <1>1, <1>3, <1>4, <2>2 DEF Careful, Patient
<1>9. Thrifty(q)
  BY <1>1, <1>3 DEF Careful, Thrifty, Spent, Before, Ended
<1>10. Careful(q)
  BY <1>6, <1>8, <1>9 DEF Careful
<1> QED BY <1>5, <1>10, BecomeCareful

LEMMA GiveUpCareful ==
  ASSUME AllSound, AllCareful, NEW r \in Requests, GiveUp(r)
  PROVE  AllCareful'
<1>1. IsRequest(req[r]) /\ Careful(req[r]) /\ req[r].at \notin Ended
  BY DEF AllSound, Sound, AllCareful, GiveUp, Ended
<1>2. Careful(Finished(req[r], "error"))
  BY <1>1, EndCareful DEF Ended
<1> QED BY <1>2, BecomeCareful DEF GiveUp

LEMMA WaitEndsCareful ==
  ASSUME AllSound, AllCareful, NEW r \in Requests, WaitEnds(r)
  PROVE  AllCareful'
<1> DEFINE p == req[r]
           q == [p EXCEPT !.at = "pick", !.tried = {}, !.attempted = {}, !.last = NoError,
                          !.attempt = @ + 1, !.until = 0]
<1>1. IsRequest(p) /\ Careful(p) /\ p.at = "wait"
  BY DEF AllSound, Sound, AllCareful, WaitEnds
<1>2. Become(r, q)
  BY DEF WaitEnds
<1>3. /\ q.at = "pick" /\ q.tried = {} /\ q.attempted = {} /\ q.auth = p.auth /\ q.copy = p.copy
      /\ q.attempt = p.attempt + 1 /\ q.waited = p.waited /\ q.limit = p.limit
      /\ q.calls = p.calls
  BY <1>1 DEF IsRequest, Fields
<1> HIDE DEF p, q
<1>4. Careful(q)
  BY <1>1, <1>3, NextRoundCareful
<1> QED BY <1>2, <1>4, BecomeCareful

LEMMA StepCareful ==
  ASSUME AllSound, AllCareful, NEW r \in Requests, Step(r)
  PROVE  AllCareful'
<1>1. BootstrapCancelled(r) \/ Abandon(r) \/ WaitCancelled(r) => AllCareful'
  BY CancelledCareful DEF BootstrapCancelled, Abandon, WaitCancelled, Ended
<1> QED
BY <1>1, ExhaustedCareful, PickFailsCareful, PickCareful, PrepareStartsCareful,
   PrepareSucceedsCareful, PrepareFailsCareful, CallCareful, AnswerArrivesCareful,
   CallFailsCareful, StreamOpensCareful, EmptyChunkCareful, FirstPayloadCareful,
   StreamClosesCareful, BootstrapFailsCareful, StreamReturnsCareful, DeliverCareful,
   NextPayloadCareful, StreamBreaksCareful, StreamEndsCareful, RetryCareful, GiveUpCareful,
   WaitEndsCareful
   DEF Step

LEMMA NextCareful == AllSound /\ AllCareful /\ [Next]_vars => AllCareful'
<1> SUFFICES ASSUME AllSound, AllCareful, [Next]_vars PROVE AllCareful'
  OBVIOUS
<1>1. CASE UNCHANGED req
  BY <1>1 DEF AllCareful
<1>2. Tick \/ UNCHANGED vars => UNCHANGED req
  BY DEF Tick, vars
<1>3. ASSUME NEW a, NEW k, NEW err, OtherResult(a, k, err) PROVE AllCareful'
  <2>1. req' = [x \in Requests |-> [req[x] EXCEPT !.quiet = FALSE]]
    BY <1>3 DEF OtherResult
  <2>2. ASSUME NEW x \in Requests PROVE Careful(req'[x])
    BY <2>1, DisturbedCareful DEF AllSound, Sound, AllCareful
  <2> QED BY <2>2 DEF AllCareful
<1> QED BY <1>1, <1>2, <1>3, StepCareful, CancelCareful DEF Next

LEMMA InitCareful == Init => AllCareful
<1> SUFFICES ASSUME Init, NEW r \in Requests PROVE Careful(req[r])
  BY DEF AllCareful
<1>1. PICK stream \in BOOLEAN, limit \in Limits : req[r] = Start(stream, limit)
  BY DEF Init
<1> DEFINE q == Start(stream, limit)
<1>2. /\ q.at = "pick" /\ q.tried = {} /\ q.attempted = {} /\ q.auth = NoAuth /\ q.copy = {}
      /\ q.limit = limit /\ q.attempt = 0 /\ q.calls = 0 /\ q.waited = 0
  BY DEF Start
<1> HIDE DEF q
<1>3. limit \in Nat /\ MaxWait \in Nat
  BY RequestAssumption
<1>4. Placed(q)
  BY <1>2 DEF Placed, Places, Using
<1>5. Cardinality(q.attempted) = 0
  BY <1>2, FS_EmptySet
<1>6. /\ MostPerRound(limit) \in Nat /\ Cardinality(Targets({})) \in Nat
  <2>1. {} \in SUBSET Auths /\ Cardinality({}) = 0
    BY FS_EmptySet
  <2> QED BY <1>3, <2>1, RoundCosts, TargetsAdd
<1>7. 0 * MaxWait = 0 /\ 0 * MostPerRound(limit) = 0
  BY <1>3, <1>6
<1>8. Patient(q)
  BY <1>2, <1>3, <1>7 DEF Patient
<1>9. Spent(q) = Cardinality(Targets({}))
  BY <1>2 DEF Spent
<1>10. Thrifty(q)
  BY <1>2, <1>3, <1>5, <1>6, <1>7, <1>9 DEF Thrifty, Ended
<1> QED BY <1>1, <1>4, <1>8, <1>10 DEF Careful, q

LEMMA AlwaysCareful == Spec => []AllCareful
BY InitCareful, NextCareful, AlwaysSound, PTL DEF Spec

\* TypeOK: a request has a credential and a model in hand exactly where it needs them,
\* and a copy of it exactly while it is prepared.
THEOREM RequestTypeCorrect == Spec => []TypeOK
<1>1. Init => now \in 1 .. MaxTime
  BY RequestAssumption DEF Init
<1>2. now \in 1 .. MaxTime /\ [Next]_vars => (now \in 1 .. MaxTime)'
  <2> SUFFICES ASSUME now \in 1 .. MaxTime, [Next]_vars
               PROVE  now' \in 1 .. MaxTime
    OBVIOUS
  <2>1. now' = now \/ (now < MaxTime /\ now' = now + 1)
    <3>1. /\ \A r, cred, q : Rewrite(r, cred, q) => now' = now
          /\ \A r, cred, q : Mark(r, cred, q) => now' = now
          /\ \A r : Cancelled(r) => now' = now
      BY DEF Mark, Rewrite, Cancelled
    <3>2. ASSUME NEW r \in Requests, Step(r)
          PROVE  now' = now
      <4>1. \/ Exhausted(r) \/ PickFails(r) \/ \E a \in Auths : Pick(r, a)
            \/ PrepareStarts(r) \/ Call(r) \/ StreamOpens(r) \/ EmptyChunk(r) \/ FirstPayload(r)
            \/ Deliver(r) \/ NextPayload(r) \/ Retry(r) \/ GiveUp(r) \/ WaitEnds(r)
            => now' = now
        BY DEF Exhausted, PickFails, Pick, PrepareStarts, Call, StreamOpens, EmptyChunk, FirstPayload,
               Deliver, NextPayload, Retry, GiveUp, WaitEnds
      <4>2. PrepareSucceeds(r) \/ (\E err \in Errors : PrepareFails(r, err)) => now' = now
        BY <3>1 DEF PrepareSucceeds, PrepareFails
      <4>3. AnswerArrives(r) \/ StreamCloses(r) \/ StreamEnds(r) => now' = now
        BY <3>1 DEF AnswerArrives, StreamCloses, StreamEnds
      <4>4. BootstrapCancelled(r) \/ StreamReturns(r) \/ Abandon(r) \/ WaitCancelled(r) => now' = now
        BY <3>1 DEF BootstrapCancelled, StreamReturns, Abandon, WaitCancelled
      <4>5. (\E err \in Errors : CallFails(r, err) \/ BootstrapFails(r, err) \/ StreamBreaks(r, err))
            => now' = now
        BY <3>1 DEF CallFails, BootstrapFails, StreamBreaks
      <4> QED BY <3>2, <4>1, <4>2, <4>3, <4>4, <4>5 DEF Step
    <3>3. ASSUME NEW r \in Requests, Cancel(r)
          PROVE  now' = now
      BY <3>3 DEF Cancel
    <3>4. (\E a, k, err : OtherResult(a, k, err)) \/ UNCHANGED vars => now' = now
      BY DEF OtherResult, vars
    <3>5. Tick => now < MaxTime /\ now' = now + 1
      BY DEF Tick
    <3> QED BY <3>2, <3>3, <3>4, <3>5 DEF Next
  <2> QED BY <2>1, RequestAssumption
<1>3. now \in 1 .. MaxTime /\ AllCareful => TypeOK
  BY DEF AllCareful, Careful, Placed, TypeOK
<1> QED BY <1>1, <1>2, <1>3, AlwaysCareful, PTL DEF Spec

\* CostIsBounded: whatever fails, a request makes no more rounds than the most patient credential
\* allows, in each at most one call per upstream model of the credentials it may try,
\* and waits no longer than max-retry-interval for the next.
THEOREM CostStaysBounded == Spec => []CostIsBounded
<1>1. AllCareful => CostIsBounded
  <2> SUFFICES ASSUME AllCareful, NEW r \in Requests
               PROVE  LET q == req[r] IN
                      /\ q.attempt > 0 => \E a \in Auths : q.attempt <= Retries[a]
                      /\ q.calls <= (q.attempt + 1) * MostPerRound(q.limit)
                      /\ q.waited <= (q.attempt + 1) * MaxWait
    BY DEF CostIsBounded
  <2> DEFINE q == req[r]
             most == MostPerRound(q.limit)
  <2>1. Careful(q)
    BY DEF AllCareful
  <2> HIDE DEF q
  <2>2. /\ Spent(q) \in Nat /\ Spent(q) <= Cardinality(Targets(q.attempted))
        /\ Cardinality(Targets(q.attempted)) \in Nat /\ most \in Nat
        /\ Cardinality(Targets(q.attempted)) <= most
        /\ q.attempt * most \in Nat /\ q.attempt * MaxWait \in Nat
    BY <2>1, SpentIsBounded
  <2>3. /\ q.calls \in Nat /\ q.waited \in Nat /\ q.attempt \in Nat /\ MaxWait \in Nat
        /\ q.calls <= q.attempt * most + most \/ q.calls <= q.attempt * most + Spent(q)
        /\ q.waited <= q.attempt * MaxWait \/ q.waited <= q.attempt * MaxWait + MaxWait
        /\ q.attempt > 0 => \E a \in Auths : q.attempt <= Retries[a]
    BY <2>1, RequestAssumption DEF Careful, Thrifty, Patient
  <2>4. /\ (q.attempt + 1) * MaxWait = q.attempt * MaxWait + MaxWait
        /\ (q.attempt + 1) * most = q.attempt * most + most
    <3>1. ASSUME NEW x \in Nat, NEW y \in Nat
          PROVE  (x + 1) * y = x * y + y
      OBVIOUS
    <3> HIDE DEF most
    <3> QED BY <2>2, <2>3, <3>1
  <2> HIDE DEF most
  <2>5. q.calls <= (q.attempt + 1) * most /\ q.waited <= (q.attempt + 1) * MaxWait
    <3>1. ASSUME NEW k \in Nat, NEW x \in Nat, NEW y \in Nat, NEW z \in Nat,
                 k <= x + y \/ k <= x + z, z <= y
          PROVE  k <= x + y
      BY <3>1
    <3>2. Spent(q) <= most
      <4>1. ASSUME NEW x \in Nat, NEW y \in Nat, NEW z \in Nat, x <= y, y <= z
            PROVE  x <= z
        BY <4>1
      <4> QED BY <2>2, <4>1
    <3>3. q.calls <= q.attempt * most + most
      BY <2>2, <2>3, <3>1, <3>2
    <3>4. q.waited <= q.attempt * MaxWait + MaxWait
      <4>1. ASSUME NEW k \in Nat, NEW x \in Nat, NEW y \in Nat, k <= x \/ k <= x + y
            PROVE  k <= x + y
        BY <4>1
      <4> QED BY <2>2, <2>3, <4>1
    <3> QED BY <2>4, <3>3, <3>4
  <2> QED BY <2>3, <2>5 DEF most, q
<1> QED BY <1>1, AlwaysCareful, PTL
=============================================================================
