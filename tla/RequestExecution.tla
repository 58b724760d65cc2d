-------------------------- MODULE RequestExecution --------------------------
(***************************************************************************)
(* The life of one request inside the manager: Execute and ExecuteStream   *)
(* (sdk/cliproxy/auth/conductor.go; ExecuteCount is Execute with another   *)
(* executor method).                                                       *)
(*                                                                         *)
(* A request makes rounds.  In a round it tries one credential after the   *)
(* other, each with the upstream models behind the model it asks for that  *)
(* are not cooling, and reports every answer to MarkResult.  A round that  *)
(* fails is followed by another one when a cooldown ends soon enough.  A   *)
(* stream is answered once its first payload is there; until then it fails *)
(* over like any other request, after that it never does.                  *)
(*                                                                         *)
(* Requests and the clock interleave at every provider call.  To a request *)
(* the others show only through the results they report, so that some of   *)
(* them may be left to OtherResult.  The credentials are those of          *)
(* AuthState.  Which free credential a round is given is left open here:   *)
(* AuthScheduler says which one it is.                                     *)
(***************************************************************************)
EXTENDS AuthState, Sequences, SequencesExt

CONSTANTS
  Requests,
  Auths,
  Route,          \* req.Model
  Pool,           \* the upstream models behind Route, per credential
  Preparers,      \* the credentials whose executor may have to prepare them first
  CoolingOff,     \* the credentials with disable-cooling
  Retries,        \* per credential: its request_retry, or the default
  Limits,         \* the values of max-retry-credentials, 0 for all
  MaxWait,        \* max-retry-interval, 0 for no retries
  Failures,       \* bound: the kinds of failure that happen
  Hints,          \* the Retry-After values of rate limits
  MaxTime,        \* bound on the clock
  MaxOthers,      \* bound: results of requests that are not followed
  NoAuth          \* no credential picked

ASSUME RequestAssumption ==
  /\ IsFiniteSet(Auths) /\ NoAuth \notin Auths
  /\ Route \in Models
  /\ \A a \in Auths : /\ Pool[a] \in Seq(Models) \ {<<>>}
                      /\ Len(Pool[a]) = 1 => Pool[a] = <<Route>>
  /\ Preparers \subseteq Auths /\ CoolingOff \subseteq Auths
  /\ Retries \in [Auths -> Nat]
  /\ Limits \subseteq Nat /\ MaxWait \in Nat
  /\ Failures \subseteq Kinds
  /\ Hints \subseteq Nat \ {0}
  /\ MaxTime \in Nat \ {0} /\ MaxOthers \in Nat

VARIABLES
  auths, \* m.auths
  req,   \* the goroutine of each request, with the history of what it did
  others, \* results of requests that are not followed, so far
  now

vars == <<auths, req, others, now>>

-----------------------------------------------------------------------------
(* Errors.                                                                 *)

\* hint: what retryAfterFromError finds.  invalid: isRequestInvalidError.
Error(kind, invalid, hint) == [kind |-> kind, invalid |-> invalid, hint |-> hint]
NoError == Error("none", FALSE, NoHint)

\* Errors of a pick (no credential, or all of them cooling) carry no hint.
PickError == Error("pick", FALSE, NoHint)

\* A 400 or 422 is judged "other", a 500 "transient" when it is marked; each of
\* them may say that the request itself is at fault.  The request-scoped 404
\* always does.
MayBeInvalid(kind) ==
  IF kind = "request" THEN {TRUE} ELSE IF kind \in {"other", "transient"} THEN BOOLEAN ELSE {FALSE}

ErrorsOf(kind) ==
  {Error(kind, invalid, hint) : invalid \in MayBeInvalid(kind),
                                hint \in IF kind = "quota" THEN Hints \union {NoHint} ELSE {NoHint}}
Errors == UNION {ErrorsOf(kind) : kind \in Failures}

\* streamBootstrapError has no RetryAfter method of its own.
Bootstrap(err) == [err EXCEPT !.hint = NoHint]

EmptyStream == Error("other", FALSE, NoHint)

-----------------------------------------------------------------------------
(* What the steps are made of.                                             *)

\* stateModelForExecution.
StateModel(a, k) == IF Len(Pool[a]) > 1 THEN k ELSE Route

\* The rotations nextModelPoolOffset may produce.
Rotations(s) == {SubSeq(s, i, Len(s)) \o SubSeq(s, 1, i - 1) : i \in 1 .. Len(s)}

\* filterExecutionModels.
Usable(a, models) ==
  LET among[n \in 0 .. Len(models)] ==
        IF n = 0 THEN <<>>
        ELSE IF BlockedFor(auths[a], StateModel(a, models[n]), now) THEN among[n - 1]
        ELSE Append(among[n - 1], models[n])
  IN among[Len(models)]

Free(tried) == {a \in Auths \ tried : ~BlockedFor(auths[a], Route, now)}

\* The scheduler may pass over a credential whose quota window is still open.
Held(a) == auths[a].ms[Route].quota.recover > now

\* Update of credential cur by record b: the model states are inherited if b
\* brings none, and cleared if cooling is off.
Updated(cur, b, off) ==
  LET kept == IF Present(b) = {} /\ ~IsDisabled(cur) /\ ~IsDisabled(b)
              THEN [b EXCEPT !.ms = cur.ms] ELSE b
  IN IF off \/ IsDisabled(kept) THEN ClearCooldown(kept, now) ELSE kept

\* limit: max-retry-credentials as retrySettings found it.
Start(stream, limit) ==
  [at |-> "pick", tried |-> {}, attempted |-> {}, auth |-> NoAuth, models |-> <<>>,
   copy |-> {}, padded |-> FALSE, failed |-> FALSE, last |-> NoError,
   stream |-> stream, limit |-> limit, attempt |-> 0, until |-> 0, cancelled |-> FALSE,
   calls |-> 0, marks |-> 0, waited |-> 0, served |-> {}, quiet |-> TRUE]

Become(r, q) == req' = [req EXCEPT ![r] = q]

\* A credential changes, for every request, waiting ones included.
Rewrite(r, cred, q) ==
  /\ auths' = [auths EXCEPT ![req[r].auth] = cred]
  /\ req' = [x \in Requests |-> IF x = r THEN q ELSE [req[x] EXCEPT !.quiet = FALSE]]
  /\ UNCHANGED <<others, now>>

\* MarkResult for the call in progress.
Mark(r, cred, q) == Rewrite(r, cred, [q EXCEPT !.marks = @ + 1])

Blamed(r, model, err) ==
  Fail(auths[req[r].auth], model, err.kind, err.hint, req[r].auth \in CoolingOff, now)

\* The upstream model of the call in progress.
CurrentModel(r) == StateModel(req[r].auth, Head(req[r].models))

\* Mutant of Released: the credential stays in the request's hands.
ReleasedInHand(q, place) ==
  [q EXCEPT !.at = place, !.models = <<>>, !.copy = {}, !.padded = FALSE, !.failed = FALSE]

\* The credential is given up.
Released(q, place) ==
  [q EXCEPT !.at = place, !.auth = NoAuth, !.models = <<>>, !.copy = {}, !.padded = FALSE, !.failed = FALSE]

Finished(q, how) == [Released(q, how) EXCEPT !.tried = {}, !.attempted = {}]

\* The credential's upstream models have all failed, or the request is at fault:
\* a stream's error goes through executeStreamMixedOnce.
Failing(q, err) ==
  LET place == IF q.stream THEN "returned" ELSE IF err.invalid THEN "failed" ELSE "pick"
  IN [Released(q, place) EXCEPT !.last = err]

\* The next upstream model of the credential, if it has one left.
NextModel(q, err) ==
  IF err.invalid \/ Len(q.models) = 1 THEN Failing(q, err)
  ELSE [q EXCEPT !.models = Tail(@), !.at = "call", !.padded = FALSE]

-----------------------------------------------------------------------------
(* A round.                                                                *)

\* A round that may try no further credential, or is given none, has failed.
Exhausted(r) ==
  /\ req[r].at = "pick"
  /\ req[r].limit > 0 /\ Cardinality(req[r].attempted) >= req[r].limit
  /\ Become(r, [req[r] EXCEPT !.at = "failed", !.last = IF @ = NoError THEN PickError ELSE @])
  /\ UNCHANGED <<auths, others, now>>

MayPick(r) ==
  /\ req[r].at = "pick"
  /\ req[r].limit > 0 => Cardinality(req[r].attempted) < req[r].limit

PickFails(r) ==
  /\ MayPick(r)
  /\ \A a \in Free(req[r].tried) : Held(a)
  /\ Become(r, [req[r] EXCEPT !.at = "failed", !.last = IF @ = NoError THEN PickError ELSE @])
  /\ UNCHANGED <<auths, others, now>>

\* The credential that was picked, with those of its upstream models that are
\* not cooling; its token may have to be prepared first.
WithModels(q, a, usable, place) ==
  [q EXCEPT !.tried = @ \union {a}, !.attempted = @ \union {a}, !.auth = a,
            !.models = usable, !.at = place]

PlacesAfterPick(a) == {"call"} \union (IF a \in Preparers THEN {"prepare"} ELSE {})

\* Mutant of Pick: a credential without a usable model is not remembered.
PickForgetful(r, a) ==
  /\ MayPick(r)
  /\ a \in Free(req[r].tried)
  /\ \E models \in Rotations(Pool[a]), place \in PlacesAfterPick(a) :
       LET usable == Usable(a, models) IN
       Become(r, IF usable = <<>> THEN req[r] ELSE WithModels(req[r], a, usable, place))
  /\ UNCHANGED <<auths, others, now>>

\* pickNextMixed and preparedExecutionModelsWithAlias: a credential all of whose
\* upstream models are cooling is passed over and does not count as attempted.
Pick(r, a) ==
  /\ MayPick(r)
  /\ a \in Free(req[r].tried)
  /\ \E models \in Rotations(Pool[a]), place \in PlacesAfterPick(a) :
       LET usable == Usable(a, models) IN
       Become(r, IF usable = <<>> THEN [req[r] EXCEPT !.tried = @ \union {a}]
                 ELSE WithModels(req[r], a, usable, place))
  /\ UNCHANGED <<auths, others, now>>

\* prepareRequestAuth, under a lock of its own per credential: the credential is
\* copied, unless another request has prepared it in the meantime.
PrepareStarts(r) ==
  /\ req[r].at = "prepare"
  /\ \A x \in Requests : req[x].at = "preparing" => req[x].auth # req[r].auth
  /\ \/ Become(r, [req[r] EXCEPT !.at = "preparing", !.copy = {auths[req[r].auth]}])
     \/ Become(r, [req[r] EXCEPT !.at = "call"])
  /\ UNCHANGED <<auths, others, now>>

\* The copy is written back: what was reported since it was taken is lost.
PrepareSucceeds(r) ==
  /\ req[r].at = "preparing"
  /\ LET a == req[r].auth IN \E copy \in req[r].copy :
     Rewrite(r, Updated(auths[a], copy, a \in CoolingOff),
             [req[r] EXCEPT !.at = "call", !.copy = {}])

\* The failure is marked for the model as the client named it, whether or not the
\* client is still there, and the credential is given up.
PrepareFails(r, err) ==
  /\ req[r].at = "preparing"
  /\ Rewrite(r, Blamed(r, Route, [err EXCEPT !.hint = NoHint]),
             [Released(req[r], "pick") EXCEPT !.last = err])

Call(r) ==
  /\ req[r].at = "call"
  /\ Become(r, [req[r] EXCEPT !.at = "provider", !.calls = @ + 1])
  /\ UNCHANGED <<auths, others, now>>

\* The executor answers a request that is not a stream.
AnswerArrives(r) ==
  /\ req[r].at = "provider" /\ ~req[r].stream
  /\ Mark(r, Succeed(auths[req[r].auth], CurrentModel(r), now),
          Finished([req[r] EXCEPT !.served = @ \union {req[r].auth}], "ok"))

\* The client has gone away: nothing is held against the credential.
Cancelled(r) == Become(r, Finished(req[r], "cancelled")) /\ UNCHANGED <<auths, others, now>>

\* The executor returns an error.
CallFails(r, err) ==
  /\ req[r].at = "provider"
  /\ IF req[r].cancelled THEN Cancelled(r)
     ELSE Mark(r, Blamed(r, CurrentModel(r), err), NextModel(req[r], err))

-----------------------------------------------------------------------------
(* A stream: readStreamBootstrap.                                          *)

StreamOpens(r) ==
  /\ req[r].at = "provider" /\ req[r].stream
  /\ Become(r, [req[r] EXCEPT !.at = "bootstrap"])
  /\ UNCHANGED <<auths, others, now>>

\* A chunk without a payload is kept and the wait goes on.
EmptyChunk(r) ==
  /\ req[r].at = "bootstrap" /\ ~req[r].padded
  /\ Become(r, [req[r] EXCEPT !.padded = TRUE])
  /\ UNCHANGED <<auths, others, now>>

FirstPayload(r) ==
  /\ req[r].at = "bootstrap"
  /\ Become(r, [req[r] EXCEPT !.at = "relay", !.padded = FALSE])
  /\ UNCHANGED <<auths, others, now>>

\* Mutant of StreamCloses: nobody is told of the empty stream.
StreamClosesUnmarked(r) ==
  /\ req[r].at = "bootstrap"
  /\ Become(r, IF req[r].padded THEN [req[r] EXCEPT !.at = "closing", !.padded = FALSE]
               ELSE NextModel(req[r], EmptyStream))
  /\ UNCHANGED <<auths, others, now>>

\* The stream ends before any payload: an error of the credential, unless there
\* was a chunk at all.
StreamCloses(r) ==
  /\ req[r].at = "bootstrap"
  /\ IF req[r].padded
     THEN /\ Become(r, [req[r] EXCEPT !.at = "closing", !.padded = FALSE])
          /\ UNCHANGED <<auths, others, now>>
     ELSE Mark(r, Blamed(r, CurrentModel(r), EmptyStream), NextModel(req[r], EmptyStream))

\* The stream breaks before any payload.
BootstrapFails(r, err) ==
  /\ req[r].at = "bootstrap"
  /\ IF req[r].cancelled THEN Cancelled(r)
     ELSE Mark(r, Blamed(r, CurrentModel(r), err),
               NextModel(req[r], IF Len(req[r].models) = 1 THEN Bootstrap(err) ELSE err))

BootstrapCancelled(r) == req[r].at = "bootstrap" /\ req[r].cancelled /\ Cancelled(r)

\* executeStreamMixedOnce has the error of the credential's last upstream model.
StreamReturns(r) ==
  /\ req[r].at = "returned"
  /\ IF req[r].cancelled THEN Cancelled(r)
     ELSE /\ Become(r, [req[r] EXCEPT !.at = IF req[r].last.invalid THEN "failed" ELSE "pick"])
          /\ UNCHANGED <<auths, others, now>>

-----------------------------------------------------------------------------
(* A stream that has been answered: the goroutine of wrapStreamResult.     *)

\* The payload in hand goes to the client.
Deliver(r) ==
  /\ req[r].at = "relay"
  /\ Become(r, [req[r] EXCEPT !.at = "relaying", !.served = @ \union {req[r].auth}])
  /\ UNCHANGED <<auths, others, now>>

\* The client is gone: the rest is thrown away and nothing is marked.
Abandon(r) == req[r].at = "relay" /\ req[r].cancelled /\ Cancelled(r)

NextPayload(r) ==
  /\ req[r].at = "relaying"
  /\ Become(r, [req[r] EXCEPT !.at = "relay"])
  /\ UNCHANGED <<auths, others, now>>

\* Mutant of StreamBreaks: the request starts over with another credential.
StreamBreaksOver(r, err) ==
  /\ req[r].at = "relaying"
  /\ Mark(r, Blamed(r, CurrentModel(r), [err EXCEPT !.hint = NoHint]),
          [Released(req[r], "pick") EXCEPT !.last = err])

\* An error chunk: it is marked once, then it is sent to the client like any
\* other chunk.  The retry-after hint is not passed on.
StreamBreaks(r, err) ==
  /\ req[r].at = "relaying"
  /\ IF req[r].failed
     THEN /\ Become(r, [req[r] EXCEPT !.at = "relay"])
          /\ UNCHANGED <<auths, others, now>>
     ELSE Mark(r, Blamed(r, CurrentModel(r), [err EXCEPT !.hint = NoHint]),
               [req[r] EXCEPT !.at = "relay", !.failed = TRUE])

StreamEnds(r) ==
  /\ req[r].at \in {"relaying", "closing"}
  /\ IF req[r].failed
     THEN /\ Become(r, Finished(req[r], "error"))
          /\ UNCHANGED <<auths, others, now>>
     ELSE Mark(r, Succeed(auths[req[r].auth], CurrentModel(r), now), Finished(req[r], "ok"))

-----------------------------------------------------------------------------
(* Between rounds.                                                         *)

\* How long a credential that is blocked for the model stays so.
WaitOf(a) ==
  LET s == auths[a].ms[Route] IN
  IF BlockedFor(auths[a], Route, now) /\ ~IsDisabled(auths[a]) THEN {ReportedEnd(s, now) - now} ELSE {}

\* closestCooldownWait.
Waits(attempt) == UNION {WaitOf(a) : a \in {b \in Auths : attempt < Retries[b]}}

\* Mutant of RetryWaits: the longest wait allowed is not looked at.
RetryWaitsUnlimited(q) ==
  LET waits == Waits(q.attempt) IN
  IF MaxWait = 0 \/ q.last.invalid THEN {}
  ELSE IF waits # {} THEN {Min(waits)}
  ELSE IF q.last.kind = "quota" /\ \E a \in Auths : q.attempt < Retries[a]
       THEN {q.last.hint} \ {NoHint}
  ELSE {}

\* shouldRetryAfterError: the wait before the next round, if there is one.
RetryWaits(q) ==
  LET waits == Waits(q.attempt) IN
  IF MaxWait = 0 \/ q.last.invalid THEN {}
  ELSE IF waits # {} THEN {Min(waits)} \intersect 0 .. MaxWait
  ELSE IF q.last.kind = "quota" /\ \E a \in Auths : q.attempt < Retries[a]
       THEN {q.last.hint} \intersect 1 .. MaxWait
  ELSE {}

Retry(r) ==
  /\ req[r].at = "failed"
  /\ \E wait \in RetryWaits(req[r]) :
       Become(r, [req[r] EXCEPT !.at = "wait", !.until = now + wait, !.waited = @ + wait,
                             !.quiet = TRUE])
  /\ UNCHANGED <<auths, others, now>>

GiveUp(r) ==
  /\ req[r].at = "failed" /\ RetryWaits(req[r]) = {}
  /\ Become(r, Finished(req[r], "error"))
  /\ UNCHANGED <<auths, others, now>>

\* Mutant of WaitEnds: the credentials of the last round stay out of the next.
WaitEndsTried(r) ==
  /\ req[r].at = "wait" /\ now >= req[r].until
  /\ Become(r, [req[r] EXCEPT !.at = "pick", !.last = NoError, !.attempt = @ + 1, !.until = 0])
  /\ UNCHANGED <<auths, others, now>>

\* waitForCooldown, and the next round with nothing remembered.
WaitEnds(r) ==
  /\ req[r].at = "wait" /\ now >= req[r].until
  /\ Become(r, [req[r] EXCEPT !.at = "pick", !.tried = {}, !.attempted = {}, !.last = NoError,
                              !.attempt = @ + 1, !.until = 0])
  /\ UNCHANGED <<auths, others, now>>

WaitCancelled(r) == req[r].at = "wait" /\ req[r].cancelled /\ Cancelled(r)

Ended == {"ok", "error", "cancelled"}

\* The client goes away, at any moment.
Cancel(r) ==
  /\ req[r].at \notin Ended /\ ~req[r].cancelled
  /\ Become(r, [req[r] EXCEPT !.cancelled = TRUE])
  /\ UNCHANGED <<auths, others, now>>

\* MarkResult by a request that is not followed.
OtherResult(a, k, err) ==
  /\ others < MaxOthers
  /\ others' = others + 1
  /\ auths' = [auths EXCEPT ![a] = IF err = NoError THEN Succeed(@, k, now)
                                    ELSE Fail(@, k, err.kind, err.hint, a \in CoolingOff, now)]
  /\ req' = [r \in Requests |-> [req[r] EXCEPT !.quiet = FALSE]]
  /\ UNCHANGED now

Tick ==
  /\ now < MaxTime
  /\ now' = now + 1
  /\ UNCHANGED <<auths, req, others>>

-----------------------------------------------------------------------------

Init ==
  /\ auths = [a \in Auths |-> FreshAuth(FALSE)]
  /\ req \in [Requests -> {Start(stream, limit) : stream \in BOOLEAN, limit \in Limits}]
  /\ others = 0
  /\ now = 1

Step(r) ==
  \/ Exhausted(r) \/ PickFails(r) \/ \E a \in Auths : Pick(r, a)
  \/ PrepareStarts(r) \/ PrepareSucceeds(r) \/ Call(r) \/ AnswerArrives(r)
  \/ StreamOpens(r) \/ EmptyChunk(r) \/ FirstPayload(r) \/ StreamCloses(r) \/ BootstrapCancelled(r)
  \/ StreamReturns(r) \/ Deliver(r) \/ Abandon(r) \/ NextPayload(r) \/ StreamEnds(r)
  \/ \E err \in Errors : \/ PrepareFails(r, err) \/ CallFails(r, err)
                         \/ BootstrapFails(r, err) \/ StreamBreaks(r, err)
  \/ Retry(r) \/ GiveUp(r) \/ WaitEnds(r) \/ WaitCancelled(r)

Next ==
  \/ \E r \in Requests : Step(r) \/ Cancel(r)
  \/ \E a \in Auths, err \in Errors \union {NoError} :
       \E k \in {StateModel(a, Pool[a][i]) : i \in DOMAIN Pool[a]} : OtherResult(a, k, err)
  \/ Tick

Spec == Init /\ [][Next]_vars

\* A goroutine that can run does, a provider answers or its connection fails in
\* the end, and time passes; a client need never go away.
Fairness == (\A r \in Requests : WF_vars(Step(r))) /\ WF_vars(Tick)

FairSpec == Spec /\ Fairness

-----------------------------------------------------------------------------
(* Properties.                                                             *)

\* Where a request has a credential in hand.
Using == {"prepare", "preparing", "call", "provider", "bootstrap", "relay", "relaying", "closing"}
Places == {"pick", "returned", "failed", "wait"} \union Using \union Ended

TypeOK ==
  /\ now \in 1 .. MaxTime
  /\ \A r \in Requests :
       /\ req[r].at \in Places
       /\ req[r].attempted \subseteq req[r].tried /\ req[r].tried \subseteq Auths
       /\ req[r].at \in Using <=> req[r].auth # NoAuth
       /\ req[r].at = "preparing" <=> req[r].copy # {}
       /\ req[r].auth # NoAuth => /\ req[r].auth \in req[r].attempted
                                  /\ req[r].models # <<>>

\* A call is in progress whose result is still to be reported.
Open(r) ==
  \/ req[r].at \in {"provider", "bootstrap", "closing"}
  \/ req[r].at \in {"relay", "relaying"} /\ ~req[r].failed

\* Whatever way a call ends - an answer, an error before or after the first
\* payload, a stream that closes early, the next upstream model, the next
\* credential, the next round - its result is reported to MarkResult exactly
\* once; only when the client went away may one call go unreported.
EveryCallIsReported ==
  \A r \in Requests :
    LET unreported == req[r].calls - req[r].marks - (IF Open(r) THEN 1 ELSE 0) IN
    unreported = 0 \/ (req[r].at = "cancelled" /\ unreported = 1)

\* The upstream models of the credentials in S.
Targets(S) == UNION {{a} \X DOMAIN Pool[a] : a \in S}

MostPerRound(limit) ==
  Max({Cardinality(Targets(S)) : S \in {S \in SUBSET Auths : limit = 0 \/ Cardinality(S) <= limit}})

\* What one request may cost: as many rounds as the most patient credential
\* allows, in each of them one call per upstream model of the credentials it may
\* try, and no wait longer than max-retry-interval.
CostIsBounded ==
  \A r \in Requests :
    /\ req[r].attempt > 0 => \E a \in Auths : req[r].attempt <= Retries[a]
    /\ req[r].calls <= (req[r].attempt + 1) * MostPerRound(req[r].limit)
    /\ req[r].waited <= (req[r].attempt + 1) * MaxWait

ServesAlone ==
  \A r \in Requests : /\ Cardinality(req'[r].served) <= 1
                      /\ req[r].served # {} => req'[r].calls = req[r].calls

\* A client never gets output of two credentials: once a payload was delivered no
\* other credential is asked, however the stream goes on.
OneCredentialServes == [][ServesAlone]_vars

\* The block of a credential may outlast the quota window it reports: a rate
\* limit, then a longer cooldown for another failure.
Outlasts(a) ==
  LET s == auths[a].ms[Route] IN s.quota.exceeded /\ s.quota.recover <= now /\ now < s.next

\* A wait pays: when it ends, and no other request has reported anything since
\* it was chosen, the next round has a credential to start with - but for the
\* wait for a quota window that closes before the credential's block
\* (selector.go:347), after which the request goes through a round for nothing.
WaitPays ==
  [][\A r \in Requests :
       /\ req[r].at = "wait" /\ req'[r].at = "pick" /\ req[r].quiet
       => Free(req'[r].tried) # {} \/ \E a \in Auths : Outlasts(a)]_vars

\* Every request is answered or given up, whatever fails: a client is not left
\* waiting while the manager goes from credential to credential.  (A wait that
\* ends after the clock's bound is beyond this model.)
RequestIsAnswered ==
  \A r \in Requests :
    <>(req[r].at \in Ended \union {"relay", "closing"} \/ (req[r].at = "wait" /\ req[r].until > MaxTime))
=============================================================================
