---------------------------- MODULE MCAuthScheduler -------------------------
(* Small instances of the scheduler for TLC. *)
EXTENDS AuthScheduler

Setting(p, prio, ws, models) == [prov |-> p, prio |-> prio, ws |-> ws, supports |-> models]

\* Requests name a model, or both a model and none.
Named == Models
NamedOrAny == Models \union {AnyModel}
NoOrder == {}

\* One provider: a plain credential, and one with websockets that may lose its
\* models and has a lower priority while it has them.
Pair ==
  (1 :> {Setting("p", 2, FALSE, Models)})
  @@ (2 :> {Setting("p", 1, TRUE, Models), Setting("p", 2, TRUE, {})})
\* Two providers asked in one order; 2 and 3 may change sides, and 3 its
\* priority, so that one provider may have all three.
Mixture ==
  (1 :> {Setting("p", 1, FALSE, Models)})
  @@ (2 :> {Setting(prov, 1, FALSE, Models) : prov \in Providers})
  @@ (3 :> {Setting("q", 2, FALSE, Models)} \union {Setting(prov, 1, FALSE, Models) : prov \in Providers})
Both == {<<"p", "q">>}
=============================================================================
