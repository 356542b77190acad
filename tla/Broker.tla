------------------------------- MODULE Broker -------------------------------
(***************************************************************************)
(* The resource-brokering layer that both sides of one base plugin         *)
(* connection use (brokerExt in pkg/loop/internal: serve, serveNew, dial,  *)
(* closeAll, and the StopCh shared by all of them).  Its code is not among *)
(* the sources under src/; it is modelled from spec.md sections 3, 4.2, 5  *)
(* and 7.                                                                  *)
(*                                                                         *)
(* A resource is an endpoint registered with the multiplexer ("serving"),  *)
(* a connection dialed to the counterpart's endpoint ("open"), or released *)
(* ("closed").  Service IDs are not represented: the atomic ID counter of  *)
(* the multiplexer hands out a fresh ID per registration, so a dial names  *)
(* the endpoint it targets directly.                                       *)
(*                                                                         *)
(* Closing StopCh makes later registrations and dials fail (spec.md 5).    *)
(* An endpoint registered before it is not released by the stop: neither  *)
(* the repository nor spec.md says it is, so only closeAll releases.       *)
(***************************************************************************)
EXTENDS Naturals, Sequences, SequencesExt

CONSTANT Res          \* every resource the composing module can create

VARIABLES
  rstate,             \* [Res -> ResStates]
  owns,               \* [Res -> Seq(Res)]: dependencies released with an endpoint
  releases,           \* [Res -> Nat]: how often each resource has been released
  stopped             \* the broker's StopCh has been closed

brokerVars == <<rstate, owns, releases, stopped>>

ResStates == {"none", "serving", "open", "closed"}

\* A resource that still has to be released.
Held(r) == rstate[r] \in {"serving", "open"}

BrokerInit ==
  /\ rstate = [r \in Res |-> "none"]
  /\ owns = [r \in Res |-> <<>>]
  /\ releases = [r \in Res |-> 0]
  /\ stopped = FALSE

(***************************************************************************)
(* closeAll(rs...): releases the resources in the order given; a close     *)
(* that fails is reported and does not stop the remaining ones, so every   *)
(* resource passed ends up released.  Releasing an endpoint releases the   *)
(* dependencies it was registered with.                                    *)
(***************************************************************************)
CloseAll(rs) ==
  LET closed == rs \o FlattenSeq([i \in DOMAIN rs |-> owns[rs[i]]])
      times == [r \in Res |-> Cardinality({i \in DOMAIN closed : closed[i] = r})]
  IN  /\ rstate' = [r \in Res |-> IF times[r] > 0 THEN "closed" ELSE rstate[r]]
      /\ releases' = [r \in Res |-> releases[r] + times[r]]
      /\ UNCHANGED <<owns, stopped>>

(***************************************************************************)
(* serve(name, server, deps...) / serveNew(name, register, deps...)        *)
(* succeeding: a fresh ID is accepted on the multiplexer, the endpoint r   *)
(* serves on it and records deps, to be released together with it.  Once   *)
(* StopCh is closed no new registration succeeds.                          *)
(***************************************************************************)
Serve(r, deps) ==
  /\ ~stopped
  /\ rstate[r] = "none"
  /\ rstate' = [rstate EXCEPT ![r] = "serving"]
  /\ owns' = [owns EXCEPT ![r] = deps]
  /\ UNCHANGED <<releases, stopped>>

\* serve failing (the multiplexer does not accept the ID): no endpoint is
\* registered and the dependencies it was handed are released (spec.md 3,
\* "no Resource is ever abandoned without release on any exit path").
ServeFails(deps) == CloseAll(deps)

\* dial(id) succeeding: the counterpart's endpoint target still serves, and
\* r is a connection to it.  A failing dial changes nothing.
Dial(target, r) ==
  /\ ~stopped
  /\ rstate[target] = "serving"
  /\ rstate[r] = "none"
  /\ rstate' = [rstate EXCEPT ![r] = "open"]
  /\ UNCHANGED <<owns, releases, stopped>>

\* Closing StopCh, the only cancellation primitive (spec.md 5).
Stop ==
  /\ ~stopped
  /\ stopped' = TRUE
  /\ UNCHANGED <<rstate, owns, releases>>

=============================================================================
