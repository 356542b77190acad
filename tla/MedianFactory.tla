---------------------------- MODULE MedianFactory ----------------------------
(***************************************************************************)
(* Construction of a median reporting-plugin factory across the plugin     *)
(* boundary (pkg/loop/internal/median.go).                                 *)
(*                                                                         *)
(* Host side, PluginMedianClient.NewMedianFactory: serves the four         *)
(* dependencies one after another on the broker, accumulating them in     *)
(* deps, then sends one NewMedianFactory request carrying their IDs.  The *)
(* closure runs inside newClientConn, which closes the deps the closure    *)
(* returns when it fails and keeps them for the handle when it succeeds   *)
(* (not under src/: modelled from spec.md 4.3).                           *)
(*                                                                         *)
(* Plugin side, pluginMedianServer.NewMedianFactory: dials the four IDs in *)
(* a fixed order, rolling back with closeAll when a dial or the            *)
(* implementation fails, and finally registers the factory as one new     *)
(* endpoint that owns the four connections.                               *)
(*                                                                         *)
(* Every build in Builds is one construction; they run concurrently on    *)
(* the same broker.                                                       *)
(***************************************************************************)
EXTENDS Naturals, Sequences, SequencesExt

CONSTANT Builds

Sides == {"host", "plugin"}

\* The order of the serveNew/serve calls of the host closure (lines 40-84).
ServeOrder == <<"DataSource", "JuelsPerFeeCoinDataSource", "MedianProvider", "ErrorLog">>

\* The order of the dial calls of the plugin handler (lines 119-148).
DialOrder == <<"DataSource", "JuelsPerFeeCoinDataSource", "MedianProvider", "ErrorLog">>

DepNames == ToSet(ServeOrder)

\* The name the plugin registers the produced factory under (line 156).
Factory == "ReportingPluginProvider"

Res == Builds \X Sides \X (DepNames \cup {Factory})

HostRes(b, n) == <<b, "host", n>>
PluginRes(b, n) == <<b, "plugin", n>>

VARIABLES
  rstate, owns, releases, stopped,   \* the broker (module Broker)
  hostPc,      \* [Builds -> {"serve","call","wait","done","failed","closed"}]
  hostDeps,    \* [Builds -> Seq(Res)]: the closure's local deps
  handleDeps,  \* [Builds -> Seq(Res)]: the deps the handle keeps on success
  pluginPc,    \* [Builds -> {"idle","dial","impl","serve","done","error"}]
  pluginDeps,  \* [Builds -> Seq(Res)]: dsRes, juelsRes, providerRes, errorLogRes
  reply,       \* [Builds -> {"none","ok","err"}]: the NewMedianFactory reply
  rollback     \* [Builds -> Seq(Res)]: the arguments of the handler's closeAll

Br == INSTANCE Broker

brokerVars == <<rstate, owns, releases, stopped>>
hostVars == <<hostPc, hostDeps, handleDeps>>
pluginVars == <<pluginPc, pluginDeps, reply, rollback>>
vars == <<brokerVars, hostVars, pluginVars>>

Init ==
  /\ Br!BrokerInit
  /\ hostPc = [b \in Builds |-> "serve"]
  /\ hostDeps = [b \in Builds |-> <<>>]
  /\ handleDeps = [b \in Builds |-> <<>>]
  /\ pluginPc = [b \in Builds |-> "idle"]
  /\ pluginDeps = [b \in Builds |-> <<>>]
  /\ reply = [b \in Builds |-> "none"]
  /\ rollback = [b \in Builds |-> <<>>]

-----------------------------------------------------------------------------
(***************************************************************************)
(* Host side.                                                              *)
(***************************************************************************)

\* The deps the closure hands back to newClientConn: every return of the
\* closure returns nil for them, on error (lines 44, 52, 74, 82, 93) and on
\* success (line 95).
ReturnedDeps(deps) == <<>>

\* newClientConn when the closure fails: it closes the deps the closure
\* returned and the construction has failed.
HostFails(b) ==
  /\ Br!CloseAll(ReturnedDeps(hostDeps[b]))
  /\ hostPc' = [hostPc EXCEPT ![b] = "failed"]
  /\ UNCHANGED <<hostDeps, handleDeps>>

\* One m.serveNew (or, for a provider that is already a gRPC client
\* connection, m.serve of a proxy to it) and its error check.  Both
\* register one endpoint on the broker; they differ only in what the
\* endpoint forwards to.
HostServe(b) ==
  LET k == Len(hostDeps[b]) + 1
      r == HostRes(b, ServeOrder[k])
  IN  /\ hostPc[b] = "serve"
      /\ \/ /\ Br!Serve(r, <<>>)
            /\ hostDeps' = [hostDeps EXCEPT ![b] = Append(@, r)]
            /\ hostPc' = [hostPc EXCEPT ![b] =
                            IF k = Len(ServeOrder) THEN "call" ELSE "serve"]
            /\ UNCHANGED handleDeps
         \/ HostFails(b)
      /\ UNCHANGED pluginVars

\* m.median.NewMedianFactory: the request reaches the plugin's handler.
HostCall(b) ==
  /\ hostPc[b] = "call"
  /\ ~stopped
  /\ hostPc' = [hostPc EXCEPT ![b] = "wait"]
  /\ pluginPc' = [pluginPc EXCEPT ![b] = "dial"]
  /\ UNCHANGED <<brokerVars, hostDeps, handleDeps, pluginDeps, reply, rollback>>

\* The reply arrives: on success the handle keeps the returned deps, on an
\* error newClientConn closes them.
HostReceive(b) ==
  /\ hostPc[b] = "wait"
  /\ reply[b] # "none"
  /\ IF reply[b] = "ok"
       THEN /\ hostPc' = [hostPc EXCEPT ![b] = "done"]
            /\ handleDeps' = [handleDeps EXCEPT ![b] = ReturnedDeps(hostDeps[b])]
            /\ UNCHANGED <<brokerVars, hostDeps>>
       ELSE HostFails(b)
  /\ UNCHANGED pluginVars

\* The call's ctx, from newClientConn's caller, may end on a deadline of
\* its own (spec.md 5), with StopCh still open: the call returns an error
\* whether or not the handler has answered, or will.
HostTimesOut(b) ==
  /\ hostPc[b] \in {"call", "wait"}
  /\ HostFails(b)
  /\ UNCHANGED pluginVars

\* Once StopCh is closed the call's context is cancelled: the call returns
\* an error whether or not the handler has answered (spec.md 5).
HostCancelled(b) ==
  /\ hostPc[b] \in {"call", "wait"}
  /\ stopped
  /\ HostFails(b)
  /\ UNCHANGED pluginVars

\* Closing the handle releases the deps it kept (spec.md 3, lifecycle).
HostClose(b) ==
  /\ hostPc[b] = "done"
  /\ Br!CloseAll(handleDeps[b])
  /\ hostPc' = [hostPc EXCEPT ![b] = "closed"]
  /\ UNCHANGED <<hostDeps, handleDeps, pluginVars>>

-----------------------------------------------------------------------------
(***************************************************************************)
(* Plugin side: pluginMedianServer.NewMedianFactory (lines 118-165).       *)
(***************************************************************************)

\* Fault variant of RollbackOrder: the connection acquired last is left
\* out of the closeAll argument list.
RollbackOmitsLast(deps) == SubSeq(deps, 1, Len(deps) - 1)

\* The argument list of the handler's closeAll after a failed step: the
\* resources acquired so far, in the order they were acquired (lines 128,
\* 136, 144, 152).
RollbackOrder(deps) == deps

\* A failed step: close what was acquired and answer with the error.
PluginRollback(b) ==
  /\ Br!CloseAll(RollbackOrder(pluginDeps[b]))
  /\ rollback' = [rollback EXCEPT ![b] = RollbackOrder(pluginDeps[b])]
  /\ pluginPc' = [pluginPc EXCEPT ![b] = "error"]
  /\ reply' = [reply EXCEPT ![b] = "err"]
  /\ UNCHANGED pluginDeps

\* m.dial of the next ID and its error check; a failed dial returns
\* ErrConnDial after closing the connections already dialed.
PluginDial(b) ==
  LET k == Len(pluginDeps[b]) + 1
      n == DialOrder[k]
  IN  /\ pluginPc[b] = "dial"
      /\ \/ /\ Br!Dial(HostRes(b, n), PluginRes(b, n))
            /\ pluginDeps' = [pluginDeps EXCEPT ![b] = Append(@, PluginRes(b, n))]
            /\ pluginPc' = [pluginPc EXCEPT ![b] =
                              IF k = Len(DialOrder) THEN "impl" ELSE "dial"]
            /\ UNCHANGED <<reply, rollback>>
         \/ PluginRollback(b)
      /\ UNCHANGED hostVars

\* m.impl.NewMedianFactory with the four clients (lines 150-154).
PluginImpl(b) ==
  /\ pluginPc[b] = "impl"
  /\ \/ /\ pluginPc' = [pluginPc EXCEPT ![b] = "serve"]
        /\ UNCHANGED <<brokerVars, pluginDeps, reply, rollback>>
     \/ PluginRollback(b)
  /\ UNCHANGED hostVars

\* Fault variant of PluginServe: on a serveNew error the handler closes the
\* four connections itself, after serve has already released them.
PluginServeClosingDeps(b) ==
  /\ pluginPc[b] = "serve"
  /\ \/ /\ Br!Serve(PluginRes(b, Factory), pluginDeps[b])
        /\ pluginPc' = [pluginPc EXCEPT ![b] = "done"]
        /\ reply' = [reply EXCEPT ![b] = "ok"]
     \/ /\ Br!CloseAll(pluginDeps[b] \o pluginDeps[b])
        /\ pluginPc' = [pluginPc EXCEPT ![b] = "error"]
        /\ reply' = [reply EXCEPT ![b] = "err"]
  /\ UNCHANGED <<pluginDeps, rollback, hostVars>>

\* m.serveNew("ReportingPluginProvider", ..., dsRes, juelsRes, providerRes,
\* errorLogRes): the factory endpoint owns the four connections; on an
\* error the handler returns it as is (lines 156-164).
PluginServe(b) ==
  /\ pluginPc[b] = "serve"
  /\ \/ /\ Br!Serve(PluginRes(b, Factory), pluginDeps[b])
        /\ pluginPc' = [pluginPc EXCEPT ![b] = "done"]
        /\ reply' = [reply EXCEPT ![b] = "ok"]
     \/ /\ Br!ServeFails(pluginDeps[b])
        /\ pluginPc' = [pluginPc EXCEPT ![b] = "error"]
        /\ reply' = [reply EXCEPT ![b] = "err"]
  /\ UNCHANGED <<pluginDeps, rollback, hostVars>>

-----------------------------------------------------------------------------

Stop ==
  /\ Br!Stop
  /\ UNCHANGED <<hostVars, pluginVars>>

Next ==
  \/ \E b \in Builds :
       \/ HostServe(b) \/ HostCall(b) \/ HostReceive(b)
       \/ HostCancelled(b) \/ HostTimesOut(b) \/ HostClose(b)
       \/ PluginDial(b) \/ PluginImpl(b) \/ PluginServe(b)
  \/ Stop

(***************************************************************************)
(* Every handler runs in its own goroutine and an RPC that has its answer, *)
(* or a cancelled context, returns: each step that stays enabled is taken. *)
(* Closing the handle, closing StopCh and a deadline of the caller's ctx   *)
(* are up to the caller: no fairness.                                     *)
(***************************************************************************)
Fairness ==
  /\ \A b \in Builds :
       /\ WF_vars(HostServe(b)) /\ WF_vars(HostCall(b))
       /\ WF_vars(HostReceive(b)) /\ WF_vars(HostCancelled(b))
       /\ WF_vars(PluginDial(b)) /\ WF_vars(PluginImpl(b))
       /\ WF_vars(PluginServe(b))

Spec == Init /\ [][Next]_vars /\ Fairness

-----------------------------------------------------------------------------
(***************************************************************************)
(* Properties.                                                             *)
(***************************************************************************)

\* The resources of build b on side s that still have to be released.
HeldBy(b, s) == {r \in Res : r[1] = b /\ r[2] = s /\ Br!Held(r)}

\* Types; the release counter is bounded by 1 because release is
\* idempotent-once (spec.md 3): no resource is closed twice, whether by the
\* handler's closeAll, or by serve failing.
TypeOK ==
  /\ rstate \in [Res -> Br!ResStates]
  /\ owns \in [Res -> Seq(Res)]
  /\ releases \in [Res -> 0..1]
  /\ stopped \in BOOLEAN
  /\ hostPc \in [Builds -> {"serve", "call", "wait", "done", "failed", "closed"}]
  /\ pluginPc \in [Builds -> {"idle", "dial", "impl", "serve", "done", "error"}]
  /\ reply \in [Builds -> {"none", "ok", "err"}]
  /\ \A b \in Builds :
       /\ hostDeps[b] \in Seq(Res) /\ handleDeps[b] \in Seq(Res)
       /\ pluginDeps[b] \in Seq(Res) /\ rollback[b] \in Seq(Res)

(***************************************************************************)
(* The plugin handler implements CompositeService: the connections it     *)
(* dials are acquired one at a time before any factory exists, a failed   *)
(* step leaves it holding none of them, the factory endpoint is only      *)
(* registered holding all four.                                           *)
(***************************************************************************)
CompositeOf(b) ==
  CASE rstate[PluginRes(b, Factory)] = "serving" -> "live"
    [] rstate[PluginRes(b, Factory)] = "closed"  -> "released"
    [] pluginPc[b] = "error"                     -> "aborted"
    [] OTHER                                     -> "absent"

Abstract == INSTANCE CompositeService WITH
  composite <- [b \in Builds |-> CompositeOf(b)],
  held <- [b \in Builds |-> {n \in DepNames : rstate[PluginRes(b, n)] = "open"}]

CompositeRefinement == Abstract!Spec

\* A construction that failed or whose handle was closed holds none of the
\* endpoints the host served for it (spec.md 4.3 step 4: "on failure at any
\* step, close every Resource accumulated in steps 1-3").
HostDepsReleased ==
  \A b \in Builds : hostPc[b] \in {"failed", "closed"} => HeldBy(b, "host") = {}

\* No composite is left registered for a construction the host gave up on
\* (spec.md 3: a Resource is released on rollback or when the counterpart
\* closes the composite, and none is abandoned on any exit path).  The
\* handler (lines 156-164) cannot tell that the call it answers was
\* cancelled, by StopCh or by the caller's deadline, and the host never
\* learns the composite's ID.
NoCompositeForAbandonedBuild ==
  \A b \in Builds : hostPc[b] = "failed" => rstate[PluginRes(b, Factory)] # "serving"

\* The handler's rollback closes the connections in the reverse order of
\* their acquisition (spec.md 3, ResourceSet; 4.3).
RollbackInReverseOrder ==
  \A b \in Builds : rollback[b] # <<>> => rollback[b] = Reverse(pluginDeps[b])

=============================================================================
