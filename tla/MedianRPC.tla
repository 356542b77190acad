------------------------------ MODULE MedianRPC ------------------------------
(***************************************************************************)
(* The report codec and median contract RPC pairs of the median provider   *)
(* (pkg/loop/internal/median.go): the clients run in the plugin over the  *)
(* MedianProvider connection the plugin dialed while building its         *)
(* composite, the servers in the host around the provider's own           *)
(* implementation.                                                         *)
(*                                                                         *)
(*   reportCodecClient / reportCodecServer      BuildReport,               *)
(*                                              MedianFromReport,          *)
(*                                              MaxReportLength            *)
(*   medianContractClient / medianContractServer LatestTransmissionDetails,*)
(*                                              LatestRoundRequested       *)
(*                                                                         *)
(* Calls share nothing but the plugin's StopCh and the connection, so one  *)
(* call is in flight at a time; Stop and the closing of the connection    *)
(* interleave with every step of it.  A counterpart may be a build of     *)
(* another version: a client that sends Observer fields above uint8, or  *)
(* a server that replies with a digest of the wrong length or a round    *)
(* above uint8.  The implementations behind the servers may fail or never *)
(* answer.                                                                 *)
(***************************************************************************)
EXTENDS Integers, Sequences, PbBigInt

CONSTANTS
  Vals,           \* values of observations, medians and answers
  Observers,      \* commontypes.OracleID values callers pass (uint8)
  WireObservers,  \* uint32 Observer fields a foreign client may send
  Lens,           \* report lengths asked for and answered
  Times,          \* timestamps
  Epochs,         \* epochs
  Digests,        \* config digest identities
  DigestLens,     \* ConfigDigest byte lengths a foreign server may send
  Rounds,         \* rounds the contract implementation returns (uint8)
  WireRounds,     \* uint32 Round fields a foreign server may send
  Lookbacks,      \* lookback durations
  MaxObs,         \* longest observation list tried
  NoArg,          \* no value: nothing passed, received or replied yet
  ImplFailed      \* the implementation returned an error

MaxUint8 == 255
ConfigDigestLen == 32

ReportCodecMethods == {"BuildReport", "MedianFromReport", "MaxReportLength"}
ContractMethods == {"LatestTransmissionDetails", "LatestRoundRequested"}
Methods == ReportCodecMethods \cup ContractMethods

Err == [ok |-> FALSE]
Ok(v) == [ok |-> TRUE, val |-> v]

Lists(S) == UNION {[1..n -> S] : n \in 0..MaxObs}

\* median.ParsedAttributedObservation and its wire form.
Observation == [Timestamp : Times, Value : Vals, JuelsPerFeeCoin : Vals, Observer : Observers]
BigInts == {NewBigIntFromInt(v) : v \in Vals}
WireObservation(obs) ==
  [Timestamp : Times, Value : BigInts, JulesPerFeeCoin : BigInts, Observer : obs]

\* The opaque report the implementation builds from its observations.
Report(obs) == [report |-> obs]
Reports == {Report(o) : o \in Lists(Observation)}

\* A digest: its identity and its byte length.
Digest(d, n) == [id |-> d, len |-> n]

\* What the contract implementation returns.
Details == [digest : Digests, epoch : Epochs, round : Rounds, answer : Vals, ts : Times]
RoundDetails == [digest : Digests, epoch : Epochs, round : Rounds]

\* Replies a foreign contract server may send.
ForeignDetails ==
  [ConfigDigest : {Digest(d, n) : d \in Digests, n \in DigestLens},
   Epoch : Epochs, Round : WireRounds, LatestAnswer : BigInts, LatestTimestamp : Times]
ForeignRoundDetails ==
  [ConfigDigest : {Digest(d, n) : d \in Digests, n \in DigestLens},
   Epoch : Epochs, Round : WireRounds]

-----------------------------------------------------------------------------
(***************************************************************************)
(* The conversions of the two sides.                                       *)
(***************************************************************************)

\* reportCodecClient.BuildReport (lines 218-226): each observation as a
\* pb.ParsedAttributedObservation, Observer widened to uint32.
BuildReportRequest(obs) ==
  [Observations |->
     [i \in DOMAIN obs |->
        [Timestamp |-> obs[i].Timestamp,
         Value |-> NewBigIntFromInt(obs[i].Value),
         JulesPerFeeCoin |-> NewBigIntFromInt(obs[i].JuelsPerFeeCoin),
         Observer |-> obs[i].Observer]]]

\* The observation list reportCodecServer.BuildReport hands to the
\* implementation when every Observer fits.
NativeObservations(ws) ==
  [i \in DOMAIN ws |->
     [Timestamp |-> ws[i].Timestamp,
      Value |-> BigIntInt(ws[i].Value),
      JuelsPerFeeCoin |-> BigIntInt(ws[i].JulesPerFeeCoin),
      Observer |-> ws[i].Observer]]

\* Fault variant of ParseObservations: an Observer of MaxUint8 is rejected.
ParseObservationsOffByOne(ws) ==
  IF \E i \in DOMAIN ws : ws[i].Observer >= MaxUint8 THEN Err
  ELSE Ok(NativeObservations(ws))

\* reportCodecServer.BuildReport (lines 266-279): the first Observer above
\* MaxUint8 fails the whole request.
ParseObservations(ws) ==
  IF \E i \in DOMAIN ws : ws[i].Observer > MaxUint8 THEN Err
  ELSE Ok(NativeObservations(ws))

-----------------------------------------------------------------------------
VARIABLES
  stopped,    \* the plugin broker's StopCh has been closed
  connOpen,   \* the MedianProvider connection the clients use is open
  pc,         \* "idle" | "sent" | "served" | "returned": the call in flight
  method,     \* its method
  peer,       \* the counterpart of the call is a foreign build
  arg,        \* the caller's argument
  req,        \* the request on the wire
  implIn,     \* what the server passed to its implementation, or NoArg
  implOut,    \* what the implementation returned, ImplFailed, or NoArg
  reply,      \* the reply on the wire, or NoArg
  result      \* what the client returned to its caller, or NoArg

vars == <<stopped, connOpen, pc, method, peer, arg, req, implIn, implOut, reply, result>>
callVars == <<method, peer, arg, req>>

Init ==
  /\ stopped = FALSE
  /\ connOpen = TRUE
  /\ pc = "idle"
  /\ method = NoArg /\ peer = FALSE /\ arg = NoArg /\ req = NoArg
  /\ implIn = NoArg /\ implOut = NoArg /\ reply = NoArg /\ result = NoArg

\* newMedianProviderClient (lines 182-189): the report codec client is
\* built around the brokerExt b and its stopCtx; the median contract
\* client gets only the connection.
StopCtxMethods == ReportCodecMethods

Cancelled(m) == m \in StopCtxMethods /\ stopped

\* A client method called: the request goes out, unless its context is
\* already cancelled or the connection closed, when the call fails at once.
Invoke(m, isPeer, a, rq) ==
  /\ pc \in {"idle", "returned"}
  /\ method' = m /\ peer' = isPeer /\ arg' = a /\ req' = rq
  /\ implIn' = NoArg /\ implOut' = NoArg /\ reply' = NoArg
  /\ IF Cancelled(m) \/ ~connOpen
     THEN pc' = "returned" /\ result' = Err
     ELSE pc' = "sent" /\ result' = NoArg
  /\ UNCHANGED <<stopped, connOpen>>

\* reportCodecClient.BuildReport (lines 214-228), and the same request
\* from a foreign client.
ClientBuildReport(obs) == Invoke("BuildReport", FALSE, obs, BuildReportRequest(obs))
ForeignBuildReport(ws) == Invoke("BuildReport", TRUE, NoArg, [Observations |-> ws])

\* reportCodecClient.MedianFromReport (lines 236-240).
ClientMedianFromReport(rep) == Invoke("MedianFromReport", FALSE, rep, [Report |-> rep])

\* reportCodecClient.MaxReportLength (lines 247-251).
ClientMaxReportLength(n) == Invoke("MaxReportLength", FALSE, n, [N |-> n])

\* medianContractClient.LatestTransmissionDetails (lines 310-311) and
\* LatestRoundRequested (line 332), answered by a server of this build or
\* of another.
ClientLatestTransmissionDetails(isPeer) ==
  Invoke("LatestTransmissionDetails", isPeer, NoArg, [none |-> NoArg])
ClientLatestRoundRequested(lb, isPeer) ==
  Invoke("LatestRoundRequested", isPeer, lb, [Lookback |-> lb])

\* A server step: the implementation got in and returned out, and rep
\* goes back on the wire.
Answer(m, in, out, rep) ==
  /\ pc = "sent" /\ method = m
  /\ pc' = "served"
  /\ implIn' = in /\ implOut' = out /\ reply' = rep
  /\ UNCHANGED <<stopped, connOpen, callVars, result>>

\* reportCodecServer.BuildReport (lines 265-285).
ServerBuildReport(fail) ==
  LET p == ParseObservations(req.Observations)
  IN  /\ pc = "sent" /\ method = "BuildReport"
      /\ IF p.ok
         THEN Answer("BuildReport", p.val, IF fail THEN ImplFailed ELSE Report(p.val),
                     IF fail THEN Err ELSE Ok([Report |-> Report(p.val)]))
         ELSE Answer("BuildReport", NoArg, NoArg, Err)

\* reportCodecServer.MedianFromReport (lines 287-293).
ServerMedianFromReport(m, fail) ==
  Answer("MedianFromReport", req.Report, IF fail THEN ImplFailed ELSE m,
         IF fail THEN Err ELSE Ok([Median |-> NewBigIntFromInt(m)]))

\* reportCodecServer.MaxReportLength (lines 295-301).
ServerMaxReportLength(l, fail) ==
  Answer("MaxReportLength", req.N, IF fail THEN ImplFailed ELSE l,
         IF fail THEN Err ELSE Ok([Max |-> l]))

\* medianContractServer.LatestTransmissionDetails (lines 357-370).
ServerLatestTransmissionDetails(d, fail) ==
  /\ ~peer
  /\ Answer("LatestTransmissionDetails", NoArg, IF fail THEN ImplFailed ELSE d,
            IF fail THEN Err
            ELSE Ok([ConfigDigest |-> Digest(d.digest, ConfigDigestLen), Epoch |-> d.epoch,
                     Round |-> d.round, LatestAnswer |-> NewBigIntFromInt(d.answer),
                     LatestTimestamp |-> d.ts]))

\* medianContractServer.LatestRoundRequested (lines 372-383).
ServerLatestRoundRequested(d, fail) ==
  /\ ~peer
  /\ Answer("LatestRoundRequested", req.Lookback, IF fail THEN ImplFailed ELSE d,
            IF fail THEN Err
            ELSE Ok([ConfigDigest |-> Digest(d.digest, ConfigDigestLen), Epoch |-> d.epoch,
                     Round |-> d.round]))

\* A foreign contract server's reply.
ForeignAnswer(m, w) == peer /\ Answer(m, NoArg, NoArg, Ok(w))

\* The client takes the reply and returns res to its caller.
Return(m, res) ==
  /\ pc = "served" /\ method = m
  /\ pc' = "returned" /\ result' = res
  /\ UNCHANGED <<stopped, connOpen, callVars, implIn, implOut, reply>>

\* reportCodecClient.BuildReport (lines 228-233).
ReceiveBuildReport == Return("BuildReport", IF reply.ok THEN Ok(reply.val.Report) ELSE Err)

\* reportCodecClient.MedianFromReport (lines 241-244).
ReceiveMedianFromReport ==
  Return("MedianFromReport", IF reply.ok THEN Ok(BigIntInt(reply.val.Median)) ELSE Err)

\* Fault variant of ReceiveMaxReportLength: the error is dropped and -1
\* returned as the length.
ReceiveMaxReportLengthNilErr ==
  Return("MaxReportLength", IF reply.ok THEN Ok(reply.val.Max) ELSE Ok(-1))

\* reportCodecClient.MaxReportLength (lines 252-255).
ReceiveMaxReportLength == Return("MaxReportLength", IF reply.ok THEN Ok(reply.val.Max) ELSE Err)

\* medianContractClient.LatestTransmissionDetails (lines 312-328).
ReceiveLatestTransmissionDetails ==
  LET r == reply.val
  IN  Return("LatestTransmissionDetails",
             CASE ~reply.ok                           -> Err
               [] r.ConfigDigest.len # ConfigDigestLen -> Err
               [] r.Round > MaxUint8                  -> Err
               [] OTHER -> Ok([digest |-> r.ConfigDigest.id, epoch |-> r.Epoch,
                               round |-> r.Round, answer |-> BigIntInt(r.LatestAnswer),
                               ts |-> r.LatestTimestamp]))

\* Fault variant of ReceiveLatestRoundRequested: the Round check is
\* missing and uint8(reply.Round) truncates.
ReceiveLatestRoundRequestedUnchecked ==
  LET r == reply.val
  IN  Return("LatestRoundRequested",
             CASE ~reply.ok                           -> Err
               [] r.ConfigDigest.len # ConfigDigestLen -> Err
               [] OTHER -> Ok([digest |-> r.ConfigDigest.id, epoch |-> r.Epoch,
                               round |-> r.Round % (MaxUint8 + 1)]))

\* medianContractClient.LatestRoundRequested (lines 333-347).
ReceiveLatestRoundRequested ==
  LET r == reply.val
  IN  Return("LatestRoundRequested",
             CASE ~reply.ok                           -> Err
               [] r.ConfigDigest.len # ConfigDigestLen -> Err
               [] r.Round > MaxUint8                  -> Err
               [] OTHER -> Ok([digest |-> r.ConfigDigest.id, epoch |-> r.Epoch,
                               round |-> r.Round]))

\* A call in flight ends with the context's error when StopCh cancels it or
\* the connection closes under it; a reply already sent is dropped.
CancelCall ==
  /\ pc \in {"sent", "served"}
  /\ Cancelled(method) \/ ~connOpen
  /\ pc' = "returned" /\ result' = Err /\ reply' = NoArg
  /\ UNCHANGED <<stopped, connOpen, callVars, implIn, implOut>>

\* The caller's own ctx of a median contract call ends it.
CallerCtxDone ==
  /\ pc \in {"sent", "served"} /\ method \in ContractMethods
  /\ pc' = "returned" /\ result' = Err /\ reply' = NoArg
  /\ UNCHANGED <<stopped, connOpen, callVars, implIn, implOut>>

Stop ==
  /\ ~stopped
  /\ stopped' = TRUE
  /\ UNCHANGED <<connOpen, pc, callVars, implIn, implOut, reply, result>>

\* The provider connection closes under the calls: its owner closes it or
\* the transport fails (spec.md 4.2, "the underlying transport refuses").
\* Nothing in the repository closes it on StopCh.
ConnClosed ==
  /\ connOpen
  /\ connOpen' = FALSE
  /\ UNCHANGED <<stopped, pc, callVars, implIn, implOut, reply, result>>

Next ==
  \/ \E obs \in Lists(Observation) : ClientBuildReport(obs)
  \/ \E ws \in Lists(WireObservation(WireObservers)) : ForeignBuildReport(ws)
  \/ \E rep \in Reports : ClientMedianFromReport(rep)
  \/ \E n \in Lens : ClientMaxReportLength(n)
  \/ \E isPeer \in BOOLEAN : ClientLatestTransmissionDetails(isPeer)
  \/ \E lb \in Lookbacks, isPeer \in BOOLEAN : ClientLatestRoundRequested(lb, isPeer)
  \/ \E fail \in BOOLEAN :
       \/ ServerBuildReport(fail)
       \/ \E m \in Vals : ServerMedianFromReport(m, fail)
       \/ \E l \in Lens : ServerMaxReportLength(l, fail)
       \/ \E d \in Details : ServerLatestTransmissionDetails(d, fail)
       \/ \E d \in RoundDetails : ServerLatestRoundRequested(d, fail)
  \/ \E w \in ForeignDetails : ForeignAnswer("LatestTransmissionDetails", w)
  \/ \E w \in ForeignRoundDetails : ForeignAnswer("LatestRoundRequested", w)
  \/ ReceiveBuildReport
  \/ ReceiveMedianFromReport
  \/ ReceiveMaxReportLength
  \/ ReceiveLatestTransmissionDetails
  \/ ReceiveLatestRoundRequested
  \/ CancelCall
  \/ CallerCtxDone
  \/ Stop
  \/ ConnClosed

\* A client blocked on a reply gets it, and a call whose context is
\* cancelled ends.  The implementations, the callers, Stop and the
\* closing of the connection may wait forever.
Fairness ==
  /\ WF_vars(ReceiveBuildReport) /\ WF_vars(ReceiveMedianFromReport)
  /\ WF_vars(ReceiveMaxReportLength) /\ WF_vars(ReceiveLatestTransmissionDetails)
  /\ WF_vars(ReceiveLatestRoundRequested)
  /\ WF_vars(CancelCall)

Spec == Init /\ [][Next]_vars /\ Fairness

-----------------------------------------------------------------------------
(***************************************************************************)
(* Properties.                                                             *)
(***************************************************************************)

ResultType(m) ==
  CASE m = "BuildReport"               -> Reports
    [] m = "MedianFromReport"          -> Vals
    [] m = "MaxReportLength"           -> Lens
    [] m = "LatestTransmissionDetails" -> Details
    [] OTHER                           -> RoundDetails

TypeOK ==
  /\ stopped \in BOOLEAN /\ connOpen \in BOOLEAN /\ peer \in BOOLEAN
  /\ pc \in {"idle", "sent", "served", "returned"}
  /\ method \in Methods \cup {NoArg}
  /\ result = NoArg \/ result = Err \/ (result.ok /\ result.val \in ResultType(method))

\* What the caller of a client must get back when the implementation on
\* the other side returned out: for BuildReport the report of exactly the
\* caller's observations (spec.md 8, "server-side decode must reconstruct
\* the identical tuple"), otherwise the implementation's value.
Expected(m, a, out) == IF m = "BuildReport" THEN Report(a) ELSE out

\* End to end through both conversions: when a counterpart of this build
\* answered, the client returns the implementation's value unchanged, or
\* an error exactly when the implementation failed.  Covers the uint8
\* Observer check of reportCodecServer.BuildReport never rejecting a
\* genuine observer and the sign-magnitude conversions in both directions.
CallerSeesImpl ==
  pc = "returned" /\ ~peer /\ reply # NoArg =>
    result = IF implOut = ImplFailed THEN Err ELSE Ok(Expected(method, arg, implOut))

\* Bounds-checked conversion (spec.md 4.4, 8.5), against a counterpart of
\* any build: a BuildReport request reaches the implementation exactly when
\* every Observer fits uint8, and a contract reply is returned as a success
\* exactly when its digest has 32 bytes and its Round fits uint8.
WireValidation ==
  pc = "returned" /\ reply # NoArg =>
    /\ method = "BuildReport" =>
         ((implIn # NoArg) <=> \A i \in DOMAIN req.Observations :
                                  req.Observations[i].Observer <= MaxUint8)
    /\ method \in ContractMethods /\ reply.ok =>
         (result.ok <=> /\ reply.val.ConfigDigest.len = ConfigDigestLen
                        /\ reply.val.Round <= MaxUint8)

\* A step that puts a request on the wire.
StartsRoundTrip == pc # "sent" /\ pc' = "sent"

\* spec.md 5: once the stop channel fires, "subsequent calls fail
\* immediately rather than attempting a new round trip", for every call
\* on the broker.
NoRoundTripAfterStop == [][stopped => ~StartsRoundTrip]_vars

====
