---------------------------- MODULE MCHCLogSink -----------------------------
(***************************************************************************)
(* HCLogSink for TLC.  The adapter's logger h.l is either a *logger named  *)
(* "MedianService", as median_service.go line 34 names the service's       *)
(* logger, or an implementation whose Named method takes a parameter of    *)
(* another type, so that logger.Named panics.                              *)
(***************************************************************************)
EXTENDS HCLogSink, TLC

CONSTANTS fWrong, g1, g2

MCForeignImpls == {fWrong}
MCSig == [f \in MCForeignImpls |-> [k \in {"Named", "With", "Helper"} |-> "wrongParam"]]
MCHasCritical == [f \in MCForeignImpls |-> {}]

MCGoroutines == {g1, g2}
MCNames == {"", "plugin"}
MCHclLevels == {"NoLevel", "Trace", "Debug", "Info", "Warn", "Error", "Off"}
MCBases == {named(NewLogger, "MedianService"), ForeignLogger(fWrong)}

=============================================================================
