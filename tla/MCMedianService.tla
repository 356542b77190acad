--------------------------- MODULE MCMedianService --------------------------
(***************************************************************************)
(* MedianService for TLC: two concurrent NewReportingPlugin callers, and a *)
(* subprocess that dispenses a PluginMedian or a value of another type.    *)
(***************************************************************************)
EXTENDS MedianService

CONSTANTS c1, c2

MCCallers == {c1, c2}
MCInstances == {"PluginMedian", "Other"}

=============================================================================
