---------------------------- MODULE LoggerFacade ----------------------------
(***************************************************************************)
(* A caller of pkg/logger: it starts from a fresh logger (New, Test, Nop,  *)
(* or an implementation from elsewhere) and applies the package functions  *)
(* Named, With, Helper and Critical/Criticalf/Criticalw to the logger it   *)
(* holds.  Each action is one call and its whole effect: the new logger,   *)
(* the entry written, or the panic of the reflective call.                 *)
(***************************************************************************)
EXTENDS Logger, Naturals

CONSTANTS
  NameParts,   \* the names passed to Named
  MaxDepth     \* the most Named calls on the way to one logger

VARIABLES
  lggr,     \* the logger the caller holds
  outcome   \* what the last call did

vars == <<lggr, outcome>>

Calls == {"none", "Named", "With", "Helper"} \cup CriticalForms
Levels == {"none", "dpanic", "critical", "error", "warn"}
NoEntry == [level |-> "none", prefix |-> FALSE]
Outcome(c, p, e) == [call |-> c, panicked |-> p, entry |-> e]

Roots == {NewLogger} \cup {ForeignLogger(f) : f \in ForeignImpls}

Init ==
  /\ lggr \in Roots
  /\ outcome = Outcome("none", FALSE, NoEntry)

\* A logger from New, NewWith, Test, TestObserved, Nop, or elsewhere.
Start ==
  /\ \E r \in Roots : lggr' = r
  /\ outcome' = Outcome("none", FALSE, NoEntry)

\* The result of a package function: the caller holds the logger it
\* returns, or the call panics and the caller keeps what it had.
Apply(c, r) ==
  /\ lggr' = IF r.ok THEN r.val ELSE lggr
  /\ outcome' = Outcome(c, ~r.ok, NoEntry)

CallNamed ==
  /\ Len(lggr.path) < MaxDepth
  /\ \E n \in NameParts : Apply("Named", Named(lggr, n))

CallWith == Apply("With", With(lggr))

CallHelper == Apply("Helper", Helper(lggr))

CallCritical ==
  \E form \in CriticalForms :
    /\ outcome' = Outcome(form, FALSE, Critical(lggr, form))
    /\ UNCHANGED lggr

Next == Start \/ CallNamed \/ CallWith \/ CallHelper \/ CallCritical

Spec == Init /\ [][Next]_vars

-----------------------------------------------------------------------------
(***************************************************************************)
(* Properties                                                              *)
(***************************************************************************)

\* Each variable holds a value of its kind.
TypeOK ==
  /\ lggr.impl \in {"zap"} \cup ForeignImpls
  /\ lggr.cleared \in BOOLEAN
  /\ Len(lggr.path) <= MaxDepth
  /\ outcome.call \in Calls
  /\ outcome.panicked \in BOOLEAN
  /\ outcome.entry.level \in Levels

\* A dotted name, built from the front: the reference reading of "a logger
\* named a, then b, then c is a.b.c".
RECURSIVE JoinDots(_)
JoinDots(s) ==
  IF s = <<>> THEN ""
  ELSE IF Len(s) = 1 THEN Head(s)
  ELSE JoinDots(SubSeq(s, 1, Len(s) - 1)) \o "." \o s[Len(s)]

\* Named and Helper on a *logger (named, joinName, helper at lines 101-121):
\* a logger named with non-empty names n1, ..., nk, with Helper calls
\* anywhere between, reports the name n1.n2...nk.
NamesJoinPath ==
  (lggr.impl = "zap" /\ ~lggr.cleared /\ \A i \in 1..Len(lggr.path) : lggr.path[i] # "")
    => lggr.name = JoinDots(lggr.path)

\* The doc comments of With, Named and Helper (lines 127, 147, 167): they
\* return a new logger if l has a method `With(...interface{}) L`,
\* `Named(string) L` or `Helper(int) L` with L a Logger, "otherwise it
\* returns l".  None of the three panics, whatever l's methods look like.
ReflectiveFallsBackToL ==
  outcome.call \in {"Named", "With", "Helper"} => ~outcome.panicked

\* The wrapper's name mirrors zap's: the Name() of a *logger is the name
\* its entries are written under.  named (lines 108-113) renames both;
\* with (line 98) resets only Name(), and joinName (lines 101-106) adds a
\* dot for an empty name, which zap's Named ignores.
NameMatchesLoggerName ==
  lggr.impl = "zap" => lggr.name = lggr.zname

=============================================================================
