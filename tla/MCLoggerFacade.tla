--------------------------- MODULE MCLoggerFacade ---------------------------
(***************************************************************************)
(* LoggerFacade for TLC.  Three implementations from elsewhere:            *)
(*   fExact   - has Named and With of the documented form, no Helper, and  *)
(*              Critical and Criticalw but not Criticalf;                  *)
(*   fOdd     - Named returns a non-Logger, With returns two results,      *)
(*              Helper returns nothing, no Critical methods;               *)
(*   fWrong   - Named takes an int, With is not variadic, Helper takes a   *)
(*              string: each reflective call panics.                       *)
(***************************************************************************)
EXTENDS LoggerFacade, TLC

CONSTANTS fExact, fOdd, fWrong

MCForeignImpls == {fExact, fOdd, fWrong}

MCSig ==
  [f \in MCForeignImpls |->
     CASE f = fExact -> ("Named" :> "exact" @@ "With" :> "exact" @@ "Helper" :> "absent")
       [] f = fOdd   -> ("Named" :> "nonLogger" @@ "With" :> "twoResults" @@ "Helper" :> "noResults")
       [] f = fWrong -> [m \in {"Named", "With", "Helper"} |-> "wrongParam"]]

MCHasCritical ==
  [f \in MCForeignImpls |-> IF f = fExact THEN {"Critical", "Criticalw"} ELSE {}]

\* Names as the code passes them: a plugin's name, a sub-logger's name,
\* and the empty string.
MCNameParts == {"", "Median", "Sink"}

=============================================================================
