------------------------------- MODULE Logger -------------------------------
(***************************************************************************)
(* The logger facade of pkg/logger/logger.go as operators on logger values.*)
(*                                                                         *)
(* A logger is either the package's own *logger (impl "zap"), a wrapper    *)
(* of a zap SugaredLogger with a name of its own, or an implementation of  *)
(* the Logger interface from elsewhere.  The package-level functions       *)
(* Named, With and Helper use the *logger method when they can, and        *)
(* otherwise look the method up by reflection; what an implementation's   *)
(* method looks like is the constant Sig.                                  *)
(*                                                                         *)
(* A logger value records                                                  *)
(*   name    - what its Name() reports (the *logger's name field);         *)
(*   zname   - the name zap writes its entries under;                      *)
(*   path    - the names passed to Named to derive it;                     *)
(*   cleared - With was applied on the way.                                *)
(* Messages, fields and caller skips are not represented.                  *)
(***************************************************************************)
EXTENDS Sequences

CONSTANTS
  ForeignImpls,   \* Logger implementations other than *logger
  Sig,            \* [ForeignImpls -> [{"Named","With","Helper"} -> SigKinds]]
  HasCritical,    \* [ForeignImpls -> SUBSET CriticalForms]: its Critical* methods
  PanicVal        \* the value reflect panics with

(***************************************************************************)
(* How an implementation's method of that name looks to reflection:        *)
(*   "absent"      no such method;                                         *)
(*   "exact"       the documented signature, returning a Logger;           *)
(*   "nonLogger"   one result that is not a Logger;                        *)
(*   "twoResults"  more than one result;                                   *)
(*   "noResults"   no result;                                              *)
(*   "wrongParam"  a parameter the call's argument is not assignable to.   *)
(***************************************************************************)
SigKinds == {"absent", "exact", "nonLogger", "twoResults", "noResults", "wrongParam"}

Ok(l) == [ok |-> TRUE, val |-> l]
Panic == [ok |-> FALSE, val |-> PanicVal]

\* A fresh *logger from New, NewWith, Test, TestObserved or Nop (lines 47-90).
NewLogger == [impl |-> "zap", name |-> "", zname |-> "", path |-> <<>>, cleared |-> FALSE]

\* An implementation from elsewhere.
ForeignLogger(f) == [impl |-> f, name |-> "", zname |-> "", path |-> <<>>, cleared |-> FALSE]

\* zap's (*Logger).Named, which the SugaredLogger's Named calls: an empty
\* name leaves the logger as it is, otherwise it is joined with a dot.
ZapNamed(zn, s) == IF s = "" THEN zn ELSE IF zn = "" THEN s ELSE zn \o "." \o s

(***************************************************************************)
(* The *logger methods.                                                    *)
(***************************************************************************)

\* Fault variant of joinName: the separator is added to an empty name too.
joinNameAlwaysDot(old, new) == old \o "." \o new

\* joinName (lines 101-106).
joinName(old, new) == IF old = "" THEN new ELSE old \o "." \o new

\* (*logger).named (lines 108-113).
named(l, n) ==
  [l EXCEPT !.name = joinName(l.name, n), !.zname = ZapNamed(l.zname, n),
            !.path = Append(@, n)]

\* (*logger).with (lines 97-99): a new *logger around the SugaredLogger
\* with the fields, and an empty name.
with(l) == [l EXCEPT !.name = "", !.cleared = TRUE]

\* (*logger).helper (lines 119-125): the same name, more callers skipped.
helper(l) == l

(***************************************************************************)
(* The package-level functions.                                            *)
(***************************************************************************)

\* Fault variant of Reflective: the first result is kept whatever it is,
\* without the check that it is a Logger.
ReflectiveUnchecked(l, m, own) ==
  CASE Sig[l.impl][m] = "exact"      -> Ok(own)
    [] Sig[l.impl][m] = "wrongParam" -> Panic
    [] Sig[l.impl][m] = "absent"     -> Ok(l)
    [] OTHER                         -> Ok([l EXCEPT !.impl = Sig[l.impl][m]])

\* The reflective path of Named, With and Helper: the method looked up by
\* name, called, and its single result kept if it is a Logger.  A method
\* whose parameter does not take the argument makes the reflective call
\* panic.  own is what the implementation's method returns.
Reflective(l, m, own) ==
  CASE Sig[l.impl][m] = "exact"      -> Ok(own)
    [] Sig[l.impl][m] = "wrongParam" -> Panic
    [] OTHER                         -> Ok(l)

\* Named (lines 148-165).  An implementation's own Named is taken to add
\* the name to its path.
Named(l, n) ==
  IF l.impl = "zap" THEN Ok(named(l, n))
  ELSE Reflective(l, "Named", [l EXCEPT !.path = Append(@, n)])

\* With (lines 128-145).
With(l) ==
  IF l.impl = "zap" THEN Ok(with(l))
  ELSE Reflective(l, "With", [l EXCEPT !.cleared = TRUE])

\* Helper (lines 169-186).
Helper(l) ==
  IF l.impl = "zap" THEN Ok(helper(l))
  ELSE Reflective(l, "Helper", l)

\* The three entry points Critical, Criticalf and Criticalw.
CriticalForms == {"Critical", "Criticalf", "Criticalw"}

\* Critical, Criticalf and Criticalw (lines 188-237): the entry written,
\* at DPanic for a *logger, by the implementation's own method of that
\* form if it has one, or else at error level with a "[crit] " prefix.
Critical(l, form) ==
  CASE l.impl = "zap"             -> [level |-> "dpanic", prefix |-> FALSE]
    [] form \in HasCritical[l.impl] -> [level |-> "critical", prefix |-> FALSE]
    [] OTHER                     -> [level |-> "error", prefix |-> TRUE]

=============================================================================
