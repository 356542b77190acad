----------------------------- MODULE HCLogSink ------------------------------
(***************************************************************************)
(* hclSinkAdapter (median.go 459-497) and onceValue (median.go 510-540).   *)
(*                                                                         *)
(* Goroutines of the plugin log through hclog, which calls the sink's      *)
(* Accept concurrently.  Accept asks named(name) for a logger: named       *)
(* builds a fresh onceValue around logger.Named(h.l, name), keeps the one  *)
(* already stored under the name if there is one (sync.Map LoadOrStore),   *)
(* and calls it.  The onceValue runs its constructor inside sync.Once;     *)
(* the constructor may panic (logger.Named's reflective call, Logger.tla). *)
(*                                                                         *)
(* Every named call's onceValue is the pair <<g, k>>: the k-th call of     *)
(* goroutine g.  Its state is the sync.Once (st: "new", "running" while a  *)
(* goroutine is inside Do, "done") and the closure's valid, p and result.  *)
(***************************************************************************)
EXTENDS Logger, Naturals, FiniteSets

CONSTANTS
  Goroutines,   \* goroutines logging through the hclog logger
  Names,        \* hclog logger names passed to Accept
  HclLevels,    \* hclog levels
  Bases,        \* the loggers h.l the adapter may be built with
  MaxCalls,     \* Accept calls per goroutine
  NoOnce,       \* no onceValue stored under the name
  NoPanic,      \* recover() returning nil
  None          \* a name this goroutine has not logged under

VARIABLES
  base,   \* h.l
  m,      \* h.m: the sync.Map from name to onceValue
  once,   \* the state of each onceValue
  pc,     \* where each goroutine is in Accept
  calls,  \* Accept calls each goroutine has made
  cur,    \* the name of the goroutine's current Accept
  fn,     \* v: the onceValue the goroutine's named call uses
  got,    \* what the goroutine last got from named, per name
  wrote   \* the level of the last entry the goroutine wrote

vars == <<base, m, once, pc, calls, cur, fn, got, wrote>>

OnceIds == Goroutines \X (1..MaxCalls)
NilLogger == [impl |-> "nil", name |-> "", zname |-> "", path |-> <<>>, cleared |-> FALSE]
NewOnce == [st |-> "new", valid |-> FALSE, p |-> NoPanic, result |-> NilLogger]

\* What a call of a onceValue gives its caller: the logger it returns, with
\* the onceValue whose result it is, or the value it panics with.
Returned(o, l) == [ok |-> TRUE, from |-> o, val |-> l]
Panicked(v) == [ok |-> FALSE, from |-> NoOnce, val |-> v]

Init ==
  /\ base \in Bases
  /\ m = [n \in Names |-> NoOnce]
  /\ once = [o \in OnceIds |-> NewOnce]
  /\ pc = [g \in Goroutines |-> "idle"]
  /\ calls = [g \in Goroutines |-> 0]
  /\ cur = [g \in Goroutines |-> CHOOSE n \in Names : TRUE]
  /\ fn = [g \in Goroutines |-> NoOnce]
  /\ got = [g \in Goroutines |-> [n \in Names |-> None]]
  /\ wrote = [g \in Goroutines |-> "none"]

-----------------------------------------------------------------------------
(***************************************************************************)
(* adapterNamed is hclSinkAdapter.named (lines 476-482) up to the call of  *)
(* the onceValue: a new onceValue, and LoadOrStore keeping the first one   *)
(* stored under the name.                                                  *)
(***************************************************************************)

\* Fault variant of adapterNamed: Load, then Store if nothing was loaded,
\* and call what Load returned.
adapterNamedLoadThenStore(g, name) ==
  LET onceVal == <<g, calls[g] + 1>>
  IN  /\ m' = IF m[name] = NoOnce THEN [m EXCEPT ![name] = onceVal] ELSE m
      /\ fn' = [fn EXCEPT ![g] = m[name]]

\* Fault variant of adapterNamed: the goroutine calls the onceValue it built,
\* whatever LoadOrStore returned.
adapterNamedOwnOnce(g, name) ==
  LET onceVal == <<g, calls[g] + 1>>
  IN  /\ m' = IF m[name] = NoOnce THEN [m EXCEPT ![name] = onceVal] ELSE m
      /\ fn' = [fn EXCEPT ![g] = onceVal]

adapterNamed(g, name) ==
  LET onceVal == <<g, calls[g] + 1>>
      v == IF m[name] = NoOnce THEN onceVal ELSE m[name]
  IN  /\ m' = [m EXCEPT ![name] = v]
      /\ fn' = [fn EXCEPT ![g] = v]

\* Accept (lines 484-485): the call of named starts.
AcceptBegin(g) ==
  /\ pc[g] = "idle"
  /\ calls[g] < MaxCalls
  /\ \E name \in Names :
       /\ adapterNamed(g, name)
       /\ cur' = [cur EXCEPT ![g] = name]
  /\ calls' = [calls EXCEPT ![g] = @ + 1]
  /\ pc' = [pc EXCEPT ![g] = "do"]
  /\ UNCHANGED <<base, once, got, wrote>>

-----------------------------------------------------------------------------
(***************************************************************************)
(* The function onceValue returns (lines 533-539), and g (lines 523-532).  *)
(***************************************************************************)

\* once.Do(g) (line 534): done returns at once; otherwise the goroutine
\* takes the Once's mutex, which waits while another goroutine runs g.
OnceDo(g) ==
  LET o == fn[g] IN
  /\ pc[g] = "do"
  /\ once[o].st # "running"
  /\ IF once[o].st = "done"
       THEN /\ pc' = [pc EXCEPT ![g] = "check"]
            /\ UNCHANGED once
       ELSE /\ once' = [once EXCEPT ![o].st = "running"]
            /\ pc' = [pc EXCEPT ![g] = "f"]
  /\ UNCHANGED <<base, m, calls, cur, fn, got, wrote>>

\* g inside Do: result = f() with f = logger.Named(h.l, name), then
\* valid = true; the deferred recover stores p (nil on a normal return) and
\* re-panics if f did not finish.  Do marks the Once done either way, and
\* the panic leaves Do, named and Accept.
RunG(g) ==
  LET o == fn[g]
      r == Named(base, cur[g])
  IN  /\ pc[g] = "f"
      /\ IF r.ok
           THEN /\ once' = [once EXCEPT ![o] = [st |-> "done", valid |-> TRUE,
                                               p |-> NoPanic, result |-> r.val]]
                /\ pc' = [pc EXCEPT ![g] = "check"]
                /\ UNCHANGED got
           ELSE /\ once' = [once EXCEPT ![o] = [st |-> "done", valid |-> FALSE,
                                               p |-> r.val, result |-> NilLogger]]
                /\ pc' = [pc EXCEPT ![g] = "panicked"]
                /\ got' = [got EXCEPT ![g][cur[g]] = Panicked(r.val)]
      /\ UNCHANGED <<base, m, calls, cur, fn, wrote>>

\* Accept's level switch (lines 486-496): Debug and Trace to Debugw, Info,
\* Warn and Error to their own; NoLevel, and any other level, writes nothing.
Dispatch(level) ==
  CASE level \in {"Debug", "Trace"} -> "debug"
    [] level = "Info"               -> "info"
    [] level = "Warn"               -> "warn"
    [] level = "Error"              -> "error"
    [] OTHER                        -> "none"

\* Fault variant of ReturnAndLog: the result is returned without checking
\* valid, as when the check after Do is left out.
ReturnUncheckedAndLog(g) ==
  LET o == fn[g] IN
  /\ pc[g] = "check"
  /\ got' = [got EXCEPT ![g][cur[g]] = Returned(o, once[o].result)]
  /\ \E level \in HclLevels : wrote' = [wrote EXCEPT ![g] = Dispatch(level)]
  /\ pc' = [pc EXCEPT ![g] = "idle"]
  /\ UNCHANGED <<base, m, once, calls, cur, fn>>

\* After Do (lines 535-538): panic(p) if the value is not valid, else the
\* result goes back to Accept, which writes the entry at its level (the
\* level is Accept's argument; it is first used here).
ReturnAndLog(g) ==
  LET o == fn[g] IN
  /\ pc[g] = "check"
  /\ IF once[o].valid
       THEN /\ got' = [got EXCEPT ![g][cur[g]] = Returned(o, once[o].result)]
            /\ \E level \in HclLevels : wrote' = [wrote EXCEPT ![g] = Dispatch(level)]
            /\ pc' = [pc EXCEPT ![g] = "idle"]
       ELSE /\ got' = [got EXCEPT ![g][cur[g]] = Panicked(once[o].p)]
            /\ pc' = [pc EXCEPT ![g] = "panicked"]
            /\ UNCHANGED wrote
  /\ UNCHANGED <<base, m, once, calls, cur, fn>>

Step(g) == AcceptBegin(g) \/ OnceDo(g) \/ RunG(g) \/ ReturnAndLog(g)

Next == \E g \in Goroutines : Step(g)

Spec == Init /\ [][Next]_vars

-----------------------------------------------------------------------------
(***************************************************************************)
(* Properties                                                              *)
(***************************************************************************)

\* Each variable holds a value of its kind.
TypeOK ==
  /\ m \in [Names -> OnceIds \cup {NoOnce}]
  /\ \A o \in OnceIds : once[o].st \in {"new", "running", "done"}
  /\ pc \in [Goroutines -> {"idle", "do", "f", "check", "panicked"}]
  /\ calls \in [Goroutines -> 0..MaxCalls]
  /\ cur \in [Goroutines -> Names]
  /\ fn \in [Goroutines -> OnceIds \cup {NoOnce}]
  /\ \A g \in Goroutines : pc[g] \in {"do", "f", "check"} => fn[g] \in OnceIds
  /\ wrote \in [Goroutines -> {"none", "debug", "info", "warn", "error"}]

\* The onceValue stored under n has run its constructor.
Decided(n) == m[n] # NoOnce /\ once[m[n]].st = "done"

\* What a call of the onceValue o gives once it has run.
OutcomeOf(o) == IF once[o].valid THEN Returned(o, once[o].result) ELSE Panicked(once[o].p)

Memo == INSTANCE SinkMemo WITH
  memo <- [n \in Names |-> IF Decided(n) THEN OutcomeOf(m[n]) ELSE None],
  Outcomes <- {Returned(o, Named(b, n).val) : o \in OnceIds, b \in Bases, n \in Names}
                \cup {Panicked(PanicVal)}

\* named and onceValue together (lines 476-482, 516-540) implement SinkMemo:
\* whatever the interleaving, the outcome for a name is fixed by the one
\* onceValue LoadOrStore kept, and every call for the name gets that
\* logger, or panics with that value ("If f panics, the returned function
\* will panic with the same value on every call", line 513).
MemoRefinement == Memo!Spec

=============================================================================
