------------------------------ MODULE SinkMemo -------------------------------
(***************************************************************************)
(* What hclSinkAdapter.named and onceValue promise together (median.go     *)
(* 476-482, 510-516): per name, a constructor whose outcome (a logger, or  *)
(* a panic) is decided once, and which every call for that name observes.  *)
(* HCLogSink refines this module.                                          *)
(***************************************************************************)
CONSTANTS
  Goroutines,   \* callers
  Names,        \* the memo's keys
  Outcomes,     \* what the constructor may give
  None          \* not decided, not observed

VARIABLES
  memo,   \* the outcome decided for each name
  got     \* the outcome each goroutine last observed, per name

Init ==
  /\ memo = [n \in Names |-> None]
  /\ got = [g \in Goroutines |-> [n \in Names |-> None]]

\* The constructor for n runs, and its outcome is fixed.
Decide(n) ==
  /\ memo[n] = None
  /\ \E o \in Outcomes : memo' = [memo EXCEPT ![n] = o]
  /\ UNCHANGED got

\* A call for n gets the outcome decided for n.
Observe(g, n) ==
  /\ memo[n] # None
  /\ got' = [got EXCEPT ![g][n] = memo[n]]
  /\ UNCHANGED memo

\* The caller whose constructor panics observes the panic as it is decided.
DecideObserve(g, n) ==
  /\ memo[n] = None
  /\ \E o \in Outcomes :
       /\ memo' = [memo EXCEPT ![n] = o]
       /\ got' = [got EXCEPT ![g][n] = o]

Next ==
  \E n \in Names :
    \/ Decide(n)
    \/ \E g \in Goroutines : Observe(g, n) \/ DecideObserve(g, n)

Spec == Init /\ [][Next]_<<memo, got>>

=============================================================================
