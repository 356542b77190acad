---------------------------- MODULE MedianService ---------------------------
(***************************************************************************)
(* MedianService (pkg/loop/median_service.go) over the subprocess          *)
(* lifecycle manager pluginService.                                        *)
(*                                                                         *)
(* pluginService is not in the repository; its lifecycle is taken from     *)
(* spec.md 4.1: NotStarted -> Starting -> Ready, a LifecycleError fatal to *)
(* the instance ("Failed", with its cause), and Stopped, absorbing, from   *)
(* any state once the stop channel closes.  The code of the repository is  *)
(* the newService closure that checks the dispensed instance and builds    *)
(* the factory, and NewReportingPlugin, which waits for the service and    *)
(* then calls the factory.  Callers of NewReportingPlugin run concurrently *)
(* with the lifecycle.                                                     *)
(***************************************************************************)
EXTENDS Naturals

CONSTANTS
  Callers,     \* goroutines calling NewReportingPlugin
  Instances,   \* what the subprocess may dispense: "PluginMedian" or another type
  None         \* no factory, no result yet

VARIABLES
  lc,          \* the lifecycle state of pluginService
  cause,       \* the LifecycleError a Failed instance reports
  stopClosed,  \* stopCh is closed
  service,     \* m.service: the factory newService built
  pc,          \* where each caller is in NewReportingPlugin
  res          \* what each caller's NewReportingPlugin returned

vars == <<lc, cause, stopClosed, service, pc, res>>

Causes == {"none", "launch", "handshake", "typeMismatch", "factory"}

\* NewMedianService (lines 25-39): stopCh made, the service not started.
Init ==
  /\ lc = "NotStarted"
  /\ cause = "none"
  /\ stopClosed = FALSE
  /\ service = None
  /\ pc = [c \in Callers |-> "idle"]
  /\ res = [c \in Callers |-> None]

-----------------------------------------------------------------------------
(***************************************************************************)
(* The lifecycle (spec.md 4.1).                                            *)
(***************************************************************************)

\* Start: a fresh command from cmd launches the subprocess.
Start ==
  /\ lc = "NotStarted"
  /\ lc' = "Starting"
  /\ UNCHANGED <<cause, stopClosed, service, pc, res>>

Fail(c) ==
  /\ lc' = "Failed"
  /\ cause' = c
  /\ UNCHANGED <<stopClosed, service, pc, res>>

\* The subprocess fails to start, or the handshake times out.
StartFails ==
  /\ lc = "Starting"
  /\ \E c \in {"launch", "handshake"} : Fail(c)

\* newService (lines 26-32): an instance that is not a PluginMedian is an
\* error; otherwise its NewMedianFactory builds the factory or fails
\* (MedianFactory.tla models that call).  The outcomes it may have.
newService(inst) ==
  IF inst = "PluginMedian" THEN {"factory", "error"} ELSE {"mismatch"}

\* The handshake succeeds, the implementation is dispensed, and newService
\* runs on it: the instance becomes Ready with the factory, or fails.
Dispense ==
  /\ lc = "Starting"
  /\ \E inst \in Instances : \E out \in newService(inst) :
       CASE out = "mismatch" -> Fail("typeMismatch")
         [] out = "error"    -> Fail("factory")
         [] OTHER            -> /\ lc' = "Ready"
                                /\ service' = out
                                /\ UNCHANGED <<cause, stopClosed, pc, res>>

\* Close: stopCh is closed, and the instance is Stopped from any state.
Stop ==
  /\ ~stopClosed
  /\ stopClosed' = TRUE
  /\ lc' = "Stopped"
  /\ UNCHANGED <<cause, service, pc, res>>

-----------------------------------------------------------------------------
(***************************************************************************)
(* NewReportingPlugin (lines 41-48).                                       *)
(***************************************************************************)

\* The call: ctx from ContextFromChan(stopCh), then m.wait(ctx).
NewReportingPlugin(c) ==
  /\ pc[c] = "idle"
  /\ pc' = [pc EXCEPT ![c] = "waiting"]
  /\ UNCHANGED <<lc, cause, stopClosed, service, res>>

Return(c, r) ==
  /\ pc' = [pc EXCEPT ![c] = "returned"]
  /\ res' = [res EXCEPT ![c] = r]
  /\ UNCHANGED <<lc, cause, stopClosed, service>>

\* Fault variant of WaitReturns: the wait is not given the stop context.
WaitReturnsIgnoringStop(c) ==
  /\ pc[c] = "waiting"
  /\ \/ /\ lc = "Ready"
        /\ pc' = [pc EXCEPT ![c] = "call"]
        /\ UNCHANGED <<lc, cause, stopClosed, service, res>>
     \/ lc = "Failed" /\ Return(c, cause)

\* m.wait(ctx) returns (lines 44-46): nil once the service is ready, its
\* LifecycleError if it failed, or the ctx error once stopCh is closed;
\* when several hold, wait's select takes any.  An error is returned.
WaitReturns(c) ==
  /\ pc[c] = "waiting"
  /\ \/ /\ lc = "Ready"
        /\ pc' = [pc EXCEPT ![c] = "call"]
        /\ UNCHANGED <<lc, cause, stopClosed, service, res>>
     \/ lc = "Failed" /\ Return(c, cause)
     \/ stopClosed /\ Return(c, "cancelled")

\* m.service.NewReportingPlugin(config) (line 47), with no second look at
\* the lifecycle.  The factory client answers with a plugin or an error;
\* once stopCh is closed its call fails at once (spec.md 5).
CallFactory(c) ==
  /\ pc[c] = "call"
  /\ \E r \in IF stopClosed THEN {"error"} ELSE {"plugin", "error"} : Return(c, r)

Next ==
  \/ Start \/ StartFails \/ Dispense \/ Stop
  \/ \E c \in Callers : NewReportingPlugin(c) \/ WaitReturns(c) \/ CallFactory(c)

\* The callers' goroutines are scheduled and the factory answers.  The
\* lifecycle and the stop are driven from outside and get no fairness.
Fairness == \A c \in Callers : WF_vars(WaitReturns(c)) /\ WF_vars(CallFactory(c))

Spec == Init /\ [][Next]_vars /\ Fairness

-----------------------------------------------------------------------------
(***************************************************************************)
(* Properties                                                              *)
(***************************************************************************)

\* NewReportingPlugin (lines 41-48) never hangs once the lifecycle is
\* decided: a caller waiting, or calling the factory, while the instance is
\* Ready, Failed or Stopped returns.  The case that needs the stop context
\* of line 42 is an instance stopped while still Starting, which never
\* becomes ready and never fails.
WaitEndsOnceSettled ==
  \A c \in Callers :
    (pc[c] \in {"waiting", "call"} /\ lc \in {"Ready", "Failed", "Stopped"})
      ~> pc[c] = "returned"

=============================================================================
