--------------------------- MODULE CompositeService ---------------------------
(***************************************************************************)
(* What the plugin side of a composite construction promises (spec.md 3,   *)
(* "CompositeReference", and 4.3): for each construction the dependency    *)
(* connections are acquired one at a time while no composite exists; then *)
(* either one composite is registered that owns every dependency, or the   *)
(* construction is aborted holding none of them; a registered composite   *)
(* gives all of its dependencies up at once when it is released.          *)
(***************************************************************************)
CONSTANTS Builds, DepNames

VARIABLES composite, held

Init ==
  /\ composite = [b \in Builds |-> "absent"]
  /\ held = [b \in Builds |-> {}]

Acquire(b, n) ==
  /\ composite[b] = "absent"
  /\ n \notin held[b]
  /\ held' = [held EXCEPT ![b] = @ \cup {n}]
  /\ UNCHANGED composite

Register(b) ==
  /\ composite[b] = "absent"
  /\ held[b] = DepNames
  /\ composite' = [composite EXCEPT ![b] = "live"]
  /\ UNCHANGED held

Abort(b) ==
  /\ composite[b] = "absent"
  /\ composite' = [composite EXCEPT ![b] = "aborted"]
  /\ held' = [held EXCEPT ![b] = {}]

Release(b) ==
  /\ composite[b] = "live"
  /\ composite' = [composite EXCEPT ![b] = "released"]
  /\ held' = [held EXCEPT ![b] = {}]

Next ==
  \E b \in Builds :
    \/ \E n \in DepNames : Acquire(b, n)
    \/ Register(b)
    \/ Abort(b)
    \/ Release(b)

Spec == Init /\ [][Next]_<<composite, held>>

=============================================================================
