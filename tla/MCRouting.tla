------------------------------ MODULE MCRouting ------------------------------
(* Instances of Routing for TLC. *)
EXTENDS Routing, TLC

Symmetry == Permutations(Subs)

\* Two events, whose names differ in the case of the module; one subscriber
\* at least wants the one that isAnySubscriber() can find.
TwoEvents == {"device.onChange", "Device.onChange"}
SomeoneLower == {w \in [Subs -> Events] : \E s \in Subs : w[s] = "device.onChange"}
LowerModuleOf == [e \in Events |-> "device.onChange"]

\* Messages that belong to nothing: results under the first identifier, under
\* "id": true and under a negative one, and messages with a member that is missing, of the
\* wrong kind, or one too many.
SomeStrays ==
  {Reply(1, "value"), Reply(-1, "value"),
   [Reply(1, "value") EXCEPT !.idKind = "converted"],
   [Reply(1, "value") EXCEPT !.idKind = "other"],
   [Notification("device.onChange") EXCEPT !.params = FALSE],
   [Notification("device.onChange") EXCEPT !.method = "notString"],
   [Notification("device.onChange") EXCEPT !.idKind = "number", !.id = 1]}
=============================================================================
