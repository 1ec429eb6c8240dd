--------------------------- MODULE MCProvisioning ---------------------------
(* Instances of Provisioning for TLC. *)
EXTENDS Provisioning

CONSTANTS g1, g2, g3

Good == [groupID |-> None, groupName |-> None, userData |-> TRUE, valid |-> TRUE, devices |-> TRUE,
         ports |-> TRUE, floatingIP |-> FALSE]
ByName == [Good EXCEPT !.groupName = "workers"]

(* A group by name, by UUID and by both; and what can be wrong with a spec. *)
SomeSpecs == {ByName, [ByName EXCEPT !.userData = FALSE], [ByName EXCEPT !.groupID = g1],
              [Good EXCEPT !.groupID = g1, !.userData = FALSE],
              [ByName EXCEPT !.valid = FALSE], [ByName EXCEPT !.devices = FALSE],
              [Good EXCEPT !.ports = FALSE], [Good EXCEPT !.floatingIP = TRUE]}

Script == [text |-> "script", templating |-> TRUE, post |-> "none", config |-> TRUE]

(* Usable user data, a script that panics, two that fail, and one that is not looked at. *)
SomeSecrets == {Script, [Script EXCEPT !.text = "malformed"],
                [Script EXCEPT !.text = "undefined"],
                [Script EXCEPT !.text = "malformed", !.templating = FALSE, !.post = "ct"],
                [Script EXCEPT !.post = "ct", !.config = FALSE]}

NoGroup == [g \in Groups |-> None]

(* No group, or g1 with one of the names. *)
SomeNames == {NoGroup} \cup {[NoGroup EXCEPT ![g1] = n] : n \in Names}
=============================================================================
