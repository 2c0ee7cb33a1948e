----------------------------- MODULE MCRotation -----------------------------
(* Settings of Rotation small enough for TLC, in one run.                   *)
EXTENDS Rotation

(* The account has no policy, so a rotation is add_policy, then add_signer,
   sent to the node, and two rotations may be planned and submitted at once. *)
Direct ==
  [threshold |-> 1, policy |-> FALSE, relayer |-> FALSE, lost |-> TRUE,
   overlap |-> TRUE, offset |-> 1, stagings |-> 2, ledgers |-> 1]

(* The account has the policy, and a rotation, add_signer then remove_signer,
   goes to a relayer whose answers get lost. *)
Lossy ==
  [threshold |-> 1, policy |-> TRUE, relayer |-> TRUE, lost |-> TRUE,
   overlap |-> FALSE, offset |-> 1, stagings |-> 1, ledgers |-> 2]

(* The relayer's answers arrive and both friends reply, but waits time out and
   the page is reloaded. *)
Timely ==
  [threshold |-> 2, policy |-> TRUE, relayer |-> TRUE, lost |-> FALSE,
   overlap |-> FALSE, offset |-> 2, stagings |-> 1, ledgers |-> 1]

(* One friend is enough for the first two settings, and two jobs for the second. *)
Explored ==
  /\ setting.threshold = 1 =>
       \A n \in Stagings, f, g \in Friends : f = g \/ relay[n][f] = None \/ relay[n][g] = None
  /\ setting = Lossy => Len(jobs) <= 2

MCSettings == {Direct, Lossy, Timely}
=============================================================================
