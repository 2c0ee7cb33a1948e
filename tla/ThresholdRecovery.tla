------------------------- MODULE ThresholdRecovery -------------------------
(***************************************************************************)
(* What a recovery by friends promises, without its mechanism: no links,   *)
(* digests, relay, jobs or browser.                                        *)
(*                                                                         *)
(* The default rule of an account changes only by the changes of a         *)
(* proposal, each made once, and each while as many friends as the         *)
(* threshold asks for have approved that very proposal.  An approval may   *)
(* be lost before it is used.  InOrder says whether the changes of a       *)
(* proposal are made one after the other.                                  *)
(***************************************************************************)
EXTENDS Naturals, Sequences, FiniteSets

CONSTANTS
  Friends,       \* who may approve
  Passkeys,      \* the keys of the rule
  FirstSigners,  \* those on the rule at first
  InOrder        \* TRUE: a change waits for those proposed before it

VARIABLES
  threshold,  \* how many approvals a change needs
  rule,       \* its signers, and whether it has a policy
  proposed,   \* proposed[n]: the n-th proposal, a sequence of changes
  approvals,  \* the <<friend, n>> at hand
  made        \* the <<n, i>>: changes made

vars == <<threshold, rule, proposed, approvals, made>>

Changes ==
  [method: {"add_policy"}] \cup [method: {"add_signer", "remove_signer"}, key: Passkeys]

(* At most one change of a kind, and a signer added before one is removed. *)
Proposals ==
  {p \in UNION {[1..k -> Changes] : k \in 1..3} :
     /\ \A i, j \in DOMAIN p : p[i].method = p[j].method => i = j
     /\ \A i \in DOMAIN p : p[i].method = "remove_signer" =>
          \E k \in 1..(i - 1) : p[k].method = "add_signer"}

Init ==
  /\ threshold \in 1..Cardinality(Friends)
  /\ rule \in [signers: {FirstSigners}, policy: BOOLEAN]
  /\ proposed = <<>> /\ approvals = {} /\ made = {}

Lapse == approvals' \subseteq approvals

(* A proposal takes the place of the one that was being approved. *)
Propose ==
  /\ UNCHANGED <<threshold, rule, made>>
  /\ \E p \in Proposals : proposed' = Append(proposed, p)
  /\ Lapse

Approve(f, n) ==
  /\ UNCHANGED <<threshold, rule, proposed, made>>
  /\ approvals' = approvals \cup {<<f, n>>}

Forget == UNCHANGED <<threshold, rule, proposed, made>> /\ Lapse

approvers(n) == {f \in Friends : <<f, n>> \in approvals}

Becomes(r, change, s) ==
  \/ change.method = "add_policy" /\ ~r.policy /\ s = [r EXCEPT !.policy = TRUE]
  \/ /\ change.method = "add_signer" /\ change.key \notin r.signers
     /\ s = [r EXCEPT !.signers = @ \cup {change.key}]
  \/ /\ change.method = "remove_signer" /\ change.key \in r.signers
     /\ s = [r EXCEPT !.signers = @ \ {change.key}]
     /\ s.signers # {} \/ s.policy

Change(n, i) ==
  /\ <<n, i>> \notin made
  /\ Cardinality(approvers(n)) >= threshold
  /\ InOrder => \A k \in 1..(i - 1) : <<n, k>> \in made
  /\ Becomes(rule, proposed[n][i], rule')
  /\ made' = made \cup {<<n, i>>}
  /\ UNCHANGED <<threshold, proposed, approvals>>

Next ==
  \/ Forget
  \/ \E n \in DOMAIN proposed :
       \/ \E f \in Friends : Approve(f, n)
       \/ \E i \in DOMAIN proposed[n] : Change(n, i)
  \/ Propose

Spec == Init /\ [][Next]_vars
=============================================================================
