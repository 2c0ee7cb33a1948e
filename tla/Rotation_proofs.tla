--------------------------- MODULE Rotation_proofs ---------------------------
(***************************************************************************)
(* What a recovery by friends may do to an account, for every set of       *)
(* friends and passkeys, every number of rotations staged, submitted and   *)
(* submitted again in any overlap, and any loss of answers.                *)
(***************************************************************************)
EXTENDS Rotation, SequenceTheorems, FiniteSetTheorems, TLAPS

-----------------------------------------------------------------------------
(* Plans.                                                                  *)

UpTo3(S) == UNION {[1..k -> S] : k \in 1..3}

LEMMA UpTo3Seq ==
  ASSUME NEW S, NEW s
  PROVE  s \in UpTo3(S) <=> s \in Seq(S) /\ Len(s) \in 1..3
<1>1. ASSUME s \in UpTo3(S) PROVE s \in Seq(S) /\ Len(s) \in 1..3
  <2>1. PICK k \in 1..3 : s \in [1..k -> S]
        BY <1>1 DEF UpTo3
  <2>2. s \in Seq(S)
        BY <2>1, SeqDef
  <2>3. Len(s) = k
        BY <2>1, <2>2, LenProperties
  <2> QED BY <2>2, <2>3
<1>2. ASSUME s \in Seq(S), Len(s) \in 1..3 PROVE s \in UpTo3(S)
  <2>1. s \in [1..Len(s) -> S]
        BY <1>2, LenProperties
  <2> QED BY <1>2, <2>1 DEF UpTo3
<1> QED BY <1>1, <1>2

(* What every plan is: one call of each kind, and never a removal alone. *)
PlanOK(calls) ==
  /\ calls \in Plans
  /\ \A i, j \in DOMAIN calls : calls[i].method = calls[j].method => i = j
  /\ \A i \in DOMAIN calls : calls[i].method = "remove_signer" =>
       \E k \in 1..(i - 1) : calls[k].method = "add_signer"

(* A call that adds a signer comes after one that installs the policy. *)
PolicyFirst(calls) ==
  \A i \in DOMAIN calls : calls[i].method = "add_signer" =>
    \E k \in 1..(i - 1) : calls[k].method = "add_policy"

LEMMA CallsOf ==
  /\ [method |-> "add_policy"] \in Calls
  /\ \A k \in Passkeys : [method |-> "add_signer", key |-> k] \in Calls
                         /\ [method |-> "remove_signer", key |-> k] \in Calls
  /\ \A c \in Calls : c.method \in {"add_policy", "add_signer", "remove_signer"}
  /\ \A c \in Calls : c.method # "add_policy" => c.key \in Passkeys
BY DEF Calls

(* One call or none. *)
LEMMA AskShape ==
  ASSUME NEW method \in {"add_signer", "remove_signer"}, NEW key \in Passkeys \cup {None}
  PROVE  /\ ask(method, key) \in Seq(Calls)
         /\ key = None => Len(ask(method, key)) = 0
         /\ key # None => /\ Len(ask(method, key)) = 1
                          /\ ask(method, key)[1] = [method |-> method, key |-> key]
<1>1. CASE key = None
      BY <1>1 DEF ask
<1>2. CASE key # None
  <2>1. [method |-> method, key |-> key] \in Calls
        BY <1>2, CallsOf
  <2> QED BY <1>2, <2>1 DEF ask
<1> QED BY <1>1, <1>2

LEMMA PolicyShape ==
  ASSUME NEW req
  PROVE  /\ policy_call(req) \in Seq(Calls)
         /\ req.policyCount = 0 /\ resultingSigners(req) > 1 =>
              Len(policy_call(req)) = 1 /\ policy_call(req)[1] = [method |-> "add_policy"]
         /\ ~(req.policyCount = 0 /\ resultingSigners(req) > 1) => Len(policy_call(req)) = 0
BY CallsOf DEF policy_call

Enriched == [add: Passkeys \cup {None}, remove: Passkeys \cup {None}, signerCount: Nat, policyCount: 0..1]

LEMMA PlanShape ==
  ASSUME NEW req \in Enriched,
         req.add = None => req.remove = None /\ req.signerCount > 1 /\ req.policyCount = 0
  PROVE  /\ PlanOK(planRotation(req))
         /\ \A i \in DOMAIN planRotation(req) : planRotation(req)[i].method = "remove_signer" =>
              planRotation(req)[i].key = req.remove
         /\ req.signerCount > 0 =>
              \/ req.policyCount = 1 \/ PolicyFirst(planRotation(req))
              \/ /\ req.signerCount <= 1
                 /\ \E i \in DOMAIN planRotation(req) : planRotation(req)[i].method = "remove_signer"
<1> DEFINE P == policy_call(req)
           A == ask("add_signer", req.add)
           R == ask("remove_signer", req.remove)
           plan == planRotation(req)
<1>1. /\ P \in Seq(Calls) /\ Len(P) \in 0..1 /\ (Len(P) = 1 => P[1].method = "add_policy")
      /\ Len(P) = 1 <=> req.policyCount = 0 /\ resultingSigners(req) > 1
      BY PolicyShape
<1>2. /\ A \in Seq(Calls)
      /\ req.add = None => Len(A) = 0
      /\ req.add # None => Len(A) = 1 /\ A[1].method = "add_signer"
  <2>1. req.add \in Passkeys \cup {None}
        BY DEF Enriched
  <2>2. /\ A \in Seq(Calls)
        /\ req.add = None => Len(A) = 0
        /\ req.add # None => Len(A) = 1 /\ A[1] = [method |-> "add_signer", key |-> req.add]
        BY <2>1, AskShape
  <2> QED BY <2>2
<1>3. /\ R \in Seq(Calls)
      /\ req.remove = None => Len(R) = 0
      /\ req.remove # None => Len(R) = 1 /\ R[1].method = "remove_signer" /\ R[1].key = req.remove
  <2>1. req.remove \in Passkeys \cup {None}
        BY DEF Enriched
  <2>2. /\ R \in Seq(Calls)
        /\ req.remove = None => Len(R) = 0
        /\ req.remove # None => Len(R) = 1 /\ R[1] = [method |-> "remove_signer", key |-> req.remove]
        BY <2>1, AskShape
  <2> QED BY <2>2
<1>4. resultingSigners(req) = req.signerCount + Len(A) - Len(R)
      BY DEF resultingSigners
<1>5. /\ P \o A \in Seq(Calls) /\ Len(P \o A) = Len(P) + Len(A)
      /\ \A i \in 1..(Len(P) + Len(A)) : (P \o A)[i] = IF i <= Len(P) THEN P[i] ELSE A[i - Len(P)]
      BY <1>1, <1>2, ConcatProperties
<1>6. /\ plan \in Seq(Calls) /\ Len(plan) = Len(P) + Len(A) + Len(R)
      /\ \A i \in 1..(Len(P) + Len(A) + Len(R)) :
           plan[i] = IF i <= Len(P) + Len(A) THEN (P \o A)[i] ELSE R[i - (Len(P) + Len(A))]
      BY <1>3, <1>5, ConcatProperties DEF planRotation
<1>7. DOMAIN plan = 1..Len(plan)
      BY <1>6, LenProperties
<1> HIDE DEF P, A, R, plan
<1>8. Len(plan) \in 1..3
      BY <1>1, <1>2, <1>3, <1>4, <1>6 DEF Enriched
<1>9. \A i \in 1..Len(plan) :
        /\ plan[i].method = "add_policy" <=> i <= Len(P)
        /\ plan[i].method = "add_signer" <=> Len(P) < i /\ i <= Len(P) + Len(A)
        /\ plan[i].method = "remove_signer" <=> Len(P) + Len(A) < i
  <2> TAKE i \in 1..Len(plan)
  <2>0. /\ Len(P) \in 0..1 /\ (Len(P) = 1 => P[1].method = "add_policy")
        /\ Len(A) \in 0..1 /\ (Len(A) = 1 => A[1].method = "add_signer")
        /\ Len(R) \in 0..1 /\ (Len(R) = 1 => R[1].method = "remove_signer")
        /\ i \in 1..(Len(P) + Len(A) + Len(R))
        /\ plan[i] = IF i <= Len(P) + Len(A) THEN (P \o A)[i] ELSE R[i - (Len(P) + Len(A))]
    <3>1. Len(P) \in 0..1 /\ (Len(P) = 1 => P[1].method = "add_policy")
          BY <1>1
    <3>2. Len(A) \in 0..1 /\ (Len(A) = 1 => A[1].method = "add_signer")
          BY <1>2
    <3>3. Len(R) \in 0..1 /\ (Len(R) = 1 => R[1].method = "remove_signer")
          BY <1>3
    <3>4. i \in 1..(Len(P) + Len(A) + Len(R))
          BY <1>6
    <3> QED BY <3>1, <3>2, <3>3, <3>4, <1>6
  <2> DEFINE p == Len(P)
             a == Len(A)
             r == Len(R)
             m == plan[i].method
  <2>1. CASE i <= p
    <3>1. i = 1 /\ p = 1 /\ i <= p + a
          BY <2>0, <2>1
    <3>2. plan[i] = (P \o A)[i] /\ (P \o A)[i] = P[i]
          BY <2>0, <3>1, <1>5
    <3>3. m = "add_policy"
          BY <2>0, <3>1, <3>2
    <3> HIDE DEF m
    <3> QED BY <2>0, <2>1, <3>1, <3>3 DEF m
  <2>2. CASE p < i /\ i <= p + a
    <3>1. i = p + 1 /\ a = 1
          BY <2>0, <2>2
    <3>2. plan[i] = (P \o A)[i] /\ (P \o A)[i] = A[i - p]
          BY <2>0, <2>2, <3>1, <1>5
    <3>3. i - p = 1
          BY <2>0, <3>1
    <3>4. m = "add_signer"
          BY <2>0, <3>1, <3>2, <3>3
    <3> HIDE DEF m
    <3> QED BY <2>0, <2>2, <3>4 DEF m
  <2>3. CASE p + a < i
    <3>1. r = 1 /\ i = p + a + 1
          BY <2>0, <2>3
    <3>2. i - (p + a) = 1
          BY <2>0, <3>1
    <3>3. plan[i] = R[1]
          BY <2>0, <2>3, <3>2
    <3>4. m = "remove_signer"
          BY <2>0, <3>1, <3>3
    <3> HIDE DEF m
    <3> QED BY <2>0, <2>3, <3>4 DEF m
  <2>4. i <= p \/ (p < i /\ i <= p + a) \/ p + a < i
        BY <2>0
  <2> QED BY <2>1, <2>2, <2>3, <2>4
<1>10. PlanOK(plan)
  <2>1. plan \in Plans
        BY <1>6, <1>8, UpTo3Seq DEF Plans, UpTo3
  <2>2. \A i, j \in 1..Len(plan) : plan[i].method = plan[j].method => i = j
    <3> TAKE i, j \in 1..Len(plan)
    <3> HAVE plan[i].method = plan[j].method
    <3>1. Len(P) \in 0..1 /\ Len(A) \in 0..1 /\ Len(R) \in 0..1
          BY <1>1, <1>2, <1>3
    <3>2. \/ i <= Len(P) /\ j <= Len(P)
          \/ Len(P) < i /\ i <= Len(P) + Len(A) /\ Len(P) < j /\ j <= Len(P) + Len(A)
          \/ Len(P) + Len(A) < i /\ Len(P) + Len(A) < j
          BY <3>1, <1>9, <1>6
    <3> QED BY <3>1, <3>2, <1>6
  <2>3. \A i \in 1..Len(plan) : plan[i].method = "remove_signer" =>
          \E k \in 1..(i - 1) : plan[k].method = "add_signer"
    <3> TAKE i \in 1..Len(plan)
    <3> HAVE plan[i].method = "remove_signer"
    <3>1. Len(A) = 1 /\ Len(P) \in 0..1
          BY <1>1, <1>2, <1>3, <1>6, <1>9 DEF Enriched
    <3>2. Len(P) + 1 \in 1..(i - 1) /\ Len(P) + 1 \in 1..Len(plan)
          BY <3>1, <1>9, <1>6
    <3>3. plan[Len(P) + 1].method = "add_signer"
          BY <3>1, <3>2, <1>9
    <3> QED BY <3>2, <3>3
  <2> QED BY <2>1, <2>2, <2>3, <1>7 DEF PlanOK
<1>11. \A i \in 1..Len(plan) : plan[i].method = "remove_signer" => plan[i].key = req.remove
  <2> TAKE i \in 1..Len(plan)
  <2> HAVE plan[i].method = "remove_signer"
  <2>1. Len(P) + Len(A) < i /\ Len(R) = 1 /\ req.remove # None
        BY <1>1, <1>2, <1>3, <1>6, <1>9
  <2>2. plan[i] = R[1]
        BY <2>1, <1>1, <1>2, <1>6
  <2> QED BY <2>1, <2>2, <1>3
<1>12. ASSUME req.signerCount > 0
       PROVE  \/ req.policyCount = 1 \/ PolicyFirst(plan)
              \/ req.signerCount <= 1 /\ \E i \in 1..Len(plan) : plan[i].method = "remove_signer"
  <2>1. CASE Len(P) = 1
    <3>0. 1 \in 1..Len(plan)
          BY <1>8
    <3>1. 1 \in 1..Len(plan) /\ plan[1].method = "add_policy"
          BY <2>1, <3>0, <1>9
    <3>2. \A i \in 1..Len(plan) : plan[i].method = "add_signer" => 1 \in 1..(i - 1)
          BY <2>1, <1>9
    <3> QED BY <3>1, <3>2, <1>7 DEF PolicyFirst
  <2>2. CASE Len(P) = 0 /\ req.add = None
        BY <2>2, <1>1, <1>2, <1>3, <1>6, <1>8
  <2>3. CASE Len(P) = 0 /\ req.add # None /\ req.policyCount = 0
    <3>1. req.signerCount + 1 - Len(R) <= 1
          BY <2>3, <1>1, <1>2, <1>3, <1>4 DEF Enriched
    <3>2. CASE Len(R) = 0
          BY <3>1, <3>2, <1>12 DEF Enriched
    <3>3. CASE Len(R) = 1
      <4>1. Len(plan) \in 1..Len(plan) /\ plan[Len(plan)].method = "remove_signer"
            BY <3>3, <2>3, <1>2, <1>6, <1>8, <1>9
      <4> QED BY <3>1, <3>3, <4>1 DEF Enriched
    <3> QED BY <3>2, <3>3, <1>3
  <2> QED BY <2>1, <2>2, <2>3, <1>1 DEF Enriched
<1> QED BY <1>7, <1>10, <1>11, <1>12 DEF plan
-----------------------------------------------------------------------------
(* The inductive invariants.                                               *)

(* A staging is made from the handoff of its number. *)
StagingOK(st) == st.id \in DOMAIN handoffs /\ handoff_of(st) = handoffs[st.id]

(* A blob was signed over the transactions of a handoff. *)
BlobOK(f, b) ==
  /\ b.friend = f /\ b.handoff \in DOMAIN handoffs
  /\ b.parent_expiration = handoffs[b.handoff].expiration
  /\ b.entries = Len(handoffs[b.handoff].calls)

CollectedOK(st) ==
  \A f \in Friends : st.collected[f] # None =>
    /\ BlobOK(f, st.collected[f])
    /\ st.collected[f].entries = Len(st.txs)

(* What the digests are made from is the same wherever it is kept. *)
Signed ==
  /\ staging # None => StagingOK(staging) /\ CollectedOK(staging)
  /\ submitting # Idle => StagingOK(submitting.st) /\ CollectedOK(submitting.st)
  /\ \A n \in Stagings, f \in Friends : relay[n][f] # None => BlobOK(f, relay[n][f])

SignedInv == TypeOK /\ Signed

(* A job is a transaction of a handoff whose transactions before it landed. *)
JobOK(job) ==
  /\ job.id \in DOMAIN handoffs /\ job.tx \in DOMAIN handoffs[job.id].calls
  /\ job.call = handoffs[job.id].calls[job.tx]
  /\ \A k \in 1..(job.tx - 1) : <<job.id, k>> \in used
  /\ job.status = "confirmed" => <<job.id, job.tx>> \in used

(* A transaction that is marked submitted landed, and a job that was saved is
   the transaction's. *)
TxsOK(st) ==
  \A i \in DOMAIN st.txs :
    /\ st.txs[i].submitted => <<st.id, i>> \in used
    /\ st.txs[i].job # None =>
         /\ st.txs[i].job \in DOMAIN jobs
         /\ jobs[st.txs[i].job].id = st.id /\ jobs[st.txs[i].job].tx = i

UsedOK ==
  \A u \in used :
    /\ u[1] \in DOMAIN handoffs /\ u[2] \in DOMAIN handoffs[u[1]].calls
    /\ \A k \in 1..(u[2] - 1) : <<u[1], k>> \in used

Waits ==
  submitting # Idle /\ submitting.pc = "wait" =>
    /\ todo(submitting.st) # {} /\ submitting.job \in DOMAIN jobs
    /\ jobs[submitting.job].id = submitting.st.id
    /\ jobs[submitting.job].tx = next_tx(submitting.st)

(* Where the owner does not stage again meanwhile, what is submitted is what
   is stored. *)
Alone ==
  ~setting.overlap /\ submitting # Idle => staging # None /\ staging.id = submitting.st.id

Landed ==
  /\ \A j \in DOMAIN jobs : JobOK(jobs[j])
  /\ UsedOK
  /\ staging # None => TxsOK(staging)
  /\ submitting # Idle => TxsOK(submitting.st)
  /\ Waits /\ Alone

LandedInv == SignedInv /\ Landed

(* The rotations whose call of a kind landed. *)
Did(method) ==
  {n \in DOMAIN handoffs :
     \E i \in DOMAIN handoffs[n].calls : handoffs[n].calls[i].method = method /\ <<n, i>> \in used}

(* A rule with no policy was never changed; what is staged for it installs the
   policy first, and what cannot be staged is only ever in preparation. *)
Planned ==
  /\ \A n \in DOMAIN handoffs :
       PlanOK(handoffs[n].calls) /\ (rule.policy \/ PolicyFirst(handoffs[n].calls))
  /\ preparing # Idle =>
       /\ PlanOK(preparing.plan)
       /\ \/ rule.policy \/ PolicyFirst(preparing.plan)
          \/ /\ Cardinality(FirstSigners) <= 1
             /\ \E i \in DOMAIN preparing.plan : preparing.plan[i].method = "remove_signer"
  /\ Did("add_policy") # {} => rule.policy
  /\ ~rule.policy => rule.signers = FirstSigners

(* Every removal was preceded by an addition of its own. *)
Counted ==
  /\ IsFiniteSet(rule.signers)
  /\ Did("remove_signer") \subseteq Did("add_signer")
  /\ Cardinality(rule.signers) + Cardinality(Did("remove_signer"))
       = Cardinality(FirstSigners) + Cardinality(Did("add_signer"))

RuleInv == LandedInv /\ Planned /\ Counted
-----------------------------------------------------------------------------
(* Operators of the model.                                                 *)

Rules == [signers: SUBSET Passkeys, policy: BOOLEAN]

LEMMA Numbers ==
  /\ MaxOffset \in Nat /\ Ttl \in Nat /\ MaxStagings \in Nat /\ MaxJobs \in Nat /\ MaxLedger \in Nat
  /\ Cardinality(Friends) \in Nat
  /\ \A s \in Settings : /\ s.threshold \in 1..Cardinality(Friends) /\ s.policy \in BOOLEAN
                         /\ s.offset \in 1..MaxOffset /\ s.stagings \in 1..MaxStagings
                         /\ s.ledgers \in 0..MaxLedger
BY RotationAssumption, FS_CardinalityType DEF RotationAssumption

LEMMA RemovableType ==
  ASSUME NEW r \in Rules
  PROVE  findRemovableOldSigner(r) \in Passkeys \cup {None}
         /\ readOldSigner(r) \subseteq Passkeys \cup {None}
<1>1. CASE Cardinality(r.signers) = 1
  <2>1. r.signers # {}
        BY <1>1, FS_EmptySet
  <2>2. (CHOOSE k \in r.signers : TRUE) \in r.signers
        BY <2>1
  <2> QED BY <1>1, <2>2 DEF findRemovableOldSigner, readOldSigner, Rules
<1>2. CASE Cardinality(r.signers) # 1
      BY <1>2 DEF findRemovableOldSigner, readOldSigner
<1> QED BY <1>1, <1>2

LEMMA ResultsShape ==
  ASSUME NEW r \in Rules, IsFiniteSet(r.signers), NEW call \in Calls, NEW s \in results(r, call)
  PROVE  /\ s \in Rules /\ IsFiniteSet(s.signers)
         /\ call.method = "add_policy" => ~r.policy /\ s.policy /\ s.signers = r.signers
         /\ call.method = "add_signer" =>
              call.key \notin r.signers /\ s.signers = r.signers \cup {call.key} /\ s.policy = r.policy
         /\ call.method = "remove_signer" =>
              /\ call.key \in r.signers /\ s.signers = r.signers \ {call.key} /\ s.policy = r.policy
              /\ s.signers # {} \/ s.policy
<1>1. CASE call.method = "add_policy"
      BY <1>1 DEF results, Rules
<1>2. CASE call.method = "add_signer"
  <2>1. s = [r EXCEPT !.signers = @ \cup {call.key}] /\ call.key \notin r.signers
        BY <1>2 DEF results
  <2>2. call.key \in Passkeys
        BY <1>2, CallsOf
  <2>3. s \in Rules /\ s.signers = r.signers \cup {call.key} /\ s.policy = r.policy
        BY <2>1, <2>2 DEF Rules
  <2>4. IsFiniteSet(s.signers)
        BY <2>3, FS_AddElement
  <2> QED BY <1>2, <2>1, <2>3, <2>4
<1>3. CASE call.method = "remove_signer"
  <2>1. s = [r EXCEPT !.signers = @ \ {call.key}] /\ call.key \in r.signers /\ (s.signers # {} \/ s.policy)
        BY <1>3 DEF results
  <2>2. s \in Rules /\ s.signers = r.signers \ {call.key} /\ s.policy = r.policy
        BY <2>1 DEF Rules
  <2>3. IsFiniteSet(s.signers)
        BY <2>2, FS_Subset
  <2> QED BY <1>3, <2>1, <2>2, <2>3
<1> QED BY <1>1, <1>2, <1>3, CallsOf

LEMMA StagingType ==
  ASSUME NEW st \in RotationStagings
  PROVE  /\ st.id \in Stagings /\ st.expiration \in Expirations
         /\ st.threshold \in 1..Cardinality(Friends)
         /\ st.collected \in [Friends -> FriendSignatures \cup {None}]
         /\ DOMAIN st.txs \subseteq 1..3 /\ DOMAIN st.txs = 1..Len(st.txs)
         /\ Len(st.txs) \in 1..3
         /\ \A i \in DOMAIN st.txs : st.txs[i] \in StagedTxs
<1>1. PICK k \in 1..3 : st.txs \in [1..k -> StagedTxs]
      BY DEF RotationStagings
<1>2. st.txs \in Seq(StagedTxs) /\ DOMAIN st.txs = 1..k
      BY <1>1, SeqDef
<1>3. Len(st.txs) = k
      BY <1>2, LenProperties
<1> QED BY <1>1, <1>2, <1>3 DEF RotationStagings

(* A transaction that is marked changes nothing else of its staging. *)
LEMMA WithTx ==
  ASSUME NEW st \in RotationStagings, NEW i \in DOMAIN st.txs, NEW tx \in StagedTxs,
         tx.call = st.txs[i].call
  PROVE  LET s == [st EXCEPT !.txs = [st.txs EXCEPT ![i] = tx]]
         IN  /\ s \in RotationStagings /\ s.id = st.id /\ s.expiration = st.expiration
             /\ s.collected = st.collected /\ s.threshold = st.threshold
             /\ DOMAIN s.txs = DOMAIN st.txs /\ Len(s.txs) = Len(st.txs)
             /\ s.txs[i] = tx /\ \A k \in DOMAIN st.txs : k # i => s.txs[k] = st.txs[k]
             /\ handoff_of(s) = handoff_of(st)
<1> DEFINE s == [st EXCEPT !.txs = [st.txs EXCEPT ![i] = tx]]
<1>1. PICK k \in 1..3 : st.txs \in [1..k -> StagedTxs]
      BY DEF RotationStagings
<1>2. /\ s.id = st.id /\ s.expiration = st.expiration /\ s.collected = st.collected
      /\ s.threshold = st.threshold /\ s.txs = [st.txs EXCEPT ![i] = tx]
      BY DEF RotationStagings
<1>3. /\ s.txs \in [1..k -> StagedTxs] /\ DOMAIN s.txs = DOMAIN st.txs
      /\ s.txs[i] = tx /\ \A n \in DOMAIN st.txs : n # i => s.txs[n] = st.txs[n]
      BY <1>1, <1>2
<1>4. s \in RotationStagings
      BY <1>1, <1>3 DEF RotationStagings
<1>5. Len(s.txs) = Len(st.txs)
  <2>1. DOMAIN s.txs = 1..Len(s.txs) /\ Len(s.txs) \in 1..3
        BY <1>4, StagingType
  <2>2. DOMAIN st.txs = 1..Len(st.txs) /\ Len(st.txs) \in 1..3
        BY StagingType
  <2> QED BY <2>1, <2>2, <1>3
<1>6. handoff_of(s) = handoff_of(st)
  <2>1. \A n \in DOMAIN st.txs : s.txs[n].call = st.txs[n].call
        BY <1>3
  <2> QED BY <2>1, <1>2, <1>3 DEF handoff_of
<1> HIDE DEF s
<1> QED BY <1>2, <1>3, <1>4, <1>5, <1>6 DEF s

LEMMA WithJob ==
  ASSUME NEW st \in RotationStagings, NEW i \in DOMAIN st.txs, NEW j \in 1..MaxJobs
  PROVE  LET s == with_job(st, i, j)
         IN  /\ s \in RotationStagings /\ s.id = st.id /\ s.expiration = st.expiration
             /\ s.collected = st.collected /\ s.threshold = st.threshold
             /\ DOMAIN s.txs = DOMAIN st.txs /\ Len(s.txs) = Len(st.txs)
             /\ s.txs[i].job = j /\ s.txs[i].submitted = st.txs[i].submitted
             /\ \A k \in DOMAIN st.txs : k # i => s.txs[k] = st.txs[k]
             /\ handoff_of(s) = handoff_of(st) /\ todo(s) = todo(st)
<1> DEFINE tx == [st.txs[i] EXCEPT !.job = j]
           s == [st EXCEPT !.txs = [st.txs EXCEPT ![i] = tx]]
<1>1. st.txs[i] \in StagedTxs
      BY StagingType
<1>2. tx \in StagedTxs /\ tx.call = st.txs[i].call /\ tx.submitted = st.txs[i].submitted /\ tx.job = j
      BY <1>1 DEF StagedTxs
<1>3. with_job(st, i, j) = s
      BY DEF with_job
<1>4. /\ s \in RotationStagings /\ s.id = st.id /\ s.expiration = st.expiration
      /\ s.collected = st.collected /\ s.threshold = st.threshold
      /\ DOMAIN s.txs = DOMAIN st.txs /\ Len(s.txs) = Len(st.txs)
      /\ s.txs[i] = tx /\ \A k \in DOMAIN st.txs : k # i => s.txs[k] = st.txs[k]
      /\ handoff_of(s) = handoff_of(st)
  <2> HIDE DEF tx
  <2> QED BY <1>2, WithTx
<1> HIDE DEF tx, s
<1>5. todo(s) = todo(st)
      BY <1>2, <1>4 DEF todo
<1> QED BY <1>2, <1>3, <1>4, <1>5

LEMMA WithHash ==
  ASSUME NEW st \in RotationStagings, NEW i \in DOMAIN st.txs
  PROVE  LET s == with_hash(st, i)
         IN  /\ s \in RotationStagings /\ s.id = st.id /\ s.expiration = st.expiration
             /\ s.collected = st.collected /\ s.threshold = st.threshold
             /\ DOMAIN s.txs = DOMAIN st.txs /\ Len(s.txs) = Len(st.txs)
             /\ s.txs[i].job = st.txs[i].job /\ s.txs[i].submitted
             /\ \A k \in DOMAIN st.txs : k # i => s.txs[k] = st.txs[k]
             /\ handoff_of(s) = handoff_of(st)
<1> DEFINE tx == [st.txs[i] EXCEPT !.submitted = TRUE]
           s == [st EXCEPT !.txs = [st.txs EXCEPT ![i] = tx]]
<1>1. st.txs[i] \in StagedTxs
      BY StagingType
<1>2. tx \in StagedTxs /\ tx.call = st.txs[i].call /\ tx.submitted = TRUE /\ tx.job = st.txs[i].job
      BY <1>1 DEF StagedTxs
<1>3. with_hash(st, i) = s
      BY DEF with_hash
<1>4. /\ s \in RotationStagings /\ s.id = st.id /\ s.expiration = st.expiration
      /\ s.collected = st.collected /\ s.threshold = st.threshold
      /\ DOMAIN s.txs = DOMAIN st.txs /\ Len(s.txs) = Len(st.txs)
      /\ s.txs[i] = tx /\ \A k \in DOMAIN st.txs : k # i => s.txs[k] = st.txs[k]
      /\ handoff_of(s) = handoff_of(st)
  <2> HIDE DEF tx
  <2> QED BY <1>2, WithTx
<1> HIDE DEF tx, s
<1> QED BY <1>2, <1>3, <1>4

(* The transaction submitted next is the first one that was not. *)
LEMMA NextTx ==
  ASSUME NEW st \in RotationStagings, todo(st) # {}
  PROVE  next_tx(st) \in todo(st) /\ \A k \in todo(st) : next_tx(st) <= k
<1>1. todo(st) \subseteq 1..3
      BY StagingType DEF todo
<1>2. \E i \in todo(st) : \A k \in todo(st) : i <= k
  <2>1. CASE 1 \in todo(st)
        BY <1>1, <2>1
  <2>2. CASE 1 \notin todo(st) /\ 2 \in todo(st)
        BY <1>1, <2>2
  <2>3. CASE 1 \notin todo(st) /\ 2 \notin todo(st)
        BY <1>1, <2>3
  <2> QED BY <2>1, <2>2, <2>3
<1> QED BY <1>2 DEF next_tx
LEMMA SavedJob ==
  ASSUME NEW st \in RotationStagings, NEW i \in DOMAIN st.txs, NEW j \in 1..MaxJobs
  PROVE  LET s == saved_job(st, i, j)
         IN  /\ s \in RotationStagings /\ s.id = st.id /\ s.expiration = st.expiration
             /\ s.collected = st.collected /\ DOMAIN s.txs = DOMAIN st.txs /\ Len(s.txs) = Len(st.txs)
             /\ s.txs[i].job \in {j, st.txs[i].job} /\ s.txs[i].submitted = st.txs[i].submitted
             /\ \A k \in DOMAIN st.txs : k # i => s.txs[k] = st.txs[k]
             /\ handoff_of(s) = handoff_of(st) /\ todo(s) = todo(st)
<1>1. CASE setting.relayer
      BY <1>1, WithJob DEF saved_job
<1>2. CASE ~setting.relayer
      BY <1>2 DEF saved_job
<1> QED BY <1>1, <1>2

-----------------------------------------------------------------------------
(* Types.                                                                  *)

LEMMA PlanIsTyped ==
  ASSUME TypeOK, NEW request \in Requested
  PROVE  LET req == enrichRotationRequest(request, rule)
         IN  /\ req \in Enriched /\ req.signerCount = Cardinality(rule.signers)
             /\ req.policyCount = 1 <=> rule.policy
             /\ PlanOK(planRotation(req))
<1> DEFINE req == enrichRotationRequest(request, rule)
<1>1. request.add \in Passkeys \cup {None} /\ request.remove \in Passkeys \cup {None}
      BY DEF Requested, RotationRequests
<1>2. Cardinality(rule.signers) \in Nat
      BY FS_CardinalityType DEF TypeOK
<1>3. req \in Enriched /\ req.signerCount = Cardinality(rule.signers)
      /\ (req.policyCount = 1 <=> rule.policy) /\ req.add = request.add /\ req.remove = request.remove
      BY <1>1, <1>2 DEF enrichRotationRequest, Enriched
<1>4. req.add = None => req.remove = None /\ req.signerCount > 1 /\ req.policyCount = 0
  <2>1. request.add = None => request.remove = None /\ Cardinality(rule.signers) > 1 /\ ~rule.policy
        BY DEF Requested, needsRepair
  <2> QED BY <2>1, <1>3 DEF Enriched
<1> HIDE DEF req
<1>5. PlanOK(planRotation(req))
      BY <1>3, <1>4, PlanShape
<1> QED BY <1>3, <1>5 DEF req

LEMMA StagedType ==
  ASSUME TypeOK, preparing # Idle
  PROVE  LET st == staged(preparing.plan, preparing.threshold)
         IN  /\ st \in RotationStagings /\ st.id = Len(handoffs) + 1
             /\ DOMAIN st.txs = DOMAIN preparing.plan
             /\ \A i \in DOMAIN st.txs : st.txs[i].job = None /\ ~st.txs[i].submitted
             /\ \A f \in Friends : st.collected[f] = None
             /\ handoff_of(st) = [calls |-> preparing.plan, expiration |-> ledger + setting.offset]
             /\ handoff_of(st) \in Handoffs
<1> DEFINE st == staged(preparing.plan, preparing.threshold)
<1>1. preparing.plan \in Plans /\ preparing.threshold \in 1..Cardinality(Friends)
      BY DEF TypeOK
<1>2. PICK k \in 1..3 : preparing.plan \in [1..k -> Calls]
      BY <1>1 DEF Plans
<1>3. setting \in Settings /\ Len(handoffs) \in Nat /\ Len(handoffs) + 1 <= setting.stagings
  <2>1. setting \in Settings /\ Len(handoffs) \in Nat
        BY LenProperties DEF TypeOK
  <2>2. Len(handoffs) + 1 <= setting.stagings
        BY DEF TypeOK
  <2> QED BY <2>1, <2>2
<1>4. Len(handoffs) + 1 \in Stagings
      BY <1>3, Numbers DEF Stagings
<1>5. ledger + setting.offset \in Expirations
  <2>1. ledger \in 0..setting.ledgers
        BY DEF TypeOK
  <2> QED BY <2>1, <1>3, Numbers DEF Expirations
<1>6. st.txs \in [1..k -> StagedTxs]
      BY <1>2 DEF staged, StagedTxs
<1>7. st.txs \in UNION {[1..n -> StagedTxs] : n \in 1..3}
      BY <1>6
<1>8. st.collected \in [Friends -> FriendSignatures \cup {None}]
      BY DEF staged
<1>9. st \in RotationStagings
      BY <1>1, <1>4, <1>5, <1>7, <1>8 DEF staged, RotationStagings
<1>10. /\ st.id = Len(handoffs) + 1 /\ DOMAIN st.txs = DOMAIN preparing.plan
       /\ \A i \in DOMAIN st.txs : st.txs[i].job = None /\ ~st.txs[i].submitted
       /\ \A f \in Friends : st.collected[f] = None
      BY DEF staged
<1>11. handoff_of(st) = [calls |-> preparing.plan, expiration |-> ledger + setting.offset]
       /\ handoff_of(st) \in Handoffs
  <2>1. [i \in DOMAIN st.txs |-> st.txs[i].call] = preparing.plan
        BY <1>2 DEF staged
  <2>2. handoff_of(st) = [calls |-> preparing.plan, expiration |-> ledger + setting.offset]
        BY <2>1 DEF handoff_of, staged
  <2> QED BY <2>2, <1>1, <1>5 DEF Handoffs
<1> QED BY <1>9, <1>10, <1>11

(* What a friend leaves at the relay. *)
LEMMA BlobType ==
  ASSUME TypeOK, NEW f \in Friends, NEW n \in DOMAIN handoffs
  PROVE  /\ n \in Stagings
         /\ signed_for(f, n) \in FriendSignatures
         /\ signed_for(f, n) = [friend |-> f, handoff |-> n, entries |-> Len(handoffs[n].calls),
                                parent_expiration |-> handoffs[n].expiration,
                                expiration |-> ledger + setting.offset]
         /\ link(n).k = n
<1>1. handoffs \in Seq(Handoffs) /\ DOMAIN handoffs = 1..Len(handoffs) /\ Len(handoffs) \in Nat
      BY LenProperties DEF TypeOK
<1>2. handoffs[n] \in Handoffs
      BY <1>1
<1>3. handoffs[n].calls \in Plans /\ handoffs[n].expiration \in Expirations
      BY <1>2 DEF Handoffs
<1>4. setting \in Settings /\ ledger \in 0..setting.ledgers /\ Len(handoffs) <= setting.stagings
  <2>1. Len(handoffs) + (IF preparing = Idle THEN 0 ELSE 1) <= setting.stagings /\ setting \in Settings
        BY DEF TypeOK
  <2> QED BY <1>1, <2>1, Numbers DEF TypeOK
<1>5. n \in Stagings /\ ledger + setting.offset \in Expirations
      BY <1>1, <1>4, Numbers DEF Stagings, Expirations
<1>6. PICK k \in 1..3 : handoffs[n].calls \in [1..k -> Calls]
      BY <1>3 DEF Plans
<1>7. Len(handoffs[n].calls) = k /\ Len(link(n).tx) = k
  <2>1. handoffs[n].calls \in Seq(Calls) /\ DOMAIN handoffs[n].calls = 1..k
        BY <1>6, SeqDef
  <2>2. Len(handoffs[n].calls) = k
        BY <1>6, <2>1, LenProperties
  <2> DEFINE tx == [i \in DOMAIN handoffs[n].calls |-> assembled(n, i, handoffs[n].calls[i])]
  <2>3. link(n).tx = tx
        BY DEF link, encodeRotationHandoff
  <2>4. DOMAIN tx = 1..k
        BY <2>1
  <2>5. Len(tx) = k
        BY <2>4
  <2> QED BY <2>2, <2>3, <2>5
<1>8. link(n).k = n /\ link(n).exp = handoffs[n].expiration
      BY DEF link, encodeRotationHandoff
<1>9. signed_for(f, n) = [friend |-> f, handoff |-> n, entries |-> Len(handoffs[n].calls),
                          parent_expiration |-> handoffs[n].expiration,
                          expiration |-> ledger + setting.offset]
      BY <1>7, <1>8 DEF signed_for
<1> QED BY <1>3, <1>5, <1>7, <1>8, <1>9 DEF FriendSignatures
LEMMA JobType ==
  ASSUME TypeOK, NEW st \in RotationStagings, NEW i \in DOMAIN st.txs
  PROVE  job_for(st, i) \in Jobs
<1>1. st.id \in Stagings /\ i \in 1..3 /\ st.txs[i] \in StagedTxs /\ st.expiration \in Expirations
      BY StagingType
<1>2. {st.collected[f] : f \in known(st)} \subseteq FriendSignatures
      BY StagingType DEF known
<1> QED BY <1>1, <1>2 DEF job_for, Jobs, StagedTxs

LEMMA TypeInit == Init => TypeOK
<1> SUFFICES ASSUME Init PROVE TypeOK
    OBVIOUS
<1>1. setting \in Settings /\ setting.policy \in BOOLEAN /\ setting.stagings \in Nat
      /\ ledger \in 0..setting.ledgers
      BY Numbers DEF Init
<1>2. rule \in Rules /\ IsFiniteSet(rule.signers)
      BY <1>1, RotationAssumption DEF Init, RotationAssumption, Rules
<1>3. removable \in Passkeys \cup {None}
      BY <1>2, RemovableType DEF Init
<1>4. used \subseteq Stagings \X (1..3) /\ handoffs \in Seq(Handoffs) /\ jobs \in Seq(Jobs)
      /\ Len(handoffs) = 0 /\ Len(jobs) = 0
      BY DEF Init
<1>5. relay \in [Stagings -> [Friends -> FriendSignatures \cup {None}]]
      BY DEF Init
<1> QED BY <1>1, <1>2, <1>3, <1>4, <1>5, Numbers DEF Init, TypeOK, Rules

LEMMA TypeStep == TypeOK /\ [Next]_vars => TypeOK'
<1> SUFFICES ASSUME TypeOK, [Next]_vars PROVE TypeOK'
    OBVIOUS
<1> USE DEF page_vars, chain_vars
<1>0. /\ setting \in Settings /\ ledger \in 0..setting.ledgers
      /\ handoffs \in Seq(Handoffs) /\ Len(handoffs) \in Nat /\ DOMAIN handoffs = 1..Len(handoffs)
      /\ jobs \in Seq(Jobs) /\ Len(jobs) \in Nat /\ DOMAIN jobs = 1..Len(jobs) /\ Len(jobs) <= MaxJobs
      /\ rule \in Rules /\ IsFiniteSet(rule.signers)
  <2>1. handoffs \in Seq(Handoffs) /\ jobs \in Seq(Jobs)
        BY DEF TypeOK
  <2>2. Len(handoffs) \in Nat /\ DOMAIN handoffs = 1..Len(handoffs)
        /\ Len(jobs) \in Nat /\ DOMAIN jobs = 1..Len(jobs)
        BY <2>1, LenProperties
  <2> QED BY <2>1, <2>2 DEF TypeOK, Rules
<1>1. CASE UNCHANGED setting /\ Tick
  <2>1. ledger' \in 0..setting.ledgers
        BY <1>0, <1>1, Numbers DEF Tick
  <2> QED BY <1>1, <2>1 DEF Tick, TypeOK
<1>2. CASE UNCHANGED setting /\ Land
  <2>1. PICK j \in DOMAIN jobs :
          /\ IF runs(jobs[j])
               THEN /\ rule' \in results(rule, jobs[j].call)
                    /\ used' = used \cup {<<jobs[j].id, jobs[j].tx>>}
                    /\ jobs' = [jobs EXCEPT ![j].status = "confirmed"]
               ELSE /\ jobs' = [jobs EXCEPT ![j].status = "failed"]
                    /\ UNCHANGED <<rule, used>>
          /\ UNCHANGED <<ledger, handoffs, relay, staging, page_vars>>
        BY <1>2 DEF Land
  <2>2. jobs[j] \in Jobs
        BY <1>0
  <2>3. jobs[j].id \in Stagings /\ jobs[j].tx \in 1..3 /\ jobs[j].call \in Calls
        BY <2>2 DEF Jobs
  <2>4. PICK status \in {"confirmed", "failed"} : jobs' = [jobs EXCEPT ![j] = [jobs[j] EXCEPT !.status = status]]
        BY <2>1
  <2>5. [jobs[j] EXCEPT !.status = status] \in Jobs
        BY <2>2 DEF Jobs
  <2>6. jobs' \in Seq(Jobs) /\ Len(jobs') = Len(jobs)
        BY <1>0, <2>4, <2>5, ExceptSeq
  <2>7. used' \subseteq Stagings \X (1..3)
        BY <2>1, <2>3 DEF TypeOK
  <2>8. rule' \in Rules /\ IsFiniteSet(rule'.signers)
        BY <1>0, <2>1, <2>3, ResultsShape
  <2>9. /\ UNCHANGED <<setting, ledger, handoffs, relay, staging, removable, preparing, collecting, submitting>>
        BY <1>2, <2>1
  <2> QED BY <1>0, <2>6, <2>7, <2>8, <2>9 DEF TypeOK, Rules
<1>3. CASE UNCHANGED setting /\ PrepareBegin
  <2>1. PICK request \in Requested, rule_info \in findRecoveryRules :
          preparing' = [pc |-> "simulate", threshold |-> threshold_of(rule_info),
                        plan |-> planRotation(enrichRotationRequest(request, rule))]
        BY <1>3 DEF PrepareBegin
  <2>2. planRotation(enrichRotationRequest(request, rule)) \in Plans
        BY PlanIsTyped DEF PlanOK
  <2>3. threshold_of(rule_info) \in 1..Cardinality(Friends)
    <3>1. rule_info.friends = Friends /\ rule_info.threshold \in {setting.threshold, None}
          BY DEF findRecoveryRules
    <3>2. Cardinality(Friends) \in Nat /\ setting.threshold \in 1..Cardinality(Friends)
          BY <1>0, Numbers
    <3>3. (Cardinality(Friends) + 1) \div 2 \in 1..Cardinality(Friends)
          BY <3>2
    <3> QED BY <3>1, <3>2, <3>3 DEF threshold_of
  <2>4. Len(handoffs) + 1 <= setting.stagings
        BY <1>0, <1>3, Numbers DEF PrepareBegin
  <2> QED BY <1>3, <1>0, <2>1, <2>2, <2>3, <2>4 DEF PrepareBegin, TypeOK, Idle
<1>4. CASE UNCHANGED setting /\ Stage
  <2>1. staging' \in RotationStagings /\ handoff_of(staging') \in Handoffs
        BY <1>4, StagedType DEF Stage
  <2>2. handoffs' = Append(handoffs, handoff_of(staging'))
        BY <1>4 DEF Stage
  <2>3. handoffs' \in Seq(Handoffs) /\ Len(handoffs') = Len(handoffs) + 1
        BY <1>0, <2>1, <2>2, AppendProperties
  <2>4. Len(handoffs) + 1 <= setting.stagings
        BY <1>4 DEF Stage, TypeOK
  <2> QED BY <1>4, <1>0, <2>1, <2>3, <2>4 DEF Stage, TypeOK
<1>5. CASE UNCHANGED setting /\ StageFails
  <2>1. Len(handoffs) + 0 <= setting.stagings
        BY <1>5, <1>0, Numbers DEF StageFails, TypeOK
  <2> QED BY <1>5, <2>1 DEF StageFails, TypeOK
<1>6. CASE UNCHANGED setting /\ Reload
  <2>1. removable' \in Passkeys \cup {None}
        BY <1>0, <1>6, RemovableType DEF Reload
  <2>2. Len(handoffs) + 0 <= setting.stagings
        BY <1>0, Numbers DEF TypeOK
  <2> QED BY <1>6, <2>1, <2>2 DEF Reload, TypeOK
<1>7. CASE UNCHANGED setting /\ FriendSigns
  <2>1. PICK f \in Friends, n \in DOMAIN handoffs :
          /\ relay' = [relay EXCEPT ![link(n).k][f] = signed_for(f, n)]
          /\ UNCHANGED <<chain_vars, handoffs, jobs, staging, page_vars>>
        BY <1>7 DEF FriendSigns
  <2>2. signed_for(f, n) \in FriendSignatures /\ link(n).k = n /\ n \in Stagings
        BY BlobType
  <2>3. relay' \in [Stagings -> [Friends -> FriendSignatures \cup {None}]]
        BY <2>1, <2>2 DEF TypeOK
  <2> QED BY <1>7, <2>1, <2>3 DEF TypeOK
<1>8. CASE UNCHANGED setting /\ RelayForgets
  <2>1. PICK n \in DOMAIN handoffs, f \in Friends :
          /\ relay' = [relay EXCEPT ![n][f] = None]
          /\ UNCHANGED <<chain_vars, handoffs, jobs, staging, page_vars>>
        BY <1>8 DEF RelayForgets
  <2>2. n \in Stagings
        BY BlobType
  <2>3. relay' \in [Stagings -> [Friends -> FriendSignatures \cup {None}]]
        BY <2>1, <2>2 DEF TypeOK
  <2> QED BY <1>8, <2>1, <2>3 DEF TypeOK
<1>9. CASE UNCHANGED setting /\ CollectBegin
  <2>1. staging \in RotationStagings
        BY <1>9 DEF CollectBegin, TypeOK
  <2>2. collecting' \in [pc: {"list"}, bucket: Stagings, known: SUBSET Friends]
        BY <1>9, <2>1, StagingType DEF CollectBegin, known
  <2> QED BY <1>9, <2>2 DEF CollectBegin, TypeOK
<1>10. CASE UNCHANGED setting /\ CollectEnd
  <2>1. collecting \in [pc: {"list"}, bucket: Stagings, known: SUBSET Friends]
        BY <1>10 DEF CollectEnd, TypeOK
  <2>2. relay[collecting.bucket] \in [Friends -> FriendSignatures \cup {None}]
        BY <2>1 DEF TypeOK
  <2>3. staging' \in RotationStagings \cup {None}
    <3>1. CASE staging = None
          BY <1>10, <3>1 DEF CollectEnd
    <3>2. CASE staging # None
      <4>1. staging \in RotationStagings
            BY <3>2 DEF TypeOK
      <4>2. add_unknown(staging, relay[collecting.bucket], collecting.known) \in RotationStagings
            BY <4>1, <2>2 DEF add_unknown, RotationStagings
      <4> QED BY <1>10, <3>2, <4>2 DEF CollectEnd
    <3> QED BY <3>1, <3>2
  <2> QED BY <1>10, <2>3 DEF CollectEnd, TypeOK
<1>11. CASE UNCHANGED setting /\ SubmitBegin
  <2>1. staging \in RotationStagings
        BY <1>11 DEF SubmitBegin, TypeOK
  <2> QED BY <1>11, <2>1 DEF SubmitBegin, TypeOK
<1>12. CASE UNCHANGED setting /\ Submit
  <2> DEFINE st == submitting.st
             i == next_tx(st)
             j == Len(jobs) + 1
  <2>1. st \in RotationStagings /\ todo(st) # {}
        BY <1>12 DEF Submit, TypeOK, Idle
  <2>2. i \in DOMAIN st.txs
        BY <2>1, NextTx DEF todo
  <2>3. j \in 1..MaxJobs /\ jobs' = Append(jobs, job_for(st, i))
        BY <1>12, <1>0 DEF Submit
  <2>4. jobs' \in Seq(Jobs) /\ Len(jobs') <= MaxJobs
    <3>1. job_for(st, i) \in Jobs
          BY <2>1, <2>2, JobType
    <3> QED BY <3>1, <2>3, <1>0, AppendProperties
  <2> HIDE DEF st, i, j
  <2>5. saved_job(st, i, j) \in RotationStagings
        BY <2>1, <2>2, <2>3, SavedJob
  <2>6. with_hash(saved_job(st, i, j), i) \in RotationStagings
    <3>1. i \in DOMAIN saved_job(st, i, j).txs
          BY <2>1, <2>2, <2>3, SavedJob
    <3> QED BY <3>1, <2>5, WithHash
  <2>7. \/ /\ staging' \in {saved_job(st, i, j), staging}
           /\ submitting' = [pc |-> "wait", st |-> saved_job(st, i, j), job |-> j]
        \/ /\ staging' = with_hash(saved_job(st, i, j), i)
           /\ submitting' = [pc |-> "submit", st |-> with_hash(saved_job(st, i, j), i)]
        \/ submitting' = Idle /\ staging' = staging
        BY <1>12 DEF Submit, submit_idle, st, i, j
  <2>8. /\ staging' \in RotationStagings \cup {None}
        /\ submitting' \in {Idle} \cup [pc: {"submit"}, st: RotationStagings]
                           \cup [pc: {"wait"}, st: RotationStagings, job: 1..MaxJobs]
        BY <2>3, <2>5, <2>6, <2>7 DEF TypeOK
  <2>9. UNCHANGED <<setting, ledger, rule, used, handoffs, relay, removable, preparing, collecting>>
        BY <1>12 DEF Submit
  <2> QED BY <2>4, <2>8, <2>9 DEF TypeOK
<1>13. CASE UNCHANGED setting /\ SubmitFails
       BY <1>13 DEF SubmitFails, submit_idle, TypeOK
<1>14. CASE UNCHANGED setting /\ Resume
  <2> DEFINE st == submitting.st
             i == next_tx(st)
  <2>1. st \in RotationStagings /\ todo(st) # {}
        BY <1>14 DEF Resume, TypeOK, Idle
  <2>2. i \in DOMAIN st.txs
        BY <2>1, NextTx DEF todo
  <2>3. st.txs[i] \in StagedTxs /\ st.txs[i].job # None
        BY <1>14, <2>1, <2>2, StagingType DEF Resume, unposted
  <2>4. st.txs[i].job \in 1..MaxJobs
        BY <2>3 DEF StagedTxs
  <2>5. submitting' \in [pc: {"wait"}, st: RotationStagings, job: 1..MaxJobs]
        BY <1>14, <2>1, <2>4 DEF Resume
  <2> QED BY <1>14, <2>5 DEF Resume, TypeOK
<1>15. CASE UNCHANGED setting /\ Confirmed
  <2> DEFINE st == submitting.st
             i == next_tx(st)
  <2>0. submitting.pc = "wait"
        BY <1>15 DEF Confirmed
  <2>1. st \in RotationStagings
        BY <2>0 DEF TypeOK, Idle
  <2>2. with_hash(st, i) \in RotationStagings
    <3>1. CASE i \in DOMAIN st.txs
          BY <3>1, <2>1, WithHash
    <3>2. CASE i \notin DOMAIN st.txs
      <4> HIDE DEF i
      <4>1. PICK k \in 1..3 : st.txs \in [1..k -> StagedTxs]
            BY <2>1 DEF RotationStagings
      <4>2. [st.txs EXCEPT ![i].submitted = TRUE] = st.txs
            BY <4>1, <3>2
      <4>3. with_hash(st, i) = [st EXCEPT !.txs = [st.txs EXCEPT ![i].submitted = TRUE]]
            BY <2>1 DEF with_hash, RotationStagings
      <4> QED BY <2>1, <4>2, <4>3 DEF RotationStagings
    <3> QED BY <3>1, <3>2
  <2> QED BY <1>15, <2>2 DEF Confirmed, TypeOK
<1>16. CASE UNCHANGED setting /\ WaitFails
       BY <1>16 DEF WaitFails, submit_idle, TypeOK
<1>17. CASE UNCHANGED setting /\ SubmitEnd
       BY <1>17 DEF SubmitEnd, TypeOK
<1>18. CASE UNCHANGED vars
       BY <1>18 DEF vars, TypeOK
<1> QED BY <1>1, <1>2, <1>3, <1>4, <1>5, <1>6, <1>7, <1>8, <1>9, <1>10, <1>11, <1>12, <1>13, <1>14,
           <1>15, <1>16, <1>17, <1>18 DEF Next, Prepare, Collect, submitRotation

(* TypeOK holds throughout. *)
THEOREM TypeCorrect == Spec => []TypeOK
BY TypeInit, TypeStep, PTL DEF Spec
-----------------------------------------------------------------------------
(* What is signed.                                                         *)

LEMMA SignatureShape ==
  ASSUME NEW b \in FriendSignatures
  PROVE  /\ Len(friendSignature(b).entries) = b.entries
         /\ \A i \in 1..b.entries :
              friendSignature(b).entries[i] =
                friend_entry(link(b.handoff), i, b.parent_expiration,
                             <<b.friend, b.handoff, i, b.expiration>>, b.expiration)
<1> DEFINE entry(i) == friend_entry(link(b.handoff), i, b.parent_expiration,
                                    <<b.friend, b.handoff, i, b.expiration>>, b.expiration)
           entries == [i \in 1..b.entries |-> entry(i)]
           s == [friend |-> b.friend, entries |-> entries]
<1>1. b.entries \in 1..3
      BY DEF FriendSignatures
<1>2. Len(entries) = b.entries
      BY <1>1
<1>3. \A i \in 1..b.entries : entries[i] = entry(i)
      OBVIOUS
<1>4. friendSignature(b) = decodeFriendSignature(encodeFriendSignature(s))
      BY DEF friendSignature
<1>5. CASE b.entries = 1
  <2>1. entries[1] = [nonce |-> entry(1).nonce, expiration |-> entry(1).expiration,
                      assertion |-> entry(1).assertion]
        BY <1>3, <1>5 DEF friend_entry
  <2> HIDE DEF entries, entry
  <2>2. encodeFriendSignature(s) =
          [v |-> 1, friend |-> b.friend, nonce |-> entries[1].nonce,
           exp |-> entries[1].expiration, sig |-> entries[1].assertion]
        BY <1>2, <1>5 DEF encodeFriendSignature
  <2>3. friendSignature(b).entries =
          <<[nonce |-> entries[1].nonce, expiration |-> entries[1].expiration,
             assertion |-> entries[1].assertion]>>
        BY <1>4, <2>2 DEF decodeFriendSignature
  <2>4. friendSignature(b).entries = <<entries[1]>>
    <3>1. entries[1] = [nonce |-> entries[1].nonce, expiration |-> entries[1].expiration,
                        assertion |-> entries[1].assertion]
          BY <2>1
    <3> QED BY <2>3, <3>1
  <2>5. entries[1] = entry(1)
        BY <1>3, <1>5
  <2> QED BY <1>5, <2>4, <2>5 DEF entry
<1>6. CASE b.entries # 1
  <2> HIDE DEF entries
  <2>1. encodeFriendSignature(s) = [v |-> 2, friend |-> b.friend, sigs |-> entries]
        BY <1>2, <1>6 DEF encodeFriendSignature
  <2>2. friendSignature(b).entries = entries
        BY <1>4, <2>1 DEF decodeFriendSignature
  <2> QED BY <1>2, <1>3, <2>2
<1> QED BY <1>5, <1>6

(* Handoffs are only ever added. *)
LEMMA HandoffsStay ==
  ASSUME TypeOK, [Next]_vars
  PROVE  \A n \in DOMAIN handoffs : n \in DOMAIN handoffs' /\ handoffs'[n] = handoffs[n]
<1>1. handoffs \in Seq(Handoffs)
      BY DEF TypeOK
<1>2. CASE Stage
  <2>1. handoff_of(staging') \in Handoffs /\ handoffs' = Append(handoffs, handoff_of(staging'))
        BY <1>2, StagedType DEF Stage
  <2> QED BY <1>1, <2>1, AppendProperties, LenProperties
<1>3. CASE UNCHANGED handoffs
      BY <1>3
<1> QED BY <1>2, <1>3 DEF Next, Tick, Land, Prepare, PrepareBegin, StageFails, Reload, FriendSigns,
           RelayForgets, Collect, CollectBegin, CollectEnd, submitRotation, SubmitBegin, Submit,
           SubmitFails, Resume, Confirmed, WaitFails, SubmitEnd, vars, chain_vars

LEMMA SignedStep == SignedInv /\ [Next]_vars => SignedInv'
<1> SUFFICES ASSUME SignedInv, [Next]_vars PROVE Signed'
    BY TypeStep DEF SignedInv
<1> USE DEF SignedInv
<1>0. \A n \in DOMAIN handoffs : n \in DOMAIN handoffs' /\ handoffs'[n] = handoffs[n]
      BY HandoffsStay
<1> DEFINE blob_ok(f, b) ==
             /\ b.friend = f /\ b.handoff \in DOMAIN handoffs'
             /\ b.parent_expiration = handoffs'[b.handoff].expiration
             /\ b.entries = Len(handoffs'[b.handoff].calls)
           staging_ok(st) == st.id \in DOMAIN handoffs' /\ handoff_of(st) = handoffs'[st.id]
           collected_ok(st) ==
             \A f \in Friends : st.collected[f] # None =>
               blob_ok(f, st.collected[f]) /\ st.collected[f].entries = Len(st.txs)
<1>1. ASSUME NEW st, StagingOK(st), CollectedOK(st),
             NEW s, s.id = st.id, handoff_of(s) = handoff_of(st),
             s.collected = st.collected, Len(s.txs) = Len(st.txs)
      PROVE  staging_ok(s) /\ collected_ok(s)
  <2>1. staging_ok(s)
        BY <1>0, <1>1 DEF StagingOK
  <2>2. collected_ok(s)
        BY <1>0, <1>1 DEF CollectedOK, BlobOK
  <2> QED BY <2>1, <2>2
<1>2. ASSUME NEW b, NEW f, BlobOK(f, b) PROVE blob_ok(f, b)
      BY <1>0, <1>2 DEF BlobOK
<1>3. /\ staging # None => staging_ok(staging) /\ collected_ok(staging)
      /\ submitting # Idle => staging_ok(submitting.st) /\ collected_ok(submitting.st)
      BY <1>1 DEF Signed
<1>4. \A n \in Stagings, f \in Friends : relay[n][f] # None => blob_ok(f, relay[n][f])
      BY <1>2 DEF Signed
<1> HIDE DEF blob_ok, staging_ok, collected_ok
<1>5. SUFFICES /\ staging' # None => staging_ok(staging') /\ collected_ok(staging')
               /\ submitting' # Idle => staging_ok(submitting'.st) /\ collected_ok(submitting'.st)
               /\ \A n \in Stagings, f \in Friends : relay'[n][f] # None => blob_ok(f, relay'[n][f])
      BY DEF Signed, StagingOK, CollectedOK, BlobOK, staging_ok, collected_ok, blob_ok
<1>6. CASE UNCHANGED <<staging, submitting, relay>>
      BY <1>3, <1>4, <1>6
<1>7. CASE Tick \/ Land \/ PrepareBegin \/ StageFails \/ CollectBegin \/ UNCHANGED vars
      BY <1>6, <1>7 DEF Tick, Land, PrepareBegin, StageFails, CollectBegin, page_vars, vars
<1>8. CASE Stage
  <2> DEFINE st == staged(preparing.plan, preparing.threshold)
  <2>1. /\ staging' = st /\ handoffs' = Append(handoffs, handoff_of(st))
        /\ UNCHANGED <<submitting, relay>>
        BY <1>8 DEF Stage
  <2>2. st.id = Len(handoffs) + 1 /\ handoff_of(st) \in Handoffs /\ \A f \in Friends : st.collected[f] = None
        BY <1>8, StagedType DEF Stage
  <2>3. handoffs \in Seq(Handoffs)
        BY DEF TypeOK
  <2>4. st.id \in DOMAIN handoffs' /\ handoffs'[st.id] = handoff_of(st)
        BY <2>1, <2>2, <2>3, AppendProperties, LenProperties
  <2>5. staging_ok(staging') /\ collected_ok(staging')
        BY <2>1, <2>2, <2>4 DEF staging_ok, collected_ok
  <2> QED BY <1>3, <1>4, <2>1, <2>5
<1>9. CASE Reload
      BY <1>9, <1>3, <1>4 DEF Reload
<1>10. CASE FriendSigns
  <2>1. PICK f \in Friends, n \in DOMAIN handoffs :
          /\ relay' = [relay EXCEPT ![link(n).k][f] = signed_for(f, n)]
          /\ UNCHANGED <<staging, submitting>>
        BY <1>10 DEF FriendSigns, page_vars
  <2>2. /\ link(n).k = n /\ n \in Stagings
        /\ signed_for(f, n) = [friend |-> f, handoff |-> n, entries |-> Len(handoffs[n].calls),
                               parent_expiration |-> handoffs[n].expiration,
                               expiration |-> ledger + setting.offset]
        BY BlobType
  <2>3. BlobOK(f, signed_for(f, n))
        BY <2>2 DEF BlobOK
  <2>4. relay \in [Stagings -> [Friends -> FriendSignatures \cup {None}]]
        BY DEF TypeOK
  <2>5. ASSUME NEW m \in Stagings, NEW g \in Friends, relay'[m][g] # None PROVE blob_ok(g, relay'[m][g])
    <3>1. relay'[m][g] = IF m = n /\ g = f THEN signed_for(f, n) ELSE relay[m][g]
          BY <2>1, <2>2, <2>4
    <3> QED BY <1>2, <1>4, <2>3, <2>5, <3>1
  <2> QED BY <1>3, <2>1, <2>5
<1>11. CASE RelayForgets
  <2>1. PICK n \in DOMAIN handoffs, f \in Friends :
          relay' = [relay EXCEPT ![n][f] = None] /\ UNCHANGED <<staging, submitting>>
        BY <1>11 DEF RelayForgets, page_vars
  <2>2. relay \in [Stagings -> [Friends -> FriendSignatures \cup {None}]] /\ n \in Stagings
        BY BlobType DEF TypeOK
  <2>3. ASSUME NEW m \in Stagings, NEW g \in Friends, relay'[m][g] # None PROVE blob_ok(g, relay'[m][g])
    <3>1. relay'[m][g] \in {None, relay[m][g]}
          BY <2>1, <2>2
    <3> QED BY <1>4, <2>3, <3>1
  <2> QED BY <1>3, <2>1, <2>3
<1>12. CASE CollectEnd
  <2>1. CASE staging = None
        BY <2>1, <1>12, <1>3, <1>4 DEF CollectEnd
  <2>2. CASE staging # None
    <3> DEFINE blobs == relay[collecting.bucket]
               st == add_unknown(staging, blobs, collecting.known)
    <3>1. staging' = st /\ UNCHANGED <<submitting, relay>>
          BY <1>12, <2>2 DEF CollectEnd
    <3>2. collecting.bucket \in Stagings /\ staging \in RotationStagings
          BY <1>12, <2>2 DEF CollectEnd, TypeOK
    <3>3. blobs \in [Friends -> FriendSignatures \cup {None}]
          BY <3>2 DEF TypeOK
    <3>4. /\ st.id = staging.id /\ handoff_of(st) = handoff_of(staging) /\ st.txs = staging.txs
          /\ \A f \in Friends :
               st.collected[f] = IF f \notin collecting.known /\ acceptable(staging, blobs[f])
                                 THEN blobs[f] ELSE staging.collected[f]
          BY <3>2 DEF add_unknown, handoff_of, RotationStagings
    <3>5. staging_ok(st)
          BY <1>3, <2>2, <3>4 DEF staging_ok
    <3>6. ASSUME NEW f \in Friends, st.collected[f] # None
          PROVE  blob_ok(f, st.collected[f]) /\ st.collected[f].entries = Len(st.txs)
      <4>1. CASE st.collected[f] = staging.collected[f]
            BY <1>3, <2>2, <3>4, <3>6, <4>1 DEF collected_ok
      <4>2. CASE st.collected[f] = blobs[f] /\ acceptable(staging, blobs[f])
        <5>1. blobs[f] # None /\ blobs[f] \in FriendSignatures
              BY <3>3, <3>6, <4>2
        <5>2. blobs[f].entries = Len(staging.txs)
              BY <4>2, <5>1, SignatureShape DEF acceptable
        <5>3. blob_ok(f, blobs[f])
              BY <1>4, <3>2, <5>1
        <5> QED BY <3>4, <4>2, <5>2, <5>3
      <4> QED BY <3>4, <4>1, <4>2
    <3> HIDE DEF st
    <3>7. collected_ok(st)
          BY <3>6 DEF collected_ok
    <3> QED BY <1>3, <1>4, <3>1, <3>5, <3>7
  <2> QED BY <2>1, <2>2
<1>13. CASE SubmitBegin
       BY <1>13, <1>3, <1>4 DEF SubmitBegin
<1>14. CASE Submit
  <2> DEFINE st == submitting.st
             i == next_tx(st)
             j == Len(jobs) + 1
             s == saved_job(st, i, j)
             t == with_hash(s, i)
  <2>1. st \in RotationStagings /\ todo(st) # {} /\ submitting # Idle
        BY <1>14 DEF Submit, TypeOK, Idle
  <2>2. i \in DOMAIN st.txs
        BY <2>1, NextTx DEF todo
  <2>3. j \in 1..MaxJobs
    <3>1. Len(jobs) \in Nat
          BY LenProperties DEF TypeOK
    <3> QED BY <1>14, <3>1, Numbers DEF Submit
  <2>4. \/ /\ staging' \in {s, staging}
           /\ submitting' = [pc |-> "wait", st |-> s, job |-> j]
        \/ staging' = t /\ submitting' = [pc |-> "submit", st |-> t]
        \/ submitting' = Idle /\ staging' = staging
        BY <1>14 DEF Submit, submit_idle
  <2>5. relay' = relay
        BY <1>14 DEF Submit
  <2>6. StagingOK(st) /\ CollectedOK(st)
        BY <2>1 DEF Signed
  <2> HIDE DEF st, i, j
  <2>7. /\ s \in RotationStagings /\ s.id = st.id /\ handoff_of(s) = handoff_of(st)
        /\ s.collected = st.collected /\ Len(s.txs) = Len(st.txs) /\ i \in DOMAIN s.txs
        BY <2>1, <2>2, <2>3, SavedJob
  <2> HIDE DEF s
  <2>8. /\ t.id = st.id /\ handoff_of(t) = handoff_of(st)
        /\ t.collected = st.collected /\ Len(t.txs) = Len(st.txs)
        BY <2>7, WithHash
  <2> HIDE DEF t
  <2>9. staging_ok(s) /\ collected_ok(s)
        BY <1>1, <2>6, <2>7
  <2>10. staging_ok(t) /\ collected_ok(t)
        BY <1>1, <2>6, <2>8
  <2> QED BY <1>3, <1>4, <2>4, <2>5, <2>9, <2>10
<1>15. CASE SubmitFails \/ WaitFails
       BY <1>15, <1>3, <1>4 DEF SubmitFails, WaitFails, submit_idle
<1>16. CASE Resume
  <2>1. submitting # Idle /\ submitting'.st = submitting.st /\ UNCHANGED <<staging, relay>>
        BY <1>16 DEF Resume, Idle
  <2> QED BY <1>3, <1>4, <2>1
<1>17. CASE Confirmed
  <2> DEFINE st == submitting.st
             t == with_hash(st, next_tx(st))
  <2>1. st \in RotationStagings /\ submitting # Idle /\ submitting.pc = "wait"
        BY <1>17 DEF Confirmed, TypeOK, Idle
  <2>2. staging' = t /\ submitting' = [pc |-> "submit", st |-> t] /\ relay' = relay
        BY <1>17 DEF Confirmed
  <2>3. StagingOK(st) /\ CollectedOK(st)
        BY <2>1 DEF Signed
  <2>4. /\ t.id = st.id /\ handoff_of(t) = handoff_of(st)
        /\ t.collected = st.collected /\ Len(t.txs) = Len(st.txs)
    <3> DEFINE i == next_tx(st)
    <3>1. CASE i \in DOMAIN st.txs
          BY <3>1, <2>1, WithHash
    <3>2. CASE i \notin DOMAIN st.txs
      <4> HIDE DEF i
      <4>1. PICK k \in 1..3 : st.txs \in [1..k -> StagedTxs]
            BY <2>1 DEF RotationStagings
      <4>2. [st.txs EXCEPT ![i].submitted = TRUE] = st.txs
            BY <4>1, <3>2
      <4>3. with_hash(st, i) = [st EXCEPT !.txs = [st.txs EXCEPT ![i].submitted = TRUE]]
            BY <2>1 DEF with_hash, RotationStagings
      <4> QED BY <2>1, <4>2, <4>3 DEF RotationStagings, i
    <3> QED BY <3>1, <3>2
  <2> HIDE DEF st, t
  <2>5. staging_ok(t) /\ collected_ok(t)
        BY <1>1, <2>3, <2>4
  <2> QED BY <1>4, <2>2, <2>5
<1>18. CASE SubmitEnd
       BY <1>18, <1>4 DEF SubmitEnd
<1> QED BY <1>7, <1>8, <1>9, <1>10, <1>11, <1>12, <1>13, <1>14, <1>15, <1>16, <1>17, <1>18
        DEF Next, Prepare, Collect, submitRotation

LEMMA SignedInit == Init => SignedInv
BY TypeInit DEF Init, SignedInv, Signed

LEMMA DigestsFromSigned == SignedInv => DigestsAgree
<1> SUFFICES ASSUME SignedInv, staging # None,
                    NEW f \in known(staging), staging.collected[f].handoff = staging.id,
                    NEW i \in DOMAIN staging.txs
             PROVE  blob_verifies(staging, staging.collected[f], i)
    BY DEF DigestsAgree
<1> DEFINE st == staging
           b == staging.collected[f]
           n == staging.id
           call == st.txs[i].call
           exp == st.expiration
           parent == parent_entry(n, i, call, exp, {b})
           digest == parentAuthDigest(assembled(n, i, call), exp, RecoveryRule)
           entry == friendSignature(b).entries[i]
           nested == buildFriendAuthEntry(Account, b.friend, entry, digest)
<1>1. st \in RotationStagings /\ f \in Friends /\ b # None
      BY DEF SignedInv, TypeOK, known
<1>2. /\ b \in FriendSignatures /\ exp \in Expirations /\ DOMAIN st.txs = 1..Len(st.txs)
      BY <1>1, StagingType
<1>3. /\ handoff_of(st) = handoffs[n] /\ b.handoff = n
      /\ b.parent_expiration = handoffs[n].expiration /\ b.entries = Len(st.txs)
      BY <1>1 DEF SignedInv, Signed, StagingOK, CollectedOK, BlobOK
<1>4. b.parent_expiration = exp /\ handoffs[n].calls = [k \in DOMAIN st.txs |-> st.txs[k].call]
      BY <1>3 DEF handoff_of
<1>5. link(n).tx[i] = assembled(n, i, call) /\ link(n).a = Account /\ link(n).r = RecoveryRule
      BY <1>4 DEF link, encodeRotationHandoff
<1>6. entry = friend_entry(link(n), i, exp, <<b.friend, n, i, b.expiration>>, b.expiration)
      BY <1>2, <1>3, <1>4, SignatureShape
<1>7. /\ entry.expiration = b.expiration
      /\ entry.assertion = computeAuthDigest(
           friendSignaturePayload(Account, digest, entry.nonce, entry.expiration), <<0>>)
      BY <1>5, <1>6 DEF friend_entry
<1>8. b.expiration \in Nat /\ exp \in Nat
      BY <1>2, Numbers DEF FriendSignatures, Expirations
<1> HIDE DEF st, b, n, call, exp, digest, entry
<1>9. /\ parent.expiration = exp /\ parent.address = Account
      /\ parent.signature.signers = {Delegated(b.friend)}
      /\ parent.signature.context_rule_ids = <<RecoveryRule>>
      /\ digest_of(parent) = digest
      BY DEF parent_entry, assembled, recorded, buildAuthPayload, digest_of, digest, parentAuthDigest,
             buildAuthHashAt
<1>10. /\ nested.address = b.friend /\ nested.invocation = CheckAuth(Account, digest)
       /\ nested.nonce = entry.nonce /\ nested.expiration = entry.expiration
       /\ nested.signature = buildAuthPayload(<<0>>, {External(b.friend, entry.assertion)})
       BY DEF buildFriendAuthEntry, recorded, buildFriendInvocation
<1>11. digest_of(nested) = entry.assertion
       BY <1>7, <1>10 DEF digest_of, buildAuthPayload, friendSignaturePayload, buildAuthHashAt,
          recorded, buildFriendInvocation
<1>12. passkeys_verify(nested, 0)
  <2>1. External(b.friend, entry.assertion).kind = "external"
        /\ External(b.friend, entry.assertion).assertion = entry.assertion
        BY DEF External
  <2>2. nested.signature.signers = {External(b.friend, entry.assertion)}
        BY <1>10 DEF buildAuthPayload
  <2> HIDE DEF nested
  <2> QED BY <1>7, <1>8, <1>10, <1>11, <2>1, <2>2 DEF passkeys_verify
<1>13. nested_entries(n, i, call, exp, {b}) = {nested}
  <2> DEFINE built(c) == buildFriendAuthEntry(Account, c.friend, friendSignature(c).entries[i], digest)
  <2>1. nested_entries(n, i, call, exp, {b}) = {built(c) : c \in {b}}
        BY DEF nested_entries, digest
  <2>2. built(b) = nested
        BY DEF entry
  <2> HIDE DEF built, nested
  <2> QED BY <2>1, <2>2
<1>14. delegate_verifies(parent, b.friend, {nested}, 0)
       BY <1>9, <1>10, <1>12 DEF delegate_verifies
<1>15. verifies(parent, {nested}, 0)
  <2>1. Delegated(b.friend).kind = "delegated" /\ Delegated(b.friend).key = b.friend
        BY DEF Delegated
  <2> HIDE DEF parent, nested
  <2> QED BY <1>8, <1>9, <1>14, <2>1 DEF verifies
<1> QED BY <1>13, <1>15 DEF blob_verifies, st, b, n, call, exp

(* DigestsAgree, for every history of the page and the relay. *)
THEOREM DigestsAlwaysAgree == Spec => []DigestsAgree
BY SignedInit, SignedStep, DigestsFromSigned, PTL DEF Spec

-----------------------------------------------------------------------------
(* What landed.  From here on an answer to a submission carries no hash: a  *)
(* page that is given one marks a transaction that may still fail.          *)

LEMMA StagingShape ==
  ASSUME TypeOK, NEW st \in RotationStagings, StagingOK(st)
  PROVE  /\ DOMAIN handoffs[st.id].calls = DOMAIN st.txs
         /\ \A i \in DOMAIN st.txs : handoffs[st.id].calls[i] = st.txs[i].call
BY DEF StagingOK, handoff_of

LEMMA CallsShape ==
  ASSUME TypeOK, NEW n \in DOMAIN handoffs
  PROVE  /\ DOMAIN handoffs[n].calls \subseteq 1..3
         /\ \A i \in DOMAIN handoffs[n].calls : handoffs[n].calls[i] \in Calls
                                                /\ \A k \in 1..(i - 1) : k \in DOMAIN handoffs[n].calls
<1>1. handoffs[n] \in Handoffs
  <2>1. handoffs \in Seq(Handoffs)
        BY DEF TypeOK
  <2> QED BY <2>1, LenProperties
<1>2. PICK m \in 1..3 : handoffs[n].calls \in [1..m -> Calls]
      BY <1>1 DEF Handoffs, Plans
<1> QED BY <1>2

LEMMA AddUnknown ==
  ASSUME TypeOK, NEW st \in RotationStagings, collecting # Idle
  PROVE  LET s == add_unknown(st, relay[collecting.bucket], collecting.known)
         IN  s \in RotationStagings /\ s.id = st.id /\ s.txs = st.txs
<1>1. collecting.bucket \in Stagings
      BY DEF TypeOK
<1>2. relay[collecting.bucket] \in [Friends -> FriendSignatures \cup {None}]
      BY <1>1 DEF TypeOK
<1> QED BY <1>2 DEF add_unknown, RotationStagings

LEMMA LandedInit == Init => LandedInv
<1> SUFFICES ASSUME Init PROVE LandedInv
    OBVIOUS
<1>1. SignedInv
      BY SignedInit
<1>2. Landed
      BY DEF Init, Landed, UsedOK, Waits, Alone
<1> QED BY <1>1, <1>2 DEF LandedInv

(* Jobs keep what they are, and what landed has landed. *)
LEMMA JobsStay ==
  ASSUME TypeOK, [Next]_vars
  PROVE  /\ used \subseteq used'
         /\ \A j \in DOMAIN jobs :
              /\ j \in DOMAIN jobs' /\ jobs'[j].id = jobs[j].id /\ jobs'[j].tx = jobs[j].tx
              /\ jobs'[j].call = jobs[j].call
<1>1. jobs \in Seq(Jobs)
      BY DEF TypeOK
<1>2. CASE Submit
  <2> DEFINE job == job_for(submitting.st, next_tx(submitting.st))
  <2>1. jobs' = Append(jobs, job) /\ used' = used
        BY <1>2 DEF Submit, chain_vars
  <2>2. submitting.st \in RotationStagings /\ todo(submitting.st) # {}
        BY <1>2 DEF Submit, TypeOK, Idle
  <2>3. job \in Jobs
        BY <2>2, NextTx, JobType DEF todo
  <2> HIDE DEF job
  <2> QED BY <1>1, <2>1, <2>3, AppendProperties, LenProperties
<1>3. CASE Land
  <2>1. PICK j \in DOMAIN jobs : \E status \in {"confirmed", "failed"} :
          jobs' = [jobs EXCEPT ![j].status = status]
        BY <1>3 DEF Land
  <2>2. jobs[j] \in Jobs
        BY <1>1, LenProperties
  <2>3. used \subseteq used'
        BY <1>3 DEF Land
  <2> QED BY <2>1, <2>2, <2>3 DEF Jobs
<1>4. CASE UNCHANGED <<jobs, used>>
      BY <1>4
<1> QED BY <1>2, <1>3, <1>4 DEF Next, Tick, Stage, Prepare, PrepareBegin, StageFails, Reload, FriendSigns,
           RelayForgets, Collect, CollectBegin, CollectEnd, submitRotation, SubmitBegin,
           SubmitFails, Resume, Confirmed, WaitFails, SubmitEnd, vars, chain_vars

LEMMA LandedStep ==
  ASSUME HashAtSubmit = FALSE, LandedInv, [Next]_vars
  PROVE  LandedInv'
<1>0. /\ SignedInv /\ SignedInv' /\ TypeOK /\ TypeOK'
      /\ \A n \in DOMAIN handoffs : n \in DOMAIN handoffs' /\ handoffs'[n] = handoffs[n]
      /\ used \subseteq used'
      /\ \A j \in DOMAIN jobs :
           /\ j \in DOMAIN jobs' /\ jobs'[j].id = jobs[j].id /\ jobs'[j].tx = jobs[j].tx
           /\ jobs'[j].call = jobs[j].call
  <2>1. SignedInv /\ SignedInv'
        BY SignedStep DEF LandedInv
  <2>2. TypeOK /\ TypeOK'
        BY <2>1 DEF SignedInv
  <2>3. \A n \in DOMAIN handoffs : n \in DOMAIN handoffs' /\ handoffs'[n] = handoffs[n]
        BY <2>2, HandoffsStay
  <2>4. /\ used \subseteq used'
        /\ \A j \in DOMAIN jobs :
             /\ j \in DOMAIN jobs' /\ jobs'[j].id = jobs[j].id /\ jobs'[j].tx = jobs[j].tx
             /\ jobs'[j].call = jobs[j].call
        BY <2>2, JobsStay
  <2> QED BY <2>1, <2>2, <2>3, <2>4
<1> USE DEF LandedInv
<1> DEFINE job_ok(job) ==
             /\ job.id \in DOMAIN handoffs' /\ job.tx \in DOMAIN handoffs'[job.id].calls
             /\ job.call = handoffs'[job.id].calls[job.tx]
             /\ \A k \in 1..(job.tx - 1) : <<job.id, k>> \in used'
             /\ job.status = "confirmed" => <<job.id, job.tx>> \in used'
           txs_ok(st) ==
             \A i \in DOMAIN st.txs :
               /\ st.txs[i].submitted => <<st.id, i>> \in used'
               /\ st.txs[i].job # None =>
                    /\ st.txs[i].job \in DOMAIN jobs'
                    /\ jobs'[st.txs[i].job].id = st.id /\ jobs'[st.txs[i].job].tx = i
           used_ok == \A u \in used' :
             /\ u[1] \in DOMAIN handoffs' /\ u[2] \in DOMAIN handoffs'[u[1]].calls
             /\ \A k \in 1..(u[2] - 1) : <<u[1], k>> \in used'
<1>1. ASSUME NEW st, TxsOK(st), NEW s, s.id = st.id, s.txs = st.txs PROVE txs_ok(s)
      BY <1>0, <1>1 DEF TxsOK
<1>2. ASSUME NEW job, JobOK(job) PROVE job_ok(job)
      BY <1>0, <1>2 DEF JobOK
<1>3. /\ staging # None => txs_ok(staging)
      /\ submitting # Idle => txs_ok(submitting.st)
      BY <1>1 DEF Landed
<1>4. \A j \in DOMAIN jobs : job_ok(jobs[j])
      BY <1>2 DEF Landed
<1>5. used' = used => used_ok
      BY <1>0 DEF Landed, UsedOK
<1> HIDE DEF job_ok, txs_ok, used_ok
<1>6. ASSUME \A j \in DOMAIN jobs' : job_ok(jobs'[j]), used_ok,
             staging' # None => txs_ok(staging'), submitting' # Idle => txs_ok(submitting'.st),
             Waits', Alone'
      PROVE  LandedInv'
      BY <1>0, <1>6 DEF Landed, UsedOK, JobOK, TxsOK, job_ok, txs_ok, used_ok
<1>7. setting' = setting
      BY DEF Next, vars
<1>8. CASE UNCHANGED <<staging, submitting, jobs, used>>
  <2>1. Waits' /\ Alone'
        BY <1>7, <1>8 DEF Landed, Waits, Alone, todo, next_tx
  <2> QED BY <1>3, <1>4, <1>5, <1>6, <1>8, <2>1
<1>9. CASE \/ Tick \/ PrepareBegin \/ StageFails \/ FriendSigns \/ RelayForgets \/ CollectBegin
           \/ UNCHANGED vars
      BY <1>8, <1>9 DEF Tick, PrepareBegin, StageFails, FriendSigns, RelayForgets, CollectBegin,
                        chain_vars, page_vars, vars
<1>10. CASE Land
  <2>1. PICK j \in DOMAIN jobs :
          \/ /\ used' = used \cup {<<jobs[j].id, jobs[j].tx>>}
             /\ jobs' = [jobs EXCEPT ![j].status = "confirmed"]
          \/ used' = used /\ jobs' = [jobs EXCEPT ![j].status = "failed"]
        BY <1>10 DEF Land
  <2>2. UNCHANGED <<staging, submitting, handoffs>>
        BY <1>10 DEF Land, page_vars
  <2>3. DOMAIN jobs' = DOMAIN jobs
        BY <2>1
  <2>4. jobs[j] \in Jobs
        BY <1>0, LenProperties DEF TypeOK
  <2>5. ASSUME NEW i \in DOMAIN jobs PROVE job_ok(jobs'[i])
    <3>1. CASE i # j
          BY <3>1, <1>4, <2>1
    <3>2. CASE i = j
      <4>1. jobs'[j].status = "confirmed" => <<jobs[j].id, jobs[j].tx>> \in used'
            BY <2>1, <2>4 DEF Jobs
      <4> QED BY <3>2, <4>1, <1>0, <1>4 DEF job_ok
    <3> QED BY <3>1, <3>2
  <2>6. used_ok
    <3>1. CASE used' = used
          BY <3>1, <1>5
    <3>2. CASE used' = used \cup {<<jobs[j].id, jobs[j].tx>>}
      <4> DEFINE u == <<jobs[j].id, jobs[j].tx>>
      <4>1. /\ u[1] \in DOMAIN handoffs' /\ u[2] \in DOMAIN handoffs'[u[1]].calls
            /\ \A k \in 1..(u[2] - 1) : <<u[1], k>> \in used'
            BY <1>4 DEF job_ok
      <4>2. \A v \in used :
             /\ v[1] \in DOMAIN handoffs' /\ v[2] \in DOMAIN handoffs'[v[1]].calls
             /\ \A k \in 1..(v[2] - 1) : <<v[1], k>> \in used'
            BY <1>0 DEF Landed, UsedOK
      <4> QED BY <3>2, <4>1, <4>2 DEF used_ok
    <3> QED BY <2>1, <3>1, <3>2
  <2>7. Waits' /\ Alone'
        BY <1>0, <1>7, <2>2 DEF Landed, Waits, Alone, todo, next_tx
  <2> QED BY <1>3, <1>6, <2>2, <2>3, <2>5, <2>6, <2>7
<1>11. CASE Stage
  <2>1. /\ staging' = staged(preparing.plan, preparing.threshold)
        /\ UNCHANGED <<submitting, jobs, used>> /\ (setting.overlap \/ submitting = Idle)
        BY <1>11 DEF Stage, chain_vars
  <2>2. \A i \in DOMAIN staging'.txs : staging'.txs[i].job = None /\ ~staging'.txs[i].submitted
        BY <1>0, <1>11, <2>1, StagedType DEF Stage
  <2>3. txs_ok(staging')
        BY <2>2 DEF txs_ok
  <2>4. Waits' /\ Alone'
        BY <1>7, <2>1 DEF Landed, Waits, Alone, todo, next_tx
  <2> QED BY <1>3, <1>4, <1>5, <1>6, <2>1, <2>3, <2>4
<1>12. CASE Reload \/ SubmitEnd \/ SubmitFails \/ WaitFails
  <2>1. submitting' = Idle /\ staging' \in {staging, None} /\ UNCHANGED <<jobs, used>>
        BY <1>12 DEF Reload, SubmitEnd, SubmitFails, WaitFails, submit_idle, chain_vars
  <2>2. Waits' /\ Alone'
        BY <2>1 DEF Waits, Alone
  <2> QED BY <1>3, <1>4, <1>5, <1>6, <2>1, <2>2
<1>13. CASE CollectEnd
  <2>1. UNCHANGED <<submitting, jobs, used>> /\ collecting # Idle
        BY <1>13 DEF CollectEnd, chain_vars
  <2>2. CASE staging = None
        BY <1>8, <1>13, <2>1, <2>2 DEF CollectEnd
  <2>3. CASE staging # None
    <3>1. staging \in RotationStagings
          BY <1>0, <2>3 DEF TypeOK
    <3>2. staging' \in RotationStagings /\ staging'.id = staging.id /\ staging'.txs = staging.txs
          BY <1>0, <1>13, <2>1, <2>3, <3>1, AddUnknown DEF CollectEnd
    <3>3. staging' # None
          BY <3>2, NoneAssumption
    <3>4. txs_ok(staging')
          BY <1>1, <2>3, <3>2 DEF Landed
    <3>5. Waits' /\ Alone'
          BY <1>7, <2>1, <2>3, <3>2, <3>3 DEF Landed, Waits, Alone, todo, next_tx
    <3> QED BY <1>3, <1>4, <1>5, <1>6, <2>1, <3>4, <3>5
  <2> QED BY <2>2, <2>3
<1>14. CASE SubmitBegin
  <2>1. /\ submitting' = [pc |-> "submit", st |-> staging] /\ staging # None
        /\ UNCHANGED <<staging, jobs, used>>
        BY <1>14 DEF SubmitBegin, chain_vars
  <2>2. Waits' /\ Alone'
        BY <2>1 DEF Waits, Alone
  <2> QED BY <1>3, <1>4, <1>5, <1>6, <2>1, <2>2
<1>15. CASE Submit
  <2> DEFINE st == submitting.st
             i == next_tx(st)
             j == Len(jobs) + 1
             s == saved_job(st, i, j)
             job == job_for(st, i)
  <2>1. st \in RotationStagings /\ todo(st) # {} /\ submitting # Idle
        BY <1>0, <1>15 DEF Submit, TypeOK, Idle
  <2>2. i \in DOMAIN st.txs /\ i \in todo(st) /\ \A k \in todo(st) : i <= k
        BY <2>1, NextTx DEF todo
  <2>3. jobs \in Seq(Jobs) /\ job \in Jobs /\ j \in 1..MaxJobs
    <3>1. jobs \in Seq(Jobs) /\ Len(jobs) \in Nat
          BY <1>0, LenProperties DEF TypeOK
    <3> QED BY <1>0, <1>15, <2>1, <2>2, <3>1, JobType, Numbers DEF Submit
  <2>4. /\ jobs' = Append(jobs, job) /\ used' = used
        /\ \/ staging' \in {s, staging} /\ submitting' = [pc |-> "wait", st |-> s, job |-> j]
           \/ submitting' = Idle /\ staging' = staging
        BY <1>15 DEF Submit, submit_idle, chain_vars
  <2>5. StagingOK(st) /\ TxsOK(st)
        BY <1>0, <2>1 DEF Landed, SignedInv, Signed
  <2>6. /\ job.id = st.id /\ job.tx = i /\ job.call = st.txs[i].call /\ job.status = "pending"
        BY DEF job_for
  <2>7. \A k \in 1..(i - 1) : <<st.id, k>> \in used
    <3>1. DOMAIN st.txs = 1..Len(st.txs) /\ Len(st.txs) \in 1..3
          BY <2>1, StagingType
    <3>2. \A k \in 1..(i - 1) : k \in DOMAIN st.txs /\ k \notin todo(st)
          BY <2>2, <3>1
    <3> QED BY <2>5, <3>2 DEF TxsOK, todo
  <2> HIDE DEF st, i, j, job
  <2>8. JobOK(job)
    <3>1. job.id \in DOMAIN handoffs
          BY <2>5, <2>6 DEF StagingOK
    <3>2. job.tx \in DOMAIN handoffs[job.id].calls /\ job.call = handoffs[job.id].calls[job.tx]
          BY <1>0, <2>1, <2>2, <2>5, <2>6, StagingShape
    <3> QED BY <2>6, <2>7, <3>1, <3>2 DEF JobOK
  <2>9. /\ Len(jobs') = j /\ DOMAIN jobs' = 1..j /\ jobs'[j] = job
        /\ \A k \in DOMAIN jobs : jobs'[k] = jobs[k]
        /\ \A k \in DOMAIN jobs' : k \in DOMAIN jobs \/ k = j
        BY <2>3, <2>4, AppendProperties, LenProperties DEF j
  <2>10. \A k \in DOMAIN jobs' : job_ok(jobs'[k])
         BY <1>2, <1>4, <2>8, <2>9
  <2>11. /\ s \in RotationStagings /\ s.id = st.id /\ DOMAIN s.txs = DOMAIN st.txs
         /\ s.txs[i].job \in {j, st.txs[i].job} /\ s.txs[i].submitted = st.txs[i].submitted
         /\ \A k \in DOMAIN st.txs : k # i => s.txs[k] = st.txs[k]
         /\ todo(s) = todo(st)
         BY <2>1, <2>2, <2>3, SavedJob
  <2> HIDE DEF s
  <2>12. j \in DOMAIN jobs' /\ jobs'[j].id = st.id /\ jobs'[j].tx = i
         BY <2>3, <2>6, <2>9
  <2>13. txs_ok(s)
    <3>1. txs_ok(st)
          BY <1>1, <2>5
    <3> QED BY <2>2, <2>11, <2>12, <3>1 DEF txs_ok
  <2>14. next_tx(s) = i
    <3>1. next_tx(s) \in todo(s) /\ \A k \in todo(s) : next_tx(s) <= k
          BY <2>1, <2>11, NextTx
    <3>2. todo(st) \subseteq 1..3
          BY <2>1, StagingType DEF todo
    <3> QED BY <2>2, <2>11, <3>1, <3>2
  <2>15. Waits'
    <3>1. CASE submitting' = Idle
          BY <3>1 DEF Waits
    <3>2. CASE submitting' = [pc |-> "wait", st |-> s, job |-> j]
      <4>1. submitting'.st = s /\ submitting'.job = j
            BY <3>2
      <4> QED BY <2>1, <2>11, <2>12, <2>14, <4>1 DEF Waits, todo, next_tx
    <3> QED BY <2>4, <3>1, <3>2
  <2>16. Alone'
    <3>1. s # None
          BY <2>11, NoneAssumption
    <3>2. ~setting.overlap => staging # None /\ staging.id = st.id
          BY <2>1 DEF Landed, Alone, st
    <3>3. CASE submitting' = Idle
          BY <3>3 DEF Alone
    <3>4. CASE staging' \in {s, staging} /\ submitting' = [pc |-> "wait", st |-> s, job |-> j]
          BY <1>7, <2>11, <3>1, <3>2, <3>4 DEF Alone
    <3> QED BY <2>4, <3>3, <3>4
  <2> QED BY <1>3, <1>5, <1>6, <2>4, <2>10, <2>13, <2>15, <2>16
<1>16. CASE Resume
  <2> DEFINE st == submitting.st
             i == next_tx(st)
  <2>1. st \in RotationStagings /\ todo(st) # {} /\ submitting # Idle
        BY <1>0, <1>16 DEF Resume, TypeOK, Idle
  <2>2. i \in DOMAIN st.txs
        BY <2>1, NextTx DEF todo
  <2>3. /\ submitting' = [pc |-> "wait", st |-> st, job |-> st.txs[i].job]
        /\ st.txs[i].job # None /\ UNCHANGED <<staging, jobs, used>>
        BY <1>16 DEF Resume, unposted, chain_vars
  <2>4. /\ st.txs[i].job \in DOMAIN jobs
        /\ jobs[st.txs[i].job].id = st.id /\ jobs[st.txs[i].job].tx = i
        BY <2>1, <2>2, <2>3 DEF Landed, TxsOK
  <2>5. Waits'
    <3>1. submitting'.st = st /\ submitting'.job = st.txs[i].job
          BY <2>3
    <3> QED BY <2>1, <2>3, <2>4, <3>1 DEF Waits, todo, next_tx
  <2>6. Alone'
        BY <1>7, <2>1, <2>3 DEF Landed, Alone
  <2> QED BY <1>3, <1>4, <1>5, <1>6, <2>1, <2>3, <2>5, <2>6
<1>17. CASE Confirmed
  <2> DEFINE st == submitting.st
             i == next_tx(st)
             t == with_hash(st, i)
  <2>1. /\ st \in RotationStagings /\ submitting # Idle /\ submitting.pc = "wait"
        /\ jobs[submitting.job].status = "confirmed"
        BY <1>0, <1>17 DEF Confirmed, landed, TypeOK, Idle
  <2>2. /\ staging' = t /\ submitting' = [pc |-> "submit", st |-> t]
        /\ UNCHANGED <<jobs, used>>
        BY <1>17 DEF Confirmed, chain_vars
  <2>3. /\ todo(st) # {} /\ submitting.job \in DOMAIN jobs
        /\ jobs[submitting.job].id = st.id /\ jobs[submitting.job].tx = i
        BY <2>1 DEF Landed, Waits
  <2>4. <<st.id, i>> \in used
    <3>1. JobOK(jobs[submitting.job])
          BY <2>3 DEF Landed
    <3> QED BY <2>1, <2>3, <3>1 DEF JobOK
  <2>5. i \in DOMAIN st.txs
        BY <2>1, <2>3, NextTx DEF todo
  <2>6. txs_ok(st)
        BY <1>3, <2>1
  <2> HIDE DEF st, i
  <2>7. /\ t \in RotationStagings /\ t.id = st.id /\ DOMAIN t.txs = DOMAIN st.txs
        /\ t.txs[i].job = st.txs[i].job /\ \A k \in DOMAIN st.txs : k # i => t.txs[k] = st.txs[k]
        BY <2>1, <2>5, WithHash
  <2> HIDE DEF t
  <2>8. txs_ok(t)
        BY <2>2, <2>4, <2>5, <2>6, <2>7 DEF txs_ok
  <2>9. t # None
        BY <2>7, NoneAssumption
  <2>10. Waits' /\ Alone'
         BY <2>2, <2>7, <2>9 DEF Waits, Alone
  <2> QED BY <1>4, <1>5, <1>6, <2>2, <2>8, <2>10
<1> QED BY <1>9, <1>10, <1>11, <1>12, <1>13, <1>14, <1>15, <1>16, <1>17
        DEF Next, Prepare, Collect, submitRotation

(* AppliedInOrder, for every retry and every overlap. *)
THEOREM AppliesInOrder == HashAtSubmit = FALSE => (Spec => []AppliedInOrder)
<1> SUFFICES ASSUME HashAtSubmit = FALSE PROVE Spec => []AppliedInOrder
    OBVIOUS
<1>1. Init => LandedInv
      BY LandedInit
<1>2. LandedInv /\ [Next]_vars => LandedInv'
      BY LandedStep
<1>3. LandedInv => AppliedInOrder
  <2> SUFFICES ASSUME LandedInv, NEW u \in used, u[2] > 1
               PROVE  <<u[1], u[2] - 1>> \in used
      BY DEF AppliedInOrder
  <2>1. u[2] \in 1..3
        BY DEF LandedInv, SignedInv, TypeOK
  <2>2. u[2] - 1 \in 1..(u[2] - 1)
        BY <2>1
  <2> QED BY <2>2 DEF LandedInv, Landed, UsedOK
<1> QED BY <1>1, <1>2, <1>3, PTL DEF Spec

(* OnlyDoneIsCleared: a page reports success, and forgets the friends'
   signatures, only for what landed as a whole. *)
THEOREM ClearsOnlyWhatIsDone == HashAtSubmit = FALSE => (Spec => OnlyDoneIsCleared)
<1> SUFFICES ASSUME HashAtSubmit = FALSE PROVE Spec => OnlyDoneIsCleared
    OBVIOUS
<1> DEFINE done_and_cleared ==
      SubmitEnd =>
        /\ \A i \in DOMAIN submitting.st.txs : <<submitting.st.id, i>> \in used
        /\ setting.overlap \/ (staging # None /\ \A i \in DOMAIN staging.txs : <<staging.id, i>> \in used)
<1>1. Init => LandedInv
      BY LandedInit
<1>2. LandedInv /\ [Next]_vars => LandedInv'
      BY LandedStep
<1>3. LandedInv => done_and_cleared
  <2> SUFFICES ASSUME LandedInv, SubmitEnd PROVE done_and_cleared
      OBVIOUS
  <2> DEFINE st == submitting.st
  <2>1. /\ submitting # Idle /\ st \in RotationStagings /\ todo(st) = {} /\ TypeOK
        BY DEF SubmitEnd, done, LandedInv, SignedInv, TypeOK, Idle
  <2>2. StagingOK(st) /\ TxsOK(st)
        BY <2>1 DEF LandedInv, SignedInv, Signed, Landed
  <2>3. \A i \in DOMAIN st.txs : <<st.id, i>> \in used
        BY <2>1, <2>2 DEF TxsOK, todo
  <2>4. ASSUME ~setting.overlap
        PROVE  staging # None /\ \A i \in DOMAIN staging.txs : <<staging.id, i>> \in used
    <3>1. staging # None /\ staging.id = st.id
          BY <2>1, <2>4 DEF LandedInv, Landed, Alone
    <3>2. staging \in RotationStagings /\ StagingOK(staging)
          BY <3>1 DEF LandedInv, SignedInv, Signed, TypeOK
    <3>3. DOMAIN staging.txs = DOMAIN st.txs
          BY <2>1, <2>2, <3>1, <3>2, StagingShape
    <3> QED BY <2>3, <3>1, <3>3
  <2> QED BY <2>3, <2>4
<1>4. LandedInv /\ [Next]_vars => [done_and_cleared]_vars
      BY <1>3
<1> QED BY <1>1, <1>2, <1>4, PTL DEF Spec, OnlyDoneIsCleared

-----------------------------------------------------------------------------
(* The rule.                                                               *)

LEMMA RuleInit == Init => RuleInv
<1> SUFFICES ASSUME Init PROVE RuleInv
    OBVIOUS
<1>1. LandedInv /\ TypeOK
      BY LandedInit, TypeInit
<1>2. DOMAIN handoffs = {}
      BY DEF Init
<1>3. \A method : Did(method) = {}
      BY <1>2 DEF Did
<1>4. Planned
      BY <1>2, <1>3 DEF Init, Planned
<1>5. Counted
  <2>1. rule.signers = FirstSigners /\ IsFiniteSet(rule.signers)
        BY <1>1 DEF Init, TypeOK
  <2> QED BY <1>3, <2>1 DEF Counted
<1> QED BY <1>1, <1>4, <1>5 DEF RuleInv

(* Signers never run out. *)
LEMMA SomeoneSigns ==
  ASSUME RuleInv
  PROVE  /\ Cardinality(rule.signers) \in Nat /\ Cardinality(rule.signers) > 0
         /\ rule.signers # {}
<1>1. IsFiniteSet(DOMAIN handoffs)
  <2>1. handoffs \in Seq(Handoffs)
        BY DEF RuleInv, LandedInv, SignedInv, TypeOK
  <2> QED BY <2>1, LenProperties, FS_Interval
<1>2. IsFiniteSet(Did("add_signer"))
      BY <1>1, FS_Subset DEF Did
<1>3. /\ IsFiniteSet(Did("remove_signer"))
      /\ Cardinality(Did("remove_signer")) <= Cardinality(Did("add_signer"))
      BY <1>2, FS_Subset DEF RuleInv, Counted
<1>4. Cardinality(FirstSigners) \in Nat /\ Cardinality(FirstSigners) > 0
  <2>1. Cardinality(FirstSigners) \in Nat /\ Cardinality(FirstSigners) # 0
        BY RotationAssumption, FS_CardinalityType, FS_EmptySet DEF RotationAssumption
  <2> QED BY <2>1
<1>5. /\ Cardinality(Did("add_signer")) \in Nat /\ Cardinality(Did("remove_signer")) \in Nat
      /\ Cardinality(rule.signers) \in Nat
      BY <1>2, <1>3, FS_CardinalityType DEF RuleInv, Counted
<1>6. Cardinality(rule.signers) > 0
      BY <1>3, <1>4, <1>5 DEF RuleInv, Counted
<1> QED BY <1>5, <1>6, FS_EmptySet

LEMMA PolicyStays ==
  ASSUME TypeOK, [Next]_vars, rule.policy
  PROVE  rule'.policy
<1>1. CASE Land
  <2>1. PICK j \in DOMAIN jobs : rule' \in results(rule, jobs[j].call) \/ rule' = rule
        BY <1>1 DEF Land
  <2>2. jobs[j].call \in Calls
    <3>1. jobs[j] \in Jobs
      <4>1. jobs \in Seq(Jobs)
            BY DEF TypeOK
      <4> QED BY <4>1, LenProperties
    <3> QED BY <3>1 DEF Jobs
  <2>3. rule \in Rules /\ IsFiniteSet(rule.signers)
        BY DEF TypeOK, Rules
  <2> QED BY <2>1, <2>2, <2>3, ResultsShape, CallsOf
<1>2. CASE rule' = rule
      BY <1>2
<1> QED BY <1>1, <1>2 DEF Next, Tick, Stage, Prepare, PrepareBegin, StageFails, Reload, FriendSigns,
           RelayForgets, Collect, CollectBegin, CollectEnd, submitRotation, SubmitBegin, Submit,
           SubmitFails, Resume, Confirmed, WaitFails, SubmitEnd, vars, chain_vars

LEMMA FewerByOne ==
  ASSUME NEW S, IsFiniteSet(S), NEW x \in S
  PROVE  Cardinality(S \ {x}) = Cardinality(S) - 1
<1>1. IsFiniteSet(S \ {x})
      BY FS_Subset
<1>2. Cardinality((S \ {x}) \cup {x}) = Cardinality(S \ {x}) + 1
      BY <1>1, FS_AddElement
<1>3. (S \ {x}) \cup {x} = S
      OBVIOUS
<1>4. Cardinality(S \ {x}) \in Nat
      BY <1>1, FS_CardinalityType
<1> QED BY <1>2, <1>3, <1>4

(* What is staged for a rule with no policy installs the policy first. *)
LEMMA StagesPolicyFirst ==
  ASSUME RuleInv, preparing # Idle, stageable(preparing.plan)
  PROVE  rule.policy \/ PolicyFirst(preparing.plan)
<1> SUFFICES ASSUME ~rule.policy, Cardinality(FirstSigners) <= 1,
                    NEW i \in DOMAIN preparing.plan, preparing.plan[i].method = "remove_signer"
             PROVE  FALSE
    BY DEF RuleInv, Planned
<1>1. rule \in Rules /\ IsFiniteSet(rule.signers) /\ rule.signers = FirstSigners
      BY DEF RuleInv, Planned, LandedInv, SignedInv, TypeOK, Rules
<1>2. preparing.plan[i] \in Calls
  <2>1. preparing.plan \in Plans
        BY DEF RuleInv, Planned, PlanOK
  <2> QED BY <2>1 DEF Plans
<1>3. PICK s : s \in results(rule, preparing.plan[i])
      BY DEF stageable
<1>4. /\ preparing.plan[i].key \in FirstSigners
      /\ FirstSigners \ {preparing.plan[i].key} # {}
      BY <1>1, <1>2, <1>3, ResultsShape
<1>5. Cardinality(FirstSigners \ {preparing.plan[i].key}) = Cardinality(FirstSigners) - 1
      BY <1>1, <1>4, FewerByOne
<1>6. /\ IsFiniteSet(FirstSigners \ {preparing.plan[i].key})
      /\ Cardinality(FirstSigners) \in Nat
      BY <1>1, FS_Subset, FS_CardinalityType
<1>7. Cardinality(FirstSigners \ {preparing.plan[i].key}) \in Nat
      BY <1>6, FS_CardinalityType
<1> QED BY <1>4, <1>5, <1>6, <1>7, FS_EmptySet

(* What a transaction that lands does to the counts. *)
LEMMA LandsOnce ==
  ASSUME RuleInv, NEW n, NEW i, n \in DOMAIN handoffs, i \in DOMAIN handoffs[n].calls,
         <<n, i>> \notin used, used' = used \cup {<<n, i>>}, handoffs' = handoffs
  PROVE  /\ n \notin Did(handoffs[n].calls[i].method)
         /\ \A method : Did(method)' = IF method = handoffs[n].calls[i].method
                                       THEN Did(method) \cup {n} ELSE Did(method)
<1>1. \A k \in DOMAIN handoffs[n].calls : handoffs[n].calls[k].method = handoffs[n].calls[i].method => k = i
      BY DEF RuleInv, Planned, PlanOK
<1>2. n \notin Did(handoffs[n].calls[i].method)
      BY <1>1 DEF Did
<1>3. ASSUME NEW method
      PROVE  Did(method)' = IF method = handoffs[n].calls[i].method THEN Did(method) \cup {n} ELSE Did(method)
  <2>1. \A m \in DOMAIN handoffs : \A k \in DOMAIN handoffs[m].calls :
          <<m, k>> \in used' <=> <<m, k>> \in used \/ (m = n /\ k = i)
        OBVIOUS
  <2>2. ASSUME NEW m \in DOMAIN handoffs
        PROVE  m \in Did(method)' <=> m \in Did(method) \/ (m = n /\ method = handoffs[n].calls[i].method)
        BY <2>1 DEF Did
  <2>3. Did(method)' \subseteq DOMAIN handoffs /\ Did(method) \subseteq DOMAIN handoffs
        BY DEF Did
  <2> QED BY <2>2, <2>3
<1> QED BY <1>2, <1>3

LEMMA CountedFinite ==
  ASSUME RuleInv
  PROVE  \A method : IsFiniteSet(Did(method)) /\ Cardinality(Did(method)) \in Nat
<1>1. IsFiniteSet(DOMAIN handoffs)
  <2>1. handoffs \in Seq(Handoffs)
        BY DEF RuleInv, LandedInv, SignedInv, TypeOK
  <2> QED BY <2>1, LenProperties, FS_Interval
<1>2. \A method : Did(method) \subseteq DOMAIN handoffs
      BY DEF Did
<1> QED BY <1>1, <1>2, FS_Subset, FS_CardinalityType

LEMMA RuleStep ==
  ASSUME HashAtSubmit = FALSE, RuleInv, [Next]_vars
  PROVE  RuleInv'
<1>0. LandedInv /\ LandedInv' /\ TypeOK /\ TypeOK' /\ rule \in Rules /\ IsFiniteSet(rule.signers)
  <2>1. LandedInv /\ LandedInv'
        BY LandedStep DEF RuleInv
  <2> QED BY <2>1 DEF LandedInv, SignedInv, TypeOK, Rules
<1>1. rule.policy => rule'.policy
      BY <1>0, PolicyStays
<1>2. CASE UNCHANGED <<rule, handoffs, used>> /\ preparing' \in {preparing, Idle}
  <2>1. \A method : Did(method)' = Did(method)
        BY <1>2 DEF Did
  <2>2. Counted'
        BY <1>2, <2>1 DEF RuleInv, Counted
  <2>3. Planned'
        BY <1>2, <2>1 DEF RuleInv, Planned
  <2> QED BY <1>0, <2>2, <2>3 DEF RuleInv
<1>3. CASE \/ Tick \/ StageFails \/ Reload \/ FriendSigns \/ RelayForgets \/ Collect
           \/ submitRotation \/ UNCHANGED vars
      BY <1>2, <1>3 DEF Tick, StageFails, Reload, FriendSigns, RelayForgets, Collect, CollectBegin,
           CollectEnd, submitRotation, SubmitBegin, Submit, SubmitFails, Resume, Confirmed, WaitFails,
           SubmitEnd, vars, chain_vars, page_vars
<1>4. CASE PrepareBegin
  <2>1. UNCHANGED <<rule, handoffs, used>>
        BY <1>4 DEF PrepareBegin, chain_vars
  <2>2. PICK request \in Requested :
          /\ preparing' # Idle
          /\ preparing'.plan = planRotation(enrichRotationRequest(request, rule))
        BY <1>4 DEF PrepareBegin, Idle
  <2> DEFINE req == enrichRotationRequest(request, rule)
  <2>3. /\ req \in Enriched /\ req.signerCount = Cardinality(rule.signers)
        /\ req.policyCount = 1 <=> rule.policy
        /\ PlanOK(planRotation(req))
        BY <1>0, PlanIsTyped
  <2>4. req.add = None => req.remove = None /\ req.signerCount > 1 /\ req.policyCount = 0
        BY DEF enrichRotationRequest, Requested, needsRepair
  <2>5. req.signerCount > 0
        BY <2>3, SomeoneSigns
  <2> HIDE DEF req
  <2>6. \/ req.policyCount = 1 \/ PolicyFirst(planRotation(req))
        \/ /\ req.signerCount <= 1
           /\ \E i \in DOMAIN planRotation(req) : planRotation(req)[i].method = "remove_signer"
        BY <2>3, <2>4, <2>5, PlanShape
  <2>7. ~rule.policy => rule.signers = FirstSigners
        BY DEF RuleInv, Planned
  <2>8. \A method : Did(method)' = Did(method)
        BY <2>1 DEF Did
  <2>9. Counted'
        BY <2>1, <2>8 DEF RuleInv, Counted
  <2>10. Planned'
    <3>1. preparing'.plan = planRotation(req)
          BY <2>2 DEF req
    <3>2. /\ PlanOK(preparing'.plan)
          /\ \/ rule.policy \/ PolicyFirst(preparing'.plan)
             \/ /\ Cardinality(FirstSigners) <= 1
                /\ \E i \in DOMAIN preparing'.plan : preparing'.plan[i].method = "remove_signer"
          BY <2>3, <2>6, <2>7, <3>1
    <3> QED BY <2>1, <2>8, <3>2 DEF RuleInv, Planned, PlanOK, PolicyFirst
  <2> QED BY <1>0, <2>9, <2>10 DEF RuleInv
<1>5. CASE Stage
  <2> DEFINE st == staged(preparing.plan, preparing.threshold)
             n == Len(handoffs) + 1
  <2>1. /\ handoffs' = Append(handoffs, handoff_of(st)) /\ preparing' = Idle
        /\ UNCHANGED <<rule, used>> /\ preparing # Idle /\ stageable(preparing.plan)
        BY <1>5 DEF Stage, chain_vars
  <2>2. handoff_of(st) \in Handoffs /\ handoff_of(st).calls = preparing.plan
        BY <1>0, <2>1, StagedType
  <2>3. handoffs \in Seq(Handoffs)
        BY <1>0 DEF TypeOK
  <2> HIDE DEF st
  <2>4. /\ DOMAIN handoffs' = DOMAIN handoffs \cup {n} /\ handoffs'[n].calls = preparing.plan
        /\ \A m \in DOMAIN handoffs : handoffs'[m] = handoffs[m]
        /\ n \notin DOMAIN handoffs
    <3>1. Len(handoffs) \in Nat /\ DOMAIN handoffs = 1..Len(handoffs)
          BY <2>3, LenProperties
    <3>2. /\ DOMAIN handoffs' = 1..n /\ handoffs'[n] = handoff_of(st)
          /\ \A m \in 1..Len(handoffs) : handoffs'[m] = handoffs[m]
          BY <2>1, <2>2, <2>3, AppendProperties, LenProperties
    <3> QED BY <2>2, <3>1, <3>2
  <2>5. \A i : <<n, i>> \notin used
        BY <2>4 DEF RuleInv, LandedInv, Landed, UsedOK
  <2>6. ASSUME NEW method PROVE Did(method)' = Did(method)
    <3>1. n \notin Did(method)'
          BY <2>1, <2>5 DEF Did
    <3>2. \A m \in DOMAIN handoffs : m \in Did(method)' <=> m \in Did(method)
          BY <2>1, <2>4 DEF Did
    <3>3. Did(method)' \subseteq DOMAIN handoffs \cup {n} /\ Did(method) \subseteq DOMAIN handoffs
          BY <2>4 DEF Did
    <3> QED BY <2>4, <3>1, <3>2, <3>3
  <2>7. rule.policy \/ PolicyFirst(preparing.plan)
        BY <2>1, StagesPolicyFirst
  <2>8. PlanOK(preparing.plan)
        BY <2>1 DEF RuleInv, Planned
  <2>9. Counted'
        BY <2>1, <2>6 DEF RuleInv, Counted
  <2>10. \A m \in DOMAIN handoffs' :
           PlanOK(handoffs'[m].calls) /\ (rule.policy \/ PolicyFirst(handoffs'[m].calls))
         BY <2>4, <2>7, <2>8 DEF RuleInv, Planned
  <2>11. Planned'
         BY <2>1, <2>6, <2>10 DEF RuleInv, Planned, PlanOK, PolicyFirst
  <2> QED BY <1>0, <2>9, <2>11 DEF RuleInv
<1>6. CASE Land
  <2>1. PICK j \in DOMAIN jobs :
          /\ \/ /\ runs(jobs[j]) /\ rule' \in results(rule, jobs[j].call)
                /\ used' = used \cup {<<jobs[j].id, jobs[j].tx>>}
             \/ UNCHANGED <<rule, used>>
          /\ UNCHANGED <<handoffs, preparing>>
        BY <1>6 DEF Land, page_vars
  <2>2. CASE UNCHANGED <<rule, used>>
        BY <1>2, <2>1, <2>2
  <2>3. CASE /\ runs(jobs[j]) /\ rule' \in results(rule, jobs[j].call)
             /\ used' = used \cup {<<jobs[j].id, jobs[j].tx>>}
    <3> DEFINE n == jobs[j].id
               i == jobs[j].tx
               calls == handoffs[n].calls
               call == calls[i]
    <3>1. /\ n \in DOMAIN handoffs /\ i \in DOMAIN calls /\ jobs[j].call = call
          /\ \A k \in 1..(i - 1) : <<n, k>> \in used
          BY DEF RuleInv, LandedInv, Landed, JobOK
    <3>2. <<n, i>> \notin used
          BY <2>3 DEF runs, authorised
    <3>3. call \in Calls /\ i \in 1..3 /\ \A k \in 1..(i - 1) : k \in DOMAIN calls
          BY <1>0, <3>1, CallsShape
    <3> HIDE DEF n, i
    <3>4. /\ n \notin Did(call.method)
          /\ \A method : Did(method)' = IF method = call.method THEN Did(method) \cup {n} ELSE Did(method)
          BY <2>1, <2>3, <3>1, <3>2, LandsOnce DEF n, i
    <3>5. PlanOK(calls) /\ (rule.policy \/ PolicyFirst(calls))
          BY <3>1 DEF RuleInv, Planned
    <3>6. rule' \in results(rule, call)
          BY <2>3, <3>1
    <3>7. IsFiniteSet(rule'.signers)
          BY <1>0 DEF TypeOK
    <3>8. \A method : IsFiniteSet(Did(method)) /\ Cardinality(Did(method)) \in Nat
          BY CountedFinite
    <3>9. Cardinality(rule.signers) \in Nat /\ Cardinality(FirstSigners) \in Nat
          BY <1>0, RotationAssumption, FS_CardinalityType DEF RotationAssumption
    <3>10. ASSUME call.method # "add_policy" PROVE rule.policy
      <4>1. CASE PolicyFirst(calls)
        <5>1. PICK k \in 1..i : k \in DOMAIN calls /\ calls[k].method = "add_signer"
          <6>1. CASE call.method = "add_signer"
                BY <6>1, <3>1, <3>3
          <6>2. CASE call.method = "remove_signer"
                BY <6>2, <3>1, <3>3, <3>5 DEF PlanOK
          <6> QED BY <3>3, <3>10, <6>1, <6>2, CallsOf
        <5>2. PICK m \in 1..(k - 1) : calls[m].method = "add_policy"
              BY <4>1, <5>1 DEF PolicyFirst
        <5>3. m \in 1..(i - 1)
              BY <3>3, <5>1, <5>2
        <5>4. n \in Did("add_policy")
              BY <3>1, <3>3, <5>2, <5>3 DEF Did
        <5> QED BY <5>4 DEF RuleInv, Planned
      <4> QED BY <3>5, <4>1
    <3>11. Planned'
      <4>1. rule'.policy
        <5>1. CASE call.method = "add_policy"
              BY <1>0, <3>3, <3>6, <5>1, ResultsShape
        <5> QED BY <1>1, <3>10, <5>1
      <4> QED BY <2>1, <4>1 DEF RuleInv, Planned, PlanOK, PolicyFirst
    <3>12. Counted'
      <4> DEFINE adds == Did("add_signer")
                 removes == Did("remove_signer")
      <4>0. /\ removes \subseteq adds
            /\ Cardinality(rule.signers) + Cardinality(removes) = Cardinality(FirstSigners) + Cardinality(adds)
            BY DEF RuleInv, Counted
      <4>1. CASE call.method = "add_policy"
        <5>1. rule'.signers = rule.signers
              BY <1>0, <3>3, <3>6, <4>1, ResultsShape
        <5>2. adds' = adds /\ removes' = removes
              BY <3>4, <4>1
        <5> QED BY <3>7, <4>0, <5>1, <5>2 DEF Counted
      <4>2. CASE call.method = "add_signer"
        <5>1. rule'.signers = rule.signers \cup {call.key} /\ call.key \notin rule.signers
              BY <1>0, <3>3, <3>6, <4>2, ResultsShape
        <5>2. adds' = adds \cup {n} /\ removes' = removes /\ n \notin adds
              BY <3>4, <4>2
        <5>3. Cardinality(rule'.signers) = Cardinality(rule.signers) + 1
              BY <1>0, <5>1, FS_AddElement
        <5>4. Cardinality(adds') = Cardinality(adds) + 1
              BY <3>8, <5>2, FS_AddElement
        <5> HIDE DEF adds, removes
        <5>5. /\ removes' \subseteq adds'
              /\ Cardinality(rule'.signers) + Cardinality(removes')
                   = Cardinality(FirstSigners) + Cardinality(adds')
              BY <3>8, <3>9, <4>0, <5>2, <5>3, <5>4 DEF adds, removes
        <5> QED BY <3>7, <5>5 DEF Counted, adds, removes
      <4>3. CASE call.method = "remove_signer"
        <5>1. rule'.signers = rule.signers \ {call.key} /\ call.key \in rule.signers
              BY <1>0, <3>3, <3>6, <4>3, ResultsShape
        <5>2. removes' = removes \cup {n} /\ adds' = adds /\ n \notin removes
              BY <3>4, <4>3
        <5>3. Cardinality(rule'.signers) = Cardinality(rule.signers) - 1
              BY <1>0, <5>1, FewerByOne
        <5>4. Cardinality(removes') = Cardinality(removes) + 1
              BY <3>8, <5>2, FS_AddElement
        <5>5. n \in adds
          <6>1. PICK k \in 1..(i - 1) : calls[k].method = "add_signer"
                BY <3>1, <3>5, <4>3 DEF PlanOK
          <6> QED BY <3>1, <3>3, <6>1 DEF Did
        <5> HIDE DEF adds, removes
        <5>6. /\ removes' \subseteq adds'
              /\ Cardinality(rule'.signers) + Cardinality(removes')
                   = Cardinality(FirstSigners) + Cardinality(adds')
          <6>1. Cardinality(adds) \in Nat /\ Cardinality(removes) \in Nat
                BY <3>8 DEF adds, removes
          <6> QED BY <3>9, <4>0, <5>2, <5>3, <5>4, <5>5, <6>1
        <5> QED BY <3>7, <5>6 DEF Counted, adds, removes
      <4> QED BY <3>3, <4>1, <4>2, <4>3, CallsOf
    <3> QED BY <1>0, <3>11, <3>12 DEF RuleInv
  <2> QED BY <2>1, <2>2, <2>3
<1> QED BY <1>3, <1>4, <1>5, <1>6 DEF Next, Prepare

(* NeverBricks, for every number of rotations planned, signed and submitted in
   any overlap: the proof counts the signers that were added and removed. *)
THEOREM RotationsNeverBrick == HashAtSubmit = FALSE => (Spec => NeverBricks)
<1> SUFFICES ASSUME HashAtSubmit = FALSE PROVE Spec => NeverBricks
    OBVIOUS
<1> DEFINE some_signer == rule.signers # {}
<1>1. Init => RuleInv
      BY RuleInit
<1>2. RuleInv /\ [Next]_vars => RuleInv'
      BY RuleStep
<1>3. RuleInv => some_signer
      BY SomeoneSigns
<1>4. RuleInv /\ RuleInv' /\ some_signer' /\ [Next]_vars => [one_key_signs => one_key_signs']_vars
  <2> SUFFICES ASSUME RuleInv, RuleInv', some_signer', [Next]_vars, one_key_signs
               PROVE  one_key_signs'
      OBVIOUS
  <2>1. rule.policy => rule'.policy
        BY PolicyStays DEF RuleInv, LandedInv, SignedInv
  <2>2. ~rule'.policy => ~rule.policy /\ rule'.signers = rule.signers
        BY <2>1 DEF RuleInv, Planned
  <2> QED BY <2>2 DEF one_key_signs, needsRepair
<1> QED BY <1>1, <1>2, <1>3, <1>4, PTL DEF Spec, NeverBricks
-----------------------------------------------------------------------------
(* The promise (ThresholdRecovery), also where an answer carries a hash.   *)

Approved == {<<blob.friend, blob.handoff>> : blob \in blobs_at_hand}
Proposed == [n \in DOMAIN handoffs |-> handoffs[n].calls]

(* A job is a transaction of a handoff, with one blob of each friend in it. *)
JobSigned(job) ==
  /\ job.id \in DOMAIN handoffs /\ job.tx \in DOMAIN handoffs[job.id].calls
  /\ job.call = handoffs[job.id].calls[job.tx]
  /\ \A b \in job.blobs : BlobOK(b.friend, b) /\ job.tx \in 1..b.entries
  /\ \A b, c \in job.blobs : b.friend = c.friend => b = c

PromiseInv ==
  /\ SignedInv
  /\ \A j \in DOMAIN jobs : JobSigned(jobs[j])
  /\ \A n \in Stagings, f \in Friends : relay[n][f] # None => relay[n][f].handoff = n
  /\ preparing # Idle => PlanOK(preparing.plan)

LEMMA PromiseInit == Init => PromiseInv
BY SignedInit DEF Init, PromiseInv

LEMMA JobsSigned == PromiseInv /\ [Next]_vars => \A j \in DOMAIN jobs' : JobSigned(jobs[j])'
<1> SUFFICES ASSUME PromiseInv, [Next]_vars PROVE \A j \in DOMAIN jobs' : JobSigned(jobs[j])'
    OBVIOUS
<1>0. SignedInv /\ TypeOK /\ jobs \in Seq(Jobs) /\ \A j \in DOMAIN jobs : jobs[j] \in Jobs
      BY LenProperties DEF PromiseInv, SignedInv, TypeOK
<1>1. \A n \in DOMAIN handoffs : n \in DOMAIN handoffs' /\ handoffs'[n] = handoffs[n]
      BY <1>0, HandoffsStay
<1>2. ASSUME NEW job, JobSigned(job), NEW s, s.id = job.id, s.tx = job.tx, s.call = job.call,
             s.blobs = job.blobs
      PROVE  /\ s.id \in DOMAIN handoffs' /\ s.tx \in DOMAIN handoffs'[s.id].calls
             /\ s.call = handoffs'[s.id].calls[s.tx]
             /\ \A b \in s.blobs :
                  /\ b.friend = b.friend /\ b.handoff \in DOMAIN handoffs'
                  /\ b.parent_expiration = handoffs'[b.handoff].expiration
                  /\ b.entries = Len(handoffs'[b.handoff].calls)
                  /\ s.tx \in 1..b.entries
             /\ \A b, c \in s.blobs : b.friend = c.friend => b = c
      BY <1>1, <1>2 DEF JobSigned, BlobOK
<1>3. CASE UNCHANGED jobs
      BY <1>2, <1>3 DEF PromiseInv, JobSigned, BlobOK
<1>4. CASE Land
  <2>1. PICK j \in DOMAIN jobs : \E status \in {"confirmed", "failed"} :
          jobs' = [jobs EXCEPT ![j].status = status]
        BY <1>4 DEF Land
  <2>2. ASSUME NEW k \in DOMAIN jobs'
        PROVE  /\ k \in DOMAIN jobs
               /\ jobs'[k].id = jobs[k].id /\ jobs'[k].tx = jobs[k].tx
               /\ jobs'[k].call = jobs[k].call /\ jobs'[k].blobs = jobs[k].blobs
        BY <1>0, <2>1 DEF Jobs
  <2> QED BY <1>2, <2>2 DEF PromiseInv, JobSigned, BlobOK
<1>5. CASE Submit
  <2> DEFINE st == submitting.st
             i == next_tx(st)
             job == job_for(st, i)
  <2>1. jobs' = Append(jobs, job)
        BY <1>5 DEF Submit
  <2>2. st \in RotationStagings /\ todo(st) # {} /\ submitting # Idle
        BY <1>0, <1>5 DEF Submit, TypeOK, Idle
  <2>3. i \in DOMAIN st.txs
        BY <2>2, NextTx DEF todo
  <2>4. StagingOK(st) /\ CollectedOK(st)
        BY <1>0, <2>2 DEF SignedInv, Signed
  <2> HIDE DEF st, i
  <2>5. job \in Jobs /\ JobSigned(job)
    <3>1. job.id = st.id /\ job.tx = i /\ job.call = st.txs[i].call
          /\ job.blobs = {st.collected[f] : f \in known(st)}
          BY DEF job_for
    <3>2. job.id \in DOMAIN handoffs /\ job.tx \in DOMAIN handoffs[job.id].calls
          /\ job.call = handoffs[job.id].calls[job.tx]
          BY <1>0, <2>2, <2>3, <2>4, <3>1, StagingShape DEF StagingOK
    <3>3. i \in 1..Len(st.txs)
          BY <2>2, <2>3, StagingType
    <3>4. \A f \in known(st) : /\ BlobOK(f, st.collected[f]) /\ st.collected[f].friend = f
                               /\ i \in 1..st.collected[f].entries
          BY <2>4, <3>3 DEF CollectedOK, known, BlobOK
    <3>5. job \in Jobs
          BY <1>0, <2>2, <2>3, JobType
    <3> HIDE DEF job
    <3>6. \A b \in job.blobs : BlobOK(b.friend, b) /\ job.tx \in 1..b.entries
          BY <3>1, <3>4
    <3>7. \A b, c \in job.blobs : b.friend = c.friend => b = c
          BY <3>1, <3>4
    <3> QED BY <3>2, <3>5, <3>6, <3>7 DEF JobSigned
  <2> HIDE DEF job
  <2>6. \A k \in DOMAIN jobs' : jobs'[k] = job \/ (k \in DOMAIN jobs /\ jobs'[k] = jobs[k])
        BY <1>0, <2>1, <2>5, AppendProperties, LenProperties
  <2>7. \A k \in DOMAIN jobs' : JobSigned(jobs'[k])
        BY <2>5, <2>6 DEF PromiseInv
  <2> QED BY <1>2, <2>7 DEF JobSigned, BlobOK
<1> QED BY <1>3, <1>4, <1>5 DEF Next, Tick, Stage, Prepare, PrepareBegin, StageFails, Reload, FriendSigns,
           RelayForgets, Collect, CollectBegin, CollectEnd, submitRotation, SubmitBegin,
           SubmitFails, Resume, Confirmed, WaitFails, SubmitEnd, vars

LEMMA PromiseStep == PromiseInv /\ [Next]_vars => PromiseInv'
<1> SUFFICES ASSUME PromiseInv, [Next]_vars PROVE PromiseInv'
    OBVIOUS
<1>0. SignedInv /\ TypeOK /\ SignedInv'
      BY SignedStep DEF PromiseInv, SignedInv
<1>1. \A j \in DOMAIN jobs' : JobSigned(jobs[j])'
      BY JobsSigned
<1>2. \A n \in Stagings, f \in Friends : relay'[n][f] # None => relay'[n][f].handoff = n
  <2>1. CASE FriendSigns
    <3>1. PICK f \in Friends, n \in DOMAIN handoffs :
            relay' = [relay EXCEPT ![link(n).k][f] = signed_for(f, n)]
          BY <2>1 DEF FriendSigns
    <3>2. n \in Stagings /\ link(n).k = n /\ signed_for(f, n).handoff = n
          BY <1>0, BlobType
    <3>3. relay \in [Stagings -> [Friends -> FriendSignatures \cup {None}]]
          BY <1>0 DEF TypeOK
    <3>4. \A m \in Stagings, g \in Friends :
            relay'[m][g] = IF m = n /\ g = f THEN signed_for(f, n) ELSE relay[m][g]
          BY <3>1, <3>2, <3>3
    <3> QED BY <3>2, <3>4 DEF PromiseInv
  <2>2. CASE RelayForgets
    <3>1. PICK n \in DOMAIN handoffs, f \in Friends : relay' = [relay EXCEPT ![n][f] = None]
          BY <2>2 DEF RelayForgets
    <3>2. relay \in [Stagings -> [Friends -> FriendSignatures \cup {None}]]
          BY <1>0 DEF TypeOK
    <3>3. \A m \in Stagings, g \in Friends : relay'[m][g] \in {None, relay[m][g]}
          BY <3>1, <3>2
    <3> QED BY <3>3 DEF PromiseInv
  <2>3. CASE UNCHANGED relay
        BY <2>3 DEF PromiseInv
  <2> QED BY <2>1, <2>2, <2>3 DEF Next, Tick, Land, Stage, Prepare, PrepareBegin, StageFails, Reload,
             Collect, CollectBegin, CollectEnd, submitRotation, SubmitBegin, Submit,
             SubmitFails, Resume, Confirmed, WaitFails, SubmitEnd, vars
<1>3. preparing' # Idle => PlanOK(preparing'.plan)
  <2>1. CASE PrepareBegin
    <3>1. PICK request \in Requested :
            preparing'.plan = planRotation(enrichRotationRequest(request, rule))
          BY <2>1 DEF PrepareBegin
    <3> QED BY <1>0, <3>1, PlanIsTyped
  <2>2. CASE preparing' = Idle \/ UNCHANGED preparing
        BY <2>2 DEF PromiseInv
  <2> QED BY <2>1, <2>2 DEF Next, Tick, Land, Stage, Prepare, StageFails, Reload, FriendSigns, RelayForgets,
             Collect, CollectBegin, CollectEnd, submitRotation, SubmitBegin, Submit,
             SubmitFails, Resume, Confirmed, WaitFails, SubmitEnd, vars, page_vars
<1>4. (\A j \in DOMAIN jobs : JobSigned(jobs[j]))'
      BY <1>1
<1>5. (preparing # Idle => PlanOK(preparing.plan))'
      BY <1>3 DEF PlanOK
<1> QED BY <1>0, <1>2, <1>4, <1>5 DEF PromiseInv

(* What verifies was signed for this very transaction. *)
LEMMA VerifiedWasSigned ==
  ASSUME PromiseInv, NEW job \in Jobs, JobSigned(job),
         verifies(parent_entry(job.id, job.tx, job.call, job.expiration, job.blobs),
                  nested_entries(job.id, job.tx, job.call, job.expiration, job.blobs), ledger)
  PROVE  \A b \in job.blobs : b.handoff = job.id
<1> SUFFICES ASSUME NEW b \in job.blobs PROVE b.handoff = job.id
    OBVIOUS
<1> DEFINE parent == parent_entry(job.id, job.tx, job.call, job.expiration, job.blobs)
           digest == parentAuthDigest(assembled(job.id, job.tx, job.call), job.expiration, RecoveryRule)
           nested == nested_entries(job.id, job.tx, job.call, job.expiration, job.blobs)
           entry(c) == friendSignature(c).entries[job.tx]
           built(c) == buildFriendAuthEntry(Account, c.friend, entry(c), digest)
<1>1. parent.signature.signers = {Delegated(c.friend) : c \in job.blobs}
      BY DEF parent_entry, assembled, recorded, buildAuthPayload
<1>2. nested = {built(c) : c \in job.blobs}
      BY DEF nested_entries
<1>3. delegate_verifies(parent, b.friend, nested, ledger)
  <2>1. Delegated(b.friend) \in parent.signature.signers
        BY <1>1
  <2>2. Delegated(b.friend).kind = "delegated" /\ Delegated(b.friend).key = b.friend
        BY DEF Delegated
  <2> HIDE DEF parent, nested
  <2>3. verifies(parent, nested, ledger)
        BY DEF parent, nested
  <2> QED BY <2>1, <2>2, <2>3 DEF verifies
<1> HIDE DEF nested
<1>4. PICK n \in nested : n.address = b.friend /\ passkeys_verify(n, ledger)
      BY <1>3 DEF delegate_verifies
<1>5. PICK c \in job.blobs : n = built(c)
      BY <1>2, <1>4
<1> HIDE DEF digest
<1>6. /\ n.address = c.friend /\ n.invocation = CheckAuth(Account, digest)
      /\ n.nonce = entry(c).nonce /\ n.expiration = entry(c).expiration
      /\ n.signature = buildAuthPayload(<<0>>, {External(c.friend, entry(c).assertion)})
      BY <1>5 DEF buildFriendAuthEntry, recorded, buildFriendInvocation
<1>7. c = b
      BY <1>4, <1>6 DEF JobSigned
<1>8. entry(c).assertion = digest_of(n)
  <2>1. n.signature.signers = {External(c.friend, entry(c).assertion)}
        BY <1>6 DEF buildAuthPayload
  <2>2. External(c.friend, entry(c).assertion).assertion = entry(c).assertion
        BY DEF External
  <2> QED BY <1>4, <2>1, <2>2 DEF passkeys_verify
<1> DEFINE other == parentAuthDigest(link(c.handoff).tx[job.tx], c.parent_expiration, RecoveryRule)
<1>9. /\ c \in FriendSignatures /\ c.handoff \in DOMAIN handoffs /\ job.tx \in 1..c.entries
      /\ job.tx \in DOMAIN handoffs[c.handoff].calls
  <2>1. c \in FriendSignatures
    <3>1. job.blobs \subseteq FriendSignatures
          BY DEF Jobs
    <3> QED BY <3>1
  <2>2. /\ c.handoff \in DOMAIN handoffs /\ c.entries = Len(handoffs[c.handoff].calls)
        /\ job.tx \in 1..c.entries
        BY DEF JobSigned, BlobOK
  <2>3. handoffs[c.handoff].calls \in Plans
    <3>1. handoffs \in Seq(Handoffs)
          BY DEF PromiseInv, SignedInv, TypeOK
    <3>2. handoffs[c.handoff] \in Handoffs
          BY <2>2, <3>1, LenProperties
    <3> QED BY <3>2 DEF Handoffs
  <2>4. handoffs[c.handoff].calls \in Seq(Calls)
        BY <2>3, UpTo3Seq DEF Plans, UpTo3
  <2> QED BY <2>1, <2>2, <2>4, LenProperties
<1>10. entry(c).assertion = computeAuthDigest(
         friendSignaturePayload(Account, other, entry(c).nonce, entry(c).expiration), <<0>>)
  <2>1. entry(c) = friend_entry(link(c.handoff), job.tx, c.parent_expiration,
                                <<c.friend, c.handoff, job.tx, c.expiration>>, c.expiration)
        BY <1>9, SignatureShape
  <2>2. link(c.handoff).a = Account /\ link(c.handoff).r = RecoveryRule
        BY DEF link, encodeRotationHandoff
  <2> QED BY <2>1, <2>2 DEF friend_entry
<1> HIDE DEF entry, built, other
<1>11. other = digest
  <2>1. digest_of(n).payload.invocation = CheckAuth(Account, digest)
        BY <1>6 DEF digest_of, computeAuthDigest, buildAuthHashAt
  <2>2. digest_of(n).payload.invocation = CheckAuth(Account, other)
        BY <1>8, <1>10 DEF computeAuthDigest, friendSignaturePayload, buildAuthHashAt, recorded,
           buildFriendInvocation
  <2>3. CheckAuth(Account, digest).args = CheckAuth(Account, other).args
        BY <2>1, <2>2
  <2>4. <<digest>> = <<other>>
        BY <2>3 DEF CheckAuth
  <2> QED BY <2>4
<1>12. link(c.handoff).tx[job.tx] =
         assembled(c.handoff, job.tx, handoffs[c.handoff].calls[job.tx])
       BY <1>9 DEF link, encodeRotationHandoff
<1>13. digest.payload.nonce = <<job.id, job.tx>>
       BY DEF digest, parentAuthDigest, computeAuthDigest, buildAuthHashAt, assembled, recorded
<1>14. other.payload.nonce = <<c.handoff, job.tx>>
       BY <1>12 DEF other, parentAuthDigest, computeAuthDigest, buildAuthHashAt, assembled, recorded
<1>15. <<job.id, job.tx>> = <<c.handoff, job.tx>>
       BY <1>11, <1>13, <1>14
<1> QED BY <1>7, <1>15

(* So many friends approved the rotation. *)
LEMMA QuorumApproved ==
  ASSUME PromiseInv, NEW j \in DOMAIN jobs, runs(jobs[j])
  PROVE  Cardinality({f \in Friends : <<f, jobs[j].id>> \in Approved}) >= setting.threshold
<1> DEFINE job == jobs[j]
           approvers == {f \in Friends : <<f, job.id>> \in Approved}
<1>1. job \in Jobs /\ JobSigned(job)
  <2>1. jobs \in Seq(Jobs)
        BY DEF PromiseInv, SignedInv, TypeOK
  <2>2. job \in Jobs
        BY <2>1, LenProperties
  <2> QED BY <2>2 DEF PromiseInv
<1>2. \A b \in job.blobs : b.handoff = job.id /\ b.friend \in Friends
  <2>1. \A b \in job.blobs : b.handoff = job.id
        BY <1>1, VerifiedWasSigned DEF runs, authorised
  <2> QED BY <1>1, <2>1 DEF Jobs, FriendSignatures
<1>3. job.blobs \subseteq blobs_at_hand
      BY DEF blobs_at_hand
<1>4. \A b \in job.blobs : b.friend \in approvers
      BY <1>2, <1>3 DEF Approved
<1>5. IsFiniteSet(approvers) /\ Cardinality(approvers) \in Nat
      BY RotationAssumption, FS_Subset, FS_CardinalityType DEF RotationAssumption
<1> HIDE DEF approvers
<1>6. [b \in job.blobs |-> b.friend] \in Injection(job.blobs, approvers)
  <2> DEFINE of == [b \in job.blobs |-> b.friend]
  <2>1. \A b, c \in job.blobs : b.friend = c.friend => b = c
        BY <1>1 DEF JobSigned
  <2> HIDE DEF job
  <2>2. of \in [job.blobs -> approvers] /\ \A b, c \in job.blobs : of[b] = of[c] => b = c
        BY <1>4, <2>1
  <2> HIDE DEF of
  <2>3. of \in Injection(job.blobs, approvers)
        BY <2>2 DEF Injection, IsInjective
  <2> QED BY <2>3 DEF of
<1>7. Cardinality(job.blobs) <= Cardinality(approvers) /\ IsFiniteSet(job.blobs)
      BY <1>5, <1>6, FS_Injection
<1>8. Cardinality(job.blobs) >= setting.threshold
      BY DEF runs, authorised
<1>9. setting.threshold \in Nat /\ Cardinality(job.blobs) \in Nat
  <2>1. setting \in Settings
        BY DEF PromiseInv, SignedInv, TypeOK
  <2> QED BY <1>7, <2>1, Numbers, FS_CardinalityType
<1> QED BY <1>5, <1>7, <1>8, <1>9 DEF approvers

at_relay == {relay[n][f] : n \in Stagings, f \in Friends} \ {None}
on_page == (IF staging = None THEN {} ELSE collected(staging))
           \cup (IF submitting = Idle THEN {} ELSE collected(submitting.st))
in_jobs == UNION {jobs[j].blobs : j \in DOMAIN jobs}

LEMMA AtHand == blobs_at_hand = at_relay \cup on_page \cup in_jobs
BY DEF blobs_at_hand, at_relay, on_page, in_jobs

LEMMA SameCollected ==
  ASSUME NEW s, NEW t, s.collected = t.collected
  PROVE  collected(s) = collected(t)
BY DEF collected, known

(* The page takes blobs from the relay only, and submits what it has. *)
LEMMA SubmitHolds ==
  ASSUME PromiseInv, Submit
  PROVE  on_page' \subseteq on_page /\ in_jobs' \subseteq in_jobs \cup on_page
<1> DEFINE st == submitting.st
           i == next_tx(st)
           j == Len(jobs) + 1
           job == job_for(st, i)
           s == saved_job(st, i, j)
           t == with_hash(s, i)
<1>0. TypeOK /\ jobs \in Seq(Jobs)
      BY DEF PromiseInv, SignedInv, TypeOK
<1>1. st \in RotationStagings /\ todo(st) # {} /\ submitting # Idle
      BY <1>0 DEF Submit, TypeOK, Idle
<1>2. i \in DOMAIN st.txs
      BY <1>1, NextTx DEF todo
<1>3. j \in 1..MaxJobs
  <2>1. Len(jobs) \in Nat
        BY <1>0, LenProperties
  <2> QED BY <2>1, Numbers DEF Submit
<1>4. \/ /\ staging' \in {s, staging}
         /\ submitting' = [pc |-> "wait", st |-> s, job |-> j]
      \/ staging' = t /\ submitting' = [pc |-> "submit", st |-> t]
      \/ submitting' = Idle /\ staging' = staging
      BY DEF Submit, submit_idle
<1>5. jobs' = Append(jobs, job)
      BY DEF Submit
<1>6. job \in Jobs /\ job.blobs = collected(st)
      BY <1>0, <1>1, <1>2, JobType DEF job_for, collected
<1> HIDE DEF st, i, j, job
<1>7. s \in RotationStagings /\ s.collected = st.collected /\ i \in DOMAIN s.txs
      BY <1>1, <1>2, <1>3, SavedJob
<1> HIDE DEF s
<1>8. t.collected = st.collected
      BY <1>7, WithHash
<1> HIDE DEF t
<1>9. collected(s) = collected(st) /\ collected(t) = collected(st) /\ collected(st) \subseteq on_page
  <2>1. collected(st) \subseteq on_page
        BY <1>1 DEF on_page, st
  <2> QED BY <1>7, <1>8, <2>1, SameCollected
<1>10. on_page' \subseteq on_page
  <2>1. on_page' = (IF staging' = None THEN {} ELSE collected(staging'))
                   \cup (IF submitting' = Idle THEN {} ELSE collected(submitting'.st))
        BY DEF on_page, collected, known
  <2>2. staging # None => collected(staging) \subseteq on_page
        BY DEF on_page
  <2>3. staging' # None => collected(staging') \subseteq on_page
        BY <1>4, <1>9, <2>2
  <2>4. submitting' # Idle => collected(submitting'.st) \subseteq on_page
        BY <1>4, <1>9
  <2> QED BY <2>1, <2>3, <2>4
<1>11. in_jobs' \subseteq in_jobs \cup on_page
  <2>1. \A k \in DOMAIN jobs' : jobs'[k] = job \/ (k \in DOMAIN jobs /\ jobs'[k] = jobs[k])
        BY <1>0, <1>5, <1>6, AppendProperties, LenProperties
  <2> QED BY <1>6, <1>9, <2>1 DEF in_jobs
<1> QED BY <1>10, <1>11

(* Only a friend who signs adds an approval. *)
LEMMA OthersApproveNothing ==
  ASSUME PromiseInv, [Next]_vars, ~FriendSigns
  PROVE  Approved' \subseteq Approved
<1>0. TypeOK
      BY DEF PromiseInv, SignedInv
<1> SUFFICES blobs_at_hand' \subseteq blobs_at_hand
    BY DEF Approved
<1>1. SUFFICES /\ at_relay' \subseteq at_relay /\ on_page' \subseteq on_page \cup at_relay
               /\ in_jobs' \subseteq in_jobs \cup on_page
      BY AtHand DEF blobs_at_hand, at_relay, on_page, in_jobs
<1>2. on_page' = (IF staging' = None THEN {} ELSE collected(staging'))
                 \cup (IF submitting' = Idle THEN {} ELSE collected(submitting'.st))
      BY DEF on_page, collected, known
<1>3. /\ staging # None => collected(staging) \subseteq on_page
      /\ submitting # Idle => collected(submitting.st) \subseteq on_page
      BY DEF on_page
<1>4. UNCHANGED relay => at_relay' = at_relay
      BY DEF at_relay
<1>5. UNCHANGED jobs => in_jobs' = in_jobs
      BY DEF in_jobs
<1>6. CASE Submit
      BY <1>4, <1>6, SubmitHolds DEF Submit
<1>7. CASE Tick \/ PrepareBegin \/ StageFails \/ CollectBegin \/ UNCHANGED vars
  <2>1. UNCHANGED <<relay, jobs, staging, submitting>>
        BY <1>7 DEF Tick, PrepareBegin, StageFails, CollectBegin, vars, page_vars
  <2> QED BY <1>2, <1>3, <1>4, <1>5, <2>1
<1>8. CASE Land
  <2>1. PICK j \in DOMAIN jobs : \E status \in {"confirmed", "failed"} :
          jobs' = [jobs EXCEPT ![j].status = status]
        BY <1>8 DEF Land
  <2>2. UNCHANGED <<relay, staging, submitting>>
        BY <1>8 DEF Land, page_vars
  <2>3. \A k \in DOMAIN jobs : jobs[k] \in Jobs
        BY <1>0, LenProperties DEF TypeOK
  <2>4. \A k \in DOMAIN jobs' : k \in DOMAIN jobs /\ jobs'[k].blobs = jobs[k].blobs
        BY <2>1, <2>3 DEF Jobs
  <2>5. in_jobs' \subseteq in_jobs
        BY <2>4 DEF in_jobs
  <2> QED BY <1>2, <1>3, <1>4, <2>2, <2>5
<1>9. CASE Stage
  <2> DEFINE st == staged(preparing.plan, preparing.threshold)
  <2>1. staging' = st /\ UNCHANGED <<relay, jobs, submitting>>
        BY <1>9 DEF Stage
  <2>2. \A f \in Friends : st.collected[f] = None
        BY <1>0, <1>9, StagedType DEF Stage
  <2>3. collected(st) = {}
        BY <2>2 DEF collected, known
  <2> QED BY <1>2, <1>3, <1>4, <1>5, <2>1, <2>3
<1>10. CASE Reload
  <2>1. staging' \in {staging, None} /\ submitting' = Idle /\ UNCHANGED <<relay, jobs>>
        BY <1>10 DEF Reload
  <2> QED BY <1>2, <1>3, <1>4, <1>5, <2>1
<1>11. CASE RelayForgets
  <2>1. PICK n \in DOMAIN handoffs, f \in Friends :
          relay' = [relay EXCEPT ![n][f] = None] /\ UNCHANGED <<staging, submitting, jobs>>
        BY <1>11 DEF RelayForgets, page_vars
  <2>2. relay \in [Stagings -> [Friends -> FriendSignatures \cup {None}]]
        BY <1>0 DEF TypeOK
  <2>3. \A m \in Stagings, g \in Friends : relay'[m][g] \in {None, relay[m][g]}
        BY <2>1, <2>2
  <2>4. at_relay' \subseteq at_relay
        BY <2>3 DEF at_relay
  <2> QED BY <1>2, <1>3, <1>5, <2>1, <2>4
<1>12. CASE CollectEnd
  <2> DEFINE blobs == relay[collecting.bucket]
             st == add_unknown(staging, blobs, collecting.known)
  <2>1. UNCHANGED <<relay, jobs, submitting>> /\ staging' = IF staging = None THEN None ELSE st
        BY <1>12 DEF CollectEnd
  <2>2. ASSUME staging # None PROVE collected(st) \subseteq on_page \cup at_relay
    <3>1. collecting.bucket \in Stagings /\ staging \in RotationStagings
          BY <1>0, <1>12, <2>2 DEF CollectEnd, TypeOK
    <3>2. \A f \in Friends : st.collected[f] \in {blobs[f], staging.collected[f]}
          BY <3>1 DEF add_unknown, RotationStagings
    <3>3. \A f \in Friends : blobs[f] # None => blobs[f] \in at_relay
          BY <3>1 DEF at_relay
    <3>4. \A f \in Friends : staging.collected[f] # None => staging.collected[f] \in on_page
          BY <1>3, <2>2 DEF collected, known
    <3> HIDE DEF st, blobs
    <3> QED BY <3>2, <3>3, <3>4 DEF collected, known
  <2> HIDE DEF st
  <2> QED BY <1>2, <1>3, <1>4, <1>5, <2>1, <2>2
<1>13. CASE SubmitBegin
  <2>1. staging # None /\ submitting'.st = staging /\ UNCHANGED <<relay, jobs, staging>>
        BY <1>13 DEF SubmitBegin
  <2> QED BY <1>2, <1>3, <1>4, <1>5, <2>1
<1>14. CASE SubmitFails \/ WaitFails \/ SubmitEnd
  <2>1. submitting' = Idle /\ staging' \in {staging, None} /\ UNCHANGED <<relay, jobs>>
        BY <1>14 DEF SubmitFails, WaitFails, SubmitEnd, submit_idle
  <2> QED BY <1>2, <1>3, <1>4, <1>5, <2>1
<1>15. CASE Resume
  <2>1. submitting # Idle /\ submitting'.st = submitting.st /\ UNCHANGED <<relay, jobs, staging>>
        BY <1>15 DEF Resume, Idle
  <2> QED BY <1>2, <1>3, <1>4, <1>5, <2>1
<1>16. CASE Confirmed
  <2> DEFINE t == with_hash(submitting.st, next_tx(submitting.st))
  <2>1. submitting.st \in RotationStagings /\ submitting # Idle
        BY <1>0, <1>16 DEF Confirmed, TypeOK, Idle
  <2>2. t.collected = submitting.st.collected
        BY <2>1 DEF with_hash, RotationStagings
  <2>3. staging' = t /\ submitting'.st = t /\ UNCHANGED <<relay, jobs>>
        BY <1>16 DEF Confirmed
  <2> HIDE DEF t
  <2>4. collected(t) \subseteq on_page
        BY <1>3, <2>1, <2>2, SameCollected
  <2> QED BY <1>2, <1>4, <1>5, <2>3, <2>4
<1> QED BY <1>6, <1>7, <1>8, <1>9, <1>10, <1>11, <1>12, <1>13, <1>14, <1>15, <1>16
        DEF Next, Prepare, Collect, submitRotation

LEMMA SigningApproves ==
  ASSUME PromiseInv, FriendSigns
  PROVE  \E n \in DOMAIN handoffs, f \in Friends : Approved' = Approved \cup {<<f, n>>}
<1>0. TypeOK /\ relay \in [Stagings -> [Friends -> FriendSignatures \cup {None}]]
      BY DEF PromiseInv, SignedInv, TypeOK
<1>1. PICK f \in Friends, n \in DOMAIN handoffs :
        /\ relay' = [relay EXCEPT ![link(n).k][f] = signed_for(f, n)]
        /\ UNCHANGED <<jobs, staging, submitting>>
      BY DEF FriendSigns, page_vars
<1> DEFINE blob == signed_for(f, n)
<1>2. /\ n \in Stagings /\ link(n).k = n /\ blob \in FriendSignatures
      /\ blob.friend = f /\ blob.handoff = n
      BY <1>0, BlobType
<1> HIDE DEF blob
<1>3. \A m \in Stagings, g \in Friends :
        relay'[m][g] = IF m = n /\ g = f THEN blob ELSE relay[m][g]
      BY <1>0, <1>1, <1>2 DEF blob
<1>4. on_page' = on_page /\ in_jobs' = in_jobs
      BY <1>1 DEF on_page, in_jobs, collected, known
<1>5. blobs_at_hand' = at_relay' \cup on_page' \cup in_jobs'
      BY DEF blobs_at_hand, at_relay, on_page, in_jobs, collected, known
<1>6. blob # None
      BY <1>2, NoneAssumption DEF NoneAssumption
<1>7. at_relay' \subseteq at_relay \cup {blob} /\ blob \in at_relay'
  <2>1. at_relay' = {relay'[m][g] : m \in Stagings, g \in Friends} \ {None}
        BY DEF at_relay
  <2>2. blob = relay'[n][f]
        BY <1>2, <1>3
  <2> QED BY <1>2, <1>3, <1>6, <2>1, <2>2 DEF at_relay
<1>8. ASSUME NEW b \in at_relay
      PROVE  b \in at_relay' \/ <<b.friend, b.handoff>> = <<f, n>>
  <2>1. PICK m \in Stagings, g \in Friends : b = relay[m][g] /\ b # None
        BY <1>8 DEF at_relay
  <2>2. CASE m = n /\ g = f
    <3>1. b.handoff = n
          BY <1>2, <2>1, <2>2 DEF PromiseInv
    <3>2. b.friend = f
          BY <1>2, <2>1, <2>2 DEF PromiseInv, SignedInv, Signed, BlobOK
    <3> QED BY <3>1, <3>2
  <2>3. CASE ~(m = n /\ g = f)
    <3>1. b = relay'[m][g]
          BY <1>3, <2>1, <2>3
    <3> QED BY <2>1, <3>1 DEF at_relay
  <2> QED BY <2>2, <2>3
<1>9. /\ blobs_at_hand' \subseteq blobs_at_hand \cup {blob} /\ blob \in blobs_at_hand'
      /\ \A b \in blobs_at_hand : b \in blobs_at_hand' \/ <<b.friend, b.handoff>> = <<f, n>>
      BY <1>4, <1>5, <1>7, <1>8, AtHand
<1>10. Approved' = {<<b.friend, b.handoff>> : b \in blobs_at_hand'}
       BY DEF Approved
<1>11. Approved' = Approved \cup {<<f, n>>}
  <2>1. \A b \in blobs_at_hand' : <<b.friend, b.handoff>> \in Approved \cup {<<f, n>>}
        BY <1>2, <1>9 DEF Approved
  <2>2. <<f, n>> \in Approved'
        BY <1>2, <1>9, <1>10
  <2>3. \A b \in blobs_at_hand : <<b.friend, b.handoff>> \in Approved'
        BY <1>9, <1>10, <2>2
  <2> QED BY <1>10, <2>1, <2>2, <2>3 DEF Approved
<1> QED BY <1>11

LEMMA StagingProposes ==
  ASSUME PromiseInv, Stage
  PROVE  \E p \in Recovery!Proposals : Proposed' = Append(Proposed, p)
<1> DEFINE p == preparing.plan
           h == handoff_of(staging')
<1>0. TypeOK /\ handoffs \in Seq(Handoffs)
      BY DEF PromiseInv, SignedInv, TypeOK
<1>1. handoffs' = Append(handoffs, h) /\ h \in Handoffs /\ h.calls = p
      BY <1>0, StagedType DEF Stage
<1>2. p \in Recovery!Proposals
  <2>1. PlanOK(p)
        BY DEF PromiseInv, Stage
  <2>2. Recovery!Changes = Calls
        BY DEF Recovery!Changes, Calls
  <2> QED BY <2>1, <2>2 DEF PlanOK, Plans, Recovery!Proposals
<1> HIDE DEF p, h
<1>3. /\ DOMAIN handoffs' = 1..(Len(handoffs) + 1) /\ Len(handoffs) \in Nat
      /\ DOMAIN handoffs = 1..Len(handoffs)
      /\ \A n \in DOMAIN handoffs' :
           handoffs'[n] = IF n = Len(handoffs) + 1 THEN h ELSE handoffs[n]
      BY <1>0, <1>1, AppendProperties, LenProperties
<1>4. /\ Proposed \in Seq({handoffs[n].calls : n \in DOMAIN handoffs} \cup {p})
      /\ Len(Proposed) = Len(handoffs)
  <2> DEFINE S == {handoffs[n].calls : n \in DOMAIN handoffs} \cup {p}
  <2>1. Proposed \in [1..Len(handoffs) -> S]
        BY <1>3 DEF Proposed
  <2>2. Proposed \in Seq(S)
        BY <1>3, <2>1, SeqDef
  <2>3. Len(Proposed) = Len(handoffs)
        BY <1>3, <2>1, <2>2, LenProperties
  <2> QED BY <2>2, <2>3
<1>5. Proposed' = Append(Proposed, p)
  <2> DEFINE A == Append(Proposed, p)
  <2>1. /\ A \in Seq({handoffs[n].calls : n \in DOMAIN handoffs} \cup {p})
        /\ Len(A) = Len(handoffs) + 1
        /\ \A i \in 1..Len(handoffs) : A[i] = Proposed[i]
        /\ A[Len(handoffs) + 1] = p
        BY <1>4, AppendProperties
  <2>2. DOMAIN A = 1..(Len(handoffs) + 1) /\ A = [n \in DOMAIN A |-> A[n]]
        BY <2>1, LenProperties
  <2>3. Proposed' = [n \in DOMAIN handoffs' |-> handoffs'[n].calls]
        BY DEF Proposed
  <2> HIDE DEF A
  <2>4. ASSUME NEW n \in 1..(Len(handoffs) + 1) PROVE A[n] = handoffs'[n].calls
        BY <1>1, <1>3, <2>1 DEF Proposed
  <2>5. Proposed' = A
        BY <1>3, <2>2, <2>3, <2>4
  <2> QED BY <2>5 DEF A
<1> QED BY <1>2, <1>5

(* The abstract module counts with the Cardinality it was given. *)
LEMMA SameCardinality ==
  ASSUME NEW S
  PROVE  Recovery!Cardinality(S) = Cardinality(S)
BY DEF Cardinality, Recovery!Cardinality

LEMMA LandingChanges ==
  ASSUME PromiseInv, HashAtSubmit = FALSE => LandedInv, UNCHANGED <<setting, handoffs>>,
         NEW j \in DOMAIN jobs, runs(jobs[j]), rule' \in results(rule, jobs[j].call),
         used' = used \cup {<<jobs[j].id, jobs[j].tx>>}, Approved' = Approved
  PROVE  \E n \in DOMAIN handoffs : \E i \in DOMAIN handoffs[n].calls : Recovery!Change(n, i)
<1> DEFINE n == jobs[j].id
           i == jobs[j].tx
           call == jobs[j].call
<1>0. TypeOK /\ jobs[j] \in Jobs
  <2>1. TypeOK /\ jobs \in Seq(Jobs)
        BY DEF PromiseInv, SignedInv, TypeOK
  <2> QED BY <2>1, LenProperties
<1>1. n \in DOMAIN handoffs /\ i \in DOMAIN handoffs[n].calls /\ handoffs[n].calls[i] = call
      BY DEF PromiseInv, JobSigned
<1>2. Cardinality({f \in Friends : <<f, n>> \in Approved}) >= setting.threshold
      BY QuorumApproved
<1>3. <<n, i>> \notin used
      BY DEF runs, authorised
<1>4. ~HashAtSubmit => \A k \in 1..(i - 1) : <<n, k>> \in used
      BY RotationAssumption DEF RotationAssumption, LandedInv, Landed, JobOK
<1>5. call \in Calls
      BY <1>0 DEF Jobs
<1>6. Recovery!Becomes(rule, call, rule')
  <2> HIDE DEF call
  <2>1. rule' \in results(rule, call)
        BY DEF call
  <2> QED BY <1>5, <2>1, CallsOf DEF results, Recovery!Becomes
<1> HIDE DEF n, i, call
<1>7. Recovery!approvers(n) = {f \in Friends : <<f, n>> \in Approved}
      BY DEF Recovery!approvers, Approved
<1>8. Proposed[n][i] = call /\ Proposed' = Proposed
      BY <1>1 DEF Proposed
<1>9. used' = used \cup {<<n, i>>}
      BY DEF n, i
<1>10. Recovery!Change(n, i)
  <2>1. Recovery!Cardinality(Recovery!approvers(n)) >= setting.threshold
        BY <1>2, <1>7, SameCardinality
  <2> QED BY <2>1, <1>3, <1>4, <1>6, <1>8, <1>9 DEF Recovery!Change, Proposed, Approved
<1> QED BY <1>1, <1>10

(* What lands leaves every blob where it is. *)
LEMMA LandingKeepsBlobs ==
  ASSUME PromiseInv, Land
  PROVE  Approved' = Approved
<1>1. UNCHANGED <<relay, staging, submitting>>
      BY DEF Land, page_vars
<1>2. at_relay' = at_relay /\ on_page' = on_page
      BY <1>1 DEF at_relay, on_page, collected, known
<1>3. DOMAIN jobs' = DOMAIN jobs /\ \A j \in DOMAIN jobs : jobs'[j].blobs = jobs[j].blobs
  <2>1. jobs \in Seq(Jobs)
        BY DEF PromiseInv, SignedInv, TypeOK
  <2>2. PICK k \in DOMAIN jobs :
          \/ jobs' = [jobs EXCEPT ![k].status = "confirmed"]
          \/ jobs' = [jobs EXCEPT ![k].status = "failed"]
        BY DEF Land
  <2>3. \A j \in DOMAIN jobs : jobs[j] \in Jobs
        BY <2>1, LenProperties
  <2> QED BY <2>2, <2>3 DEF Jobs
<1>4. in_jobs' = in_jobs
      BY <1>3 DEF in_jobs
<1>5. blobs_at_hand' = blobs_at_hand
  <2>1. blobs_at_hand' = at_relay' \cup on_page' \cup in_jobs'
        BY AtHand DEF blobs_at_hand, at_relay, on_page, in_jobs
  <2> QED BY <2>1, <1>2, <1>4, AtHand
<1> QED BY <1>5 DEF Approved

(* Whatever only loses approvals is a Forget. *)
LEMMA Forgets ==
  ASSUME UNCHANGED <<setting, rule, used, handoffs>>, Approved' \subseteq Approved
  PROVE  Recovery!Forget
<1>1. Proposed' = Proposed
      BY DEF Proposed
<1> QED BY <1>1 DEF Recovery!Forget, Recovery!Lapse, Proposed, Approved

LEMMA PromiseStarts == Init => Recovery!Init
<1> SUFFICES ASSUME Init PROVE Recovery!Init
    OBVIOUS
<1>1. setting.threshold \in 1..Recovery!Cardinality(Friends)
  <2>1. setting.threshold \in 1..Cardinality(Friends)
        BY RotationAssumption DEF Init, RotationAssumption
  <2> QED BY <2>1, SameCardinality
<1>2. rule \in [signers: {FirstSigners}, policy: BOOLEAN]
  <2>1. setting.policy \in BOOLEAN
        BY RotationAssumption DEF Init, RotationAssumption
  <2> QED BY <2>1 DEF Init
<1>3. Proposed = <<>>
  <2>1. DOMAIN handoffs = {}
        BY DEF Init
  <2> QED BY <2>1 DEF Proposed
<1>4. Approved = {}
  <2>1. at_relay = {}
        BY DEF Init, at_relay
  <2>2. on_page = {}
        BY DEF Init, on_page
  <2>3. in_jobs = {}
    <3>1. DOMAIN jobs = {}
          BY DEF Init
    <3> QED BY <3>1 DEF in_jobs
  <2> QED BY <2>1, <2>2, <2>3, AtHand DEF Approved
<1>5. used = {}
      BY DEF Init
<1> QED BY <1>1, <1>2, <1>3, <1>4, <1>5 DEF Recovery!Init, Proposed, Approved

SeqInv == HashAtSubmit = FALSE => LandedInv

LEMMA PromiseRefines ==
  PromiseInv /\ SeqInv /\ [Next]_vars => [Recovery!Next]_Recovery!vars
<1> SUFFICES ASSUME PromiseInv, SeqInv, [Next]_vars PROVE Recovery!Next
    OBVIOUS
<1>0. UNCHANGED setting
      BY DEF Next, vars
<1>1. CASE Land
  <2>1. Approved' = Approved /\ UNCHANGED handoffs
        BY <1>1, LandingKeepsBlobs DEF Land
  <2>2. PICK j \in DOMAIN jobs :
          \/ /\ runs(jobs[j]) /\ rule' \in results(rule, jobs[j].call)
             /\ used' = used \cup {<<jobs[j].id, jobs[j].tx>>}
          \/ UNCHANGED <<rule, used>>
        BY <1>1 DEF Land
  <2>3. CASE UNCHANGED <<rule, used>>
    <3>1. Recovery!Forget
          BY <1>0, <2>1, <2>3, Forgets
    <3> QED BY <3>1 DEF Recovery!Next
  <2>4. CASE ~UNCHANGED <<rule, used>>
    <3>1. \E n \in DOMAIN handoffs : \E i \in DOMAIN handoffs[n].calls : Recovery!Change(n, i)
          BY <1>0, <2>1, <2>2, <2>4, LandingChanges DEF SeqInv
    <3>2. PICK n \in DOMAIN handoffs : \E i \in DOMAIN handoffs[n].calls : Recovery!Change(n, i)
          BY <3>1
    <3>3. n \in DOMAIN Proposed /\ Proposed[n] = handoffs[n].calls
          BY <3>2 DEF Proposed
    <3> QED BY <3>2, <3>3 DEF Recovery!Next, Proposed
  <2> QED BY <2>3, <2>4
<1>2. CASE FriendSigns
  <2>1. UNCHANGED <<rule, used, handoffs>>
        BY <1>2 DEF FriendSigns, chain_vars
  <2>2. PICK n \in DOMAIN handoffs, f \in Friends : Approved' = Approved \cup {<<f, n>>}
        BY <1>2, SigningApproves
  <2>3. Proposed' = Proposed /\ n \in DOMAIN Proposed
        BY <2>1 DEF Proposed
  <2>4. Recovery!Approve(f, n)
        BY <1>0, <2>1, <2>2, <2>3 DEF Recovery!Approve, Proposed, Approved
  <2> QED BY <2>3, <2>4 DEF Recovery!Next, Proposed
<1>3. CASE Stage
  <2>1. UNCHANGED <<rule, used>>
        BY <1>3 DEF Stage, chain_vars
  <2>2. \E p \in Recovery!Proposals : Proposed' = Append(Proposed, p)
        BY <1>3, StagingProposes
  <2>3. Approved' \subseteq Approved
    <3>1. CASE FriendSigns
      <4>1. UNCHANGED handoffs
            BY <3>1 DEF FriendSigns
      <4>2. Len(handoffs') = Len(handoffs) + 1 /\ Len(handoffs) \in Nat
        <5>1. handoffs \in Seq(Handoffs)
              BY DEF PromiseInv, SignedInv, TypeOK
        <5>2. handoffs' = Append(handoffs, handoff_of(staging')) /\ handoff_of(staging') \in Handoffs
              BY <1>3, StagedType DEF Stage, PromiseInv, SignedInv
        <5> QED BY <5>1, <5>2, AppendProperties
      <4> QED BY <4>1, <4>2
    <3>2. CASE ~FriendSigns
          BY <3>2, OthersApproveNothing
    <3> QED BY <3>1, <3>2
  <2>4. Recovery!Propose
        BY <1>0, <2>1, <2>2, <2>3 DEF Recovery!Propose, Recovery!Lapse, Proposed, Approved
  <2> QED BY <2>4 DEF Recovery!Next
<1>4. CASE ~Land /\ ~FriendSigns /\ ~Stage
  <2>1. UNCHANGED <<rule, used, handoffs>>
    <3>1. CASE Tick
          BY <3>1 DEF Tick
    <3>2. CASE PrepareBegin \/ StageFails \/ Reload \/ CollectBegin \/ CollectEnd
          BY <3>2 DEF PrepareBegin, StageFails, Reload, CollectBegin, CollectEnd, chain_vars
    <3>3. CASE RelayForgets
          BY <3>3 DEF RelayForgets, chain_vars
    <3>4. CASE SubmitBegin \/ Submit \/ SubmitFails \/ Resume
          BY <3>4 DEF SubmitBegin, Submit, SubmitFails, Resume, chain_vars
    <3>5. CASE Confirmed \/ WaitFails \/ SubmitEnd
          BY <3>5 DEF Confirmed, WaitFails, SubmitEnd, chain_vars
    <3>6. CASE UNCHANGED vars
          BY <3>6 DEF vars, chain_vars
    <3> QED BY <1>4, <3>1, <3>2, <3>3, <3>4, <3>5, <3>6
            DEF Next, Prepare, Collect, submitRotation
  <2>2. Recovery!Forget
        BY <1>0, <1>4, <2>1, Forgets, OthersApproveNothing
  <2> QED BY <2>2 DEF Recovery!Next
<1> QED BY <1>1, <1>2, <1>3, <1>4

(* RecoveryPromise: a recovery by friends is a ThresholdRecovery.  Its steps
   that change the rule are the confirmed transactions, those that approve are
   signRotationAsFriend's; without a hash at submission also in their order. *)
THEOREM RotationsKeepPromise == Spec => RecoveryPromise
<1>1. Init => PromiseInv /\ SeqInv /\ Recovery!Init
      BY PromiseInit, LandedInit, PromiseStarts DEF SeqInv
<1>2. PromiseInv /\ SeqInv /\ [Next]_vars => PromiseInv' /\ SeqInv'
      BY PromiseStep, LandedStep DEF SeqInv
<1>3. PromiseInv /\ SeqInv /\ [Next]_vars => [Recovery!Next]_Recovery!vars
      BY PromiseRefines
<1> QED BY <1>1, <1>2, <1>3, PTL DEF Spec, RecoveryPromise, Recovery!Spec
=============================================================================
