-------------------------- MODULE RuleScan_proofs --------------------------
(***************************************************************************)
(* A scan that ends without an error is sound, for every slack, every set  *)
(* of rules and whatever is added and removed while it runs; and so the    *)
(* security page has a card for every session key.                         *)
(*                                                                         *)
(* A scan only counts: it stops when it has met as many rules as there     *)
(* were when it began.  That this suffices is IInv: ids only grow, so a    *)
(* rule added since lies behind every rule that was there (Ordered), and a *)
(* scan that counted such a rule has passed the others; and one that       *)
(* counted none has as many of the first rules as there were, that is all. *)
(***************************************************************************)
EXTENDS RuleScan, FiniteSetTheorems, TLAPS

(* Rules added since the start of the scan have higher ids. *)
Ordered ==
  /\ \A i \in start : i < next_id
  /\ \A i \in start, j \in DOMAIN rules \ start : i < j

(* What is held is there, and wanted. *)
HeldIsWanted == \A i \in held : i \in DOMAIN rules /\ Wanted(rules[i], scan.want)

(* A scan under way has met, once each, rules below its position only, and of
   those it passed the held ones. *)
Underway ==
  /\ IsFiniteSet(start) /\ scan.count = Cardinality(start)
  /\ IsFiniteSet(scan.found) /\ IsFiniteSet(ids_found)
  /\ Cardinality(ids_found) = Cardinality(scan.found)
  /\ scan.hit = {}
  /\ \A j \in ids_found : j < scan.id
  /\ \A i \in start, j \in ids_found \ start : i < j
  /\ \A i \in held : i < scan.id => scan.want = Every /\ i \in ids_found

IInv ==
  /\ TypeOK /\ Ordered /\ HeldIsWanted
  /\ scan.pc = "scanning" => Underway
  /\ ScanSound /\ SessionKeysAreShown

LEMMA RulesFinite ==
  ASSUME TypeOK
  PROVE  IsFiniteSet(DOMAIN rules)
<1>1. next_id - 1 \in Int
      BY DEF TypeOK
<1>2. IsFiniteSet(0..(next_id - 1))
      BY <1>1, FS_Interval
<1> QED BY <1>2, FS_Subset DEF TypeOK

(* The scan has met as many rules as there were: it has passed them all. *)
LEMMA CountSuffices ==
  ASSUME TypeOK, Ordered, Underway, ~(Cardinality(scan.found) < scan.count)
  PROVE  IF scan.want = Every THEN held \subseteq ids_found ELSE held = {}
<1>1. Cardinality(ids_found) \in Nat /\ Cardinality(start) \in Nat
      BY FS_CardinalityType DEF Underway
<1>2. \A i \in held : i < scan.id
  <2>1. CASE ids_found \subseteq start
    <3>1. Cardinality(ids_found) <= Cardinality(start)
          BY <2>1, FS_Subset DEF Underway
    <3>2. Cardinality(ids_found) = Cardinality(start)
          BY <1>1, <3>1 DEF Underway
    <3>3. ids_found = start
          BY <2>1, <3>2, FS_Subset DEF Underway
    <3> QED BY <3>3 DEF Underway, TypeOK
  <2>2. ASSUME NEW j \in ids_found, j \notin start
        PROVE  \A i \in held : i < scan.id
    <3>1. j \in Nat /\ j < scan.id /\ scan.id \in Nat
          BY <2>2 DEF Underway, TypeOK, ids_found, Entries
    <3>2. \A i \in held : i \in Nat /\ i < j
          BY <2>2 DEF Underway, TypeOK
    <3> QED BY <3>1, <3>2
  <2> QED BY <2>1, <2>2
<1> QED BY <1>2 DEF Underway

-----------------------------------------------------------------------------
(* A step of the chain leaves the scan alone and lets go of what it held.  *)
LEMMA ChainStep ==
  ASSUME IInv, TypeOK', Ordered', held' = still_held, UNCHANGED <<scan, start>>,
         \A b \in blocks : b \in blocks' \/ b.ruleId \notin DOMAIN rules'
  PROVE  IInv'
<1>1. held' \subseteq held /\ HeldIsWanted'
      BY DEF still_held, HeldIsWanted
<1>2. \A i \in held' : i \in DOMAIN rules'
      BY DEF still_held
<1>3. ids_found' = ids_found
      BY DEF ids_found
<1>4. scan.pc = "scanning" => Underway'
      BY <1>1, <1>3 DEF IInv, Underway
<1>5. ScanSound'
      BY <1>1, <1>3 DEF IInv, ScanSound
<1>6. SessionKeysAreShown'
      BY <1>1, <1>2 DEF IInv, SessionKeysAreShown
<1> QED BY <1>1, <1>4, <1>5, <1>6 DEF IInv

LEMMA RemovedOrdered ==
  ASSUME IInv, NEW id \in DOMAIN rules, rules' = removed(id), held' = still_held,
         UNCHANGED <<next_id, scan, start>>
  PROVE  TypeOK' /\ Ordered' /\ DOMAIN rules' = DOMAIN rules \ {id}
<1>1. DOMAIN rules' = DOMAIN rules \ {id} /\ \A i \in DOMAIN rules' : rules'[i] = rules[i]
      BY DEF removed
<1>2. rules' \in [DOMAIN rules' -> Forms]
      BY <1>1 DEF removed, IInv, TypeOK
<1> QED BY <1>1, <1>2 DEF IInv, TypeOK, Ordered, still_held

LEMMA ChainInductive == IInv /\ Chain => IInv'
<1> SUFFICES ASSUME IInv, Chain PROVE IInv'
    OBVIOUS
<1>1. ASSUME NEW f \in Forms, add_context_rule(f)
      PROVE  IInv'
  <2> USE <1>1 DEF add_context_rule
  <2>1. DOMAIN rules' = DOMAIN rules \cup {next_id}
        OBVIOUS
  <2>2. rules' \in [DOMAIN rules' -> Forms]
        BY <2>1 DEF IInv, TypeOK
  <2>3. TypeOK'
        BY <2>1, <2>2 DEF IInv, TypeOK, page, still_held
  <2>4. Ordered'
        BY <2>1 DEF IInv, TypeOK, Ordered, page
  <2> QED BY <2>3, <2>4, ChainStep DEF page
<1>2. ASSUME NEW id \in DOMAIN rules, remove_context_rule(id)
      PROVE  IInv'
      BY <1>2, RemovedOrdered, ChainStep DEF remove_context_rule, page
<1>3. ASSUME NEW id \in DOMAIN rules, NEW f \in Forms, change_signers(id, f)
      PROVE  IInv'
  <2>1. DOMAIN rules' = DOMAIN rules /\ rules' \in [DOMAIN rules' -> Forms]
        BY <1>3 DEF change_signers, IInv, TypeOK
  <2>2. TypeOK' /\ Ordered'
        BY <1>3, <2>1 DEF change_signers, IInv, TypeOK, Ordered, still_held, page
  <2> QED BY <1>3, <2>2, ChainStep DEF change_signers, page
<1> QED BY <1>1, <1>2, <1>3 DEF Chain

-----------------------------------------------------------------------------
(* The steps of the page.                                                  *)

LEMMA StartInductive ==
  ASSUME IInv, NEW want \in Keys \cup {Every}, StartScan(want)
  PROVE  IInv'
<1> USE DEF StartScan, NoScan, chain
<1>1. /\ scan'.pc = "scanning" /\ scan'.want = want /\ scan'.id = 0
      /\ scan'.found = {} /\ scan'.hit = {} /\ scan'.count = Cardinality(DOMAIN rules)
      OBVIOUS
<1>2. IsFiniteSet(DOMAIN rules) /\ Cardinality(DOMAIN rules) \in Nat
      BY RulesFinite, FS_CardinalityType DEF IInv
<1>3. ids_found' = {}
      BY <1>1 DEF ids_found
<1>4. TypeOK'
  <2>1. scan' = [pc |-> "scanning", want |-> want, count |-> Cardinality(DOMAIN rules),
                 id |-> 0, found |-> {}, hit |-> {}]
        OBVIOUS
  <2> QED BY <1>2, <2>1 DEF IInv, TypeOK
<1>5. Ordered' /\ HeldIsWanted'
      BY <1>1 DEF IInv, TypeOK, Ordered, HeldIsWanted
<1>6. \A i \in DOMAIN rules : ~(i < 0)
      BY DEF IInv, TypeOK
<1>7. Underway'
      BY <1>1, <1>2, <1>3, <1>6, FS_EmptySet DEF Underway
<1> QED BY <1>1, <1>4, <1>5, <1>7 DEF IInv, ScanSound, SessionKeysAreShown

LEMMA ReadInductive == IInv /\ Read => IInv'
<1> SUFFICES ASSUME IInv, Read PROVE IInv'
    OBVIOUS
<1> USE DEF Read, chain, page
<1> DEFINE e == parseRule(scan.id)
           hit == scan.want # Every /\ KeyOn(e.rule, scan.want)
<1>1. /\ Underway /\ scan.id \in Nat /\ scan.found \subseteq Entries
      /\ scan.want \in Keys \cup {Every} /\ scan.count \in Nat
      BY DEF IInv, TypeOK
<1>2. Ordered' /\ SessionKeysAreShown'
      BY DEF IInv, Ordered, SessionKeysAreShown, TypeOK
<1>3. scan'.want = scan.want /\ scan'.count = scan.count /\ scan'.id = scan.id + 1
      BY DEF IInv, TypeOK
<1>4. HeldIsWanted'
      BY <1>3 DEF IInv, HeldIsWanted
<1>5. CASE scan.id \notin DOMAIN rules
  <2>1. scan' = [scan EXCEPT !.id = @ + 1]
        BY <1>5
  <2>2. scan'.found = scan.found /\ scan'.pc = "scanning" /\ scan'.hit = scan.hit
        BY <2>1 DEF IInv, TypeOK
  <2>3. ids_found' = ids_found
        BY <2>2 DEF ids_found
  <2>4. TypeOK'
        BY <2>1 DEF IInv, TypeOK
  <2>5. ids_found \subseteq Nat /\ held \subseteq Nat /\ \A i \in held : i # scan.id
        BY <1>1, <1>5 DEF ids_found, Entries, IInv, TypeOK, HeldIsWanted
  <2>6. \A j \in ids_found : j < scan'.id
        BY <1>1, <1>3, <2>5 DEF Underway
  <2>7. \A i \in held : i < scan'.id => i < scan.id
        BY <1>1, <1>3, <2>5
  <2>8. Underway'
        BY <1>1, <1>3, <2>2, <2>3, <2>6, <2>7 DEF Underway
  <2> QED BY <1>2, <1>4, <2>2, <2>4, <2>8 DEF IInv, ScanSound
<1>6. CASE scan.id \in DOMAIN rules
  <2>1. scan' = [scan EXCEPT !.id = @ + 1, !.found = @ \cup {e},
                              !.hit = IF hit THEN {e} ELSE {}, !.pc = IF hit THEN "done" ELSE @]
        BY <1>6
  <2>2. e \in Entries /\ e.ruleId = scan.id /\ e.rule = rules[scan.id]
        BY <1>1, <1>6 DEF parseRule, Entries, IInv, TypeOK
  <2> HIDE DEF e
  <2>3. /\ scan'.found = scan.found \cup {e}
        /\ scan'.hit = (IF hit THEN {e} ELSE {})
        /\ scan'.pc = (IF hit THEN "done" ELSE "scanning")
        BY <2>1 DEF IInv, TypeOK
  <2>4. ids_found' = ids_found \cup {scan.id}
        BY <2>2, <2>3 DEF ids_found
  <2>5. TypeOK'
    <3>1. scan' = [pc |-> IF hit THEN "done" ELSE scan.pc, want |-> scan.want,
                   count |-> scan.count, id |-> scan.id + 1,
                   found |-> scan.found \cup {e}, hit |-> IF hit THEN {e} ELSE {}]
          BY <2>1 DEF IInv, TypeOK
    <3>2. scan.found \cup {e} \in SUBSET Entries /\ (IF hit THEN {e} ELSE {}) \in SUBSET Entries
          BY <1>1, <2>2
    <3> HIDE DEF hit
    <3> QED BY <1>1, <3>1, <3>2 DEF IInv, TypeOK
  <2>6. CASE hit
        BY <1>2, <1>4, <2>3, <2>5, <2>6 DEF IInv, ScanSound
  <2>7. CASE ~hit
    <3>1. scan.id \notin ids_found /\ ids_found \subseteq Nat /\ held \subseteq Nat
          BY <1>1 DEF Underway, ids_found, Entries, IInv, TypeOK
    <3>2. e \notin scan.found
          BY <2>2, <3>1 DEF ids_found
    <3>3. /\ IsFiniteSet(scan'.found) /\ IsFiniteSet(ids_found')
          /\ Cardinality(ids_found') = Cardinality(scan'.found)
      <4>1. /\ IsFiniteSet(scan.found \cup {e})
            /\ Cardinality(scan.found \cup {e}) = Cardinality(scan.found) + 1
            BY <1>1, <3>2, FS_AddElement DEF Underway
      <4>2. /\ IsFiniteSet(ids_found \cup {scan.id})
            /\ Cardinality(ids_found \cup {scan.id}) = Cardinality(ids_found) + 1
            BY <1>1, <3>1, FS_AddElement DEF Underway
      <4> QED BY <1>1, <2>3, <2>4, <4>1, <4>2 DEF Underway
    <3>4. \A j \in ids_found' : j < scan'.id
          BY <1>1, <1>3, <2>4, <3>1 DEF Underway
    <3>5. \A i \in start, j \in ids_found' \ start : i < j
          BY <1>1, <1>6, <2>4 DEF Underway, IInv, Ordered
    <3>6. scan.id \in held => scan.want = Every
          BY <2>2, <2>7 DEF IInv, HeldIsWanted, Wanted
    <3>7. \A i \in held : i < scan'.id => scan.want = Every /\ i \in ids_found'
          BY <1>1, <1>3, <2>4, <3>1, <3>6 DEF Underway
    <3>8. Underway'
          BY <1>1, <1>3, <2>3, <2>7, <3>3, <3>4, <3>5, <3>7 DEF Underway
    <3> QED BY <1>2, <1>4, <2>3, <2>5, <2>7, <3>8 DEF IInv, ScanSound
  <2> QED BY <2>6, <2>7
<1> QED BY <1>5, <1>6

LEMMA EndInductive == IInv /\ (ReadFails \/ EndScan) => IInv'
<1> SUFFICES ASSUME IInv, ReadFails \/ EndScan PROVE IInv'
    OBVIOUS
<1> USE DEF ReadFails, EndScan, chain, page
<1>1. \/ scan' = [scan EXCEPT !.pc = "failed"]
      \/ ~more /\ scan' = [scan EXCEPT !.pc = outcome]
      OBVIOUS
<1>2. /\ scan'.want = scan.want /\ scan'.found = scan.found /\ scan'.hit = scan.hit
      /\ scan'.pc \in {"failed", "exhausted", "done"}
      BY <1>1 DEF IInv, TypeOK, outcome
<1>3. TypeOK'
      BY DEF IInv, TypeOK, outcome
<1>4. Ordered' /\ HeldIsWanted' /\ ids_found' = ids_found /\ SessionKeysAreShown'
      BY <1>2 DEF IInv, Ordered, HeldIsWanted, ids_found, SessionKeysAreShown
<1>5. scan'.pc = "done" => ~(Cardinality(scan.found) < scan.count)
      BY <1>1 DEF outcome, IInv, TypeOK
<1>6. scan'.pc = "done" =>
        IF scan.want = Every THEN held \subseteq ids_found ELSE held = {}
      BY <1>5, CountSuffices DEF IInv
<1>7. ScanSound'
      BY <1>2, <1>4, <1>6 DEF ScanSound
<1> QED BY <1>2, <1>3, <1>4, <1>7 DEF IInv

(* A rule with a passkey and at most a limit on it becomes a session key's card,
   whichever reads of its policy fail. *)
LEMMA CardOfSessionKey ==
  ASSUME NEW e \in Entries, NEW state \in PolicyStates(e.rule),
         call_contract(e.rule), one_passkey(e.rule), Len(e.rule.policies) <= 1,
         \A i \in DOMAIN e.rule.policies : e.rule.policies[i] \in LimitPolicies
  PROVE  \E b \in loadBlock(e, state) : b.kind = "scoped-session-key" /\ b.ruleId = e.ruleId
<1>1. e.rule.policies \in Seq(MultisigPolicies \cup LimitPolicies)
      BY FormsAssumption DEF Entries
<1>2. \A i \in DOMAIN e.rule.policies : state[i] # "threshold"
      BY FormsAssumption DEF PolicyStates, fetchPolicyState
<1>3. e.rule.policies # <<>> => 1 \in DOMAIN e.rule.policies
      BY <1>1
<1>4. ~multisig_fromChain(e.rule, state)
      BY <1>2, <1>3 DEF multisig_fromChain
<1>5. session_fromChain(e.rule, state)
      BY <1>2 DEF session_fromChain
<1> QED BY <1>4, <1>5 DEF loadBlock

LEMMA LoadInductive == IInv /\ LoadBlocks => IInv'
<1> SUFFICES ASSUME IInv, LoadBlocks PROVE IInv'
    OBVIOUS
<1> USE DEF LoadBlocks, chain
<1>1. /\ scan'.want = scan.want /\ scan'.found = scan.found /\ scan'.hit = scan.hit
      /\ scan'.pc = "shown" /\ scan.found \subseteq Entries
      BY DEF IInv, TypeOK
<1>2. TypeOK' /\ Ordered'
      BY DEF IInv, TypeOK, Ordered
<1>3. HeldIsWanted' /\ ids_found' = ids_found
      BY <1>1 DEF IInv, HeldIsWanted, ids_found
<1>4. ScanSound'
      BY <1>1, <1>3 DEF IInv, ScanSound
<1>5. PICK state : /\ \A e \in scan.found : state[e] \in PolicyStates(e.rule)
                   /\ blocks' = UNION { loadBlock(e, state[e]) : e \in scan.found }
      OBVIOUS
<1>6. SessionKeysAreShown'
  <2> SUFFICES ASSUME NEW e \in scan.found,
                      call_contract(e.rule), one_passkey(e.rule), Len(e.rule.policies) <= 1,
                      \A i \in DOMAIN e.rule.policies : e.rule.policies[i] \in LimitPolicies
               PROVE  \E b \in blocks' : b.kind = "scoped-session-key" /\ b.ruleId = e.ruleId
      BY <1>1 DEF SessionKeysAreShown
  <2>1. e \in Entries /\ state[e] \in PolicyStates(e.rule)
        BY <1>1, <1>5
  <2>2. PICK b \in loadBlock(e, state[e]) : b.kind = "scoped-session-key" /\ b.ruleId = e.ruleId
        BY <2>1, CardOfSessionKey
  <2>3. b \in blocks'
        BY <1>5, <2>2
  <2> QED BY <2>2, <2>3
<1> QED BY <1>1, <1>2, <1>3, <1>4, <1>6 DEF IInv

LEMMA RevokeInductive == IInv /\ Revoke => IInv'
<1> SUFFICES ASSUME IInv, NEW b \in blocks, buildRevoke(b) PROVE IInv'
    BY DEF Revoke
<1>1. TypeOK' /\ Ordered' /\ DOMAIN rules' = DOMAIN rules \ {b.ruleId}
      BY RemovedOrdered DEF buildRevoke
<1> QED BY <1>1, ChainStep DEF buildRevoke

LEMMA NextInductive == IInv /\ [Next]_vars => IInv'
<1> SUFFICES ASSUME IInv, [Next]_vars PROVE IInv'
    OBVIOUS
<1>1. CASE AskRegistry
  <2>1. UNCHANGED <<chain, scan, blocks, start, held>>
        BY <1>1 DEF AskRegistry
  <2> QED BY <2>1 DEF chain, IInv, TypeOK, Ordered, HeldIsWanted, Underway, ids_found, ScanSound,
                      SessionKeysAreShown
<1>2. CASE Reload
  <2>1. /\ scan'.pc = "idle" /\ scan'.want = Every /\ scan' = NoScan /\ UNCHANGED chain
        /\ start' = {} /\ held' = {}
        BY <1>2 DEF Reload, NoScan
  <2>2. TypeOK'
        BY <2>1 DEF NoScan, IInv, TypeOK, chain
  <2> QED BY <2>1, <2>2 DEF IInv, Ordered, HeldIsWanted, ScanSound, SessionKeysAreShown
<1>3. CASE UNCHANGED vars
      BY <1>3 DEF vars, chain, page, IInv, TypeOK, Ordered, HeldIsWanted, Underway, ids_found,
                  ScanSound, SessionKeysAreShown
<1> QED BY <1>1, <1>2, <1>3, ChainInductive, StartInductive, ReadInductive, EndInductive,
           LoadInductive, RevokeInductive DEF Next, Scan

LEMMA InitInductive == Init => IInv
<1> SUFFICES ASSUME Init PROVE IInv
    OBVIOUS
<1>1. scan.pc = "idle" /\ DOMAIN rules = {0}
      BY DEF Init, ChainInit, NoScan
<1>2. TypeOK
      BY <1>1 DEF Init, ChainInit, NoScan, TypeOK
<1> QED BY <1>1, <1>2 DEF Init, IInv, Ordered, HeldIsWanted, ScanSound, SessionKeysAreShown

THEOREM AlwaysInductive == Spec => []IInv
BY InitInductive, NextInductive, PTL DEF Spec

(* Whatever is added, changed and removed while a scan runs, a list lacks no
   rule that was there throughout, and a key reported absent was on no rule
   throughout (policyChainFetch.ts, fetchAllChainRules, resolveSignerRule). *)
THEOREM ScansAreSound == Spec => []ScanSound
<1>1. IInv => ScanSound
      BY DEF IInv
<1> QED BY <1>1, AlwaysInductive, PTL

(* A session key that could sign throughout the loading of the page has a
   card, though any read of policy state fails (loadBlocks.ts,
   scopedSessionKey.ts). *)
THEOREM EverySessionKeyHasACard == Spec => []SessionKeysAreShown
<1>1. IInv => SessionKeysAreShown
      BY DEF IInv
<1> QED BY <1>1, AlwaysInductive, PTL
=============================================================================
