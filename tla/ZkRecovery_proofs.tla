-------------------------- MODULE ZkRecovery_proofs --------------------------
(***************************************************************************)
(* Proofs about ZkRecovery for every value of its constants that satisfies *)
(* ConstantsAssumption: its invariants, that it implements                 *)
(* TimelockedRecovery, and what its counters tell of the history of        *)
(* accepted proofs; about the wallets of ZkRecoveryClient, which only make *)
(* calls that anyone may make; and about RecoverySystem, where an account  *)
(* and the controller of its recovery rule call each other.                *)
(*                                                                         *)
(* The inductive invariant is IInv: the types, the agreement of the        *)
(* nullifier map with the pending records, and the ownership of the        *)
(* credential a record was begun with.  The agreement is inductive only    *)
(* together with ownership: superseding or cancelling one account's record *)
(* frees its nullifier, and only ownership says that no other account's    *)
(* record is for the same nullifier.                                       *)
(***************************************************************************)
EXTENDS ZkRecoveryClient, RecoverySystem, FiniteSetTheorems, TLAPS

(* A pending record is for a credential of its own account. *)
PendingIsOwn ==
  \A a \in Accounts : Pending[a] # None => OwnerOf(Pending[a].nullifier) = a

IInv == TypeOK /\ ReservationsMatchPendings /\ PendingIsOwn

-----------------------------------------------------------------------------
(* Lemmas about the helpers.                                               *)

(* new_pending builds a PendingRecovery. *)
LEMMA NewPendingType ==
  ASSUME now \in Nat, NEW k \in PubKeys, NEW n \in Nullifiers
  PROVE  /\ new_pending(k, n) \in PendingRecovery
         /\ new_pending(k, n).nullifier = n
BY ConstantsAssumption DEF new_pending, PendingRecovery

(* The nullifier map once a stale record is superseded: typed, and changed at
   most by freeing the nullifier of that record. *)
LEMMA SupersededType ==
  ASSUME TypeOK, ReservationsMatchPendings, NEW a \in Accounts
  PROVE  superseded(a) =
           [n \in Nullifiers |-> IF Nullifier[n] = a THEN Unused ELSE Nullifier[n]]
<1>1. CASE Pending[a] = None
  <2>1. \A n \in Nullifiers : Nullifier[n] # a
    BY <1>1 DEF ReservationsMatchPendings
  <2> QED BY <1>1, <2>1 DEF superseded, TypeOK
<1>2. CASE Pending[a] # None
  <2> DEFINE m == Pending[a].nullifier
  <2>1. m \in Nullifiers
    BY <1>2 DEF TypeOK, PendingRecovery
  <2>2. \A n \in Nullifiers : Nullifier[n] = a <=> n = m
    BY <1>2 DEF ReservationsMatchPendings
  <2>3. superseded(a) = [Nullifier EXCEPT ![m] = Unused]
    BY <1>2, <2>1, <2>2 DEF superseded, release_reservation_if_owned
  <2> QED BY <2>1, <2>2, <2>3 DEF TypeOK
<1> QED BY <1>1, <1>2

(* A statement some proof verifies for is about the account's own credential. *)
LEMMA VerifiedIsOwn ==
  ASSUME NEW x, NEW a, NEW k, NEW i, NEW t, NEW r, NEW n,
         verify_proof(public_inputs(x, a, k, i, t, r, n))
  PROVE  OwnerOf(n) = a
BY DEF verify_proof, public_inputs, circuit

-----------------------------------------------------------------------------
(* Initial states and steps.                                               *)

LEMMA InitIInv == Init => IInv
BY ConstantsAssumption
DEF Init, IInv, TypeOK, ReservationsMatchPendings, PendingIsOwn, LogEntries

(* initiate_recovery supersedes, reserves and stores in one step. *)
LEMMA InitiatePreserves ==
  ASSUME IInv, NEW a \in Accounts, NEW k \in PubKeys, NEW i, NEW t, NEW r,
         NEW n \in Nullifiers, initiate_recovery(a, k, i, t, r, n)
  PROVE  IInv'
<1> USE DEF IInv
<1>1. OwnerOf(n) = a
  BY VerifiedIsOwn DEF initiate_recovery
<1>2. i \in Nat /\ i = Nonce[a] + 1
  BY DEF initiate_recovery, is_next_nonce, TypeOK
<1>3. new_pending(k, n) \in PendingRecovery /\ new_pending(k, n).nullifier = n
  BY NewPendingType DEF TypeOK
<1>4. superseded(a) = [m \in Nullifiers |-> IF Nullifier[m] = a THEN Unused ELSE Nullifier[m]]
  BY SupersededType
<1>5. Nullifier' = [m \in Nullifiers |->
        IF m = n THEN a ELSE IF Nullifier[m] = a THEN Unused ELSE Nullifier[m]]
  BY <1>4 DEF initiate_recovery
<1>6. Pending' = [Pending EXCEPT ![a] = new_pending(k, n)]
  BY DEF initiate_recovery
<1>7. Nullifier[n] \notin Accounts \ {a}
  BY <1>4, ConstantsAssumption DEF initiate_recovery, unclaimed, TypeOK
<1>8. TypeOK'
  <2>1. Nullifier' \in [Nullifiers -> Accounts \cup {Unused, Spent}]
    BY <1>5 DEF TypeOK
  <2>2. Pending' \in [Accounts -> PendingRecovery \cup {None}]
    BY <1>3, <1>6 DEF TypeOK
  <2>3. Nonce' \in [Accounts -> Nat]
    BY <1>2 DEF TypeOK, initiate_recovery, bump_nonce
  <2>4. RateWindow' \in [Accounts -> SUBSET [at: Nat, nonce: Nat]]
    <3>1. retained(a) \cup {[at |-> now, nonce |-> i]} \in SUBSET [at: Nat, nonce: Nat]
      BY <1>2 DEF retained, TypeOK
    <3> QED BY <3>1 DEF TypeOK, initiate_recovery
  <2>5. log' \in [Accounts -> SUBSET LogEntries]
    <3>1. [action |-> ACTION_INITIATE, nonce |-> i, at |-> now] \in LogEntries
      BY <1>2 DEF LogEntries, Actions, TypeOK
    <3> QED BY <3>1 DEF TypeOK, initiate_recovery, record
  <2> QED BY <2>1, <2>2, <2>3, <2>4, <2>5 DEF TypeOK, initiate_recovery
<1>9. ReservationsMatchPendings'
  <2> SUFFICES ASSUME NEW m \in Nullifiers, NEW b \in Accounts
               PROVE  Nullifier'[m] = b <=> Pending'[b] # None /\ Pending'[b].nullifier = m
    BY DEF ReservationsMatchPendings
  <2>1. CASE b = a
    BY <2>1, <1>3, <1>5, <1>6, ConstantsAssumption DEF TypeOK
  <2>2. CASE b # a
    <3>1. Pending'[b] = Pending[b]
      BY <2>2, <1>6 DEF TypeOK
    <3>2. Nullifier'[m] = b <=> Nullifier[m] = b
      BY <2>2, <1>5, <1>7, ConstantsAssumption DEF TypeOK
    <3> QED BY <3>1, <3>2 DEF ReservationsMatchPendings
  <2> QED BY <2>1, <2>2
<1>10. PendingIsOwn'
  BY <1>1, <1>3, <1>6 DEF PendingIsOwn, TypeOK
<1> QED BY <1>8, <1>9, <1>10

(* cancel_recovery frees exactly the reservation of the record it removes. *)
LEMMA CancelPreserves ==
  ASSUME IInv, NEW a \in Accounts, NEW i, NEW r, NEW n \in Nullifiers,
         cancel_recovery(a, i, r, n)
  PROVE  IInv'
<1> USE DEF IInv
<1>1. Pending[a] # None /\ Pending[a].nullifier \in Nullifiers
  BY DEF cancel_recovery, has_pending, TypeOK, PendingRecovery
<1>2. i \in Nat
  BY DEF cancel_recovery, is_next_nonce, TypeOK
<1>3. Nullifier' = [Nullifier EXCEPT ![Pending[a].nullifier] = Unused]
  BY <1>1 DEF cancel_recovery, release_reservation_if_owned, ReservationsMatchPendings
<1>4. Pending' = [Pending EXCEPT ![a] = None]
  BY DEF cancel_recovery
<1>5. TypeOK'
  <2>1. Nonce' \in [Accounts -> Nat]
    BY <1>2 DEF TypeOK, cancel_recovery, bump_nonce
  <2>2. Cancels' \in [Accounts -> Nat] /\ \A b \in Accounts : Cancels'[b] <= max_cancels
    BY ConstantsAssumption DEF TypeOK, cancel_recovery, cancels_left
  <2>3. log' \in [Accounts -> SUBSET LogEntries]
    <3>1. [action |-> ACTION_CANCEL, nonce |-> i, at |-> now] \in LogEntries
      BY <1>2 DEF LogEntries, Actions, TypeOK
    <3> QED BY <3>1 DEF TypeOK, cancel_recovery, record
  <2> QED BY <1>3, <1>4, <2>1, <2>2, <2>3 DEF TypeOK, cancel_recovery
<1>6. ReservationsMatchPendings'
  BY <1>1, <1>3, <1>4, ConstantsAssumption DEF ReservationsMatchPendings, TypeOK
<1>7. PendingIsOwn'
  BY <1>4 DEF PendingIsOwn, TypeOK
<1> QED BY <1>5, <1>6, <1>7

(* burn_nullifier spends the nullifier and drops the record that reserved it. *)
LEMMA BurnPreserves ==
  ASSUME IInv, NEW a \in Accounts, NEW i, NEW r, NEW n \in Nullifiers,
         burn_nullifier(a, i, r, n)
  PROVE  IInv'
<1> USE DEF IInv
<1>1. OwnerOf(n) = a
  BY VerifiedIsOwn DEF burn_nullifier
<1>2. i \in Nat
  BY DEF burn_nullifier, is_next_nonce, TypeOK
<1>3. Nullifier' = [Nullifier EXCEPT ![n] = Spent]
  BY DEF burn_nullifier
<1>4. \A b \in Accounts : Pending'[b] =
        IF Pending[b] # None /\ Pending[b].nullifier = n THEN None ELSE Pending[b]
  BY <1>1 DEF burn_nullifier, without_pending_of, TypeOK, PendingIsOwn
<1>5. TypeOK'
  <2>1. Nonce' \in [Accounts -> Nat]
    BY <1>2 DEF TypeOK, burn_nullifier, bump_nonce
  <2>2. log' \in [Accounts -> SUBSET LogEntries]
    <3>1. [action |-> ACTION_REVOKE, nonce |-> i, at |-> now] \in LogEntries
      BY <1>2 DEF LogEntries, Actions, TypeOK
    <3> QED BY <3>1 DEF TypeOK, burn_nullifier, record
  <2>3. Pending' \in [Accounts -> PendingRecovery \cup {None}]
    BY DEF burn_nullifier, without_pending_of, TypeOK
  <2> QED BY <1>3, <2>1, <2>2, <2>3 DEF TypeOK, burn_nullifier
<1>6. ReservationsMatchPendings'
  <2> SUFFICES ASSUME NEW m \in Nullifiers, NEW b \in Accounts
               PROVE  Nullifier'[m] = b <=> Pending'[b] # None /\ Pending'[b].nullifier = m
    BY DEF ReservationsMatchPendings
  <2>1. CASE m = n
    BY <2>1, <1>3, <1>4, ConstantsAssumption DEF TypeOK
  <2>2. CASE m # n
    BY <2>2, <1>3, <1>4 DEF TypeOK, ReservationsMatchPendings
  <2> QED BY <2>1, <2>2
<1>7. PendingIsOwn'
  BY <1>4 DEF PendingIsOwn
<1> QED BY <1>5, <1>6, <1>7

(* enforce spends the nullifier of the record it consumes. *)
LEMMA EnforcePreserves ==
  ASSUME IInv, NEW a \in Accounts, NEW id, NEW call, enforce(a, id, call)
  PROVE  IInv'
<1> USE DEF IInv
<1> DEFINE n == Pending[a].nullifier
<1>1. Pending[a] # None /\ n \in Nullifiers
  BY DEF enforce, is_executable, TypeOK, PendingRecovery
<1>2. Nullifier' = [Nullifier EXCEPT ![n] = Spent]
  BY DEF enforce
<1>3. Pending' = [Pending EXCEPT ![a] = None]
  BY DEF enforce
<1>4. TypeOK'
  BY <1>1, <1>2, <1>3 DEF TypeOK, enforce, account_state
<1>5. ReservationsMatchPendings'
  BY <1>1, <1>2, <1>3, ConstantsAssumption DEF ReservationsMatchPendings, TypeOK
<1>6. PendingIsOwn'
  BY <1>3 DEF PendingIsOwn, TypeOK
<1> QED BY <1>4, <1>5, <1>6

(* The pool, install and the clock touch neither map. *)
LEMMA OthersPreserve ==
  ASSUME IInv, Install \/ Insert \/ Tick
  PROVE  IInv'
<1> USE DEF IInv
<1>1. UNCHANGED <<Nullifier, Pending>> /\ UNCHANGED account_state
  BY DEF Install, Insert, Tick, install, insert, insert_for, insert_bound
<1>2. ReservationsMatchPendings' /\ PendingIsOwn'
  BY <1>1 DEF ReservationsMatchPendings, PendingIsOwn
<1>3. CASE Install
  BY <1>1, <1>2, <1>3, ConstantsAssumption DEF Install, install, TypeOK, account_state
<1>4. CASE Insert
  <2>1. Leaves' \in Seq(Nullifiers)
    <3>1. PICK a \in Accounts, c \in Secrets \cup {NonCanonical} : insert_bound(a, c)
      BY <1>4 DEF Insert, insert, insert_for
    <3>2. <<a, c>> \in Nullifiers
      BY <3>1 DEF insert_bound, require_canonical, Nullifiers
    <3> QED BY <3>1, <3>2 DEF insert_bound, insert_leaf, TypeOK
  <2>2. UNCHANGED <<now, Installed, completed>>
    BY <1>4 DEF Insert, insert, insert_for, insert_bound
  <2> QED BY <1>1, <1>2, <2>1, <2>2 DEF TypeOK, account_state
<1>5. CASE Tick
  BY <1>1, <1>2, <1>5 DEF Tick, TypeOK, account_state
<1> QED BY <1>3, <1>4, <1>5

(* Every step of the contract keeps the inductive invariant. *)
LEMMA NextIInv == IInv /\ [Next]_vars => IInv'
<1> SUFFICES ASSUME IInv, [Next]_vars PROVE IInv'
  OBVIOUS
<1>1. CASE Initiate
  BY <1>1, InitiatePreserves DEF Initiate
<1>2. CASE Cancel
  BY <1>2, CancelPreserves DEF Cancel
<1>3. CASE Burn
  BY <1>3, BurnPreserves DEF Burn
<1>4. CASE Enforce
  BY <1>4, EnforcePreserves DEF Enforce
<1>5. CASE Install \/ Insert \/ Tick
  BY <1>5, OthersPreserve
<1>6. CASE UNCHANGED vars
  BY <1>6 DEF vars, IInv, TypeOK, ReservationsMatchPendings, PendingIsOwn
<1> QED BY <1>1, <1>2, <1>3, <1>4, <1>5, <1>6 DEF Next

LEMMA Invariance == Spec => []IInv
<1>1. Init => IInv
  BY InitIInv
<1>2. IInv /\ [Next]_vars => IInv'
  BY NextIInv
<1> QED BY <1>1, <1>2, PTL DEF Spec

-----------------------------------------------------------------------------
(* Theorems.                                                               *)

(* The contract's storage always has its types, and no account ever cancels
   more often than the cap. *)
THEOREM TypeCorrect == Spec => []TypeOK
<1>1. IInv => TypeOK
  BY DEF IInv
<1> QED BY <1>1, Invariance, PTL

(* Reservations and stored recoveries always correspond one to one. *)
THEOREM ReservationsSound == Spec => []ReservationsMatchPendings
<1>1. IInv => ReservationsMatchPendings
  BY DEF IInv
<1> QED BY <1>1, Invariance, PTL

(* An account without a live recovery can start one with any of its unspent
   credentials as far as the nullifier map is concerned. *)
THEOREM CredentialsStayUsable == Spec => []UnspentCredentialsUsable
<1>1. IInv => UnspentCredentialsUsable
  <2> SUFFICES ASSUME IInv, NEW n \in Nullifiers, Nullifier[n] # Spent
               PROVE  superseded(OwnerOf(n))[n] = Unused
    BY DEF UnspentCredentialsUsable
  <2>1. OwnerOf(n) \in Accounts
    BY DEF Nullifiers, OwnerOf
  <2>2. Nullifier[n] \in {OwnerOf(n), Unused}
    <3>1. \A b \in Accounts : Nullifier[n] = b => b = OwnerOf(n)
      BY DEF IInv, ReservationsMatchPendings, PendingIsOwn
    <3>2. Nullifier[n] \in Accounts \cup {Unused}
      BY DEF IInv, TypeOK
    <3> QED BY <3>1, <3>2
  <2>3. superseded(OwnerOf(n))[n] =
          IF Nullifier[n] = OwnerOf(n) THEN Unused ELSE Nullifier[n]
    BY <2>1, SupersededType DEF IInv
  <2> QED BY <2>2, <2>3
<1> QED BY <1>1, Invariance, PTL

-----------------------------------------------------------------------------
(* Action properties.                                                      *)

(* What initiate_recovery does to the nullifier map: the account's earlier
   reservation is freed, the new one is made on a nullifier that was free or
   the account's own. *)
LEMMA InitiateNullifiers ==
  ASSUME IInv, NEW a \in Accounts, NEW k, NEW i, NEW t, NEW r, NEW n \in Nullifiers,
         initiate_recovery(a, k, i, t, r, n)
  PROVE  /\ OwnerOf(n) = a
         /\ Nullifier[n] \in {a, Unused}
         /\ Nullifier' = [m \in Nullifiers |->
              IF m = n THEN a ELSE IF Nullifier[m] = a THEN Unused ELSE Nullifier[m]]
<1>1. OwnerOf(n) = a
  BY VerifiedIsOwn DEF initiate_recovery
<1>2. superseded(a) = [m \in Nullifiers |-> IF Nullifier[m] = a THEN Unused ELSE Nullifier[m]]
  BY SupersededType DEF IInv
<1> QED BY <1>1, <1>2 DEF initiate_recovery, unclaimed

(* What cancel_recovery does to it: the reservation of its record is freed. *)
LEMMA CancelNullifiers ==
  ASSUME IInv, NEW a \in Accounts, NEW i, NEW r, NEW n, cancel_recovery(a, i, r, n)
  PROVE  /\ Pending[a] # None /\ Pending[a].nullifier \in Nullifiers
         /\ Nullifier[Pending[a].nullifier] = a
         /\ Nullifier' = [Nullifier EXCEPT ![Pending[a].nullifier] = Unused]
<1>1. Pending[a] # None /\ Pending[a].nullifier \in Nullifiers
  BY DEF cancel_recovery, has_pending, IInv, TypeOK, PendingRecovery
<1>2. Nullifier[Pending[a].nullifier] = a
  BY <1>1 DEF IInv, ReservationsMatchPendings
<1> QED BY <1>1, <1>2 DEF cancel_recovery, release_reservation_if_owned

(* What enforce does to it: the nullifier of its record is spent. *)
LEMMA EnforceNullifiers ==
  ASSUME IInv, NEW a \in Accounts, NEW id, NEW call, enforce(a, id, call)
  PROVE  /\ Pending[a] # None /\ Pending[a].nullifier \in Nullifiers
         /\ OwnerOf(Pending[a].nullifier) = a
         /\ Nullifier' = [Nullifier EXCEPT ![Pending[a].nullifier] = Spent]
BY DEF enforce, is_executable, IInv, TypeOK, PendingRecovery, PendingIsOwn

(* The steps that leave the credentials and the pending records alone. *)
LEMMA OthersLeaveCredentials ==
  ASSUME Install \/ Insert \/ Tick \/ UNCHANGED vars
  PROVE  UNCHANGED <<Nullifier, Pending, Nonce, log>>
BY DEF Install, Insert, Tick, install, insert, insert_for, insert_bound, vars, account_state

(* A consumed or revoked credential is never usable again. *)
THEOREM SpentStaysSpent == Spec => SpentForever
<1>1. ASSUME IInv, [Next]_vars, NEW n \in Nullifiers, Nullifier[n] = Spent
      PROVE  Nullifier'[n] = Spent
  <2> USE <1>1, ConstantsAssumption
  <2>1. CASE Initiate
    <3>1. PICK a \in Accounts, k \in PubKeys, i \in Nonces, t \in Timelocks, r \in Roots,
               m \in Nullifiers : initiate_recovery(a, k, i, t, r, m)
      BY <2>1 DEF Initiate
    <3>2. /\ Nullifier[m] \in {a, Unused}
          /\ Nullifier' = [j \in Nullifiers |->
               IF j = m THEN a ELSE IF Nullifier[j] = a THEN Unused ELSE Nullifier[j]]
      BY <3>1, InitiateNullifiers
    <3> QED BY <3>2
  <2>2. CASE Cancel
    <3>1. PICK a \in Accounts, i \in Nonces, r \in Roots, m \in Nullifiers :
            cancel_recovery(a, i, r, m)
      BY <2>2 DEF Cancel
    <3> DEFINE p == Pending[a].nullifier
    <3>2. /\ p \in Nullifiers /\ Nullifier[p] = a
          /\ Nullifier' = [Nullifier EXCEPT ![p] = Unused]
      BY <3>1, CancelNullifiers
    <3> QED BY <3>2 DEF IInv, TypeOK
  <2>3. CASE Burn
    BY <2>3 DEF Burn, burn_nullifier, IInv, TypeOK
  <2>4. CASE Enforce
    <3>1. PICK a \in Accounts, id \in RuleIds, call \in Calls : enforce(a, id, call)
      BY <2>4 DEF Enforce
    <3> QED BY <3>1, EnforceNullifiers DEF IInv, TypeOK
  <2>5. CASE Install \/ Insert \/ Tick \/ UNCHANGED vars
    BY <2>5, OthersLeaveCredentials
  <2> QED BY <2>1, <2>2, <2>3, <2>4, <2>5 DEF Next
<1>2. IInv /\ [Next]_vars =>
        [\A n \in Nullifiers : Nullifier[n] = Spent => Nullifier'[n] = Spent]_vars
  BY <1>1
<1> QED BY <1>2, Invariance, PTL DEF Spec, SpentForever

(* An account's step changes the state of its own credentials only. *)
THEOREM OnlyOwnCredentials == Spec => OwnCredentialsOnly
<1>1. ASSUME IInv, [Next]_vars, NEW n \in Nullifiers, NEW b \in Accounts,
             Nullifier'[n] # Nullifier[n], Nonce'[b] # Nonce[b] \/ Pending'[b] # Pending[b]
      PROVE  OwnerOf(n) = b
  <2> USE <1>1
  <2> DEFINE Only(a) == \A c \in Accounts \ {a} : Nonce'[c] = Nonce[c] /\ Pending'[c] = Pending[c]
             Own(a)  == \A m \in Nullifiers : Nullifier'[m] # Nullifier[m] => OwnerOf(m) = a
  <2>0. \A a \in Accounts : Only(a) /\ Own(a) => OwnerOf(n) = b
    OBVIOUS
  <2> HIDE DEF Only, Own
  <2>1. CASE Initiate
    <3>1. PICK a \in Accounts, k \in PubKeys, i \in Nonces, t \in Timelocks, r \in Roots,
               m \in Nullifiers : initiate_recovery(a, k, i, t, r, m)
      BY <2>1 DEF Initiate
    <3>2. Own(a)
      <4>1. \A j \in Nullifiers : Nullifier[j] = a => OwnerOf(j) = a
        BY DEF IInv, ReservationsMatchPendings, PendingIsOwn
      <4> QED BY <3>1, <4>1, InitiateNullifiers DEF Own
    <3>3. Only(a)
      BY <3>1 DEF Only, initiate_recovery, bump_nonce, IInv, TypeOK
    <3> QED BY <2>0, <3>2, <3>3
  <2>2. CASE Cancel
    <3>1. PICK a \in Accounts, i \in Nonces, r \in Roots, m \in Nullifiers :
            cancel_recovery(a, i, r, m)
      BY <2>2 DEF Cancel
    <3>2. Own(a)
      <4> DEFINE p == Pending[a].nullifier
      <4>1. p \in Nullifiers /\ Nullifier' = [Nullifier EXCEPT ![p] = Unused]
        BY <3>1, CancelNullifiers
      <4>2. OwnerOf(p) = a
        BY <3>1, CancelNullifiers DEF IInv, PendingIsOwn
      <4> QED BY <4>1, <4>2 DEF Own, IInv, TypeOK
    <3>3. Only(a)
      BY <3>1 DEF Only, cancel_recovery, bump_nonce, IInv, TypeOK
    <3> QED BY <2>0, <3>2, <3>3
  <2>3. CASE Burn
    <3>1. PICK a \in Accounts, i \in Nonces, r \in Roots, m \in Nullifiers :
            burn_nullifier(a, i, r, m)
      BY <2>3 DEF Burn
    <3>2. Own(a)
      BY <3>1, VerifiedIsOwn DEF Own, burn_nullifier, IInv, TypeOK
    <3>3. Only(a)
      BY <3>1 DEF Only, burn_nullifier, without_pending_of, bump_nonce, IInv, TypeOK
    <3> QED BY <2>0, <3>2, <3>3
  <2>4. CASE Enforce
    <3>1. PICK a \in Accounts, id \in RuleIds, call \in Calls : enforce(a, id, call)
      BY <2>4 DEF Enforce
    <3>2. Own(a)
      BY <3>1, EnforceNullifiers DEF Own, IInv, TypeOK
    <3>3. Only(a)
      BY <3>1 DEF Only, enforce, account_state, IInv, TypeOK
    <3> QED BY <2>0, <3>2, <3>3
  <2>5. CASE Install \/ Insert \/ Tick \/ UNCHANGED vars
    BY <2>5, OthersLeaveCredentials
  <2> QED BY <2>1, <2>2, <2>3, <2>4, <2>5 DEF Next
<1>2. IInv /\ [Next]_vars =>
        [\A n \in Nullifiers, a \in Accounts :
           Nullifier'[n] # Nullifier[n] /\ (Nonce'[a] # Nonce[a] \/ Pending'[a] # Pending[a])
             => OwnerOf(n) = a]_vars
  BY <1>1
<1> QED BY <1>2, Invariance, PTL DEF Spec, OwnCredentialsOnly

-----------------------------------------------------------------------------
(***************************************************************************)
(* ZkRecovery implements TimelockedRecovery: every step of the contract is *)
(* one step of the promise or none.                                        *)
(*                                                                         *)
(*   initiate_recovery  ->  Begin, of an attempt in place of a lapsed one  *)
(*   cancel_recovery    ->  Stop                                           *)
(*   burn_nullifier     ->  Kill                                           *)
(*   enforce            ->  Finish                                         *)
(*   a closing ledger   ->  Tick, which makes expired records no attempts  *)
(*   install, insert    ->  no step                                        *)
(*                                                                         *)
(* The mapping needs the invariant IInv above: the promise knows whose     *)
(* credential an attempt uses and that a credential that backs an attempt  *)
(* is not dead; the contract only has two maps that agree.                 *)
(***************************************************************************)

attempt == [a \in Accounts |-> LiveAttempt(a)]
dead    == {n \in Nullifiers : Nullifier[n] = Spent}

(* A live attempt has the fields of its record and is not None. *)
LEMMA LiveAttemptFields ==
  ASSUME IInv, NEW a \in Accounts
  PROVE  /\ has_pending(a) =>
              /\ attempt[a] # None
              /\ attempt[a].credential = Pending[a].nullifier
              /\ attempt[a].ready = Pending[a].executable_after
              /\ attempt[a].deadline = Pending[a].expires_at
              /\ attempt[a].deadline \in Nat
         /\ ~has_pending(a) => attempt[a] = None
<1>1. CASE has_pending(a)
  <2>1. Pending[a] \in PendingRecovery
    BY <1>1 DEF has_pending, IInv, TypeOK
  <2>2. LiveAttempt(a) \in Attempts
    BY <1>1, <2>1 DEF LiveAttempt, Attempts, PendingRecovery
  <2>3. attempt[a] = [key |-> Pending[a].new_pubkey, credential |-> Pending[a].nullifier,
                      ready |-> Pending[a].executable_after,
                      deadline |-> Pending[a].expires_at]
    BY <1>1 DEF LiveAttempt, attempt
  <2>4. attempt[a] # None
    BY <2>2, ConstantsAssumption DEF LiveAttempt, attempt
  <2>5. Pending[a].expires_at \in Nat
    BY <2>1 DEF PendingRecovery
  <2> QED BY <1>1, <2>3, <2>4, <2>5
<1>2. CASE ~has_pending(a)
  BY <1>2 DEF LiveAttempt, attempt
<1> QED BY <1>1, <1>2

(* An account whose record and clock stand still keeps its attempt. *)
LEMMA AttemptKept ==
  ASSUME NEW a, Pending'[a] = Pending[a], now' = now
  PROVE  LiveAttempt(a)' = LiveAttempt(a)
BY DEF LiveAttempt, has_pending

(* An account without a record has no attempt. *)
LEMMA NoAttempt ==
  ASSUME NEW a, Pending'[a] = None
  PROVE  LiveAttempt(a)' = None
BY DEF LiveAttempt, has_pending

(* The initial states map to the promise's initial state. *)
LEMMA InitRefines == Init => Abstract!Init
<1> SUFFICES ASSUME Init PROVE Abstract!Init
  OBVIOUS
<1>1. attempt = [a \in Accounts |-> None]
  BY DEF attempt, LiveAttempt, has_pending, Init
<1>2. dead = {}
  BY ConstantsAssumption DEF dead, Init
<1> QED BY <1>1, <1>2 DEF Abstract!Init, attempt, dead, Init

(* initiate_recovery begins an attempt (or none, when the configured window is
   empty and the new record is stale at once). *)
LEMMA InitiateRefines ==
  ASSUME IInv, NEW a \in Accounts, NEW k \in PubKeys, NEW i, NEW t, NEW r,
         NEW n \in Nullifiers, initiate_recovery(a, k, i, t, r, n)
  PROVE  Abstract!Begin(a, k, n) \/ UNCHANGED <<now, attempt, dead, completed>>
<1>1. /\ OwnerOf(n) = a
      /\ Nullifier[n] \in {a, Unused}
      /\ Nullifier' = [m \in Nullifiers |->
           IF m = n THEN a ELSE IF Nullifier[m] = a THEN Unused ELSE Nullifier[m]]
  BY InitiateNullifiers
<1>2. UNCHANGED dead
  BY <1>1, ConstantsAssumption DEF dead
<1>3. attempt[a] = None /\ n \notin dead /\ UNCHANGED <<now, completed>>
  BY <1>1, LiveAttemptFields, ConstantsAssumption DEF initiate_recovery, dead
<1>4. Pending'[a] = new_pending(k, n) /\ \A b \in Accounts \ {a} : Pending'[b] = Pending[b]
  BY DEF initiate_recovery, IInv, TypeOK
<1>5. \A b \in Accounts \ {a} : LiveAttempt(b)' = LiveAttempt(b)
  BY <1>3, <1>4, AttemptKept
<1> DEFINE begun == [key |-> k, credential |-> n, ready |-> now + delay_secs,
                     deadline |-> now + delay_secs + completion_window_secs]
<1>6. new_pending(k, n) # None
  BY NewPendingType, ConstantsAssumption DEF IInv, TypeOK
<1>7. CASE now < now + delay_secs + completion_window_secs
  <2>1. LiveAttempt(a)' = begun
    BY <1>3, <1>4, <1>6, <1>7 DEF LiveAttempt, has_pending, new_pending
  <2>2. attempt' = [attempt EXCEPT ![a] = begun]
    BY <1>5, <2>1 DEF attempt
  <2> QED BY <1>1, <1>2, <1>3, <2>2 DEF Abstract!Begin, attempt, dead
<1>8. CASE ~(now < now + delay_secs + completion_window_secs)
  <2>1. LiveAttempt(a)' = LiveAttempt(a)
    BY <1>3, <1>4, <1>8 DEF LiveAttempt, has_pending, new_pending, attempt
  <2> QED BY <1>2, <1>3, <1>5, <2>1 DEF attempt
<1> QED BY <1>7, <1>8

(* cancel_recovery stops the live attempt. *)
LEMMA CancelRefines ==
  ASSUME IInv, NEW a \in Accounts, NEW i, NEW r, NEW n, cancel_recovery(a, i, r, n)
  PROVE  Abstract!Stop(a)
<1> DEFINE p == Pending[a].nullifier
<1>1. p \in Nullifiers /\ Nullifier[p] = a /\ Nullifier' = [Nullifier EXCEPT ![p] = Unused]
  BY CancelNullifiers
<1>2. UNCHANGED dead
  BY <1>1, ConstantsAssumption DEF dead, IInv, TypeOK
<1>3. attempt[a] # None /\ UNCHANGED <<now, completed>>
  BY LiveAttemptFields DEF cancel_recovery
<1>4. Pending'[a] = None /\ \A b \in Accounts \ {a} : Pending'[b] = Pending[b]
  BY DEF cancel_recovery, IInv, TypeOK
<1>5. attempt' = [attempt EXCEPT ![a] = None]
  BY <1>3, <1>4, AttemptKept, NoAttempt DEF attempt
<1> QED BY <1>2, <1>3, <1>5 DEF Abstract!Stop, attempt, dead

(* burn_nullifier kills the credential, and its own attempt with it. *)
LEMMA BurnRefines ==
  ASSUME IInv, NEW a \in Accounts, NEW i, NEW r, NEW n \in Nullifiers,
         burn_nullifier(a, i, r, n)
  PROVE  Abstract!Kill(n)
<1>1. OwnerOf(n) = a
  BY VerifiedIsOwn DEF burn_nullifier
<1>2. n \notin dead /\ dead' = dead \cup {n} /\ UNCHANGED <<now, completed>>
  BY DEF burn_nullifier, dead, IInv, TypeOK
<1>3. \A b \in Accounts \ {a} : LiveAttempt(b)' = LiveAttempt(b)
  <2>1. \A b \in Accounts \ {a} : Pending'[b] = Pending[b]
    BY DEF burn_nullifier, without_pending_of, IInv, TypeOK
  <2> QED BY <1>2, <2>1, AttemptKept
<1>4. LiveAttempt(a)' =
        IF attempt[a] # None /\ attempt[a].credential = n THEN None ELSE attempt[a]
  <2>1. CASE Pending[a] # None /\ Pending[a].nullifier = n
    <3>1. Pending'[a] = None
      BY <2>1 DEF burn_nullifier, without_pending_of, IInv, TypeOK
    <3>2. LiveAttempt(a)' = None
      BY <3>1, NoAttempt
    <3> QED BY <2>1, <3>2, LiveAttemptFields
  <2>2. CASE ~(Pending[a] # None /\ Pending[a].nullifier = n)
    <3>1. Pending'[a] = Pending[a]
      BY <2>2 DEF burn_nullifier, without_pending_of
    <3>2. LiveAttempt(a)' = attempt[a]
      BY <1>2, <3>1, AttemptKept DEF attempt
    <3>3. has_pending(a) => attempt[a].credential # n
      BY <2>2, LiveAttemptFields DEF has_pending
    <3> QED BY <3>2, <3>3, LiveAttemptFields
  <2> QED BY <2>1, <2>2
<1>5. attempt' = [attempt EXCEPT ![OwnerOf(n)] =
        IF @ # None /\ @.credential = n THEN None ELSE @]
  BY <1>1, <1>3, <1>4 DEF attempt
<1> QED BY <1>2, <1>5 DEF Abstract!Kill, attempt, dead

(* enforce finishes a mature attempt. *)
LEMMA EnforceRefines ==
  ASSUME IInv, NEW a \in Accounts, NEW id, NEW call, enforce(a, id, call)
  PROVE  Abstract!Finish(a)
<1> DEFINE p == Pending[a].nullifier
<1>1. p \in Nullifiers /\ Nullifier' = [Nullifier EXCEPT ![p] = Spent]
  BY EnforceNullifiers
<1>2. has_pending(a) /\ Pending[a].executable_after <= now /\ now < Pending[a].expires_at
  BY DEF enforce, is_executable, has_pending, IInv, TypeOK, PendingRecovery
<1>3. attempt[a] # None /\ attempt[a].ready <= now /\ now < attempt[a].deadline
      /\ attempt[a].credential = p
  BY <1>2, LiveAttemptFields
<1>4. dead' = dead \cup {p} /\ completed' = completed \cup {p} /\ now' = now
  BY <1>1 DEF enforce, dead, IInv, TypeOK
<1>5. Pending'[a] = None /\ \A b \in Accounts \ {a} : Pending'[b] = Pending[b]
  BY DEF enforce, IInv, TypeOK
<1>6. attempt' = [attempt EXCEPT ![a] = None]
  BY <1>4, <1>5, AttemptKept, NoAttempt DEF attempt
<1> QED BY <1>3, <1>4, <1>6 DEF Abstract!Finish, attempt, dead

(* A record reaches its expiry exactly when its attempt lapses. *)
LEMMA TickRefines ==
  ASSUME IInv, Tick
  PROVE  Abstract!Tick
<1>1. now \in Nat /\ now' = now + 1 /\ UNCHANGED <<Pending, Nullifier, completed>>
  BY DEF Tick, IInv, TypeOK
<1>2. UNCHANGED dead
  BY <1>1 DEF dead
<1>3. ASSUME NEW a \in Accounts
      PROVE  LiveAttempt(a)' =
               IF attempt[a] # None /\ attempt[a].deadline <= now' THEN None ELSE attempt[a]
  <2>1. CASE has_pending(a)
    <3>1. Pending[a].expires_at \in Nat /\ attempt[a] # None
          /\ attempt[a].deadline = Pending[a].expires_at
      BY <2>1, LiveAttemptFields DEF has_pending, IInv, TypeOK, PendingRecovery
    <3>2. has_pending(a)' <=> ~(attempt[a].deadline <= now')
      BY <1>1, <2>1, <3>1 DEF has_pending
    <3> QED BY <1>1, <2>1, <3>1, <3>2 DEF LiveAttempt, attempt
  <2>2. CASE ~has_pending(a)
    <3>1. ~has_pending(a)'
      BY <1>1, <2>2 DEF has_pending, IInv, TypeOK, PendingRecovery
    <3> QED BY <2>2, <3>1, LiveAttemptFields DEF LiveAttempt
  <2> QED BY <2>1, <2>2
<1>4. attempt' = [a \in Accounts |->
        IF attempt[a] # None /\ attempt[a].deadline <= now' THEN None ELSE attempt[a]]
  BY <1>3 DEF attempt
<1> QED BY <1>1, <1>2, <1>4 DEF Abstract!Tick, attempt, dead

(* Every step of the contract is a step of the promise or changes nothing it
   talks about. *)
LEMMA StepRefines ==
  ASSUME IInv, [Next]_vars
  PROVE  [Abstract!Next]_(Abstract!vars)
<1>1. CASE Initiate
  <2>1. PICK a \in Accounts, k \in PubKeys, i \in Nonces, t \in Timelocks, r \in Roots,
             n \in Nullifiers : initiate_recovery(a, k, i, t, r, n)
    BY <1>1 DEF Initiate
  <2> QED BY <2>1, InitiateRefines DEF Abstract!Next, Abstract!vars, attempt, dead
<1>2. CASE Cancel
  BY <1>2, CancelRefines DEF Cancel, Abstract!Next
<1>3. CASE Burn
  BY <1>3, BurnRefines DEF Burn, Abstract!Next
<1>4. CASE Enforce
  BY <1>4, EnforceRefines DEF Enforce, Abstract!Next
<1>5. CASE Tick
  BY <1>5, TickRefines DEF Abstract!Next
<1>6. CASE Install \/ Insert \/ UNCHANGED vars
  <2>1. UNCHANGED <<now, Nullifier, Pending, completed>>
    BY <1>6 DEF Install, Insert, install, insert, insert_for, insert_bound, vars
  <2>2. \A a \in Accounts : LiveAttempt(a)' = LiveAttempt(a)
    BY <2>1, AttemptKept
  <2> QED BY <2>1, <2>2 DEF Abstract!vars
<1> QED BY <1>1, <1>2, <1>3, <1>4, <1>5, <1>6 DEF Next

(* The contract keeps the promise of TimelockedRecovery: at most one attempt
   per account, with one of its own live credentials, for the configured delay,
   and dead credentials stay dead. *)
THEOREM KeepsPromise == Spec => Promise
<1>1. Init => Abstract!Init
  BY InitRefines
<1>2. IInv /\ [Next]_vars => [Abstract!Next]_(Abstract!vars)
  BY StepRefines
<1> QED BY <1>1, <1>2, Invariance, PTL DEF Spec, Promise, Abstract!Spec
-----------------------------------------------------------------------------
(* The history of accepted proofs, against the counters and timestamps the *)
(* contract keeps of it.                                                   *)
(*                                                                         *)
(* The contract keeps one number per account where the properties speak of *)
(* all proofs ever accepted.  HistoryInv ties them together: Nonce is the  *)
(* greatest nonce accepted, LastCancel the time of the last cancel, and    *)
(* the stored record the last initiation that no cancel followed.          *)

(* The nonces accepted are those up to Nonce, none twice, in order of time. *)
LogOrdered ==
  /\ AcceptedOnce
  /\ \A a \in Accounts : \A e \in log[a] : e.at <= now

(* LastCancel is the time of the last cancel. *)
CancelsKnown ==
  \A a \in Accounts : \A e \in log[a] : e.action = ACTION_CANCEL =>
    LastCancel[a] # None /\ e.at <= LastCancel[a]

(* The record of an account is that of an accepted initiation that neither a
   cancel nor another initiation followed. *)
PendingInitiated ==
  \A a \in Accounts : Pending[a] # None =>
    /\ Pending[a].executable_after = Pending[a].initiated_at + delay_secs
    /\ Pending[a].expires_at = Pending[a].initiated_at + delay_secs + completion_window_secs
    /\ \E e \in Initiations(a) :
         /\ e.at = Pending[a].initiated_at
         /\ \A f \in log[a] : f.nonce > e.nonce => f.action = ACTION_REVOKE

HistoryInv == LogOrdered /\ CancelsKnown /\ CancelsSpaced /\ PendingInitiated /\ PendingWasProved

-----------------------------------------------------------------------------
(* What an accepted proof adds to the history.                             *)

LEMMA RecordAdds ==
  ASSUME TypeOK, NEW x \in Actions, NEW a \in Accounts, NEW i \in Nat,
         is_next_nonce(a, i), bump_nonce(a, i), record(x, a, i)
  PROVE  /\ Nonce'[a] = Nonce[a] + 1
         /\ log'[a] = log[a] \cup {[action |-> x, nonce |-> Nonce[a] + 1, at |-> now]}
         /\ \A b \in Accounts \ {a} : Nonce'[b] = Nonce[b] /\ log'[b] = log[b]
BY DEF TypeOK, is_next_nonce, bump_nonce, record

(* The history stays in order when the next nonce is accepted now. *)
LEMMA RecordOrdered ==
  ASSUME TypeOK, LogOrdered, now' = now, NEW x \in Actions, NEW a \in Accounts, NEW i \in Nat,
         is_next_nonce(a, i), bump_nonce(a, i), record(x, a, i)
  PROVE  LogOrdered'
<1> DEFINE new == [action |-> x, nonce |-> Nonce[a] + 1, at |-> now]
<1>1. /\ Nonce'[a] = Nonce[a] + 1
      /\ log'[a] = log[a] \cup {new}
      /\ \A b \in Accounts \ {a} : Nonce'[b] = Nonce[b] /\ log'[b] = log[b]
      BY RecordAdds
<1>2. new.nonce = Nonce[a] + 1 /\ new.at = now
      OBVIOUS
<1>3. \A b \in Accounts : \A e \in log[b] :
        e.nonce \in Nat /\ e.at \in Nat /\ e.nonce <= Nonce[b] /\ e.at <= now
      BY DEF TypeOK, LogEntries, LogOrdered, AcceptedOnce
<1>4. Nonce \in [Accounts -> Nat] /\ now \in Nat
      BY DEF TypeOK
<1> HIDE DEF new
<1>5. ASSUME NEW b \in Accounts
      PROVE  /\ \A e \in log'[b] : e.nonce <= Nonce'[b] /\ e.at <= now
             /\ \A e, f \in log'[b] : e.nonce = f.nonce => e = f
             /\ \A e, f \in log'[b] : e.nonce < f.nonce => e.at <= f.at
  <2>1. CASE b = a
        BY <1>1, <1>2, <1>3, <1>4, <2>1 DEF LogOrdered, AcceptedOnce
  <2>2. CASE b # a
        BY <1>1, <1>3, <2>2 DEF LogOrdered, AcceptedOnce
  <2> QED BY <2>1, <2>2
<1> QED BY <1>5 DEF LogOrdered, AcceptedOnce

(* A proof that is no cancel leaves the cancels as they were. *)
LEMMA RecordNoCancel ==
  ASSUME TypeOK, LogOrdered, CancelsKnown, CancelsSpaced, UNCHANGED LastCancel,
         NEW x \in {ACTION_INITIATE, ACTION_REVOKE}, NEW a \in Accounts, NEW i \in Nat,
         is_next_nonce(a, i), bump_nonce(a, i), record(x, a, i)
  PROVE  CancelsKnown' /\ CancelsSpaced'
<1>1. x # ACTION_CANCEL /\ x \in Actions
      BY DEF ACTION_INITIATE, ACTION_REVOKE, ACTION_CANCEL, Actions
<1> DEFINE new == [action |-> x, nonce |-> Nonce[a] + 1, at |-> now]
<1>2. /\ log'[a] = log[a] \cup {new}
      /\ \A b \in Accounts \ {a} : log'[b] = log[b]
      BY <1>1, RecordAdds
<1>3. new.action # ACTION_CANCEL
      BY <1>1
<1> HIDE DEF new
<1>4. \A b \in Accounts : \A e \in log'[b] : e.action = ACTION_CANCEL => e \in log[b]
      BY <1>2, <1>3
<1> QED BY <1>4 DEF CancelsKnown, CancelsSpaced

(* The cooldown of a cancel is measured from the last of all earlier ones. *)
LEMMA RecordCancel ==
  ASSUME TypeOK, LogOrdered, CancelsKnown, CancelsSpaced, now' = now,
         NEW a \in Accounts, NEW i \in Nat, cooled_down(a),
         LastCancel' = [LastCancel EXCEPT ![a] = now],
         is_next_nonce(a, i), bump_nonce(a, i), record(ACTION_CANCEL, a, i)
  PROVE  CancelsKnown' /\ CancelsSpaced'
<1> DEFINE new == [action |-> ACTION_CANCEL, nonce |-> Nonce[a] + 1, at |-> now]
<1>1. /\ log'[a] = log[a] \cup {new}
      /\ \A b \in Accounts \ {a} : log'[b] = log[b]
      BY RecordAdds DEF Actions
<1>2. new.nonce = Nonce[a] + 1 /\ new.at = now
      OBVIOUS
<1>3. \A e \in log[a] : e.nonce \in Nat /\ e.at \in Nat /\ e.nonce <= Nonce[a] /\ e.at <= now
      BY DEF TypeOK, LogEntries, LogOrdered, AcceptedOnce
<1>4. Nonce[a] \in Nat /\ now \in Nat /\ CANCEL_COOLDOWN_SECS \in Nat /\ now # None
      BY ConstantsAssumption DEF TypeOK
<1>5. LastCancel'[a] = now /\ \A b \in Accounts \ {a} : LastCancel'[b] = LastCancel[b]
      BY DEF TypeOK
<1>6. \A e \in log[a] : e.action = ACTION_CANCEL => e.at + CANCEL_COOLDOWN_SECS <= now
  <2> SUFFICES ASSUME NEW e \in log[a], e.action = ACTION_CANCEL
               PROVE  e.at + CANCEL_COOLDOWN_SECS <= now
      OBVIOUS
  <2>1. LastCancel[a] # None /\ e.at <= LastCancel[a]
        BY DEF CancelsKnown
  <2>2. LastCancel[a] \in Nat /\ now >= LastCancel[a] + CANCEL_COOLDOWN_SECS
        BY <2>1 DEF cooled_down, TypeOK
  <2> QED BY <1>3, <1>4, <2>1, <2>2
<1> HIDE DEF new
<1>7. CancelsKnown'
  <2> SUFFICES ASSUME NEW b \in Accounts, NEW e \in log'[b], e.action = ACTION_CANCEL
               PROVE  LastCancel'[b] # None /\ e.at <= LastCancel'[b]
      BY DEF CancelsKnown
  <2>1. CASE b = a
        BY <1>1, <1>2, <1>3, <1>4, <1>5, <2>1
  <2>2. CASE b # a
        BY <1>1, <1>5, <2>2 DEF CancelsKnown
  <2> QED BY <2>1, <2>2
<1>8. CancelsSpaced'
  <2> SUFFICES ASSUME NEW b \in Accounts, NEW e \in log'[b], NEW f \in log'[b],
                      e.action = ACTION_CANCEL, f.action = ACTION_CANCEL, e.nonce < f.nonce
               PROVE  e.at + CANCEL_COOLDOWN_SECS <= f.at
      BY DEF CancelsSpaced
  <2>1. CASE b = a
        BY <1>1, <1>2, <1>3, <1>4, <1>6, <2>1 DEF CancelsSpaced
  <2>2. CASE b # a
        BY <1>1, <2>2 DEF CancelsSpaced
  <2> QED BY <2>1, <2>2
<1> QED BY <1>7, <1>8

-----------------------------------------------------------------------------
(* The entry points.                                                       *)

(* What initiate_recovery stages was proved for, by a statement about an
   enrolled credential, and is the latest entry of the history. *)
LEMMA InitiateHistory ==
  ASSUME TypeOK, HistoryInv, NEW a \in Accounts, NEW k \in PubKeys, NEW i \in Nat, NEW t,
         NEW r \in Nat, NEW n \in Nullifiers, initiate_recovery(a, k, i, t, r, n)
  PROVE  HistoryInv'
<1> DEFINE new == [action |-> ACTION_INITIATE, nonce |-> Nonce[a] + 1, at |-> now]
           p == public_inputs(ACTION_INITIATE, a, k, i, t, r, n)
<1>1. /\ is_next_nonce(a, i) /\ bump_nonce(a, i) /\ record(ACTION_INITIATE, a, i)
      /\ UNCHANGED <<now, Leaves, LastCancel>>
      BY DEF initiate_recovery
<1>2. LogOrdered' /\ CancelsKnown' /\ CancelsSpaced'
      BY <1>1, RecordOrdered, RecordNoCancel DEF HistoryInv, Actions
<1>3. Pending'[a] = new_pending(k, n) /\ \A b \in Accounts \ {a} : Pending'[b] = Pending[b]
      BY DEF initiate_recovery, TypeOK
<1>4. /\ log'[a] = log[a] \cup {new}
      /\ \A b \in Accounts \ {a} : log'[b] = log[b]
      BY <1>1, RecordAdds DEF Actions
<1>5. /\ Pending'[a].new_pubkey = k /\ Pending'[a].nullifier = n
      /\ Pending'[a].initiated_at = now
      /\ Pending'[a].executable_after = now + delay_secs
      /\ Pending'[a].expires_at = now + delay_secs + completion_window_secs
      BY <1>3 DEF new_pending
<1>6. PendingInitiated'
  <2>1. new \in Initiations(a)' /\ new.at = now /\ new.nonce = Nonce[a] + 1
        BY <1>4 DEF Initiations
  <2>2. \A f \in log'[a] : ~(f.nonce > new.nonce)
        BY <1>4, <2>1 DEF HistoryInv, LogOrdered, AcceptedOnce, TypeOK, LogEntries
  <2> HIDE DEF new
  <2> SUFFICES ASSUME NEW b \in Accounts, Pending'[b] # None
               PROVE  /\ Pending'[b].executable_after = Pending'[b].initiated_at + delay_secs
                      /\ Pending'[b].expires_at =
                           Pending'[b].initiated_at + delay_secs + completion_window_secs
                      /\ \E e \in Initiations(b)' :
                           /\ e.at = Pending'[b].initiated_at
                           /\ \A f \in log'[b] : f.nonce > e.nonce => f.action = ACTION_REVOKE
      BY DEF PendingInitiated
  <2>3. CASE b = a
        BY <1>5, <2>1, <2>2, <2>3
  <2>4. CASE b # a
        BY <1>3, <1>4, <2>4 DEF HistoryInv, PendingInitiated, Initiations
  <2> QED BY <2>3, <2>4
<1>7. PendingWasProved'
  <2>1. \E j \in DOMAIN Leaves : Leaves[j] = n
    <3>1. n \in LeavesUnder(r) /\ is_known_root(r)
          BY DEF initiate_recovery, verify_proof, circuit, public_inputs
    <3>2. PICK j \in 1..r : Leaves[j] = n
          BY <3>1 DEF LeavesUnder
    <3>3. r <= Len(Leaves)
          BY <3>1 DEF is_known_root, TypeOK
    <3> QED BY <3>2, <3>3 DEF TypeOK
  <2>2. p \in Proofs /\ t = delay_secs
        BY DEF initiate_recovery, verify_proof
  <2>3. /\ p.action = ACTION_INITIATE /\ p.account = a /\ p.new_pubkey = k
        /\ p.nullifier = n /\ p.timelock_secs = t
        BY DEF public_inputs
  <2>4. now \in Nat /\ delay_secs \in Nat
        BY ConstantsAssumption DEF TypeOK
  <2> HIDE DEF p
  <2>5. ASSUME NEW b \in Accounts, Pending'[b] # None
        PROVE  /\ \E j \in DOMAIN Leaves' : Leaves'[j] = Pending'[b].nullifier
               /\ \E q \in Proofs :
                    /\ q.action = ACTION_INITIATE
                    /\ q.account = b
                    /\ q.new_pubkey = Pending'[b].new_pubkey
                    /\ q.nullifier = Pending'[b].nullifier
                    /\ q.timelock_secs = Pending'[b].executable_after - Pending'[b].initiated_at
    <3>1. CASE b = a
      <4>1. \E j \in DOMAIN Leaves' : Leaves'[j] = Pending'[a].nullifier
            BY <1>1, <1>5, <2>1
      <4>2. p.timelock_secs = Pending'[a].executable_after - Pending'[a].initiated_at
        <5>1. \A x, y : x = now + delay_secs /\ y = now => x - y = delay_secs
              BY <2>4
        <5>2. /\ Pending'[a].executable_after = now + delay_secs
              /\ Pending'[a].initiated_at = now
              BY <1>5
        <5>3. p.timelock_secs = delay_secs
              BY <2>2, <2>3
        <5> QED BY <5>1, <5>2, <5>3, Zenon
      <4> QED BY <1>5, <2>2, <2>3, <3>1, <4>1, <4>2
    <3>2. CASE b # a
          BY <1>1, <1>3, <2>5, <3>2 DEF HistoryInv, PendingWasProved
    <3> QED BY <3>1, <3>2
  <2> QED BY <2>5 DEF PendingWasProved
<1> QED BY <1>2, <1>6, <1>7 DEF HistoryInv

(* Records only go away, and what follows them in the history are revocations. *)
LEMMA PendingDropped ==
  ASSUME TypeOK, PendingInitiated, PendingWasProved, Leaves' = Leaves,
         \A b \in Accounts : Pending'[b] \in {None, Pending[b]},
         \A b \in Accounts : log[b] \subseteq log'[b],
         \A b \in Accounts : \A f \in log'[b] :
           f \in log[b] \/ f.action = ACTION_REVOKE \/ Pending'[b] = None
  PROVE  PendingInitiated' /\ PendingWasProved'
<1>1. PendingInitiated'
  <2> SUFFICES ASSUME NEW b \in Accounts, Pending'[b] # None
               PROVE  /\ Pending'[b].executable_after = Pending'[b].initiated_at + delay_secs
                      /\ Pending'[b].expires_at =
                           Pending'[b].initiated_at + delay_secs + completion_window_secs
                      /\ \E e \in Initiations(b)' :
                           /\ e.at = Pending'[b].initiated_at
                           /\ \A f \in log'[b] : f.nonce > e.nonce => f.action = ACTION_REVOKE
      BY DEF PendingInitiated
  <2>1. Pending'[b] = Pending[b] /\ Pending[b] # None
        OBVIOUS
  <2>2. PICK e \in Initiations(b) :
          /\ e.at = Pending[b].initiated_at
          /\ \A f \in log[b] : f.nonce > e.nonce => f.action = ACTION_REVOKE
        BY <2>1 DEF PendingInitiated
  <2>3. e \in Initiations(b)'
        BY DEF Initiations
  <2>4. \A f \in log'[b] : f.nonce > e.nonce => f.action = ACTION_REVOKE
        BY <2>2
  <2> QED BY <2>1, <2>2, <2>3, <2>4 DEF PendingInitiated
<1>2. PendingWasProved'
      BY DEF PendingWasProved
<1> QED BY <1>1, <1>2

LEMMA CancelHistory ==
  ASSUME TypeOK, HistoryInv, NEW a \in Accounts, NEW i \in Nat, NEW r, NEW n,
         cancel_recovery(a, i, r, n)
  PROVE  HistoryInv'
<1>1. /\ is_next_nonce(a, i) /\ bump_nonce(a, i) /\ record(ACTION_CANCEL, a, i)
      /\ cooled_down(a) /\ LastCancel' = [LastCancel EXCEPT ![a] = now]
      /\ UNCHANGED <<now, Leaves>>
      BY DEF cancel_recovery
<1>2. LogOrdered' /\ CancelsKnown' /\ CancelsSpaced'
      BY <1>1, RecordOrdered, RecordCancel DEF HistoryInv, Actions
<1>3. Pending'[a] = None /\ \A b \in Accounts \ {a} : Pending'[b] = Pending[b]
      BY DEF cancel_recovery, TypeOK
<1>4. \A b \in Accounts : log[b] \subseteq log'[b] /\ (b # a => log'[b] = log[b])
      BY <1>1, RecordAdds DEF Actions
<1>5. PendingInitiated' /\ PendingWasProved'
      BY <1>1, <1>3, <1>4, PendingDropped DEF HistoryInv
<1> QED BY <1>2, <1>5 DEF HistoryInv

LEMMA BurnHistory ==
  ASSUME TypeOK, HistoryInv, NEW a \in Accounts, NEW i \in Nat, NEW r, NEW n,
         burn_nullifier(a, i, r, n)
  PROVE  HistoryInv'
<1>1. /\ is_next_nonce(a, i) /\ bump_nonce(a, i) /\ record(ACTION_REVOKE, a, i)
      /\ UNCHANGED <<now, Leaves, LastCancel>>
      BY DEF burn_nullifier
<1>2. LogOrdered' /\ CancelsKnown' /\ CancelsSpaced'
      BY <1>1, RecordOrdered, RecordNoCancel DEF HistoryInv, Actions
<1>3. \A b \in Accounts : Pending'[b] \in {None, Pending[b]}
      BY DEF burn_nullifier, without_pending_of, TypeOK
<1> DEFINE new == [action |-> ACTION_REVOKE, nonce |-> Nonce[a] + 1, at |-> now]
<1>4. /\ log'[a] = log[a] \cup {new}
      /\ \A b \in Accounts \ {a} : log'[b] = log[b]
      BY <1>1, RecordAdds DEF Actions
<1>5. new.action = ACTION_REVOKE
      OBVIOUS
<1> HIDE DEF new
<1>6. \A b \in Accounts : log[b] \subseteq log'[b] /\
        \A f \in log'[b] : f \in log[b] \/ f.action = ACTION_REVOKE
      BY <1>4, <1>5
<1>7. PendingInitiated' /\ PendingWasProved'
      BY <1>1, <1>3, <1>6, PendingDropped DEF HistoryInv
<1> QED BY <1>2, <1>7 DEF HistoryInv

(* A completion drops the record it is for. *)
LEMMA EnforceHistory ==
  ASSUME TypeOK, HistoryInv, NEW a \in Accounts, NEW id, NEW call, enforce(a, id, call)
  PROVE  HistoryInv'
<1>1. UNCHANGED <<now, Leaves>> /\ UNCHANGED account_state
      BY DEF enforce
<1>2. LogOrdered' /\ CancelsKnown' /\ CancelsSpaced'
      BY <1>1 DEF HistoryInv, LogOrdered, AcceptedOnce, CancelsKnown, CancelsSpaced, account_state
<1>3. \A b \in Accounts : Pending'[b] \in {None, Pending[b]}
      BY DEF enforce, TypeOK
<1>4. PendingInitiated' /\ PendingWasProved'
      BY <1>1, <1>3, PendingDropped DEF HistoryInv, account_state
<1> QED BY <1>2, <1>4 DEF HistoryInv

(* Nothing is accepted; leaves are only added. *)
LEMMA OthersHistory ==
  ASSUME TypeOK, HistoryInv, Install \/ Insert \/ Tick \/ UNCHANGED vars
  PROVE  HistoryInv'
<1>1. UNCHANGED Pending /\ UNCHANGED account_state
      BY DEF Install, Insert, Tick, install, insert, insert_for, insert_bound, vars, account_state
<1>2. now \in Nat /\ now' \in {now, now + 1}
      BY DEF TypeOK, Install, Insert, Tick, install, insert, insert_for, insert_bound, vars
<1>3. \A j \in DOMAIN Leaves : j \in DOMAIN Leaves' /\ Leaves'[j] = Leaves[j]
  <2>1. CASE Insert
    <3>1. PICK a \in Accounts, c \in Secrets \cup {NonCanonical} : insert_bound(a, c)
          BY <2>1 DEF Insert, insert, insert_for
    <3>2. <<a, c>> \in Nullifiers
          BY <3>1 DEF insert_bound, require_canonical, Nullifiers
    <3> QED BY <3>1, <3>2 DEF insert_bound, insert_leaf, TypeOK
  <2>2. CASE Install \/ Tick \/ UNCHANGED vars
        BY <2>2 DEF Install, Tick, install, vars
  <2> QED BY <2>1, <2>2
<1>4. LogOrdered'
  <2>1. \A b \in Accounts : \A e \in log[b] : e.at \in Nat /\ e.at <= now
        BY DEF TypeOK, LogEntries, HistoryInv, LogOrdered
  <2>2. \A b \in Accounts : \A e \in log[b] : e.at <= now'
        BY <1>2, <2>1
  <2> QED BY <1>1, <2>2 DEF HistoryInv, LogOrdered, AcceptedOnce, account_state
<1>5. CancelsKnown' /\ CancelsSpaced' /\ PendingInitiated'
      BY <1>1 DEF HistoryInv, CancelsKnown, CancelsSpaced, PendingInitiated, Initiations, account_state
<1>6. PendingWasProved'
      BY <1>1, <1>3 DEF HistoryInv, PendingWasProved
<1> QED BY <1>4, <1>5, <1>6 DEF HistoryInv

-----------------------------------------------------------------------------
(* The theorems.                                                           *)

LEMMA InitHistory == Init => HistoryInv
BY DEF Init, HistoryInv, LogOrdered, AcceptedOnce, CancelsKnown, CancelsSpaced,
       PendingInitiated, PendingWasProved

LEMMA NextHistory == TypeOK /\ HistoryInv /\ [Next]_vars => HistoryInv'
<1> SUFFICES ASSUME TypeOK, HistoryInv, [Next]_vars PROVE HistoryInv'
    OBVIOUS
<1>1. Nonces \subseteq Nat /\ Roots \subseteq Nat
      BY ConstantsAssumption DEF Nonces, Roots, Statements
<1>2. CASE Initiate
      BY <1>1, <1>2, InitiateHistory DEF Initiate
<1>3. CASE Cancel
      BY <1>1, <1>3, CancelHistory DEF Cancel
<1>4. CASE Burn
      BY <1>1, <1>4, BurnHistory DEF Burn
<1>5. CASE Enforce
      BY <1>5, EnforceHistory DEF Enforce
<1>6. CASE Install \/ Insert \/ Tick \/ UNCHANGED vars
      BY <1>6, OthersHistory
<1> QED BY <1>2, <1>3, <1>4, <1>5, <1>6 DEF Next

LEMMA AlwaysHistory == Spec => []HistoryInv
<1> QED BY InitHistory, NextHistory, TypeCorrect, PTL DEF Spec

(* No nonce is accepted twice and none after a later one, so no proof is: what
   initiate, cancel and revoke share is enough. *)
THEOREM NoReplay == Spec => []AcceptedOnce
<1>1. HistoryInv => AcceptedOnce
      BY DEF HistoryInv, LogOrdered
<1> QED BY <1>1, AlwaysHistory, PTL

(* Two cancels of an account are a cooldown apart, whatever came in between. *)
THEOREM CancelsAreSpaced == Spec => []CancelsSpaced
<1>1. HistoryInv => CancelsSpaced
      BY DEF HistoryInv
<1> QED BY <1>1, AlwaysHistory, PTL

(* The staged key, credential and delay were proved for, by somebody who knows
   an enrolled secret of that account. *)
THEOREM StagedWasProved == Spec => []PendingWasProved
<1>1. HistoryInv => PendingWasProved
      BY DEF HistoryInv
<1> QED BY <1>1, AlwaysHistory, PTL

(* A completion comes at least the delay after its initiation and before its
   window ends, and no cancel or later initiation lies between. *)
THEOREM CompletionsAreMature == Spec => CompletionsMature
<1> DEFINE Mature ==
      \A n \in Nullifiers :
        n \in completed' \ completed =>
          \E e \in Initiations(OwnerOf(n)) :
            /\ e.at + delay_secs <= now
            /\ now < e.at + delay_secs + completion_window_secs
            /\ \A f \in log[OwnerOf(n)] : f.nonce > e.nonce => f.action = ACTION_REVOKE
<1>1. ASSUME IInv, HistoryInv, NEW a \in Accounts, NEW id, NEW call, enforce(a, id, call)
      PROVE  Mature
  <2>1. /\ completed' = completed \cup {Pending[a].nullifier}
        /\ Pending[a] # None
        /\ now >= Pending[a].executable_after /\ now < Pending[a].expires_at
        BY <1>1 DEF enforce, is_executable
  <2>2. OwnerOf(Pending[a].nullifier) = a
        BY <1>1, <2>1 DEF IInv, PendingIsOwn
  <2>3. PICK e \in Initiations(a) :
          /\ e.at = Pending[a].initiated_at
          /\ \A f \in log[a] : f.nonce > e.nonce => f.action = ACTION_REVOKE
        BY <1>1, <2>1 DEF HistoryInv, PendingInitiated
  <2>4. /\ Pending[a].executable_after = e.at + delay_secs
        /\ Pending[a].expires_at = e.at + delay_secs + completion_window_secs
        BY <1>1, <2>1, <2>3 DEF HistoryInv, PendingInitiated
  <2>5. e.at + delay_secs <= now
        BY <1>1, <2>1, <2>3, <2>4, ConstantsAssumption
           DEF IInv, TypeOK, PendingRecovery, Initiations, LogEntries
  <2> QED BY <2>1, <2>2, <2>3, <2>4, <2>5
<1>2. IInv /\ HistoryInv /\ [Next]_vars => [Mature]_vars
  <2> SUFFICES ASSUME IInv, HistoryInv, Next PROVE Mature
      OBVIOUS
  <2>1. CASE Enforce
        BY <1>1, <2>1 DEF Enforce
  <2>2. Enforce \/ UNCHANGED completed
        BY DEF Next, Initiate, Cancel, Burn, Install, Insert, Tick, initiate_recovery,
               cancel_recovery, burn_nullifier, install, insert, insert_for, insert_bound
  <2> QED BY <2>1, <2>2
<1> QED BY <1>2, Invariance, AlwaysHistory, PTL DEF Spec, CompletionsMature

-----------------------------------------------------------------------------
(* The rate limit.  The contract prunes the initiations it retains, and the *)
(* property counts all there ever were: what is pruned is out of reach of   *)
(* every window that a new initiation falls into.                           *)

(* Of the initiations of an account, the last window's are retained. *)
RateKept ==
  \A a \in Accounts :
    /\ IsFiniteSet(RateWindow[a])
    /\ \A e \in Initiations(a) :
         e.at + RATE_WINDOW_SECS < now \/ [at |-> e.at, nonce |-> e.nonce] \in RateWindow[a]

RateInv == RateKept /\ RollingRateLimit

(* As many initiations of the last window are retained as were accepted. *)
LEMMA RetainedSuffice ==
  ASSUME TypeOK, LogOrdered, RateKept, NEW a \in Accounts, NEW S \in SUBSET Initiations(a),
         \A e \in S : e.at + RATE_WINDOW_SECS >= now
  PROVE  /\ IsFiniteSet(S) /\ IsFiniteSet(retained(a))
         /\ Cardinality(S) <= Cardinality(retained(a))
<1> DEFINE kept == [e \in S |-> [at |-> e.at, nonce |-> e.nonce]]
<1>1. IsFiniteSet(retained(a))
      BY FS_Subset DEF RateKept, retained
<1>2. \A e \in S : e \in log[a] /\ e.at \in Nat /\ e.nonce \in Nat
      BY DEF Initiations, TypeOK, LogEntries
<1>3. now \in Nat /\ RATE_WINDOW_SECS \in Nat
      BY ConstantsAssumption DEF TypeOK
<1>4. ASSUME NEW e \in S PROVE kept[e] \in retained(a)
  <2>1. kept[e] = [at |-> e.at, nonce |-> e.nonce] /\ kept[e].at = e.at
        OBVIOUS
  <2>2. ~(e.at + RATE_WINDOW_SECS < now)
        BY <1>2, <1>3
  <2>3. kept[e] \in RateWindow[a]
        BY <2>1, <2>2 DEF RateKept
  <2> QED BY <2>1, <2>3 DEF retained
<1>5. \A e, f \in S : kept[e] = kept[f] => e = f
  <2> SUFFICES ASSUME NEW e \in S, NEW f \in S, kept[e] = kept[f]
               PROVE  e = f
      OBVIOUS
  <2>1. kept[e].nonce = e.nonce /\ kept[f].nonce = f.nonce
        OBVIOUS
  <2> QED BY <1>2, <2>1 DEF LogOrdered, AcceptedOnce
<1>6. kept \in Injection(S, retained(a))
      BY <1>4, <1>5 DEF Injection, IsInjective
<1> QED BY <1>1, <1>6, FS_Injection

(* An initiation finds fewer than RATE_LIMIT_MAX in each window it joins. *)
LEMMA InitiateRate ==
  ASSUME TypeOK, LogOrdered, RateInv, NEW a \in Accounts, NEW k, NEW i \in Nat, NEW t, NEW r,
         NEW n, initiate_recovery(a, k, i, t, r, n)
  PROVE  RateInv'
<1> DEFINE new == [action |-> ACTION_INITIATE, nonce |-> Nonce[a] + 1, at |-> now]
<1>1. /\ log'[a] = log[a] \cup {new}
      /\ \A b \in Accounts \ {a} : log'[b] = log[b]
      BY RecordAdds DEF initiate_recovery, Actions
<1>2. new.action = ACTION_INITIATE /\ new.at = now /\ new.nonce = i
      BY DEF initiate_recovery, is_next_nonce
<1>3. now' = now /\ now \in Nat /\ RATE_WINDOW_SECS \in Nat /\ RATE_LIMIT_MAX \in Nat
      BY ConstantsAssumption DEF TypeOK, initiate_recovery
<1>4. \A e \in log[a] : e.at \in Nat /\ e.nonce \in Nat /\ e.at <= now
      BY DEF TypeOK, LogEntries, LogOrdered
<1>5. /\ RateWindow'[a] = retained(a) \cup {[at |-> now, nonce |-> i]}
      /\ \A b \in Accounts \ {a} : RateWindow'[b] = RateWindow[b]
      BY DEF initiate_recovery, TypeOK
<1> HIDE DEF new
<1>6. /\ Initiations(a)' = Initiations(a) \cup {new}
      /\ \A b \in Accounts \ {a} : Initiations(b)' = Initiations(b)
      BY <1>1, <1>2 DEF Initiations
<1>7. RateKept'
  <2>1. IsFiniteSet(retained(a) \cup {[at |-> now, nonce |-> i]})
        BY FS_Subset, FS_AddElement DEF RateInv, RateKept, retained
  <2>2. ASSUME NEW e \in Initiations(a)'
        PROVE  e.at + RATE_WINDOW_SECS < now \/ [at |-> e.at, nonce |-> e.nonce] \in RateWindow'[a]
    <3>1. CASE e = new
          BY <1>2, <1>5, <3>1
    <3>2. CASE e \in Initiations(a)
      <4>1. e.at \in Nat /\ e.nonce \in Nat
            BY <1>4, <3>2 DEF Initiations
      <4>2. e.at + RATE_WINDOW_SECS < now \/ [at |-> e.at, nonce |-> e.nonce] \in RateWindow[a]
            BY <3>2 DEF RateInv, RateKept
      <4> QED BY <1>3, <1>5, <4>1, <4>2 DEF retained
    <3> QED BY <1>6, <3>1, <3>2
  <2> QED BY <1>3, <1>5, <1>6, <2>1, <2>2 DEF RateInv, RateKept
<1>8. ASSUME NEW e \in log'[a]
      PROVE  Cardinality({f \in Initiations(a)' : e.at <= f.at /\ f.at <= e.at + RATE_WINDOW_SECS})
               <= RATE_LIMIT_MAX
  <2> DEFINE old == {f \in Initiations(a) : e.at <= f.at /\ f.at <= e.at + RATE_WINDOW_SECS}
  <2>0. e.at \in Nat /\ e.at <= now
        BY <1>1, <1>2, <1>3, <1>4
  <2>1. CASE now <= e.at + RATE_WINDOW_SECS
    <3>1. {f \in Initiations(a)' : e.at <= f.at /\ f.at <= e.at + RATE_WINDOW_SECS} = old \cup {new}
          BY <1>2, <1>6, <2>0, <2>1
    <3>2. \A f \in old : f.at + RATE_WINDOW_SECS >= now
          BY <1>3, <1>4, <2>0, <2>1 DEF Initiations
    <3>3. old \in SUBSET Initiations(a)
          OBVIOUS
    <3> HIDE DEF old
    <3>4. /\ IsFiniteSet(old) /\ IsFiniteSet(retained(a))
          /\ Cardinality(old) <= Cardinality(retained(a))
          BY <3>2, <3>3, RetainedSuffice DEF RateInv
    <3>5. Cardinality(retained(a)) < RATE_LIMIT_MAX
          BY DEF initiate_recovery, within_rate_limit
    <3>6. Cardinality(old) \in Nat /\ Cardinality(retained(a)) \in Nat
          BY <3>4, FS_CardinalityType
    <3>7. Cardinality(old \cup {new}) <= Cardinality(old) + 1
          BY <3>4, <3>6, FS_AddElement
    <3>8. Cardinality(old \cup {new}) \in Nat
          BY <3>4, FS_AddElement, FS_CardinalityType
    <3>9. Cardinality(old \cup {new}) <= RATE_LIMIT_MAX
          BY <1>3, <3>4, <3>5, <3>6, <3>7, <3>8
    <3> QED BY <3>1, <3>9
  <2>2. CASE ~(now <= e.at + RATE_WINDOW_SECS)
    <3>1. e \in log[a]
          BY <1>1, <1>2, <1>3, <2>2
    <3>2. {f \in Initiations(a)' : e.at <= f.at /\ f.at <= e.at + RATE_WINDOW_SECS} = old
          BY <1>2, <1>6, <2>2
    <3> QED BY <3>1, <3>2 DEF RateInv, RollingRateLimit
  <2> QED BY <2>1, <2>2
<1>9. ASSUME NEW b \in Accounts \ {a}, NEW e \in log'[b]
      PROVE  Cardinality({f \in Initiations(b)' : e.at <= f.at /\ f.at <= e.at + RATE_WINDOW_SECS})
               <= RATE_LIMIT_MAX
      BY <1>1, <1>6 DEF RateInv, RollingRateLimit
<1> QED BY <1>7, <1>8, <1>9 DEF RateInv, RollingRateLimit

(* A cancel or a revocation begins a new window, now.  What it holds the last
   initiation's window holds too. *)
LEMMA RecordRate ==
  ASSUME TypeOK, LogOrdered, RateInv, UNCHANGED <<now, RateWindow>>,
         NEW x \in {ACTION_CANCEL, ACTION_REVOKE}, NEW a \in Accounts, NEW i \in Nat,
         is_next_nonce(a, i), bump_nonce(a, i), record(x, a, i)
  PROVE  RateInv'
<1> DEFINE new == [action |-> x, nonce |-> Nonce[a] + 1, at |-> now]
<1>1. /\ log'[a] = log[a] \cup {new}
      /\ \A b \in Accounts \ {a} : log'[b] = log[b]
      BY RecordAdds DEF Actions
<1>2. new.action # ACTION_INITIATE /\ new.at = now
      BY DEF ACTION_INITIATE, ACTION_CANCEL, ACTION_REVOKE
<1> HIDE DEF new
<1>3. \A b \in Accounts : Initiations(b)' = Initiations(b)
      BY <1>1, <1>2 DEF Initiations
<1>4. now \in Nat /\ RATE_WINDOW_SECS \in Nat /\ RATE_LIMIT_MAX \in Nat
      BY ConstantsAssumption DEF TypeOK
<1>5. \A e \in log[a] : e.at \in Nat /\ e.at <= now
      BY DEF TypeOK, LogEntries, LogOrdered
<1>6. RateKept'
      BY <1>3 DEF RateInv, RateKept
<1>7. Cardinality({f \in Initiations(a) : new.at <= f.at /\ f.at <= new.at + RATE_WINDOW_SECS})
        <= RATE_LIMIT_MAX
  <2> DEFINE last == {f \in Initiations(a) : new.at <= f.at /\ f.at <= new.at + RATE_WINDOW_SECS}
  <2>1. ASSUME NEW g \in last PROVE Cardinality(last) <= RATE_LIMIT_MAX
    <3>1. g \in log[a] /\ g.at = new.at
          BY <1>2, <1>4, <1>5, <2>1 DEF Initiations
    <3> QED BY <3>1 DEF RateInv, RollingRateLimit
  <2> HIDE DEF last
  <2>2. last = {} => Cardinality(last) <= RATE_LIMIT_MAX
        BY <1>4, FS_EmptySet
  <2>3. Cardinality(last) <= RATE_LIMIT_MAX
        BY <2>1, <2>2
  <2> QED BY <2>3 DEF last
<1>8. ASSUME NEW b \in Accounts, NEW e \in log'[b]
      PROVE  Cardinality({f \in Initiations(b)' : e.at <= f.at /\ f.at <= e.at + RATE_WINDOW_SECS})
               <= RATE_LIMIT_MAX
  <2>1. CASE b = a /\ e = new
        BY <1>3, <1>7, <2>1
  <2>2. CASE e \in log[b]
        BY <1>3, <2>2 DEF RateInv, RollingRateLimit
  <2> QED BY <1>1, <2>1, <2>2
<1> QED BY <1>6, <1>8 DEF RateInv, RollingRateLimit

(* Nothing is accepted; time may pass. *)
LEMMA OthersRate ==
  ASSUME TypeOK, LogOrdered, RateInv, UNCHANGED <<log, RateWindow>>, now' \in {now, now + 1}
  PROVE  RateInv'
<1>1. \A b \in Accounts : Initiations(b)' = Initiations(b)
      BY DEF Initiations
<1>2. now \in Nat /\ RATE_WINDOW_SECS \in Nat
      BY ConstantsAssumption DEF TypeOK
<1>3. \A b \in Accounts : \A e \in Initiations(b) : e.at \in Nat
      BY DEF Initiations, TypeOK, LogEntries
<1>4. RateKept'
  <2>1. \A b \in Accounts : \A e \in Initiations(b) :
          e.at + RATE_WINDOW_SECS < now => e.at + RATE_WINDOW_SECS < now'
        BY <1>2, <1>3
  <2> QED BY <1>1, <2>1 DEF RateInv, RateKept
<1> QED BY <1>1, <1>4 DEF RateInv, RollingRateLimit

LEMMA NextRate == TypeOK /\ LogOrdered /\ RateInv /\ [Next]_vars => RateInv'
<1> SUFFICES ASSUME TypeOK, LogOrdered, RateInv, [Next]_vars PROVE RateInv'
    OBVIOUS
<1>1. Nonces \subseteq Nat
      BY ConstantsAssumption DEF Nonces, Statements
<1>2. CASE Initiate
      BY <1>1, <1>2, InitiateRate DEF Initiate
<1>3. CASE Cancel
  <2>1. PICK a \in Accounts, i \in Nonces, r \in Roots, n \in Nullifiers :
          cancel_recovery(a, i, r, n)
        BY <1>3 DEF Cancel
  <2> QED BY <1>1, <2>1, RecordRate DEF cancel_recovery
<1>4. CASE Burn
  <2>1. PICK a \in Accounts, i \in Nonces, r \in Roots, n \in Nullifiers :
          burn_nullifier(a, i, r, n)
        BY <1>4 DEF Burn
  <2> QED BY <1>1, <2>1, RecordRate DEF burn_nullifier
<1>5. CASE Install \/ Enforce \/ Insert \/ Tick \/ UNCHANGED vars
  <2>1. UNCHANGED <<log, RateWindow>> /\ now' \in {now, now + 1}
        BY <1>5 DEF Install, Enforce, Insert, Tick, install, enforce, insert, insert_for,
                    insert_bound, account_state, vars
  <2> QED BY <2>1, OthersRate
<1> QED BY <1>2, <1>3, <1>4, <1>5 DEF Next

(* In no window of time are more than RATE_LIMIT_MAX initiations accepted for
   an account, although check_rate_limit only looks back from now. *)
THEOREM RateIsLimited == Spec => []RollingRateLimit
<1>1. Init => RateInv
      BY FS_EmptySet DEF Init, RateInv, RateKept, RollingRateLimit, Initiations
<1>2. HistoryInv => LogOrdered
      BY DEF HistoryInv
<1>3. RateInv => RollingRateLimit
      BY DEF RateInv
<1> QED BY <1>1, <1>2, <1>3, NextRate, TypeCorrect, AlwaysHistory, PTL DEF Spec
-----------------------------------------------------------------------------
(* The wallets.                                                            *)

(* A call that a wallet assembled is typed, has the key it is about, and    *)
(* enrols only a secret that can be derived again.                          *)
MadeOK(c) ==
  /\ c \in Calls_
  /\ c.kind \in {"initiate", "complete"} => c.key \in PubKeys
  /\ c.kind \in {"enroll", "insert"} => c.secret \in derivable

has_call(o) == o.pc \in {"prove", "wait", "landed", "refused"}

(* The page of a device waits for the procedure it started. *)
OpOK(x) ==
  /\ op[x].pc = "sync" /\ op[x].kind = "check" =>
       x \in Devices /\ page[x].pc = "secret" /\ page[x].secret \in Secrets
  /\ op[x].pc \in {"sync", "nonce"} /\ op[x].kind = "initiate" => x \in Devices /\ page[x].pc = "ready"
  /\ has_call(op[x]) =>
       /\ MadeOK(op[x].call)
       /\ op[x].call.kind = "initiate" => x \in Devices /\ page[x].pc = "ready"
       /\ op[x].call.kind = "complete" => x \in Devices /\ page[x].pc = "countdown"

(* A page that is past its start has a key, and one that is ready a secret. *)
PageOK(d) ==
  /\ page[d].pc \notin {"off", "start"} => page[d].key \in PubKeys
  /\ page[d].pc = "ready" => page[d].secret \in Secrets

ClientInv ==
  /\ ClientTypeOK
  /\ \A x \in Actors : OpOK(x)
  /\ \A d \in Devices : PageOK(d)
  /\ \A c \in jobs : MadeOK(c)

(* A cancel that can still be accepted was made while the attempt that is
   pending now, if any, was. *)
SeenOK(c) ==
  c.kind = "cancel" => /\ c.nonce <= Nonce[Account] + 1
                       /\ c.nonce = Nonce[Account] + 1 => Pending[Account] \in {c.saw, None}

CancelsSeen ==
  /\ \A c \in jobs : SeenOK(c)
  /\ \A x \in Actors : has_call(op[x]) => SeenOK(op[x].call)

(* What of the account is in the pool can be derived. *)
OnlyDerivable == \A s \in Secrets : enrolled(s) => s \in derivable

LEMMA DerivableAreSecrets == derivable \subseteq Secrets
<1> SUFFICES ASSUME NEW w \in Sources, NEW p \in Signings[w] PROVE p[1] \in Secrets
    BY DEF derivable, deriveM2SecretSafely, deriveSecretM2
<1> QED BY ClientAssumption DEF ClientAssumption

(* A wallet's call is one that anyone may make. *)
LEMMA RunsIsCall ==
  ASSUME TypeOK, Len(Leaves) <= MAX_LEAVES, NEW c, MadeOK(c), runs(c)
  PROVE  Next /\ Len(Leaves') <= MAX_LEAVES
<1>0. /\ c.root \in Nat /\ c.nonce \in Nat /\ c.secret \in Secrets \cup {None} /\ c.key \in Keys
      BY DEF MadeOK, Calls_
<1>1. Account \in Accounts /\ delay_secs \in Timelocks /\ Rule \in ContextRules /\ Rule.id \in RuleIds
      BY ClientAssumption, ConstantsAssumption DEF ClientAssumption, ConstantsAssumption
<1>2. ASSUME is_known_root(c.root) PROVE c.root \in Roots
  <2>1. Len(Leaves) \in Nat
        BY DEF TypeOK
  <2>2. MAX_LEAVES \in Nat
        BY ConstantsAssumption DEF ConstantsAssumption
  <2> QED BY <1>0, <1>2, <2>1, <2>2 DEF is_known_root, Roots
<1>3. ASSUME NEW x, NEW k, NEW t,
             verify_proof(public_inputs(x, Account, k, c.nonce, t, c.root, <<Account, c.secret>>))
      PROVE  c.nonce \in Nonces /\ <<Account, c.secret>> \in Nullifiers
  <2> DEFINE p == public_inputs(x, Account, k, c.nonce, t, c.root, <<Account, c.secret>>)
  <2>1. p \in Proofs /\ p.nonce = c.nonce /\ p.nullifier = <<Account, c.secret>>
        BY <1>3 DEF verify_proof, public_inputs
  <2>2. p \in Statements
        BY <2>1, ConstantsAssumption DEF ConstantsAssumption
  <2> HIDE DEF p
  <2> QED BY <2>1, <2>2 DEF Nonces, Statements
<1>4. CASE initiate_call(c)
  <2>1. /\ initiate_recovery(Account, c.key, c.nonce, delay_secs, c.root, <<Account, c.secret>>)
        /\ c.key \in PubKeys
        BY <1>4 DEF initiate_call, MadeOK
  <2>2. c.nonce \in Nonces /\ <<Account, c.secret>> \in Nullifiers /\ c.root \in Roots /\ Leaves' = Leaves
        BY <2>1, <1>2, <1>3 DEF initiate_recovery
  <2> QED BY <1>1, <2>1, <2>2 DEF Next, Initiate
<1>5. CASE cancel_call(c)
  <2>1. cancel_recovery(Account, c.nonce, c.root, <<Account, c.secret>>)
        BY <1>5 DEF cancel_call
  <2>2. c.nonce \in Nonces /\ <<Account, c.secret>> \in Nullifiers /\ c.root \in Roots /\ Leaves' = Leaves
        BY <2>1, <1>2, <1>3 DEF cancel_recovery
  <2> QED BY <1>1, <2>1, <2>2 DEF Next, Cancel
<1>6. CASE burn_call(c)
  <2>1. burn_nullifier(Account, c.nonce, c.root, <<Account, c.secret>>)
        BY <1>6 DEF burn_call
  <2>2. c.nonce \in Nonces /\ <<Account, c.secret>> \in Nullifiers /\ c.root \in Roots /\ Leaves' = Leaves
        BY <2>1, <1>2, <1>3 DEF burn_nullifier
  <2> QED BY <1>1, <2>1, <2>2 DEF Next, Burn
<1>7. CASE enroll_call(c)
  <2>1. install(Account, Rule) /\ Leaves' = Leaves
        BY <1>7 DEF enroll_call, install
  <2> QED BY <1>1, <2>1 DEF Next, Install
<1>8. CASE insert_call(c)
  <2>1. insert_for(Account, c.secret) /\ c.secret \in Secrets
        BY <1>8, DerivableAreSecrets DEF insert_call, MadeOK
  <2>2. Len(Leaves') <= MAX_LEAVES
    <3>1. Leaves' = Append(Leaves, <<Account, c.secret>>) /\ Len(Leaves) < MAX_LEAVES
          BY <2>1 DEF insert_for, insert_bound, insert_leaf
    <3>2. Len(Leaves') = Len(Leaves) + 1
          BY <3>1, <1>1, <2>1 DEF TypeOK, Nullifiers
    <3> QED BY <3>1, <3>2, ConstantsAssumption DEF ConstantsAssumption, TypeOK
  <2> QED BY <1>1, <2>1, <2>2 DEF Next, Insert
<1>9. CASE complete_call(c)
  <2>1. enforce(Account, Rule.id, completion_of(c.key)) /\ c.key \in PubKeys /\ Leaves' = Leaves
        BY <1>9 DEF complete_call, MadeOK, enforce
  <2>2. completion_of(c.key) \in Calls
        BY <2>1, ClientAssumption DEF ClientAssumption
  <2> QED BY <1>1, <2>1, <2>2 DEF Next, Enforce
<1> QED BY <1>4, <1>5, <1>6, <1>7, <1>8, <1>9 DEF runs

(* Only a call that lands, another account and time move the chain. *)
LEMMA ChainMoves ==
  ASSUME [ClientNext]_all_vars
  PROVE  Land \/ OtherInsert \/ Time \/ UNCHANGED chain_vars
<1>1. ASSUME NEW x, Submit(x) PROVE UNCHANGED chain_vars
      BY <1>1 DEF Submit
<1>2. ASSUME Refuse PROVE UNCHANGED chain_vars
      BY <1>2 DEF Refuse
<1>3. ASSUME NEW d \in Devices, Load(d) \/ Page(d) PROVE UNCHANGED chain_vars
      BY <1>3 DEF Load, Page, CreatePasskey, GiveSecret, StartInitiate, Complete, InitiateDone, CompleteDone
<1>4. ASSUME NEW x \in Actors, Procedure(x) \/ TimeOut(x) PROVE UNCHANGED chain_vars
      BY <1>1, <1>4 DEF Procedure, TimeOut, Locate, fetchNextNonce, Failed
<1>5. ASSUME Security PROVE UNCHANGED chain_vars
      BY <1>5 DEF Security, StartCancel, StartBurn, StartEnroll, OwnerDone
<1> QED BY <1>2, <1>3, <1>4, <1>5 DEF ClientNext, all_vars, chain_vars

LEMMA ClientChain ==
  ASSUME TypeOK, Len(Leaves) <= MAX_LEAVES, ClientInv, [ClientNext]_all_vars
  PROVE  [Next]_vars /\ Len(Leaves') <= MAX_LEAVES
<1>1. CASE Land
  <2>1. PICK c \in jobs : runs(c)
        BY <1>1 DEF Land
  <2>2. MadeOK(c)
        BY DEF ClientInv
  <2> QED BY <2>1, <2>2, RunsIsCall
<1>2. CASE OtherInsert
  <2>1. PICK a \in Accounts, s \in Secrets : insert(a, s)
        BY <1>2 DEF OtherInsert
  <2>2. Leaves' = Append(Leaves, <<a, s>>) /\ Len(Leaves) < MAX_LEAVES
        BY <2>1 DEF insert, insert_bound, insert_leaf
  <2>3. Len(Leaves') = Len(Leaves) + 1
        BY <2>2 DEF TypeOK, Nullifiers
  <2>4. Len(Leaves') <= MAX_LEAVES
        BY <2>2, <2>3, ConstantsAssumption DEF ConstantsAssumption, TypeOK
  <2> QED BY <2>1, <2>4 DEF Next, Insert
<1>3. CASE Time
      BY <1>3 DEF Time, Tick, Next
<1>4. CASE UNCHANGED chain_vars
      BY <1>4 DEF chain_vars, vars
<1> QED BY <1>1, <1>2, <1>3, <1>4, ChainMoves

LEMMA ClientInit_ClientInv == ClientInit => ClientInv
<1> SUFFICES ASSUME ClientInit PROVE ClientInv
    OBVIOUS
<1>1. page \in [Devices -> Pages]
      BY DEF ClientInit, Off, Pages
<1>2. op \in [Actors -> Ops]
      BY DEF ClientInit, Idle, Ops
<1>3. ClientTypeOK
      BY <1>1, <1>2 DEF ClientInit, ClientTypeOK
<1>4. \A x \in Actors : OpOK(x)
      BY DEF ClientInit, OpOK, Idle, has_call
<1>5. \A d \in Devices : PageOK(d)
      BY DEF ClientInit, PageOK, Off
<1> QED BY <1>3, <1>4, <1>5 DEF ClientInv, ClientInit

(* The parts of a procedure's state. *)
LEMMA OpShape ==
  ASSUME NEW o \in Ops
  PROVE  /\ o.pc = "sync" => /\ o.kind \in {"check", "initiate", "cancel", "burn"}
                             /\ o.secret \in Secrets /\ o.fetched \in Nat
         /\ o.pc = "nonce" => /\ o.kind \in {"initiate", "cancel", "burn"}
                              /\ o.secret \in Secrets /\ o.root \in Nat
         /\ has_call(o) => o.call \in Calls_
         /\ o.pc \in {"wait", "landed", "refused"} => o.executable \in Nat
         /\ o.pc \in {"idle", "sync", "nonce", "prove", "wait", "landed", "refused"}
BY DEF Ops, has_call

(* A step of one procedure and one page. *)
LEMMA OneMoves ==
  ASSUME ClientInv, NEW x \in Actors, NEW o \in Ops, go(x, o),
         page' \in [Devices -> Pages], \A d \in Devices : d # x => page'[d] = page[d],
         jobs' \subseteq Calls_, \A c \in jobs' : MadeOK(c),
         staged' \in [Actors -> StagedRecovery \cup {None}],
         saved' \in [Devices -> PubKeys \cup {None}], keys' \subseteq PubKeys,
         x \in Devices =>
           /\ page'[x].pc \notin {"off", "start"} => page'[x].key \in PubKeys
           /\ page'[x].pc = "ready" => page'[x].secret \in Secrets,
         o.pc = "sync" /\ o.kind = "check" =>
           x \in Devices /\ page'[x].pc = "secret" /\ page'[x].secret \in Secrets,
         o.pc \in {"sync", "nonce"} /\ o.kind = "initiate" => x \in Devices /\ page'[x].pc = "ready",
         has_call(o) =>
           /\ MadeOK(o.call)
           /\ o.call.kind = "initiate" => x \in Devices /\ page'[x].pc = "ready"
           /\ o.call.kind = "complete" => x \in Devices /\ page'[x].pc = "countdown"
  PROVE  ClientInv'
<1>1. op \in [Actors -> Ops]
      BY DEF ClientInv, ClientTypeOK
<1>2. op' \in [Actors -> Ops] /\ op'[x] = o /\ \A y \in Actors : y # x => op'[y] = op[y]
      BY <1>1 DEF go
<1>3. ClientTypeOK'
      BY <1>2 DEF ClientTypeOK
<1>4. ASSUME NEW y \in Actors PROVE OpOK(y)'
  <2>1. CASE y = x
        BY <1>2, <2>1 DEF OpOK, has_call
  <2>2. CASE y # x
    <3>1. OpOK(y) /\ op'[y] = op[y]
          BY <1>2, <2>2 DEF ClientInv
    <3>2. y \in Devices => page'[y] = page[y]
          BY <2>2
    <3> QED BY <3>1, <3>2 DEF OpOK, has_call
  <2> QED BY <2>1, <2>2
<1>5. ASSUME NEW d \in Devices PROVE PageOK(d)'
  <2>1. CASE d = x
        BY <2>1 DEF PageOK
  <2>2. CASE d # x
        BY <2>2 DEF PageOK, ClientInv
  <2> QED BY <2>1, <2>2
<1>6. \A c \in jobs' : MadeOK(c)
      OBVIOUS
<1> QED BY <1>3, <1>4, <1>5, <1>6 DEF ClientInv

(* The chain moves and a wait may be answered. *)
LEMMA AnswerMoves ==
  ASSUME ClientInv, NEW c, NEW pc \in {"landed", "refused"}, answered(c, pc) \/ UNCHANGED op,
         UNCHANGED <<page, staged, saved>>, jobs' \subseteq jobs, keys' \subseteq PubKeys
  PROVE  ClientInv'
<1>1. op \in [Actors -> Ops]
      BY DEF ClientInv, ClientTypeOK
<1>2. op' \in [Actors -> Ops] /\ \A y \in Actors :
        op'[y] = op[y] \/ (op[y].pc = "wait" /\ op'[y] = [op[y] EXCEPT !.pc = pc])
  <2>1. CASE UNCHANGED op
        BY <1>1, <2>1
  <2>2. CASE op' = [op EXCEPT ![c.by].pc = pc] /\ op[c.by].pc = "wait"
    <3>1. CASE c.by \in Actors
      <4>1. op[c.by] \in [pc: {"wait", "landed", "refused"}, call: Calls_, executable: Nat]
            BY <1>1, <2>2, <3>1 DEF Ops
      <4>2. [op[c.by] EXCEPT !.pc = pc] \in Ops
            BY <4>1 DEF Ops
      <4> QED BY <1>1, <2>2, <3>1, <4>2
    <3>2. CASE c.by \notin Actors
          BY <1>1, <2>2, <3>2
    <3> QED BY <3>1, <3>2
  <2> QED BY <2>1, <2>2 DEF answered
<1>3. ClientTypeOK'
      BY <1>2 DEF ClientInv, ClientTypeOK
<1>4. ASSUME NEW y \in Actors PROVE OpOK(y)'
  <2>1. OpOK(y) /\ page' = page
        BY DEF ClientInv
  <2>2. CASE op'[y] = op[y]
        BY <2>1, <2>2 DEF OpOK, has_call
  <2>3. CASE op[y].pc = "wait" /\ op'[y] = [op[y] EXCEPT !.pc = pc]
    <3>1. op[y] \in [pc: {"wait", "landed", "refused"}, call: Calls_, executable: Nat]
          BY <1>1, <2>3 DEF Ops
    <3>2. op'[y].pc = pc /\ op'[y].call = op[y].call
          BY <2>3, <3>1
    <3> QED BY <2>1, <2>3, <3>2 DEF OpOK, has_call
  <2> QED BY <1>2, <2>2, <2>3
<1>5. \A d \in Devices : PageOK(d)'
      BY DEF ClientInv, PageOK
<1>6. \A d \in jobs' : MadeOK(d)
      BY DEF ClientInv
<1> QED BY <1>3, <1>4, <1>5, <1>6 DEF ClientInv

LEMMA ClientStep ==
  ASSUME TypeOK, ClientInv, [ClientNext]_all_vars
  PROVE  ClientInv'
<1> USE DEF client_vars
<1>0. /\ page \in [Devices -> Pages] /\ op \in [Actors -> Ops] /\ jobs \subseteq Calls_
      /\ staged \in [Actors -> StagedRecovery \cup {None}]
      /\ saved \in [Devices -> PubKeys \cup {None}] /\ keys \subseteq PubKeys
      /\ \A x \in Actors : OpOK(x)
      /\ \A d \in Devices : PageOK(d)
      /\ \A c \in jobs : MadeOK(c)
      BY DEF ClientInv, ClientTypeOK
<1>1. /\ now \in Nat /\ delay_secs \in Nat /\ now + delay_secs \in Nat /\ Len(Leaves) \in Nat
      /\ pending \in PendingRecovery \cup {None} /\ Nonce[Account] \in Nat /\ next_nonce \in Nat
  <2>1. Account \in Accounts
        BY ClientAssumption DEF ClientAssumption
  <2> QED BY <2>1, ConstantsAssumption DEF ConstantsAssumption, TypeOK, pending, next_nonce
<1>2. pending # None => /\ pending.new_pubkey \in PubKeys /\ pending.executable_after \in Nat
                        /\ pending.expires_at \in Nat
      BY <1>1 DEF PendingRecovery
<1>3. \A d \in Devices : d \in Actors /\ d # Owner
      BY ClientAssumption DEF ClientAssumption, Actors
<1>4. Owner \in Actors /\ Owner \notin Devices
      BY ClientAssumption DEF ClientAssumption, Actors
<1>5. Idle \in Ops /\ Idle.pc = "idle" /\ ~has_call(Idle)
      BY DEF Idle, Ops, has_call
(* A procedure starts with a sync. *)
<1>6. ASSUME NEW x \in Actors, NEW kind \in {"check", "initiate", "cancel", "burn"}, NEW s \in Secrets,
             sync(x, kind, s),
             page' \in [Devices -> Pages], \A d \in Devices : d # x => page'[d] = page[d],
             x \in Devices =>
               /\ page'[x].pc \notin {"off", "start"} => page'[x].key \in PubKeys
               /\ page'[x].pc = "ready" => page'[x].secret \in Secrets,
             kind = "check" => x \in Devices /\ page'[x].pc = "secret" /\ page'[x].secret \in Secrets,
             kind = "initiate" => x \in Devices /\ page'[x].pc = "ready",
             UNCHANGED <<jobs, staged, saved, keys>>
      PROVE  ClientInv'
  <2>1. PICK n \in 0..Len(Leaves) : go(x, [pc |-> "sync", kind |-> kind, secret |-> s, fetched |-> n])
        BY <1>6 DEF sync
  <2> DEFINE o == [pc |-> "sync", kind |-> kind, secret |-> s, fetched |-> n]
  <2>2. n \in Nat
        BY <1>1
  <2>3. o \in Ops /\ o.pc = "sync" /\ o.kind = kind /\ ~has_call(o)
        BY <1>6, <2>2 DEF Ops, has_call
  <2> HIDE DEF o
  <2>4. go(x, o)
        BY <2>1 DEF o
  <2> QED BY <1>0, <1>6, <2>3, <2>4, OneMoves
(* A procedure goes on without a page, or ends. *)
<1>7. ASSUME NEW x \in Actors, NEW o \in Ops, go(x, o), UNCHANGED page,
             o.pc # "sync", ~has_call(o),
             o.pc = "nonce" /\ o.kind = "initiate" => x \in Devices /\ page[x].pc = "ready",
             jobs' \subseteq jobs,
             staged' \in [Actors -> StagedRecovery \cup {None}],
             saved' \in [Devices -> PubKeys \cup {None}], keys' = keys
      PROVE  ClientInv'
  <2>1. jobs' \subseteq Calls_ /\ \A c \in jobs' : MadeOK(c)
        BY <1>0, <1>7
  <2>2. x \in Devices => /\ page'[x].pc \notin {"off", "start"} => page'[x].key \in PubKeys
                         /\ page'[x].pc = "ready" => page'[x].secret \in Secrets
        BY <1>0, <1>7 DEF PageOK
  <2> QED BY <1>0, <1>7, <2>1, <2>2, OneMoves
(* A call is made, or submitted. *)
<1>8. ASSUME NEW x \in Actors, NEW o \in Ops, go(x, o), UNCHANGED <<page, staged, saved, keys>>,
             has_call(o), MadeOK(o.call),
             o.call.kind = "initiate" => x \in Devices /\ page[x].pc = "ready",
             o.call.kind = "complete" => x \in Devices /\ page[x].pc = "countdown",
             jobs' \subseteq jobs \cup {o.call}
      PROVE  ClientInv'
  <2>1. jobs' \subseteq Calls_ /\ \A c \in jobs' : MadeOK(c)
        BY <1>0, <1>8 DEF MadeOK
  <2>2. x \in Devices => /\ page'[x].pc \notin {"off", "start"} => page'[x].key \in PubKeys
                         /\ page'[x].pc = "ready" => page'[x].secret \in Secrets
        BY <1>0, <1>8 DEF PageOK
  <2>3. o.pc \notin {"sync", "nonce"}
        BY <1>8 DEF has_call
  <2> QED BY <1>0, <1>8, <2>1, <2>2, <2>3, OneMoves
<1>9. ASSUME NEW d \in Devices, Load(d) PROVE ClientInv'
  <2>1. op[d] = Idle /\ UNCHANGED <<op, jobs, saved, keys>>
        BY <1>9 DEF Load
  <2>2. go(d, Idle)
        BY <1>0, <1>3, <2>1 DEF go
  <2>3. /\ page' \in [Devices -> Pages] /\ \A e \in Devices : e # d => page'[e] = page[e]
        /\ page'[d].pc \in {"start", "countdown"} /\ (page'[d].pc = "countdown" => page'[d].key \in PubKeys)
        /\ staged' \in [Actors -> StagedRecovery \cup {None}]
    <3>1. CASE /\ pending # None
               /\ turn(d, [Off EXCEPT !.pc = "countdown", !.key = pending.new_pubkey,
                                      !.executable = pending.executable_after, !.expires = pending.expires_at])
               /\ UNCHANGED staged
      <4> DEFINE p == [Off EXCEPT !.pc = "countdown", !.key = pending.new_pubkey,
                                  !.executable = pending.executable_after, !.expires = pending.expires_at]
      <4>1. p \in Pages /\ p.pc = "countdown" /\ p.key = pending.new_pubkey
            BY <1>2, <3>1 DEF Off, Pages
      <4> HIDE DEF p
      <4>2. turn(d, p)
            BY <3>1 DEF p
      <4> QED BY <1>0, <1>2, <3>1, <4>1, <4>2 DEF turn
    <3>2. CASE turn(d, [Off EXCEPT !.pc = "start"]) /\ clearStaged(d)
      <4> DEFINE p == [Off EXCEPT !.pc = "start"]
      <4>1. p \in Pages /\ p.pc = "start"
            BY DEF Off, Pages
      <4> HIDE DEF p
      <4>2. turn(d, p)
            BY <3>2 DEF p
      <4> QED BY <1>0, <3>2, <4>1, <4>2 DEF turn, clearStaged
    <3> QED BY <1>9, <3>1, <3>2 DEF Load, tryResume
  <2> QED BY <1>0, <1>3, <1>5, <2>1, <2>2, <2>3, OneMoves
<1>10. ASSUME NEW d \in Devices, CreatePasskey(d) PROVE ClientInv'
  <2> DEFINE p == [page[d] EXCEPT !.pc = "secret", !.key = KeyOf[d], !.own = TRUE]
  <2>1. page[d].pc = "start" /\ turn(d, p) /\ UNCHANGED <<op, jobs, staged, saved, keys>>
        BY <1>10 DEF CreatePasskey
  <2>2. KeyOf[d] \in PubKeys
        BY ClientAssumption DEF ClientAssumption
  <2>3. p \in Pages /\ p.pc = "secret" /\ p.key \in PubKeys
        BY <1>0, <2>2 DEF Pages
  <2> HIDE DEF p
  <2>4. page' \in [Devices -> Pages] /\ page'[d] = p /\ \A e \in Devices : e # d => page'[e] = page[e]
        BY <1>0, <2>1, <2>3 DEF turn
  <2>5. op[d] \in Ops /\ go(d, op[d]) /\ OpOK(d)
        BY <1>0, <1>3, <2>1 DEF go
  <2>6. /\ ~(op[d].pc = "sync" /\ op[d].kind = "check")
        /\ ~(op[d].pc \in {"sync", "nonce"} /\ op[d].kind = "initiate")
        /\ has_call(op[d]) => /\ MadeOK(op[d].call) /\ op[d].call.kind # "initiate"
                              /\ op[d].call.kind # "complete"
        BY <2>1, <2>5 DEF OpOK
  <2> QED BY <1>0, <1>3, <2>1, <2>3, <2>4, <2>5, <2>6, OneMoves
<1>11. ASSUME NEW d \in Devices, GiveSecret(d) PROVE ClientInv'
  <2>1. PICK s \in derivable : /\ turn(d, [page[d] EXCEPT !.secret = s]) /\ sync(d, "check", s)
                               /\ page[d].pc = "secret" /\ UNCHANGED <<jobs, staged, saved, keys>>
        BY <1>11 DEF GiveSecret
  <2>2. s \in Secrets
        BY DerivableAreSecrets
  <2> DEFINE p == [page[d] EXCEPT !.secret = s]
  <2>3. p \in Pages /\ p.pc = "secret" /\ p.key = page[d].key /\ p.secret = s
        BY <1>0, <2>1, <2>2 DEF Pages
  <2>4. turn(d, p) /\ page[d].key \in PubKeys
        BY <1>0, <2>1 DEF PageOK
  <2> HIDE DEF p
  <2>5. page' \in [Devices -> Pages] /\ page'[d] = p /\ \A e \in Devices : e # d => page'[e] = page[e]
        BY <1>0, <2>3, <2>4 DEF turn
  <2> QED BY <1>3, <1>6, <2>1, <2>2, <2>3, <2>4, <2>5
<1>12. ASSUME NEW d \in Devices, StartInitiate(d) PROVE ClientInv'
  <2>1. /\ page[d].pc = "ready" /\ sync(d, "initiate", page[d].secret)
        /\ UNCHANGED <<page, jobs, staged, saved, keys>>
        BY <1>12 DEF StartInitiate
  <2>2. page[d].secret \in Secrets /\ page[d].key \in PubKeys
        BY <1>0, <2>1 DEF PageOK
  <2> QED BY <1>0, <1>3, <1>6, <2>1, <2>2
<1>13. ASSUME NEW d \in Devices, Complete(d) PROVE ClientInv'
  <2> DEFINE c == plain_call(d, "complete", None, key_to_complete(d))
             o == [pc |-> "wait", call |-> c, executable |-> now + delay_secs]
  <2>1. page[d].pc = "countdown" /\ post(d, c) /\ UNCHANGED <<page, staged, saved, keys>>
        BY <1>13 DEF Complete, offered
  <2>2. key_to_complete(d) \in PubKeys
    <3>1. page[d].key \in PubKeys
          BY <1>0, <2>1 DEF PageOK
    <3>2. staged[d] # None => staged[d].key \in PubKeys
          BY <1>0, <1>3 DEF StagedRecovery
    <3> QED BY <1>2, <3>1, <3>2 DEF key_to_complete
  <2>3. c \in Calls_ /\ c.kind = "complete" /\ c.key \in PubKeys
        BY <1>3, <2>2 DEF plain_call, Calls_, Keys
  <2>4. MadeOK(c)
        BY <2>3 DEF MadeOK
  <2> HIDE DEF c
  <2>5. o \in Ops /\ o.call = c /\ has_call(o)
        BY <1>1, <2>3 DEF Ops, has_call
  <2>6. go(d, o) /\ jobs' \subseteq jobs \cup {o.call}
        BY <2>1 DEF post
  <2> HIDE DEF o
  <2> QED BY <1>3, <1>8, <2>1, <2>3, <2>4, <2>5, <2>6
<1>14. ASSUME NEW d \in Devices, InitiateDone(d) PROVE ClientInv'
  <2> DEFINE p == [page[d] EXCEPT !.pc = "countdown", !.executable = op[d].executable, !.expires = 0]
             r == [key |-> op[d].call.key, executable |-> op[d].executable]
  <2>1. /\ op[d].pc = "landed" /\ op[d].call.kind = "initiate" /\ turn(d, p) /\ go(d, Idle)
        /\ staged' = [staged EXCEPT ![d] = r] /\ UNCHANGED <<jobs, saved, keys>>
        BY <1>14 DEF InitiateDone, stageRecovery
  <2>2. op[d] \in Ops /\ OpOK(d) /\ has_call(op[d])
        BY <1>0, <1>3, <2>1 DEF has_call
  <2>3. op[d].executable \in Nat /\ op[d].call.key \in PubKeys /\ page[d].pc = "ready"
        BY <2>1, <2>2, OpShape DEF OpOK, MadeOK
  <2>4. page[d].key \in PubKeys
        BY <1>0, <2>3 DEF PageOK
  <2>5. p \in Pages /\ p.pc = "countdown" /\ p.key = page[d].key
        BY <1>0, <2>3 DEF Pages
  <2>6. r \in StagedRecovery
        BY <2>3 DEF StagedRecovery
  <2> HIDE DEF p, r
  <2>7. staged' \in [Actors -> StagedRecovery \cup {None}]
        BY <1>0, <2>1, <2>6
  <2>8. page' \in [Devices -> Pages] /\ page'[d] = p /\ \A e \in Devices : e # d => page'[e] = page[e]
        BY <1>0, <2>1, <2>5 DEF turn
  <2> QED BY <1>0, <1>3, <1>5, <2>1, <2>4, <2>5, <2>7, <2>8, OneMoves
<1>15. ASSUME NEW d \in Devices, CompleteDone(d) PROVE ClientInv'
  <2> DEFINE p == [page[d] EXCEPT !.pc = "done"]
  <2>1. /\ op[d].pc = "landed" /\ op[d].call.kind = "complete" /\ turn(d, p) /\ go(d, Idle)
        /\ clearStaged(d) /\ UNCHANGED <<jobs, keys>>
        /\ saved' = IF page[d].own THEN [saved EXCEPT ![d] = page[d].key] ELSE saved
        BY <1>15 DEF CompleteDone
  <2>2. OpOK(d) /\ has_call(op[d])
        BY <1>0, <1>3, <2>1 DEF has_call
  <2>3. page[d].key \in PubKeys
        BY <1>0, <2>1, <2>2 DEF OpOK, PageOK
  <2>4. p \in Pages /\ p.pc = "done" /\ p.key = page[d].key
        BY <1>0 DEF Pages
  <2> HIDE DEF p
  <2>5. page' \in [Devices -> Pages] /\ page'[d] = p /\ \A e \in Devices : e # d => page'[e] = page[e]
        BY <1>0, <2>1, <2>4 DEF turn
  <2>6. saved' \in [Devices -> PubKeys \cup {None}]
        BY <1>0, <2>1, <2>3
  <2>7. staged' \in [Actors -> StagedRecovery \cup {None}]
        BY <1>0, <2>1 DEF clearStaged
  <2> QED BY <1>0, <1>3, <1>5, <2>1, <2>3, <2>4, <2>5, <2>6, <2>7, OneMoves
<1>16. ASSUME NEW x \in Actors, Locate(x) PROVE ClientInv'
  <2>1. op[x] \in Ops /\ OpOK(x) /\ op[x].pc = "sync"
        BY <1>0, <1>16 DEF Locate
  <2>2. UNCHANGED <<jobs, staged, saved, keys>>
        BY <1>16 DEF Locate
  <2>3. CASE op[x].kind = "check"
    <3> DEFINE pc == IF located(op[x]) THEN "ready" ELSE "stuck"
               p == [page[x] EXCEPT !.pc = pc]
    <3>1. go(x, Idle) /\ turn(x, p)
          BY <1>16, <2>3 DEF Locate
    <3>2. x \in Devices /\ page[x].pc = "secret" /\ page[x].secret \in Secrets
          BY <2>1, <2>3 DEF OpOK
    <3>3. page[x].key \in PubKeys
          BY <1>0, <3>2 DEF PageOK
    <3>4. pc \in {"ready", "stuck"}
          OBVIOUS
    <3> HIDE DEF pc
    <3>5. p \in Pages /\ p.pc = pc /\ p.key = page[x].key /\ p.secret = page[x].secret
          BY <1>0, <3>2, <3>4 DEF Pages
    <3> HIDE DEF p
    <3>6. page' \in [Devices -> Pages] /\ page'[x] = p /\ \A e \in Devices : e # x => page'[e] = page[e]
          BY <1>0, <3>1, <3>2, <3>5 DEF turn
    <3> QED BY <1>0, <1>5, <2>2, <3>1, <3>2, <3>3, <3>4, <3>5, <3>6, OneMoves
  <2>4. CASE op[x].kind # "check"
    <3> DEFINE o == [pc |-> "nonce", kind |-> op[x].kind, secret |-> op[x].secret, root |-> op[x].fetched]
    <3>1. UNCHANGED page /\ (go(x, o) \/ go(x, Idle))
          BY <1>16, <2>4 DEF Locate
    <3>2. o \in Ops /\ o.pc = "nonce" /\ o.kind = op[x].kind /\ ~has_call(o)
          BY <2>1, <2>4, OpShape DEF Ops, has_call
    <3>3. o.kind = "initiate" => x \in Devices /\ page[x].pc = "ready"
          BY <2>1, <3>2 DEF OpOK
    <3> HIDE DEF o
    <3>4. CASE go(x, o)
          BY <1>0, <1>7, <2>2, <3>1, <3>2, <3>3, <3>4
    <3>5. CASE go(x, Idle)
          BY <1>0, <1>5, <1>7, <2>2, <3>1, <3>5
    <3> QED BY <3>1, <3>4, <3>5
  <2> QED BY <2>3, <2>4
<1>17. ASSUME NEW x \in Actors, fetchNextNonce(x) PROVE ClientInv'
  <2> DEFINE c == proof_call(x, op[x].kind, op[x].secret, op[x].root)
             o == prove(c)
  <2>1. op[x].pc = "nonce" /\ go(x, o) /\ UNCHANGED <<page, jobs, staged, saved, keys>>
        BY <1>17 DEF fetchNextNonce
  <2>2. op[x] \in Ops /\ OpOK(x)
        BY <1>0
  <2>3. /\ op[x].kind \in {"initiate", "cancel", "burn"} /\ op[x].secret \in Secrets /\ op[x].root \in Nat
        /\ op[x].kind = "initiate" => x \in Devices /\ page[x].pc = "ready"
        BY <2>1, <2>2, OpShape DEF OpOK
  <2>4. op[x].kind = "initiate" => page[x].key \in PubKeys
        BY <1>0, <2>3 DEF PageOK
  <2>5. /\ c \in Calls_ /\ c.kind = op[x].kind
        /\ c.kind = "initiate" => c.key \in PubKeys
    <3> DEFINE key == IF op[x].kind = "initiate" THEN page[x].key ELSE ZeroKey
    <3>1. key \in Keys /\ (op[x].kind = "initiate" => key \in PubKeys)
          BY <2>4 DEF Keys
    <3> HIDE DEF key
    <3>2. c = [by |-> x, kind |-> op[x].kind, secret |-> op[x].secret, root |-> op[x].root,
               nonce |-> next_nonce, key |-> key, saw |-> pending]
          BY DEF proof_call, key
    <3> QED BY <1>1, <2>3, <3>1, <3>2 DEF Calls_
  <2>6. MadeOK(c)
        BY <2>3, <2>5 DEF MadeOK
  <2> HIDE DEF c
  <2>7. o \in Ops /\ o.call = c /\ has_call(o)
        BY <2>5 DEF prove, Ops, has_call
  <2> HIDE DEF o
  <2> QED BY <1>8, <2>1, <2>3, <2>5, <2>6, <2>7
<1>18. ASSUME NEW x \in Actors, Submit(x) PROVE ClientInv'
  <2> DEFINE c == op[x].call
             o == [pc |-> "wait", call |-> c, executable |-> now + delay_secs]
             i == insert_next(c)
  <2>1. /\ op[x].pc = "prove" /\ UNCHANGED <<page, staged, saved, keys>>
        /\ \/ post(x, c)
           \/ go(x, IF c.kind = "enroll" THEN i ELSE Idle) /\ UNCHANGED jobs
        BY <1>18 DEF Submit
  <2>2. op[x] \in Ops /\ OpOK(x) /\ has_call(op[x])
        BY <1>0, <2>1 DEF has_call
  <2>3. /\ MadeOK(c) /\ c \in Calls_
        /\ c.kind = "initiate" => x \in Devices /\ page[x].pc = "ready"
        /\ c.kind = "complete" => x \in Devices /\ page[x].pc = "countdown"
        BY <2>2 DEF OpOK, MadeOK
  <2> HIDE DEF c
  <2>4. CASE post(x, c)
    <3>1. o \in Ops /\ o.call = c /\ has_call(o)
          BY <1>1, <2>3 DEF Ops, has_call
    <3>2. go(x, o) /\ jobs' \subseteq jobs \cup {o.call}
          BY <2>4 DEF post
    <3> HIDE DEF o
    <3> QED BY <1>8, <2>1, <2>3, <3>1, <3>2
  <2>5. CASE c.kind = "enroll" /\ go(x, i) /\ UNCHANGED jobs
    <3>1. /\ [c EXCEPT !.kind = "insert"] \in Calls_ /\ [c EXCEPT !.kind = "insert"].kind = "insert"
          /\ [c EXCEPT !.kind = "insert"].secret = c.secret
          BY <2>3 DEF Calls_
    <3>2. i \in Ops /\ i.call = [c EXCEPT !.kind = "insert"] /\ has_call(i)
          BY <3>1 DEF insert_next, prove, Ops, has_call
    <3>3. MadeOK(i.call) /\ i.call.kind = "insert"
          BY <2>3, <2>5, <3>1, <3>2 DEF MadeOK
    <3> HIDE DEF i
    <3> QED BY <1>8, <2>1, <2>5, <3>2, <3>3
  <2>6. CASE go(x, Idle) /\ UNCHANGED jobs
        BY <1>0, <1>5, <1>7, <2>1, <2>6
  <2> QED BY <2>1, <2>4, <2>5, <2>6
<1>19. ASSUME NEW x \in Actors, Failed(x) \/ TimeOut(x) PROVE ClientInv'
  <2>1. go(x, Idle) /\ UNCHANGED <<page, jobs, staged, saved, keys>>
        BY <1>19 DEF Failed, TimeOut
  <2> QED BY <1>0, <1>5, <1>7, <2>1
<1>20. ASSUME StartCancel \/ StartBurn PROVE ClientInv'
  <2>1. PICK s \in derivable, kind \in {"cancel", "burn"} :
          sync(Owner, kind, s) /\ UNCHANGED <<page, jobs, staged, saved, keys>>
        BY <1>20 DEF StartCancel, StartBurn
  <2>2. s \in Secrets
        BY DerivableAreSecrets
  <2> QED BY <1>0, <1>4, <1>6, <2>1, <2>2
<1>21. ASSUME StartEnroll PROVE ClientInv'
  <2>1. PICK s \in derivable : go(Owner, prove(first_step(s))) /\ UNCHANGED <<page, jobs, staged, saved, keys>>
        BY <1>21 DEF StartEnroll
  <2> DEFINE c == first_step(s)
             o == prove(c)
  <2>2. c \in Calls_ /\ c.kind \in {"enroll", "insert"} /\ c.secret = s
    <3> DEFINE kind == IF Installed[Account] = None THEN "enroll" ELSE "insert"
    <3>1. c = plain_call(Owner, kind, s, ZeroKey) /\ kind \in {"enroll", "insert"}
          BY DEF first_step
    <3> HIDE DEF kind, c
    <3> QED BY <1>4, <3>1, DerivableAreSecrets DEF plain_call, Calls_, Keys
  <2>3. MadeOK(c)
        BY <2>2 DEF MadeOK
  <2> HIDE DEF c
  <2>4. o \in Ops /\ o.call = c /\ has_call(o) /\ go(Owner, o)
        BY <2>1, <2>2 DEF prove, Ops, has_call, c
  <2> HIDE DEF o
  <2> QED BY <1>4, <1>8, <2>1, <2>2, <2>3, <2>4
<1>22. ASSUME OwnerDone PROVE ClientInv'
  <2> DEFINE c == op[Owner].call
             i == insert_next(c)
  <2>1. /\ op[Owner].pc = "landed" /\ UNCHANGED <<page, jobs, saved, keys>>
        /\ \/ c.kind = "enroll" /\ go(Owner, i) /\ UNCHANGED staged
           \/ go(Owner, Idle) /\ (UNCHANGED staged \/ clearStaged(Owner))
        BY <1>22 DEF OwnerDone
  <2>2. OpOK(Owner) /\ has_call(op[Owner])
        BY <1>0, <1>4, <2>1 DEF has_call
  <2>3. MadeOK(c) /\ c \in Calls_
        BY <2>2 DEF OpOK, MadeOK
  <2> HIDE DEF c
  <2>4. CASE c.kind = "enroll" /\ go(Owner, i) /\ UNCHANGED staged
    <3>1. /\ [c EXCEPT !.kind = "insert"] \in Calls_ /\ [c EXCEPT !.kind = "insert"].kind = "insert"
          /\ [c EXCEPT !.kind = "insert"].secret = c.secret
          BY <2>3 DEF Calls_
    <3>2. i \in Ops /\ i.call = [c EXCEPT !.kind = "insert"] /\ has_call(i)
          BY <3>1 DEF insert_next, prove, Ops, has_call
    <3>3. MadeOK(i.call) /\ i.call.kind = "insert"
          BY <2>3, <2>4, <3>1, <3>2 DEF MadeOK
    <3> HIDE DEF i
    <3> QED BY <1>4, <1>8, <2>1, <2>4, <3>2, <3>3
  <2>5. CASE go(Owner, Idle) /\ (UNCHANGED staged \/ clearStaged(Owner))
    <3>1. staged' \in [Actors -> StagedRecovery \cup {None}]
          BY <1>0, <1>4, <2>5 DEF clearStaged
    <3> QED BY <1>0, <1>4, <1>5, <1>7, <2>1, <2>5, <3>1
  <2> QED BY <2>1, <2>4, <2>5
<1>23. ASSUME Land PROVE ClientInv'
  <2>1. PICK c \in jobs :
          /\ jobs' = jobs \ {c} /\ answered(c, "landed") /\ UNCHANGED <<page, staged, saved>>
          /\ keys' = IF c.kind = "complete" THEN keys \cup {c.key} ELSE keys
        BY <1>23 DEF Land
  <2>2. keys' \subseteq PubKeys
        BY <1>0, <2>1 DEF MadeOK
  <2> QED BY <2>1, <2>2, AnswerMoves
<1>24. ASSUME Refuse PROVE ClientInv'
  <2>1. PICK c \in jobs :
          jobs' = jobs \ {c} /\ answered(c, "refused") /\ UNCHANGED <<page, staged, saved, keys>>
        BY <1>24 DEF Refuse
  <2> QED BY <1>0, <2>1, AnswerMoves
<1>25. ASSUME OtherInsert \/ Time \/ UNCHANGED all_vars PROVE ClientInv'
  <2>1. UNCHANGED <<page, op, jobs, staged, saved, keys>>
        BY <1>25 DEF OtherInsert, Time, all_vars
  <2> QED BY <1>0, <2>1, AnswerMoves
<1> QED BY <1>9, <1>10, <1>11, <1>12, <1>13, <1>14, <1>15, <1>16, <1>17, <1>18, <1>19, <1>20, <1>21,
           <1>22, <1>23, <1>24, <1>25 DEF ClientNext, Page, Procedure, Security

ChainInv == IInv /\ Len(Leaves) <= MAX_LEAVES /\ ClientInv

LEMMA AlwaysChainInv == ClientSpec => []ChainInv
<1>1. ClientInit => ChainInv
      BY InitIInv, ClientInit_ClientInv, ConstantsAssumption
      DEF ChainInv, ClientInit, Init, ConstantsAssumption
<1>2. ChainInv /\ [ClientNext]_all_vars => ChainInv'
  <2> SUFFICES ASSUME ChainInv, [ClientNext]_all_vars PROVE ChainInv'
      OBVIOUS
  <2>1. TypeOK
        BY DEF ChainInv, IInv
  <2>2. [Next]_vars /\ Len(Leaves') <= MAX_LEAVES
        BY <2>1, ClientChain DEF ChainInv
  <2>3. IInv'
        BY <2>2, NextIInv DEF ChainInv
  <2>4. ClientInv'
        BY <2>1, ClientStep DEF ChainInv
  <2> QED BY <2>2, <2>3, <2>4 DEF ChainInv
<1> QED BY <1>1, <1>2, PTL DEF ClientSpec

(* What the wallets submit, whenever it lands, is what the contract would take
   from anyone: every behaviour of the wallets over the contract is a behaviour
   of the contract, and what is proved of every one holds of these. *)
THEOREM WalletsMakeCalls == ClientSpec => Spec
<1>1. ClientInit => Init
      BY DEF ClientInit
<1>2. ChainInv /\ [ClientNext]_all_vars => [Next]_vars
      BY ClientChain DEF ChainInv, IInv
<1> QED BY <1>1, <1>2, AlwaysChainInv, PTL DEF ClientSpec, Spec

(* Every page, procedure, submitted call and stored key has its type
   (zkRecoveryActions.ts, the recovery and security pages). *)
THEOREM WalletsTypeCorrect == ClientSpec => []ClientTypeOK
<1>1. ChainInv => ClientTypeOK
      BY DEF ChainInv, ClientInv
<1> QED BY <1>1, AlwaysChainInv, PTL

(* A record comes with a new nonce; without one it stays or goes. *)
LEMMA RecordsComeWithNonces ==
  ASSUME TypeOK, [Next]_vars, NEW a \in Accounts
  PROVE  \/ Nonce'[a] = Nonce[a] + 1
         \/ Nonce'[a] = Nonce[a] /\ Pending'[a] \in {Pending[a], None}
<1>0. Nonce \in [Accounts -> Nat] /\ Pending \in [Accounts -> PendingRecovery \cup {None}]
      BY DEF TypeOK
<1>1. ASSUME NEW b \in Accounts, NEW k, NEW n, NEW t, NEW r, NEW nullifier,
             initiate_recovery(b, k, n, t, r, nullifier)
      PROVE  Nonce'[a] = Nonce[a] + 1 \/ UNCHANGED <<Nonce[a], Pending[a]>>
  <2>1. /\ n = Nonce[b] + 1 /\ Nonce' = [Nonce EXCEPT ![b] = n]
        /\ Pending' = [Pending EXCEPT ![b] = new_pending(k, nullifier)]
        BY <1>1 DEF initiate_recovery, is_next_nonce, bump_nonce
  <2> QED BY <1>0, <2>1
<1>2. ASSUME NEW b \in Accounts, NEW n, NEW r, NEW nullifier, cancel_recovery(b, n, r, nullifier)
      PROVE  Nonce'[a] = Nonce[a] + 1 \/ UNCHANGED <<Nonce[a], Pending[a]>>
  <2>1. /\ n = Nonce[b] + 1 /\ Nonce' = [Nonce EXCEPT ![b] = n]
        /\ Pending' = [Pending EXCEPT ![b] = None]
        BY <1>2 DEF cancel_recovery, is_next_nonce, bump_nonce
  <2> QED BY <1>0, <2>1
<1>3. ASSUME NEW b \in Accounts, NEW n, NEW r, NEW nullifier, burn_nullifier(b, n, r, nullifier)
      PROVE  Nonce'[a] = Nonce[a] + 1 \/ UNCHANGED <<Nonce[a], Pending[a]>>
  <2>1. /\ n = Nonce[b] + 1 /\ Nonce' = [Nonce EXCEPT ![b] = n]
        /\ Pending' = Pending \/ Pending' = [Pending EXCEPT ![b] = None]
        BY <1>3 DEF burn_nullifier, is_next_nonce, bump_nonce, without_pending_of
  <2> QED BY <1>0, <2>1
<1>4. ASSUME NEW b \in Accounts, NEW id, NEW call, enforce(b, id, call)
      PROVE  Nonce' = Nonce /\ Pending'[a] \in {Pending[a], None}
  <2>1. Nonce' = Nonce /\ Pending' = [Pending EXCEPT ![b] = None]
        BY <1>4 DEF enforce, account_state
  <2> QED BY <1>0, <2>1
<1>5. ASSUME Install \/ Insert \/ Tick \/ UNCHANGED vars PROVE UNCHANGED <<Nonce, Pending>>
      BY <1>5 DEF Install, install, Insert, insert, insert_for, insert_bound, Tick, vars, account_state
<1> QED BY <1>1, <1>2, <1>3, <1>4, <1>5 DEF Next, Initiate, Cancel, Burn, Enforce

(* No step of the chain makes an acceptable cancel one of another attempt. *)
LEMMA ChainKeepsSeen ==
  ASSUME TypeOK, [Next]_vars, NEW c \in Calls_, SeenOK(c)
  PROVE  SeenOK(c)'
<1>1. Account \in Accounts
      BY ClientAssumption DEF ClientAssumption
<1>2. Nonce[Account] \in Nat /\ c.nonce \in Nat
      BY <1>1 DEF TypeOK, Calls_
<1>3. CASE Nonce'[Account] = Nonce[Account] + 1
      BY <1>2, <1>3 DEF SeenOK
<1>4. CASE Nonce'[Account] = Nonce[Account] /\ Pending'[Account] \in {Pending[Account], None}
      BY <1>4 DEF SeenOK
<1> QED BY <1>1, <1>3, <1>4, RecordsComeWithNonces

(* A procedure that goes on has its old call, one of another kind, or one made
   for the record and the nonce that the chain has. *)
LEMMA CallsAreKept ==
  ASSUME ClientInv, [ClientNext]_all_vars, NEW x \in Actors, has_call(op'[x]), op'[x].call.kind = "cancel"
  PROVE  \/ has_call(op[x]) /\ op'[x].call = op[x].call
         \/ /\ op'[x].call.nonce = next_nonce /\ op'[x].call.saw = pending
            /\ UNCHANGED chain_vars
<1>0. op \in [Actors -> Ops]
      BY DEF ClientInv, ClientTypeOK
<1> DEFINE Kept == \/ has_call(op[x]) /\ op'[x].call = op[x].call
                   \/ /\ op'[x].call.nonce = next_nonce /\ op'[x].call.saw = pending
                      /\ UNCHANGED chain_vars
<1>1. CASE op'[x] = op[x]
      BY <1>1
<1>2. ASSUME NEW y \in Actors, go(y, Idle) PROVE op'[x] = op[x]
      BY <1>0, <1>2 DEF go, Idle, has_call
<1>3. ASSUME NEW y \in Actors, NEW kind, NEW s, sync(y, kind, s) PROVE op'[x] = op[x]
  <2>1. PICK n \in 0..Len(Leaves) : go(y, [pc |-> "sync", kind |-> kind, secret |-> s, fetched |-> n])
        BY <1>3 DEF sync
  <2> QED BY <1>0, <2>1 DEF go, has_call
<1>4. ASSUME NEW c, NEW pc \in {"landed", "refused"}, answered(c, pc)
      PROVE  op'[x] = op[x] \/ (has_call(op[x]) /\ op'[x].call = op[x].call)
  <2>1. CASE op' = op
        BY <2>1
  <2>2. CASE op[c.by].pc = "wait" /\ op' = [op EXCEPT ![c.by].pc = pc]
    <3>1. CASE x = c.by
      <4>1. op[x].pc = "wait" /\ op'[x] = [op[x] EXCEPT !.pc = pc]
            BY <1>0, <2>2, <3>1
      <4>2. op[x] \in [pc: {"wait", "landed", "refused"}, call: Calls_, executable: Nat]
            BY <1>0, <4>1 DEF Ops
      <4> QED BY <4>1, <4>2 DEF has_call
    <3>2. CASE x # c.by
          BY <1>0, <2>2, <3>2
    <3> QED BY <3>1, <3>2
  <2> QED BY <1>4, <2>1, <2>2 DEF answered
<1>5. ASSUME NEW y \in Actors, NEW c, NEW o, go(y, o), o.call = c, c.kind # "cancel" PROVE op'[x] = op[x]
      BY <1>0, <1>5 DEF go
<1>6. ASSUME NEW d \in Devices, Load(d) \/ CreatePasskey(d) PROVE op'[x] = op[x]
      BY <1>6 DEF Load, CreatePasskey
<1>7. ASSUME NEW d \in Devices, GiveSecret(d) \/ StartInitiate(d) PROVE op'[x] = op[x]
      BY <1>3, <1>7 DEF GiveSecret, StartInitiate, Actors
<1>8. ASSUME NEW d \in Devices, InitiateDone(d) \/ CompleteDone(d) PROVE op'[x] = op[x]
      BY <1>2, <1>8 DEF InitiateDone, CompleteDone, Actors
<1>9. ASSUME NEW d \in Devices, Complete(d) PROVE op'[x] = op[x]
  <2> DEFINE c == plain_call(d, "complete", None, key_to_complete(d))
             o == [pc |-> "wait", call |-> c, executable |-> now + delay_secs]
  <2>1. go(d, o) /\ o.call = c /\ c.kind = "complete" /\ d \in Actors
        BY <1>9 DEF Complete, post, plain_call, Actors
  <2> HIDE DEF c, o
  <2> QED BY <1>5, <2>1
<1>10. ASSUME NEW y \in Actors, Locate(y) PROVE op'[x] = op[x]
  <2>1. ASSUME NEW k, NEW s, NEW r, go(y, [pc |-> "nonce", kind |-> k, secret |-> s, root |-> r])
        PROVE  op'[x] = op[x]
        BY <1>0, <2>1 DEF go, has_call
  <2> QED BY <1>2, <1>10, <2>1 DEF Locate
<1>11. ASSUME NEW y \in Actors, fetchNextNonce(y) PROVE Kept
  <2> DEFINE c == proof_call(y, op[y].kind, op[y].secret, op[y].root)
  <2>1. go(y, prove(c)) /\ c.nonce = next_nonce /\ c.saw = pending /\ UNCHANGED chain_vars
        BY <1>11 DEF fetchNextNonce, proof_call
  <2>2. prove(c).call = c
        BY DEF prove
  <2> HIDE DEF c
  <2> QED BY <1>0, <2>1, <2>2 DEF go
<1>12. ASSUME NEW y \in Actors, Submit(y) PROVE Kept
  <2> DEFINE c == op[y].call
             o == [pc |-> "wait", call |-> c, executable |-> now + delay_secs]
             i == insert_next(c)
  <2>1. /\ op[y].pc = "prove"
        /\ go(y, o) \/ go(y, i) \/ go(y, Idle)
        BY <1>12 DEF Submit, post
  <2>2. has_call(op[y]) /\ o.call = c /\ c \in Calls_
        BY <1>0, <2>1, OpShape DEF has_call
  <2>3. i.call.kind = "insert"
        BY <2>2 DEF insert_next, prove, Calls_
  <2> HIDE DEF i, o
  <2>4. CASE go(y, o)
        BY <1>0, <2>2, <2>4 DEF go
  <2> QED BY <1>2, <1>5, <2>1, <2>3, <2>4
<1>13. ASSUME NEW y \in Actors, Failed(y) \/ TimeOut(y) PROVE op'[x] = op[x]
      BY <1>2, <1>13 DEF Failed, TimeOut
<1>14. ASSUME StartCancel \/ StartBurn PROVE op'[x] = op[x]
      BY <1>3, <1>14 DEF StartCancel, StartBurn, Actors
<1>15. ASSUME StartEnroll PROVE op'[x] = op[x]
  <2>1. PICK s \in derivable : go(Owner, prove(first_step(s)))
        BY <1>15 DEF StartEnroll
  <2> DEFINE o == prove(first_step(s))
  <2>2. o.call.kind \in {"enroll", "insert"} /\ Owner \in Actors
        BY DEF first_step, plain_call, prove, Actors
  <2> HIDE DEF o
  <2> QED BY <1>5, <2>1, <2>2 DEF o
<1>16. ASSUME OwnerDone PROVE op'[x] = op[x]
  <2> DEFINE i == insert_next(op[Owner].call)
  <2>1. op[Owner].pc = "landed" /\ (go(Owner, i) \/ go(Owner, Idle)) /\ Owner \in Actors
        BY <1>16 DEF OwnerDone, Actors
  <2>2. op[Owner].call \in Calls_
        BY <1>0, <2>1, OpShape DEF has_call
  <2>3. i.call.kind = "insert"
        BY <2>2 DEF insert_next, prove, Calls_
  <2> HIDE DEF i
  <2> QED BY <1>2, <1>5, <2>1, <2>3
<1>17. ASSUME Land \/ Refuse PROVE Kept
  <2>1. PICK c \in jobs, pc \in {"landed", "refused"} : answered(c, pc)
        BY <1>17 DEF Land, Refuse
  <2> QED BY <1>1, <1>4, <2>1
<1>18. ASSUME OtherInsert \/ Time \/ UNCHANGED all_vars PROVE op'[x] = op[x]
      BY <1>18 DEF OtherInsert, Time, all_vars, client_vars
<1>19. op'[x] = op[x] => Kept
      BY <1>1
<1> HIDE DEF Kept
<1>20. Kept
      BY <1>6, <1>7, <1>8, <1>9, <1>10, <1>11, <1>12, <1>13, <1>14, <1>15, <1>16, <1>17, <1>18, <1>19
      DEF ClientNext, Page, Procedure, Security
<1> QED BY <1>20 DEF Kept

LEMMA SeenStep ==
  ASSUME TypeOK, Len(Leaves) <= MAX_LEAVES, ClientInv, CancelsSeen, [ClientNext]_all_vars
  PROVE  CancelsSeen'
<1> DEFINE SeenAfter(c) == c.kind = "cancel" =>
             /\ c.nonce <= Nonce'[Account] + 1
             /\ c.nonce = Nonce'[Account] + 1 => Pending'[Account] \in {c.saw, None}
<1>1. ASSUME NEW c \in Calls_, SeenOK(c) PROVE SeenAfter(c)
  <2>1. SeenOK(c)'
        BY <1>1, ClientChain, ChainKeepsSeen
  <2> QED BY <2>1 DEF SeenOK
<1>2. ClientInv'
      BY ClientStep
<1>3. jobs \subseteq Calls_ /\ op \in [Actors -> Ops] /\ op' \in [Actors -> Ops]
      BY <1>2 DEF ClientInv, ClientTypeOK
<1>4. ASSUME NEW x \in Actors, has_call(op'[x]) PROVE SeenAfter(op'[x].call)
  <2>1. CASE op'[x].call.kind # "cancel"
        BY <2>1
  <2>2. CASE has_call(op[x]) /\ op'[x].call = op[x].call
    <3>1. op[x].call \in Calls_ /\ SeenOK(op[x].call)
          BY <1>3, <2>2, OpShape DEF CancelsSeen
    <3> HIDE DEF SeenAfter
    <3> QED BY <1>1, <2>2, <3>1
  <2>3. CASE /\ op'[x].call.nonce = next_nonce /\ op'[x].call.saw = pending
             /\ UNCHANGED chain_vars
    <3>1. Nonce' = Nonce /\ Pending' = Pending /\ next_nonce \in Nat
      <4>1. Account \in Accounts
            BY ClientAssumption DEF ClientAssumption
      <4> QED BY <2>3, <4>1 DEF chain_vars, vars, next_nonce, TypeOK
    <3> QED BY <2>3, <3>1 DEF next_nonce, pending
  <2> QED BY <1>4, <2>1, <2>2, <2>3, CallsAreKept
<1>5. ASSUME NEW c \in jobs' PROVE SeenAfter(c)
  <2>1. c \in Calls_
        BY <1>2 DEF ClientInv, ClientTypeOK
  <2>2. CASE c \in jobs
    <3>1. SeenOK(c)
          BY <2>2 DEF CancelsSeen
    <3> HIDE DEF SeenAfter
    <3> QED BY <1>1, <2>1, <3>1
  <2>3. CASE \E x \in Actors : has_call(op'[x]) /\ op'[x].call = c
    <3> HIDE DEF SeenAfter
    <3> QED BY <1>4, <2>3
  <2>4. ASSUME c \notin jobs PROVE \E x \in Actors : has_call(op'[x]) /\ op'[x].call = c
    <3>1. ASSUME NEW x \in Actors, NEW d, post(x, d), c = d PROVE has_call(op'[x]) /\ op'[x].call = c
          BY <1>3, <3>1 DEF post, go, has_call
    <3>2. ASSUME NEW x \in Actors, Submit(x) PROVE jobs' \subseteq jobs \/ post(x, op[x].call)
          BY <3>2 DEF Submit
    <3>3. ASSUME NEW x \in Devices, Complete(x) PROVE post(x, plain_call(x, "complete", None, key_to_complete(x)))
          BY <3>3 DEF Complete
    <3>4. ASSUME NEW x \in Actors, NEW d, post(x, d) PROVE c = d
          BY <2>4, <3>4 DEF post
    <3>5. Devices \subseteq Actors
          BY DEF Actors
    <3>6. \/ jobs' \subseteq jobs
          \/ \E x \in Actors : Submit(x)
          \/ \E x \in Devices : Complete(x)
      <4>1. ASSUME NEW d \in Devices, Load(d) \/ Page(d) PROVE jobs' \subseteq jobs \/ Complete(d)
            BY <4>1 DEF Page, Load, CreatePasskey, GiveSecret, StartInitiate, InitiateDone, CompleteDone
      <4>2. ASSUME NEW x \in Actors, Procedure(x) \/ TimeOut(x) PROVE jobs' \subseteq jobs \/ Submit(x)
            BY <4>2 DEF Procedure, TimeOut, Locate, fetchNextNonce, Failed
      <4>3. ASSUME Security PROVE jobs' \subseteq jobs
            BY <4>3 DEF Security, StartCancel, StartBurn, StartEnroll, OwnerDone
      <4>4. ASSUME Land \/ Refuse PROVE jobs' \subseteq jobs
            BY <4>4 DEF Land, Refuse
      <4>5. ASSUME OtherInsert \/ Time \/ UNCHANGED all_vars PROVE jobs' \subseteq jobs
            BY <4>5 DEF OtherInsert, Time, all_vars, client_vars
      <4> QED BY <4>1, <4>2, <4>3, <4>4, <4>5 DEF ClientNext
    <3> QED BY <2>4, <3>1, <3>2, <3>3, <3>4, <3>5, <3>6
  <2> QED BY <2>2, <2>3, <2>4
<1>6. CancelsSeen' <=> /\ \A c \in jobs' : SeenAfter(c)
                       /\ \A x \in Actors : has_call(op'[x]) => SeenAfter(op'[x].call)
      BY DEF CancelsSeen, SeenOK, has_call
<1> HIDE DEF SeenAfter
<1> QED BY <1>4, <1>5, <1>6

LEMMA AlwaysCancelsSeen == ClientSpec => []CancelsSeen
<1>1. ClientInit => CancelsSeen
      BY DEF ClientInit, CancelsSeen, Idle, has_call
<1>2. ChainInv /\ CancelsSeen /\ [ClientNext]_all_vars => CancelsSeen'
      BY SeenStep DEF ChainInv, IInv
<1> QED BY <1>1, <1>2, AlwaysChainInv, PTL DEF ClientSpec

(* A cancel that was given up and lands late stops the attempt its page saw or
   none: every other attempt came with a later nonce (zkRecoveryActions.ts,
   cancel_recovery). *)
THEOREM CancelsStopWhatTheySaw == ClientSpec => CancelStopsWhatWasSeen
<1>1. ASSUME ChainInv, CancelsSeen, [ClientNext]_all_vars, NEW c \in jobs \ jobs', c.kind = "cancel",
             LastCancel' # LastCancel
      PROVE  pending = c.saw
  <2>1. SeenOK(c)
        BY <1>1 DEF CancelsSeen
  <2>2. Land
    <3>1. CASE OtherInsert \/ Time
          BY <1>1, <3>1 DEF OtherInsert, Time, client_vars
    <3>2. CASE UNCHANGED chain_vars
          BY <1>1, <3>2 DEF chain_vars, vars
    <3> QED BY <1>1, <3>1, <3>2, ChainMoves
  <2>3. PICK d \in jobs : runs(d) /\ jobs' = jobs \ {d}
        BY <2>2 DEF Land
  <2>4. d = c
        BY <1>1, <2>3
  <2>5. cancel_recovery(Account, c.nonce, c.root, <<Account, c.secret>>)
        BY <1>1, <2>3, <2>4 DEF runs, initiate_call, cancel_call, burn_call, enroll_call, insert_call, complete_call
  <2>6. Pending[Account] # None /\ c.nonce = Nonce[Account] + 1
        BY <2>5 DEF cancel_recovery, has_pending, is_next_nonce
  <2> QED BY <1>1, <2>1, <2>6 DEF SeenOK, pending
<1>2. ChainInv /\ CancelsSeen /\ [ClientNext]_all_vars =>
        [\A c \in jobs \ jobs' : c.kind = "cancel" /\ LastCancel' # LastCancel => pending = c.saw]_all_vars
      BY <1>1
<1> QED BY <1>2, AlwaysChainInv, AlwaysCancelsSeen, PTL DEF ClientSpec, CancelStopsWhatWasSeen

(* No leaf of the account gets into the pool but by a wallet's enrolment. *)
LEMMA OnlyDerivableStep ==
  ASSUME TypeOK, Len(Leaves) <= MAX_LEAVES, ClientInv, OnlyDerivable, [ClientNext]_all_vars
  PROVE  OnlyDerivable'
<1>0. Leaves \in Seq(Nullifiers) /\ Account \in Accounts
      BY ClientAssumption DEF TypeOK, ClientAssumption
<1>1. ASSUME NEW a \in Accounts, NEW t \in Secrets, Leaves' = Append(Leaves, <<a, t>>),
             a = Account => t \in derivable
      PROVE  OnlyDerivable'
  <2> SUFFICES ASSUME NEW s \in Secrets, enrolled(s)' PROVE s \in derivable
      BY DEF OnlyDerivable, derivable, deriveM2SecretSafely, deriveSecretM2
  <2>1. <<a, t>> \in Nullifiers
        BY DEF Nullifiers
  <2>2. PICK i \in 1..Len(Leaves') : Leaves'[i] = <<Account, s>>
        BY DEF enrolled, LeavesUnder
  <2>3. Len(Leaves') = Len(Leaves) + 1 /\ Len(Leaves) \in Nat
        BY <1>0, <1>1, <2>1
  <2>4. CASE i = Len(Leaves) + 1
    <3>1. Leaves'[i] = <<a, t>>
          BY <1>0, <1>1, <2>1, <2>4
    <3> QED BY <1>1, <2>2, <3>1
  <2>5. CASE i \in 1..Len(Leaves)
    <3>1. Leaves'[i] = Leaves[i]
          BY <1>0, <1>1, <2>1, <2>5
    <3>2. enrolled(s)
          BY <2>2, <2>5, <3>1 DEF enrolled, LeavesUnder
    <3> QED BY <3>2 DEF OnlyDerivable
  <2> QED BY <2>2, <2>3, <2>4, <2>5
<1>2. ASSUME UNCHANGED Leaves PROVE OnlyDerivable'
      BY <1>2 DEF OnlyDerivable, enrolled, LeavesUnder, derivable, deriveM2SecretSafely, deriveSecretM2
<1>3. CASE Land
  <2>1. PICK c \in jobs : runs(c)
        BY <1>3 DEF Land
  <2>2. MadeOK(c)
        BY DEF ClientInv
  <2>3. CASE insert_call(c)
    <3>1. Leaves' = Append(Leaves, <<Account, c.secret>>) /\ c.kind = "insert"
          BY <2>3 DEF insert_call, insert_for, insert_bound, insert_leaf
    <3>2. c.secret \in derivable /\ c.secret \in Secrets
          BY <2>2, <3>1, DerivableAreSecrets DEF MadeOK
    <3> QED BY <1>0, <1>1, <3>1, <3>2
  <2>4. CASE initiate_call(c) \/ cancel_call(c) \/ burn_call(c) \/ enroll_call(c) \/ complete_call(c)
    <3>1. UNCHANGED Leaves
          BY <2>4 DEF initiate_call, cancel_call, burn_call, enroll_call, complete_call,
                      initiate_recovery, cancel_recovery, burn_nullifier, install, enforce
    <3> QED BY <1>2, <3>1
  <2> QED BY <2>1, <2>3, <2>4 DEF runs
<1>4. CASE OtherInsert
  <2>1. PICK a \in Accounts \ {Account}, t \in Secrets : insert(a, t)
        BY <1>4 DEF OtherInsert
  <2>2. Leaves' = Append(Leaves, <<a, t>>)
        BY <2>1 DEF insert, insert_bound, insert_leaf
  <2> QED BY <1>1, <2>2
<1>5. CASE Time
      BY <1>2, <1>5 DEF Time, Tick
<1>6. ASSUME UNCHANGED chain_vars PROVE OnlyDerivable'
      BY <1>2, <1>6 DEF chain_vars, vars
<1> QED BY <1>3, <1>4, <1>5, <1>6, ChainMoves

(* Only what two equal and verified signatures gave is ever enrolled for the
   account, whatever calls were retried or landed late
   (zkRecoverySecret.ts, runZkEnrollment). *)
THEOREM OnlyDerivableIsEnrolled == ClientSpec => []OnlyDerivable
<1>1. ClientInit => OnlyDerivable
      BY DEF ClientInit, Init, OnlyDerivable, enrolled, LeavesUnder
<1>2. ChainInv /\ OnlyDerivable /\ [ClientNext]_all_vars => OnlyDerivable'
      BY OnlyDerivableStep DEF ChainInv, IInv
<1> QED BY <1>1, <1>2, AlwaysChainInv, PTL DEF ClientSpec

(* A wallet that once signs twice alike always does: the premise of comparing
   two signatures, which the code takes for a deterministic wallet. *)
TwiceIsAlways ==
  \A w \in Sep53 : \A p \in Signings[w] : p[1] = p[2] => Signings[w] = {<<p[1], p[1]>>}

(* Where two equal signatures stand for a deterministic wallet, whatever is
   enrolled can be derived again (deriveM2SecretSafely). *)
THEOREM EnrolledAgainAndAgain == TwiceIsAlways => (ClientSpec => []EnrolledIsReproducible)
<1> SUFFICES ASSUME TwiceIsAlways PROVE ClientSpec => []EnrolledIsReproducible
    OBVIOUS
<1>1. OnlyDerivable => EnrolledIsReproducible
  <2> SUFFICES ASSUME OnlyDerivable, NEW s \in Secrets, enrolled(s)
               PROVE  \E w \in Sep53 : Signings[w] = {<<s, s>>}
      BY DEF EnrolledIsReproducible
  <2>1. PICK w \in Sources : \E p \in Signings[w] : w \in Sep53 /\ p[1] = p[2] /\ s = p[1]
        BY DEF OnlyDerivable, derivable, deriveM2SecretSafely, deriveSecretM2
  <2> QED BY <2>1 DEF TwiceIsAlways
<1> QED BY <1>1, OnlyDerivableIsEnrolled, PTL
-----------------------------------------------------------------------------
(* The account with its controller.                                        *)
(*                                                                         *)
(* ControllerAgrees is inductive with what it takes to know that a new     *)
(* rule is new and that an account with a controller has a recovery rule   *)
(* (Shape): an install by any call needs that nothing is installed, and    *)
(* then the controller is not the account's.                               *)

Ids == Wallet!Ids

(* No id that was not handed out has a rule, and the recovery entries of the
   account come and go together. *)
Shape ==
  /\ DOMAIN rules = Ids /\ next_rule_id \in Nat
  /\ \A id \in Ids : rules[id] # None => id < next_rule_id
  /\ recovery_rule_id \in Ids \cup {None}
  /\ recovery_rule_id # None => recovery_rule_id < next_rule_id
  /\ recovery_controller # None <=> recovery_rule_id # None

Stored == DOMAIN Installed = Accounts /\ DOMAIN Pending = Accounts

SystemInv == Shape /\ Stored /\ ControllerAgrees

RecoveryKept == UNCHANGED <<recovery_rule_id, recovery_controller>>

LEMMA IdsAreNumbers == Ids \subseteq Nat /\ 0 \in Ids /\ 1 \in Ids /\ None \notin Ids
BY SystemAssumption, ConstantsAssumption DEF Ids, Wallet!Ids

-----------------------------------------------------------------------------
(* What calls of the account do to its entries.                            *)

(* A rule is changed or removed. *)
LEMMA ChangedShape ==
  ASSUME Shape, DOMAIN rules' = DOMAIN rules, UNCHANGED next_rule_id,
         \A id \in Ids : rules'[id] # None => rules[id] # None,
         RecoveryKept \/ (recovery_rule_id' = None /\ recovery_controller' = None)
  PROVE  Shape'
BY DEF Shape, RecoveryKept, Ids, Wallet!Ids

LEMMA AddedShape ==
  ASSUME Shape, NEW rule, next_rule_id \in Ids,
         rules' = [rules EXCEPT ![next_rule_id] = rule], next_rule_id' = next_rule_id + 1,
         \/ RecoveryKept
         \/ recovery_rule_id' = next_rule_id /\ recovery_controller' # None
  PROVE  Shape'
<1>1. DOMAIN rules' = Ids /\ \A id \in Ids : id # next_rule_id => rules'[id] = rules[id]
      BY DEF Shape
<1>2. \A id \in Ids : rules'[id] # None => id < next_rule_id'
      BY <1>1, IdsAreNumbers DEF Shape
<1> QED BY <1>1, <1>2, IdsAreNumbers DEF Shape, RecoveryKept, Ids, Wallet!Ids

LEMMA AddRuleShape ==
  ASSUME Shape, NEW type, NEW valid_until, NEW signers, NEW policies,
         Wallet!add_context_rule(type, valid_until, signers, policies)
  PROVE  /\ Shape' /\ RecoveryKept /\ next_rule_id \in Ids
         /\ rules' = [rules EXCEPT ![next_rule_id] =
              [context_type |-> type, valid_until |-> valid_until,
               signers |-> signers, policies |-> policies]]
<1>1. /\ next_rule_id \in Ids /\ next_rule_id' = next_rule_id + 1 /\ RecoveryKept
      /\ rules' = [rules EXCEPT ![next_rule_id] =
              [context_type |-> type, valid_until |-> valid_until,
               signers |-> signers, policies |-> policies]]
      BY DEF Wallet!add_context_rule, Wallet!oz_add_context_rule, Wallet!recovery_state,
             RecoveryKept, Ids
<1> QED BY <1>1, AddedShape

LEMMA EnrollShape ==
  ASSUME Shape, NEW controller \in {Controller, OtherPolicy},
         Wallet!enroll_zk_recovery(controller)
  PROVE  /\ Shape' /\ recovery_rule_id = None /\ next_rule_id \in Ids
         /\ recovery_rule_id' = next_rule_id /\ recovery_controller' = controller
<1>1. /\ recovery_rule_id = None /\ next_rule_id \in Ids /\ next_rule_id' = next_rule_id + 1
      /\ recovery_rule_id' = next_rule_id /\ recovery_controller' = controller
      /\ rules' = [rules EXCEPT ![next_rule_id] = Wallet!RecoveryRule(controller)]
      BY DEF Wallet!enroll_zk_recovery, Wallet!install_recovery_rule, Ids
<1>2. controller # None
      BY SystemAssumption
<1> QED BY <1>1, <1>2, AddedShape

LEMMA AddPolicyShape ==
  ASSUME Shape, NEW id \in Ids, NEW policy, NEW live, Wallet!add_policy(id, policy, live)
  PROVE  Shape' /\ RecoveryKept
<1>1. /\ rules' = [rules EXCEPT ![id].policies = rules[id].policies \cup {policy}]
      /\ rules[id] # None /\ UNCHANGED next_rule_id /\ RecoveryKept
      BY DEF Wallet!add_policy, Wallet!oz_set_policies, Wallet!recovery_state, Wallet!exists,
             RecoveryKept
<1>2. DOMAIN rules' = DOMAIN rules /\ \A i \in Ids : i # id => rules'[i] = rules[i]
      BY <1>1 DEF Shape
<1> QED BY <1>1, <1>2, ChangedShape

LEMMA AddSignerShape ==
  ASSUME Shape, Wallet!AddSigner
  PROVE  Shape' /\ RecoveryKept
<1>1. PICK id \in Ids, key \in PubKeys : Wallet!add_signer(id, key)
      BY DEF Wallet!AddSigner, Ids
<1>2. /\ rules' = [rules EXCEPT ![id].signers = rules[id].signers \cup {key}]
      /\ rules[id] # None /\ UNCHANGED next_rule_id /\ RecoveryKept
      BY <1>1 DEF Wallet!add_signer, Wallet!oz_set_signers, Wallet!recovery_state, Wallet!exists,
             RecoveryKept
<1>3. DOMAIN rules' = DOMAIN rules /\ \A i \in Ids : i # id => rules'[i] = rules[i]
      BY <1>2 DEF Shape
<1> QED BY <1>2, <1>3, ChangedShape

(* The guarded entry points: none is open while the controller answers yes. *)
LEMMA GuardedShape ==
  ASSUME Shape, NEW live \in BOOLEAN, Wallet!Guarded(live)
  PROVE  /\ Shape' /\ (recovery_controller' # None => RecoveryKept)
         /\ recovery_controller # None => ~live
<1>1. ASSUME NEW id \in Ids, Wallet!remove_context_rule(id, live)
      PROVE  Shape' /\ RecoveryKept /\ (recovery_controller # None => ~live)
  <2>1. /\ rules' = [rules EXCEPT ![id] = None] /\ UNCHANGED next_rule_id /\ RecoveryKept
        /\ recovery_controller # None => ~live
        BY <1>1 DEF Wallet!remove_context_rule, Wallet!oz_remove_context_rule,
                    Wallet!recovery_state, Wallet!guard_no_pending, RecoveryKept
  <2>2. DOMAIN rules' = DOMAIN rules /\ \A i \in Ids : rules'[i] # None => rules[i] # None
        BY <2>1 DEF Shape
  <2> QED BY <2>1, <2>2, ChangedShape
<1>2. ASSUME NEW id \in Ids, NEW v, Wallet!update_context_rule_valid_until(id, v, live)
      PROVE  Shape' /\ RecoveryKept /\ (recovery_controller # None => ~live)
  <2>1. /\ rules' = [rules EXCEPT ![id].valid_until = v] /\ rules[id] # None
        /\ UNCHANGED next_rule_id /\ RecoveryKept /\ (recovery_controller # None => ~live)
        BY <1>2 DEF Wallet!update_context_rule_valid_until, Wallet!exists,
                    Wallet!recovery_state, Wallet!guard_no_pending, RecoveryKept
  <2>2. DOMAIN rules' = DOMAIN rules /\ \A i \in Ids : i # id => rules'[i] = rules[i]
        BY <2>1 DEF Shape
  <2> QED BY <2>1, <2>2, ChangedShape
<1>3. ASSUME NEW id \in Ids, NEW key, Wallet!remove_signer(id, key, live)
      PROVE  Shape' /\ RecoveryKept /\ (recovery_controller # None => ~live)
  <2>1. /\ rules' = [rules EXCEPT ![id].signers = rules[id].signers \ {key}] /\ rules[id] # None
        /\ UNCHANGED next_rule_id /\ RecoveryKept /\ (recovery_controller # None => ~live)
        BY <1>3 DEF Wallet!remove_signer, Wallet!oz_set_signers, Wallet!exists,
                    Wallet!recovery_state, Wallet!guard_no_pending, RecoveryKept
  <2>2. DOMAIN rules' = DOMAIN rules /\ \A i \in Ids : i # id => rules'[i] = rules[i]
        BY <2>1 DEF Shape
  <2> QED BY <2>1, <2>2, ChangedShape
<1>4. ASSUME NEW id \in Ids, NEW policy, Wallet!remove_policy(id, policy, live)
      PROVE  Shape' /\ RecoveryKept /\ (recovery_controller # None => ~live)
  <2>1. /\ rules' = [rules EXCEPT ![id].policies = rules[id].policies \ {policy}]
        /\ rules[id] # None /\ UNCHANGED next_rule_id /\ RecoveryKept
        /\ recovery_controller # None => ~live
        BY <1>4 DEF Wallet!remove_policy, Wallet!oz_set_policies, Wallet!exists,
                    Wallet!recovery_state, Wallet!guard_no_pending, RecoveryKept
  <2>2. DOMAIN rules' = DOMAIN rules /\ \A i \in Ids : i # id => rules'[i] = rules[i]
        BY <2>1 DEF Shape
  <2> QED BY <2>1, <2>2, ChangedShape
<1>5. ASSUME Wallet!initiate_recovery_rule_removal(live)
      PROVE  Shape' /\ RecoveryKept /\ (recovery_controller # None => ~live)
      BY <1>5 DEF Wallet!initiate_recovery_rule_removal, Wallet!guard_live_pending, Shape,
                  RecoveryKept, Ids, Wallet!Ids
<1>6. ASSUME Wallet!execute_recovery_rule_removal(live)
      PROVE  Shape' /\ recovery_controller' = None /\ (recovery_controller # None => ~live)
  <2>1. /\ rules' = [rules EXCEPT ![recovery_rule_id] = None] /\ UNCHANGED next_rule_id
        /\ recovery_rule_id' = None /\ recovery_controller' = None /\ ~live
        BY <1>6 DEF Wallet!execute_recovery_rule_removal, Wallet!oz_remove_context_rule,
                    Wallet!forget_recovery, Wallet!guard_live_pending
  <2>2. DOMAIN rules' = DOMAIN rules /\ \A i \in Ids : rules'[i] # None => rules[i] # None
        BY <2>1 DEF Shape
  <2> QED BY <2>1, <2>2, ChangedShape
<1> QED BY <1>1, <1>2, <1>3, <1>4, <1>5, <1>6 DEF Wallet!Guarded, Ids

-----------------------------------------------------------------------------
(* The steps of the system.                                                *)

(* What the controller holds of the account, if a step installs nothing. *)
InstalledKept == UNCHANGED Installed /\ DOMAIN Pending' = DOMAIN Pending

LEMMA AuthoriseKeeps ==
  ASSUME NEW id, NEW call, authorise(id, call)
  PROVE  InstalledKept
BY DEF authorise, enforce, zk_vars, InstalledKept

LEMMA InstallIsFirst ==
  ASSUME SystemInv, NEW rule, install(Self, rule)
  PROVE  /\ Installed[Self] = None /\ recovery_controller # Controller
         /\ Stored' /\ Installed'[Self] = rule.id
BY SystemAssumption, IdsAreNumbers
DEF SystemInv, Shape, Stored, ControllerAgrees, install, installable

(* The account and the controller go on agreeing if nothing is installed, and
   the account takes no controller. *)
LEMMA KeptInv ==
  ASSUME SystemInv, Shape', InstalledKept, recovery_controller' # None => RecoveryKept
  PROVE  SystemInv'
BY SystemAssumption DEF SystemInv, Stored, InstalledKept, RecoveryKept, ControllerAgrees

(* No call of the controller installs anything but `install'. *)
LEMMA ControllerCalls ==
  ASSUME AccountCallsController \/ AccountCallsEnforce \/ AnyoneInitiates \/ LedgerCloses
  PROVE  \/ InstalledKept
         \/ \E rule \in ContextRules : install(Self, rule)
BY DEF AccountCallsController, AccountCallsEnforce, AnyoneInitiates, LedgerCloses, Tick,
       cancel_recovery, burn_nullifier, without_pending_of, insert_for, insert_bound, enforce,
       initiate_recovery, InstalledKept

(* An account that is not deployed is not enrolled. *)
LEMMA NotDeployed ==
  ASSUME Shape, ~Wallet!deployed
  PROVE  /\ next_rule_id = 0 /\ recovery_rule_id = None /\ recovery_controller = None
         /\ \A id \in Ids : rules[id] = None
<1>1. next_rule_id = 0
      BY DEF Shape, Wallet!deployed
<1>2. \A id \in Ids : ~(id < 0)
      BY IdsAreNumbers
<1> QED BY <1>1, <1>2 DEF Shape

LEMMA CreateInductive == SystemInv /\ (CreateAccount \/ CreateBareAccount) => SystemInv'
<1> SUFFICES ASSUME SystemInv, CreateAccount \/ CreateBareAccount PROVE SystemInv'
    OBVIOUS
<1> USE IdsAreNumbers, SystemAssumption
<1>1. CASE CreateAccount
  <2>1. PICK key \in PubKeys : Wallet!constructor({key}, Controller)
        BY <1>1 DEF CreateAccount
  <2>2. /\ rules' = [rules EXCEPT ![0] = Wallet!DefaultRule({key}),
                                  ![1] = Wallet!RecoveryRule(Controller)]
        /\ next_rule_id' = 2 /\ recovery_rule_id' = 1 /\ recovery_controller' = Controller
        /\ ~Wallet!deployed
        BY <2>1 DEF Wallet!constructor
  <2>3. \A id \in Ids : rules[id] = None
        BY <2>2, NotDeployed DEF SystemInv
  <2>4. DOMAIN rules' = Ids /\ \A id \in Ids : rules'[id] # None => id < 2
        BY <2>2, <2>3 DEF SystemInv, Shape
  <2>5. Shape'
        BY <2>2, <2>4 DEF Shape, Ids, Wallet!Ids
  <2>6. Installed' = [Installed EXCEPT ![Self] = 1] /\ UNCHANGED Pending
        BY <1>1 DEF CreateAccount
  <2> QED BY <2>2, <2>5, <2>6 DEF SystemInv, Stored, ControllerAgrees
<1>2. CASE CreateBareAccount
  <2>1. PICK key \in PubKeys : Wallet!constructor_without_recovery({key})
        BY <1>2 DEF CreateBareAccount
  <2>2. /\ rules' = [rules EXCEPT ![0] = Wallet!DefaultRule({key})]
        /\ next_rule_id' = 1 /\ RecoveryKept /\ ~Wallet!deployed
        BY <2>1 DEF Wallet!constructor_without_recovery, Wallet!recovery_state, RecoveryKept
  <2>3. next_rule_id = 0
        BY <2>2, NotDeployed DEF SystemInv
  <2>4. Shape'
    <3>1. /\ next_rule_id \in Ids /\ next_rule_id' = next_rule_id + 1
          /\ rules' = [rules EXCEPT ![next_rule_id] = Wallet!DefaultRule({key})]
          BY <2>2, <2>3
    <3> QED BY <2>2, <3>1, AddedShape DEF SystemInv
  <2>5. InstalledKept
        BY <1>2 DEF CreateBareAccount, zk_vars, InstalledKept
  <2> QED BY <2>2, <2>4, <2>5, KeptInv
<1> QED BY <1>1, <1>2

LEMMA ChangeInductive == SystemInv /\ (AddContextRule \/ ChangeRules) => SystemInv'
<1> SUFFICES ASSUME SystemInv, AddContextRule \/ ChangeRules PROVE SystemInv'
    OBVIOUS
<1>1. CASE AddContextRule
      BY <1>1, AuthoriseKeeps, AddRuleShape, KeptInv DEF AddContextRule, SystemInv
<1>2. CASE ChangeRules
  <2>1. PICK live \in live_answers :
          \/ Wallet!Guarded(live)
          \/ Wallet!AddSigner
          \/ \E r \in Ids : Wallet!add_policy(r, OtherPolicy, live)
          \/ next_rule_id < MaxRules /\ Wallet!enroll_zk_recovery(OtherPolicy)
        BY <1>2 DEF ChangeRules, Ids
  <2>2. live \in BOOLEAN
        BY DEF live_answers, has_pending
  <2>3. InstalledKept
        BY <1>2, AuthoriseKeeps DEF ChangeRules
  <2>4. CASE Wallet!enroll_zk_recovery(OtherPolicy)
        BY <2>3, <2>4, EnrollShape, SystemAssumption
        DEF SystemInv, Stored, InstalledKept, ControllerAgrees
  <2> QED BY <2>1, <2>2, <2>3, <2>4, GuardedShape, AddSignerShape, AddPolicyShape, KeptInv
          DEF SystemInv
<1> QED BY <1>1, <1>2

(* The entry points that install the controller for the account. *)
LEMMA InstallInductive == SystemInv /\ (AddRuleWithController \/ AddController \/ Enroll) => SystemInv'
<1> SUFFICES ASSUME SystemInv, AddRuleWithController \/ AddController \/ Enroll PROVE SystemInv'
    OBVIOUS
<1>1. CASE AddRuleWithController
      BY <1>1, InstallIsFirst, AddRuleShape
      DEF AddRuleWithController, SystemInv, ControllerAgrees, RecoveryKept
<1>2. CASE AddController
      BY <1>2, InstallIsFirst, AddPolicyShape
      DEF AddController, SystemInv, ControllerAgrees, RecoveryKept, Ids
<1>3. CASE Enroll
      BY <1>3, InstallIsFirst, EnrollShape DEF Enroll, SystemInv, ControllerAgrees
<1> QED BY <1>1, <1>2, <1>3

LEMMA CallsInductive ==
  SystemInv /\ (AccountCallsController \/ AccountCallsEnforce \/ AnyoneInitiates \/ LedgerCloses)
    => SystemInv'
<1> SUFFICES ASSUME SystemInv,
                    AccountCallsController \/ AccountCallsEnforce \/ AnyoneInitiates \/ LedgerCloses
             PROVE  SystemInv'
    OBVIOUS
<1>1. UNCHANGED account_vars
      BY DEF AccountCallsController, AccountCallsEnforce, AnyoneInitiates, LedgerCloses
<1>2. Shape' /\ RecoveryKept
      BY <1>1 DEF account_vars, SystemInv, Shape, RecoveryKept, Ids, Wallet!Ids
<1>3. ASSUME NEW rule \in ContextRules, install(Self, rule)
      PROVE  SystemInv'
      BY <1>2, <1>3, InstallIsFirst DEF SystemInv, ControllerAgrees, RecoveryKept
<1> QED BY <1>2, <1>3, ControllerCalls, KeptInv

LEMMA SystemInductive == SystemInv /\ [SystemNext]_system_vars => SystemInv'
<1>1. ASSUME SystemInv, UNCHANGED system_vars PROVE SystemInv'
      BY <1>1 DEF system_vars, vars, account_vars, SystemInv, Shape, Stored, ControllerAgrees, Ids,
                  Wallet!Ids
<1> QED BY <1>1, CreateInductive, ChangeInductive, InstallInductive, CallsInductive DEF SystemNext

LEMMA InitSystem == SystemInit => SystemInv
BY SystemAssumption DEF SystemInit, Init, Wallet!Init, SystemInv, Shape, Stored, ControllerAgrees, Ids

THEOREM AlwaysSystemInv == SystemSpec => []SystemInv
BY InitSystem, SystemInductive, PTL DEF SystemSpec

-----------------------------------------------------------------------------
(* The theorems.                                                           *)

(* An account enrolled with the controller and the controller agree on the
   rule that completes a recovery, whatever the account was made to install
   before or since (controller.rs, install). *)
THEOREM ControllerAlwaysAgrees == SystemSpec => []ControllerAgrees
<1>1. SystemInv => ControllerAgrees
      BY DEF SystemInv
<1> QED BY <1>1, AlwaysSystemInv, PTL

(* An account the recovery rule alone can act for changes in one way: it takes
   the key that was proved, and the pending recovery ends (policy.rs, the
   completion gate). *)
THEOREM RecoveryRuleCompletesOnly == SystemSpec => RecoveryRuleOnlyCompletes
<1> DEFINE A == Wallet!deployed /\ ~authorised(Self) /\ rules' # rules =>
                  has_pending(Self) /\ AddsProvenKey /\ Pending'[Self] = None
<1>1. SystemInv /\ [SystemNext]_system_vars => [A]_system_vars
  <2> SUFFICES ASSUME SystemInv, SystemNext, Wallet!deployed, ~authorised(Self), rules' # rules
               PROVE  has_pending(Self) /\ AddsProvenKey /\ Pending'[Self] = None
      OBVIOUS
  <2>1. ASSUME NEW id \in Ids, NEW call, call.contract = Self, authorise(id, call)
        PROVE  enforce(Self, id, call)
        BY <2>1 DEF authorise, authorised, Ids
  <2>2. CASE AddContextRule
    <3> DEFINE call(signers, policies) ==
                 [contract |-> Self, fn_name |-> "add_context_rule",
                  signers |-> signers, policies |-> policies]
    <3>1. PICK id \in Ids, type \in ContextTypes, valid_until \in ValidUntils,
               signers \in SUBSET PubKeys, policies \in SUBSET {OtherPolicy} :
            /\ authorise(id, call(signers, policies))
            /\ Wallet!add_context_rule(type, valid_until, signers, policies)
          BY <2>2 DEF AddContextRule, Ids
    <3>2. enforce(Self, id, call(signers, policies))
          BY <2>1, <3>1
    <3>3. /\ has_pending(Self) /\ Pending' = [Pending EXCEPT ![Self] = None]
          /\ signers = {Pending[Self].new_pubkey} /\ policies = {}
          BY <3>2 DEF enforce, is_executable, is_completion, has_pending
    <3> DEFINE rule == [context_type |-> type, valid_until |-> valid_until,
                        signers |-> signers, policies |-> policies]
    <3>4. next_rule_id \in Ids /\ rules' = [rules EXCEPT ![next_rule_id] = rule]
          BY <3>1, AddRuleShape DEF SystemInv
    <3>5. rule \in Wallet!Rules
          BY DEF Wallet!Rules, Wallet!ContextTypes, ContextTypes, ValidUntils
    <3>6. rule # None
          BY <3>5, SystemAssumption
    <3>7. rules[next_rule_id] = None
          BY <3>4, IdsAreNumbers DEF SystemInv, Shape
    <3>8. rules'[next_rule_id] = rule
          BY <3>4 DEF SystemInv, Shape
    <3>9. AddsProvenKey
      <4>1. rule.signers = {Pending[Self].new_pubkey} /\ rule.policies = {}
            BY <3>3
      <4> HIDE DEF rule
      <4> QED BY <3>4, <3>6, <3>7, <3>8, <4>1 DEF AddsProvenKey, Ids
    <3> QED BY <3>3, <3>9, SystemAssumption DEF SystemInv, Stored
  <2>3. CASE ChangeRules
        BY <2>1, <2>3 DEF ChangeRules, enforce, is_completion, Ids
  <2>4. CASE CreateAccount \/ CreateBareAccount
        BY <2>4 DEF CreateAccount, CreateBareAccount, Wallet!constructor,
                    Wallet!constructor_without_recovery
  <2>5. CASE AddRuleWithController \/ AddController \/ Enroll
        BY <2>5 DEF AddRuleWithController, AddController, Enroll
  <2>6. CASE AccountCallsController \/ AccountCallsEnforce \/ AnyoneInitiates \/ LedgerCloses
        BY <2>6 DEF AccountCallsController, AccountCallsEnforce, AnyoneInitiates, LedgerCloses,
                    account_vars
  <2> QED BY <2>2, <2>3, <2>4, <2>5, <2>6 DEF SystemNext
<1> QED BY <1>1, AlwaysSystemInv, PTL DEF SystemSpec, RecoveryRuleOnlyCompletes

-----------------------------------------------------------------------------
(* What a rule is made of.                                                 *)

Records == \A id \in Ids : rules[id] \in Wallet!Rules \cup {None}

LEMMA AddRecord ==
  ASSUME Shape, Records, NEW type \in ContextTypes, NEW valid_until \in ValidUntils,
         NEW signers \in SUBSET PubKeys, NEW policies \in SUBSET {Controller, OtherPolicy},
         Wallet!add_context_rule(type, valid_until, signers, policies)
  PROVE  Records'
<1> DEFINE rule == [context_type |-> type, valid_until |-> valid_until,
                    signers |-> signers, policies |-> policies]
<1>1. rule \in Wallet!Rules
      BY DEF Wallet!Rules, Wallet!ContextTypes, ContextTypes, ValidUntils
<1>2. next_rule_id \in Ids /\ rules' = [rules EXCEPT ![next_rule_id] = rule]
      BY AddRuleShape
<1> HIDE DEF rule
<1> QED BY <1>1, <1>2 DEF Shape, Records, Ids, Wallet!Ids, Wallet!Rules, Wallet!ContextTypes

(* A rule that is there goes on being a record, whichever part changes. *)
LEMMA ChangedRecord ==
  ASSUME Shape, Records, NEW id \in Ids, rules[id] # None,
         \/ \E v \in Expiries \cup {None} : rules' = [rules EXCEPT ![id].valid_until = v]
         \/ \E S \in SUBSET PubKeys : rules' = [rules EXCEPT ![id].signers = S]
         \/ \E P \in SUBSET {Controller, OtherPolicy} : rules' = [rules EXCEPT ![id].policies = P]
  PROVE  Records'
<1>1. rules[id] \in Wallet!Rules
      BY DEF Records
<1>2. \A i \in Ids : i # id => rules'[i] = rules[i]
      BY DEF Shape
<1>3. rules'[id] \in Wallet!Rules
      BY <1>1 DEF Shape, Wallet!Rules
<1> QED BY <1>2, <1>3 DEF Records, Ids, Wallet!Ids, Wallet!Rules, Wallet!ContextTypes

LEMMA RemovedRecord ==
  ASSUME Shape, Records, NEW id, rules' = [rules EXCEPT ![id] = None]
  PROVE  Records'
BY DEF Shape, Records, Ids, Wallet!Ids, Wallet!Rules, Wallet!ContextTypes

LEMMA AddPolicyRecord ==
  ASSUME Shape, Records, NEW id \in Ids, NEW policy \in {Controller, OtherPolicy}, NEW live,
         Wallet!add_policy(id, policy, live)
  PROVE  Records'
<1>1. rules' = [rules EXCEPT ![id].policies = rules[id].policies \cup {policy}] /\ rules[id] # None
      BY DEF Wallet!add_policy, Wallet!oz_set_policies, Wallet!exists
<1>2. rules[id].policies \cup {policy} \in SUBSET {Controller, OtherPolicy}
      BY <1>1 DEF Records, Wallet!Rules
<1> QED BY <1>1, <1>2, ChangedRecord

LEMMA EnrollRecord ==
  ASSUME Shape, Records, NEW controller \in {Controller, OtherPolicy},
         Wallet!enroll_zk_recovery(controller)
  PROVE  Records'
<1>1. Wallet!RecoveryRule(controller) \in Wallet!Rules
      BY DEF Wallet!RecoveryRule, Wallet!Rules, Wallet!ContextTypes
<1>2. /\ next_rule_id \in Ids
      /\ rules' = [rules EXCEPT ![next_rule_id] = Wallet!RecoveryRule(controller)]
      BY DEF Wallet!enroll_zk_recovery, Wallet!install_recovery_rule, Ids
<1> QED BY <1>1, <1>2 DEF Shape, Records, Ids, Wallet!Ids, Wallet!Rules, Wallet!ContextTypes

LEMMA AddSignerRecord ==
  ASSUME Shape, Records, Wallet!AddSigner
  PROVE  Records'
<1>1. PICK id \in Ids, key \in PubKeys : Wallet!add_signer(id, key)
      BY DEF Wallet!AddSigner, Ids
<1>2. rules' = [rules EXCEPT ![id].signers = rules[id].signers \cup {key}] /\ rules[id] # None
      BY <1>1 DEF Wallet!add_signer, Wallet!oz_set_signers, Wallet!exists
<1>3. rules[id].signers \cup {key} \in SUBSET PubKeys
      BY <1>2 DEF Records, Wallet!Rules
<1> QED BY <1>2, <1>3, ChangedRecord

LEMMA GuardedRecord ==
  ASSUME Shape, Records, NEW live, Wallet!Guarded(live)
  PROVE  Records'
<1>1. CASE \/ \E id \in Ids : Wallet!remove_context_rule(id, live)
           \/ Wallet!execute_recovery_rule_removal(live)
      BY <1>1, RemovedRecord
      DEF Wallet!remove_context_rule, Wallet!execute_recovery_rule_removal,
          Wallet!oz_remove_context_rule
<1>2. ASSUME NEW id \in Ids, NEW v \in Expiries \cup {None},
             Wallet!update_context_rule_valid_until(id, v, live)
      PROVE  Records'
  <2>1. rules' = [rules EXCEPT ![id].valid_until = v] /\ rules[id] # None
        BY <1>2 DEF Wallet!update_context_rule_valid_until, Wallet!exists
  <2> QED BY <2>1, ChangedRecord
<1>3. ASSUME NEW id \in Ids, NEW key, Wallet!remove_signer(id, key, live)
      PROVE  Records'
  <2>1. rules' = [rules EXCEPT ![id].signers = rules[id].signers \ {key}] /\ rules[id] # None
        BY <1>3 DEF Wallet!remove_signer, Wallet!oz_set_signers, Wallet!exists
  <2>2. rules[id].signers \ {key} \in SUBSET PubKeys
        BY <2>1 DEF Records, Wallet!Rules
  <2> QED BY <2>1, <2>2, ChangedRecord
<1>4. ASSUME NEW id \in Ids, NEW policy, Wallet!remove_policy(id, policy, live)
      PROVE  Records'
  <2>1. /\ rules' = [rules EXCEPT ![id].policies = rules[id].policies \ {policy}]
        /\ rules[id] # None
        BY <1>4 DEF Wallet!remove_policy, Wallet!oz_set_policies, Wallet!exists
  <2>2. rules[id].policies \ {policy} \in SUBSET {Controller, OtherPolicy}
        BY <2>1 DEF Records, Wallet!Rules
  <2> QED BY <2>1, <2>2, ChangedRecord
<1>5. CASE Wallet!initiate_recovery_rule_removal(live)
      BY <1>5 DEF Wallet!initiate_recovery_rule_removal, Records, Ids, Wallet!Ids, Wallet!Rules,
                  Wallet!ContextTypes
<1> QED BY <1>1, <1>2, <1>3, <1>4, <1>5 DEF Wallet!Guarded, Ids

LEMMA CreateRecord ==
  ASSUME Shape, Records, CreateAccount \/ CreateBareAccount
  PROVE  Records'
<1>1. PICK key \in PubKeys :
        \/ rules' = [rules EXCEPT ![0] = Wallet!DefaultRule({key}),
                                  ![1] = Wallet!RecoveryRule(Controller)]
        \/ rules' = [rules EXCEPT ![0] = Wallet!DefaultRule({key})]
      BY DEF CreateAccount, CreateBareAccount, Wallet!constructor,
             Wallet!constructor_without_recovery
<1>2. /\ Wallet!RecoveryRule(Controller) \in Wallet!Rules
      /\ Wallet!DefaultRule({key}) \in Wallet!Rules
      BY DEF Wallet!RecoveryRule, Wallet!DefaultRule, Wallet!Rules, Wallet!ContextTypes
<1> QED BY <1>1, <1>2 DEF Shape, Records, Ids, Wallet!Ids, Wallet!Rules, Wallet!ContextTypes

LEMMA RecordsInductive ==
  SystemInv /\ Records /\ [SystemNext]_system_vars => Records'
<1> SUFFICES ASSUME SystemInv, Records, [SystemNext]_system_vars PROVE Records'
    OBVIOUS
<1>1. CASE UNCHANGED account_vars
      BY <1>1 DEF account_vars, Records, Ids, Wallet!Ids, Wallet!Rules, Wallet!ContextTypes
<1>2. CASE AddContextRule \/ AddRuleWithController
      BY <1>2, AddRecord DEF AddContextRule, AddRuleWithController, SystemInv
<1>3. CASE AddController
      BY <1>3, AddPolicyRecord DEF AddController, SystemInv, Ids
<1>4. CASE Enroll
      BY <1>4, EnrollRecord DEF Enroll, SystemInv
<1>5. CASE ChangeRules
      BY <1>5, GuardedRecord, AddSignerRecord, AddPolicyRecord, EnrollRecord
      DEF ChangeRules, SystemInv, Ids
<1>6. CASE CreateAccount \/ CreateBareAccount
      BY <1>6, CreateRecord DEF SystemInv
<1>7. CASE AccountCallsController \/ AccountCallsEnforce \/ AnyoneInitiates \/ LedgerCloses
      BY <1>1, <1>7 DEF AccountCallsController, AccountCallsEnforce, AnyoneInitiates, LedgerCloses
<1> QED BY <1>1, <1>2, <1>3, <1>4, <1>5, <1>6, <1>7 DEF SystemNext, system_vars

LEMMA AlwaysRecords == SystemSpec => []Records
<1>1. SystemInit => Records
      BY DEF SystemInit, Wallet!Init, Records, Ids
<1> QED BY <1>1, RecordsInductive, AlwaysSystemInv, PTL DEF SystemSpec

-----------------------------------------------------------------------------
(* Nothing is taken away.                                                  *)

RuleKept(id) ==
  /\ rules'[id] # None
  /\ rules[id].signers \subseteq rules'[id].signers
  /\ rules'[id] = [rules[id] EXCEPT !.signers = rules'[id].signers]

LEMMA SameIsKept ==
  ASSUME Records, NEW id \in Ids, rules[id] # None, rules'[id] = rules[id]
  PROVE  RuleKept(id)
BY DEF Records, RuleKept, Wallet!Rules

LEMMA AddRuleKeeps ==
  ASSUME Shape, Records, NEW type, NEW valid_until, NEW signers, NEW policies,
         Wallet!add_context_rule(type, valid_until, signers, policies)
  PROVE  RecoveryKept /\ \A id \in Ids : rules[id] # None => RuleKept(id)
<1>1. ASSUME NEW id \in Ids, rules[id] # None PROVE rules'[id] = rules[id]
      BY <1>1, AddRuleShape, IdsAreNumbers DEF Shape
<1> QED BY <1>1, AddRuleShape, SameIsKept

LEMMA AddSignerKeeps ==
  ASSUME Shape, Records, Wallet!AddSigner
  PROVE  RecoveryKept /\ \A id \in Ids : rules[id] # None => RuleKept(id)
<1>1. PICK r \in Ids, key \in PubKeys : Wallet!add_signer(r, key)
      BY DEF Wallet!AddSigner, Ids
<1>2. rules' = [rules EXCEPT ![r].signers = rules[r].signers \cup {key}] /\ rules[r] # None
      BY <1>1 DEF Wallet!add_signer, Wallet!oz_set_signers, Wallet!exists
<1>3. rules[r] \in Wallet!Rules
      BY <1>2 DEF Records
<1>4. rules'[r] = [rules[r] EXCEPT !.signers = rules[r].signers \cup {key}]
      BY <1>2 DEF Shape
<1>5. rules'[r].signers = rules[r].signers \cup {key} /\ rules'[r] \in Wallet!Rules
      BY <1>3, <1>4 DEF Wallet!Rules
<1>6. RuleKept(r)
      BY <1>4, <1>5, SystemAssumption DEF RuleKept
<1>7. ASSUME NEW id \in Ids, id # r PROVE rules'[id] = rules[id]
      BY <1>2, <1>7 DEF Shape
<1> QED BY <1>6, <1>7, SameIsKept, AddSignerShape

(* While a recovery is live, no authorised call takes a rule, a signer, a
   policy or the enrolment from the account (contract.rs, the guards). *)
THEOREM NothingIsRemoved == SystemSpec => NothingRemovedWhilePending
<1> DEFINE A == has_pending(Self) /\ recovery_controller = Controller =>
                  /\ recovery_rule_id' = recovery_rule_id
                  /\ \A id \in Wallet!Ids : rules[id] # None =>
                       /\ rules'[id] # None
                       /\ rules[id].signers \subseteq rules'[id].signers
                       /\ rules'[id] = [rules[id] EXCEPT !.signers = rules'[id].signers]
<1>1. SystemInv /\ Records /\ [SystemNext]_system_vars => [A]_system_vars
  <2> DEFINE Kept == RecoveryKept /\ \A id \in Ids : rules[id] # None => RuleKept(id)
  <2> SUFFICES ASSUME SystemInv, Records, SystemNext, has_pending(Self),
                      recovery_controller = Controller
               PROVE  Kept
      BY DEF RuleKept, RecoveryKept, Ids
  <2>1. live_answers = {TRUE} /\ recovery_controller # None /\ recovery_rule_id # None
        BY SystemAssumption DEF live_answers, SystemInv, Shape
  <2>2. CASE UNCHANGED account_vars
    <3>1. ASSUME NEW id \in Ids, rules[id] # None PROVE RuleKept(id)
          BY <2>2, <3>1, SameIsKept DEF account_vars
    <3> QED BY <2>2, <3>1 DEF account_vars, RecoveryKept
  <2>3. CASE AddContextRule \/ AddRuleWithController
        BY <2>3, AddRuleKeeps DEF AddContextRule, AddRuleWithController, SystemInv
  <2>4. CASE ChangeRules
    <3>1. \/ Wallet!Guarded(TRUE)
          \/ Wallet!AddSigner
          \/ \E r \in Ids : Wallet!add_policy(r, OtherPolicy, TRUE)
          \/ Wallet!enroll_zk_recovery(OtherPolicy)
          BY <2>1, <2>4 DEF ChangeRules, Ids
    <3>2. ~Wallet!Guarded(TRUE)
          BY <2>1, GuardedShape DEF SystemInv
    <3>3. ~\E r \in Ids : Wallet!add_policy(r, OtherPolicy, TRUE)
          BY <2>1 DEF Wallet!add_policy, Wallet!guard_no_pending
    <3>4. ~Wallet!enroll_zk_recovery(OtherPolicy)
          BY <2>1 DEF Wallet!enroll_zk_recovery
    <3> QED BY <3>1, <3>2, <3>3, <3>4, AddSignerKeeps DEF SystemInv
  <2>5. ~AddController /\ ~Enroll
        BY <2>1 DEF AddController, Enroll, Wallet!add_policy, Wallet!guard_no_pending,
                    Wallet!enroll_zk_recovery
  <2>6. ~CreateAccount /\ ~CreateBareAccount
        BY <2>1, NotDeployed
        DEF SystemInv, CreateAccount, CreateBareAccount, Wallet!constructor,
            Wallet!constructor_without_recovery
  <2>7. CASE AccountCallsController \/ AccountCallsEnforce \/ AnyoneInitiates \/ LedgerCloses
        BY <2>2, <2>7 DEF AccountCallsController, AccountCallsEnforce, AnyoneInitiates, LedgerCloses
  <2> QED BY <2>3, <2>4, <2>5, <2>6, <2>7 DEF SystemNext
<1> QED BY <1>1, AlwaysSystemInv, AlwaysRecords, PTL DEF SystemSpec, NothingRemovedWhilePending

-----------------------------------------------------------------------------
(* The completion is open.                                                 *)

(* The rule that a completion goes through is there, for calls to the account,
   for ever, and the controller alone decides. *)
RuleIntact ==
  recovery_controller = Controller =>
    /\ rules[recovery_rule_id] # None
    /\ rules[recovery_rule_id].context_type = Self
    /\ rules[recovery_rule_id].valid_until = None
    /\ rules[recovery_rule_id].policies = {Controller}

(* What is pending is a record. *)
PendingIsRecord == now \in Nat /\ Pending[Self] \in PendingRecovery \cup {None}

OpenInv == RuleIntact /\ PendingIsRecord

LEMMA EnrolledHasRule ==
  ASSUME Shape, recovery_controller = Controller
  PROVE  recovery_rule_id \in Ids /\ recovery_rule_id < next_rule_id
BY SystemAssumption DEF Shape

LEMMA NewRecoveryRule ==
  ASSUME NEW id \in Ids, Shape, Shape', rules'[id] = Wallet!RecoveryRule(Controller),
         recovery_rule_id' = id
  PROVE  RuleIntact'
<1>1. Wallet!RecoveryRule(Controller) \in Wallet!Rules
      BY DEF Wallet!RecoveryRule, Wallet!Rules, Wallet!ContextTypes
<1>2. Wallet!RecoveryRule(Controller) # None
      BY <1>1, SystemAssumption
<1> QED BY <1>2 DEF RuleIntact, Wallet!RecoveryRule

LEMMA SameRuleIntact ==
  ASSUME Shape, RuleIntact, RecoveryKept, recovery_controller = Controller =>
           rules'[recovery_rule_id] = rules[recovery_rule_id]
  PROVE  RuleIntact'
BY DEF RuleIntact, RecoveryKept

(* Only the signers of a rule change. *)
LEMMA SignersIntact ==
  ASSUME Shape, Records, RuleIntact, RecoveryKept, NEW id \in Ids, rules[id] # None,
         NEW S \in SUBSET PubKeys, rules' = [rules EXCEPT ![id].signers = S]
  PROVE  RuleIntact'
<1>1. CASE id # recovery_rule_id \/ recovery_controller # Controller
      BY <1>1, SameRuleIntact DEF Shape
<1>2. CASE id = recovery_rule_id /\ recovery_controller = Controller
  <2>1. rules[id] \in Wallet!Rules
        BY DEF Records
  <2>2. rules'[id] = [rules[id] EXCEPT !.signers = S]
        BY DEF Shape
  <2>3. /\ rules'[id].context_type = rules[id].context_type
        /\ rules'[id].valid_until = rules[id].valid_until
        /\ rules'[id].policies = rules[id].policies
        BY <2>1, <2>2 DEF Wallet!Rules
  <2>4. rules'[id] \in Wallet!Rules
        BY <2>1, <2>2 DEF Wallet!Rules
  <2>5. rules'[id] # None
        BY <2>4, SystemAssumption
  <2> QED BY <1>2, <2>3, <2>5 DEF RuleIntact, RecoveryKept
<1> QED BY <1>1, <1>2

LEMMA AddRuleIntact ==
  ASSUME Shape, RuleIntact, NEW type, NEW valid_until, NEW signers, NEW policies,
         Wallet!add_context_rule(type, valid_until, signers, policies)
  PROVE  RuleIntact'
<1>1. recovery_controller = Controller => rules'[recovery_rule_id] = rules[recovery_rule_id]
      BY AddRuleShape, EnrolledHasRule, IdsAreNumbers DEF Shape
<1> QED BY <1>1, AddRuleShape, SameRuleIntact

LEMMA AddPolicyIntact ==
  ASSUME Shape, RuleIntact, NEW id \in Ids, NEW policy, NEW live, Wallet!add_policy(id, policy, live)
  PROVE  RuleIntact'
<1>1. /\ rules' = [rules EXCEPT ![id].policies = rules[id].policies \cup {policy}]
      /\ id # recovery_rule_id
      BY DEF Wallet!add_policy, Wallet!oz_set_policies, Wallet!not_protected
<1>2. recovery_controller = Controller => rules'[recovery_rule_id] = rules[recovery_rule_id]
      BY <1>1 DEF Shape
<1> QED BY <1>2, AddPolicyShape, SameRuleIntact

LEMMA AddSignerIntact ==
  ASSUME Shape, Records, RuleIntact, Wallet!AddSigner
  PROVE  RuleIntact'
<1>1. PICK id \in Ids, key \in PubKeys : Wallet!add_signer(id, key)
      BY DEF Wallet!AddSigner, Ids
<1>2. rules' = [rules EXCEPT ![id].signers = rules[id].signers \cup {key}] /\ rules[id] # None
      BY <1>1 DEF Wallet!add_signer, Wallet!oz_set_signers, Wallet!exists
<1>3. rules[id].signers \cup {key} \in SUBSET PubKeys
      BY <1>2 DEF Records, Wallet!Rules
<1> QED BY <1>2, <1>3, AddSignerShape, SignersIntact

(* The guarded entry points leave the recovery rule alone, but the announced
   removal, after which the account has no controller. *)
LEMMA GuardedIntact ==
  ASSUME Shape, Records, RuleIntact, NEW live \in BOOLEAN, Wallet!Guarded(live)
  PROVE  RuleIntact'
<1>1. ASSUME NEW id \in Ids, \/ Wallet!remove_context_rule(id, live)
                             \/ \E v \in Expiries \cup {None} :
                                  Wallet!update_context_rule_valid_until(id, v, live)
                             \/ \E policy \in {Controller, OtherPolicy} :
                                  Wallet!remove_policy(id, policy, live)
      PROVE  RuleIntact'
  <2> DEFINE Same == recovery_controller = Controller => rules'[recovery_rule_id] = rules[recovery_rule_id]
  <2>1. ASSUME Wallet!remove_context_rule(id, live) PROVE RecoveryKept /\ Same
    <3>1. id # recovery_rule_id /\ RecoveryKept /\ rules' = [rules EXCEPT ![id] = None]
          BY <2>1 DEF Wallet!remove_context_rule, Wallet!oz_remove_context_rule, Wallet!not_protected,
             Wallet!recovery_state, RecoveryKept
    <3> QED BY <3>1 DEF Shape
  <2>2. ASSUME NEW v \in Expiries \cup {None}, Wallet!update_context_rule_valid_until(id, v, live)
        PROVE  RecoveryKept /\ Same
    <3>1. id # recovery_rule_id /\ RecoveryKept /\ rules' = [rules EXCEPT ![id].valid_until = v]
          BY <2>2 DEF Wallet!update_context_rule_valid_until, Wallet!not_protected,
             Wallet!recovery_state, RecoveryKept
    <3> QED BY <3>1 DEF Shape
  <2>3. ASSUME NEW policy \in {Controller, OtherPolicy}, Wallet!remove_policy(id, policy, live)
        PROVE  RecoveryKept /\ Same
    <3>1. /\ id # recovery_rule_id /\ RecoveryKept
          /\ rules' = [rules EXCEPT ![id].policies = rules[id].policies \ {policy}]
          BY <2>3 DEF Wallet!remove_policy, Wallet!oz_set_policies, Wallet!not_protected,
             Wallet!recovery_state, RecoveryKept
    <3> QED BY <3>1 DEF Shape
  <2>4. RecoveryKept /\ Same
        BY <1>1, <2>1, <2>2, <2>3
  <2> QED BY <2>4, SameRuleIntact
<1>2. ASSUME NEW id \in Ids, NEW key \in PubKeys, Wallet!remove_signer(id, key, live)
      PROVE  RuleIntact'
  <2>1. /\ rules' = [rules EXCEPT ![id].signers = rules[id].signers \ {key}]
        /\ rules[id] # None /\ RecoveryKept
        BY <1>2 DEF Wallet!remove_signer, Wallet!oz_set_signers, Wallet!exists,
           Wallet!recovery_state, RecoveryKept
  <2>2. rules[id].signers \ {key} \in SUBSET PubKeys
        BY <2>1 DEF Records, Wallet!Rules
  <2> QED BY <2>1, <2>2, SignersIntact
<1>3. CASE Wallet!initiate_recovery_rule_removal(live)
      BY <1>3, SameRuleIntact DEF Wallet!initiate_recovery_rule_removal, RecoveryKept
<1>4. CASE Wallet!execute_recovery_rule_removal(live)
  <2>1. recovery_controller' = None
        BY <1>4 DEF Wallet!execute_recovery_rule_removal, Wallet!forget_recovery
  <2> QED BY <2>1, SystemAssumption DEF RuleIntact
<1> QED BY <1>1, <1>2, <1>3, <1>4 DEF Wallet!Guarded, Ids

LEMMA EnrollIntact ==
  ASSUME Shape, NEW controller \in {Controller, OtherPolicy}, Wallet!enroll_zk_recovery(controller)
  PROVE  RuleIntact'
<1>1. /\ next_rule_id \in Ids /\ recovery_rule_id' = next_rule_id /\ recovery_controller' = controller
      /\ rules' = [rules EXCEPT ![next_rule_id] = Wallet!RecoveryRule(controller)] /\ Shape'
      BY EnrollShape DEF Wallet!enroll_zk_recovery, Wallet!install_recovery_rule
<1>2. CASE controller = OtherPolicy
      BY <1>1, <1>2, SystemAssumption DEF RuleIntact
<1>3. CASE controller = Controller
  <2>1. rules'[next_rule_id] = Wallet!RecoveryRule(Controller)
        BY <1>1, <1>3 DEF Shape
  <2> QED BY <1>1, <2>1, NewRecoveryRule
<1> QED BY <1>2, <1>3

LEMMA CreateIntact ==
  ASSUME SystemInv, SystemInv', CreateAccount \/ CreateBareAccount
  PROVE  RuleIntact'
<1>1. CASE CreateAccount
  <2>1. PICK key \in PubKeys : Wallet!constructor({key}, Controller)
        BY <1>1 DEF CreateAccount
  <2>2. /\ rules' = [rules EXCEPT ![0] = Wallet!DefaultRule({key}),
                                  ![1] = Wallet!RecoveryRule(Controller)]
        /\ recovery_rule_id' = 1
        BY <2>1 DEF Wallet!constructor
  <2>3. rules'[1] = Wallet!RecoveryRule(Controller)
        BY <2>2, IdsAreNumbers DEF SystemInv, Shape
  <2> QED BY <2>2, <2>3, NewRecoveryRule, IdsAreNumbers DEF SystemInv
<1>2. CASE CreateBareAccount
  <2>1. RecoveryKept /\ ~Wallet!deployed
        BY <1>2 DEF CreateBareAccount, Wallet!constructor_without_recovery, Wallet!recovery_state,
           RecoveryKept
  <2>2. recovery_controller' = None
        BY <2>1, NotDeployed DEF SystemInv, RecoveryKept
  <2> QED BY <2>2, SystemAssumption DEF RuleIntact
<1> QED BY <1>1, <1>2

LEMMA RuleIntactInductive ==
  SystemInv /\ Records /\ RuleIntact /\ [SystemNext]_system_vars => RuleIntact'
<1> SUFFICES ASSUME SystemInv, Records, RuleIntact, [SystemNext]_system_vars PROVE RuleIntact'
    OBVIOUS
<1>1. CASE UNCHANGED account_vars
      BY <1>1 DEF account_vars, RuleIntact
<1>2. CASE AddContextRule \/ AddRuleWithController
      BY <1>2, AddRuleIntact DEF AddContextRule, AddRuleWithController, SystemInv
<1>3. CASE AddController
      BY <1>3, AddPolicyIntact DEF AddController, SystemInv, Ids
<1>4. CASE Enroll
      BY <1>4, EnrollIntact DEF Enroll, SystemInv
<1>5. CASE ChangeRules
  <2>1. PICK live \in live_answers :
          \/ Wallet!Guarded(live)
          \/ Wallet!AddSigner
          \/ \E r \in Ids : Wallet!add_policy(r, OtherPolicy, live)
          \/ next_rule_id < MaxRules /\ Wallet!enroll_zk_recovery(OtherPolicy)
        BY <1>5 DEF ChangeRules, Ids
  <2>2. live \in BOOLEAN
        BY DEF live_answers, has_pending
  <2> QED BY <2>1, <2>2, GuardedIntact, AddSignerIntact, AddPolicyIntact, EnrollIntact DEF SystemInv
<1>6. CASE CreateAccount \/ CreateBareAccount
      BY <1>6, CreateIntact, CreateInductive
<1>7. CASE AccountCallsController \/ AccountCallsEnforce \/ AnyoneInitiates \/ LedgerCloses
      BY <1>1, <1>7 DEF AccountCallsController, AccountCallsEnforce, AnyoneInitiates, LedgerCloses
<1> QED BY <1>1, <1>2, <1>3, <1>4, <1>5, <1>6, <1>7 DEF SystemNext, system_vars

(* An attempt is recorded by its initiation alone, and the calls of an account
   take no time. *)
LEMMA PendingIsRecordInductive ==
  SystemInv /\ PendingIsRecord /\ [SystemNext]_system_vars => PendingIsRecord'
<1> SUFFICES ASSUME SystemInv, PendingIsRecord, [SystemNext]_system_vars PROVE PendingIsRecord'
    OBVIOUS
<1> DEFINE Ended == now' = now /\ (Pending'[Self] = Pending[Self] \/ Pending'[Self] = None)
<1>1. SUFFICES ASSUME ~Ended PROVE PendingIsRecord'
      BY DEF PendingIsRecord, PendingRecovery
<1>2. ~UNCHANGED system_vars /\ ~\E rule \in ContextRules : install(Self, rule)
      BY <1>1 DEF system_vars, vars, install
<1>3. ASSUME NEW id, NEW call, authorise(id, call)
      PROVE  Pending'[Self] = Pending[Self] \/ Pending'[Self] = None
      BY <1>3, SystemAssumption DEF authorise, enforce, zk_vars, SystemInv, Stored
<1>4. ~(AddContextRule \/ AddRuleWithController \/ AddController \/ Enroll)
  <2>1. ~AddContextRule
        BY <1>1, <1>3 DEF AddContextRule, Wallet!add_context_rule
  <2>2. ~(AddRuleWithController \/ AddController \/ Enroll)
        BY <1>1 DEF AddRuleWithController, AddController, Enroll, install
  <2> QED BY <2>1, <2>2
<1>5. ~ChangeRules
  <2>1. ASSUME ChangeRules PROVE now' = now
    <3>1. PICK live \in live_answers :
            \/ Wallet!Guarded(live)
            \/ Wallet!AddSigner
            \/ \E r \in Ids : Wallet!add_policy(r, OtherPolicy, live)
            \/ Wallet!enroll_zk_recovery(OtherPolicy)
          BY <2>1 DEF ChangeRules, Ids
    <3>2. CASE Wallet!Guarded(live)
          BY <3>2 DEF Wallet!Guarded, Wallet!remove_context_rule, Wallet!remove_signer,
             Wallet!update_context_rule_valid_until, Wallet!remove_policy,
             Wallet!initiate_recovery_rule_removal, Wallet!execute_recovery_rule_removal
    <3>3. CASE \/ Wallet!AddSigner \/ \E r \in Ids : Wallet!add_policy(r, OtherPolicy, live)
               \/ Wallet!enroll_zk_recovery(OtherPolicy)
          BY <3>3 DEF Wallet!AddSigner, Wallet!add_signer, Wallet!add_policy, Wallet!enroll_zk_recovery
    <3> QED BY <3>1, <3>2, <3>3
  <2> QED BY <1>1, <1>3, <2>1 DEF ChangeRules
<1>6. ~(CreateAccount \/ CreateBareAccount)
      BY <1>1 DEF CreateAccount, CreateBareAccount, Wallet!constructor, zk_vars,
         Wallet!constructor_without_recovery
<1>7. ~AccountCallsController
      BY <1>1, <1>2, SystemAssumption DEF AccountCallsController, cancel_recovery, burn_nullifier,
         without_pending_of, insert_for, insert_bound, SystemInv, Stored
<1>8. ~AccountCallsEnforce
      BY <1>1, SystemAssumption DEF AccountCallsEnforce, enforce, SystemInv, Stored
<1>9. CASE AnyoneInitiates
  <2>1. PICK k \in PubKeys, n \in Nullifiers :
          now' = now /\ Pending' = [Pending EXCEPT ![Self] = new_pending(k, n)]
        BY <1>9 DEF AnyoneInitiates, initiate_recovery
  <2>2. new_pending(k, n) \in PendingRecovery
        BY NewPendingType DEF PendingIsRecord
  <2>3. Pending'[Self] = new_pending(k, n)
        BY <2>1, SystemAssumption DEF SystemInv, Stored
  <2> QED BY <2>1, <2>2, <2>3 DEF PendingIsRecord, PendingRecovery
<1>10. CASE LedgerCloses
      BY <1>10 DEF LedgerCloses, Tick, PendingIsRecord, PendingRecovery
<1> QED BY <1>2, <1>4, <1>5, <1>6, <1>7, <1>8, <1>9, <1>10 DEF SystemNext

LEMMA AlwaysOpenInv == SystemSpec => []OpenInv
<1>1. SystemInit => OpenInv
      BY SystemAssumption
      DEF SystemInit, Init, Wallet!Init, OpenInv, RuleIntact, PendingIsRecord
<1>2. SystemInv /\ Records /\ OpenInv /\ [SystemNext]_system_vars => OpenInv'
      BY RuleIntactInductive, PendingIsRecordInductive DEF OpenInv
<1> QED BY <1>1, <1>2, AlwaysSystemInv, AlwaysRecords, PTL DEF SystemSpec

Matured == has_pending(Self) /\ now >= Pending[Self].executable_after /\ recovery_controller = Controller

(* Once the delay of a recovery is over, and until its window closes, nothing
   stands in the way of completing it: the account's recovery rule covers the
   call and needs nobody but the controller, the controller was installed for
   that rule, and the record is executable and for a key (policy.rs, enforce;
   contract.rs, __check_auth).  This is what RecoveryCanComplete comes to. *)
CompletionIsOpen ==
  Matured =>
    /\ Wallet!covers(recovery_rule_id, Self) /\ rules[recovery_rule_id].policies = {Controller}
    /\ Installed[Self] = recovery_rule_id
    /\ is_executable(Self) /\ Pending[Self].new_pubkey \in PubKeys

(* Whatever calls an account authorised before or since, a matured recovery of
   an enrolled account is open. *)
THEOREM RecoveriesStayOpen == SystemSpec => []CompletionIsOpen
<1>1. SystemInv /\ OpenInv => CompletionIsOpen
  <2> SUFFICES ASSUME SystemInv, OpenInv, Matured
               PROVE  /\ Wallet!covers(recovery_rule_id, Self)
                      /\ rules[recovery_rule_id].policies = {Controller}
                      /\ Installed[Self] = recovery_rule_id
                      /\ is_executable(Self) /\ Pending[Self].new_pubkey \in PubKeys
      BY DEF CompletionIsOpen
  <2>1. recovery_rule_id \in Ids /\ rules[recovery_rule_id] # None
        BY EnrolledHasRule DEF Matured, SystemInv, OpenInv, RuleIntact
  <2>2. Wallet!covers(recovery_rule_id, Self) /\ rules[recovery_rule_id].policies = {Controller}
        BY <2>1 DEF Matured, OpenInv, RuleIntact, Wallet!covers, Wallet!exists, Wallet!unexpired, Ids
  <2>3. Installed[Self] = recovery_rule_id
        BY DEF Matured, SystemInv, ControllerAgrees
  <2>4. is_executable(Self) /\ Pending[Self].new_pubkey \in PubKeys
        BY DEF Matured, has_pending, is_executable, OpenInv, PendingIsRecord, PendingRecovery
  <2> QED BY <2>2, <2>3, <2>4
<1> QED BY <1>1, AlwaysSystemInv, AlwaysOpenInv, PTL

(* What a completion makes of the state: it gives each variable its next value,
   so there always is such a step. *)
Completing ==
  /\ rules' = [rules EXCEPT ![next_rule_id] = Wallet!DefaultRule({Pending[Self].new_pubkey})]
  /\ next_rule_id' = next_rule_id + 1
  /\ Nullifier' = [Nullifier EXCEPT ![Pending[Self].nullifier] = Spent]
  /\ Pending' = [Pending EXCEPT ![Self] = None]
  /\ completed' = completed \cup {Pending[Self].nullifier}
  /\ UNCHANGED <<now, Leaves, Installed, account_state, recovery_rule_id, recovery_controller,
                 recovery_removal_at, enrolled_at>>

(* Where a completion is open and the bound of the instance leaves an id, the
   step that installs the proven key as a Default rule and ends the recovery is
   a step of the system (submitZeroSignerCompletion). *)
THEOREM OpenCompletes ==
  ASSUME Matured, CompletionIsOpen, next_rule_id \in Ids, Self \in DOMAIN Pending, Completing
  PROVE  AddContextRule /\ Pending'[Self] = None
<1> DEFINE key == Pending[Self].new_pubkey
           call == [contract |-> Self, fn_name |-> "add_context_rule", signers |-> {key}, policies |-> {}]
<1>1. /\ Wallet!covers(recovery_rule_id, Self) /\ rules[recovery_rule_id].policies = {Controller}
      /\ Installed[Self] = recovery_rule_id /\ is_executable(Self) /\ key \in PubKeys
      BY DEF CompletionIsOpen
<1>2. recovery_rule_id \in Wallet!Ids /\ Wallet!require_auth
      BY <1>1 DEF Wallet!covers, Wallet!exists, Wallet!require_auth
<1>3. enforce(Self, recovery_rule_id, call)
      BY <1>1 DEF enforce, is_completion, Completing
<1>4. authorise(recovery_rule_id, call)
      BY <1>1, <1>3 DEF authorise
<1>5. Wallet!add_context_rule(Default, None, {key}, {})
      BY <1>2 DEF Wallet!add_context_rule, Wallet!oz_add_context_rule, Wallet!well_formed,
         Wallet!not_past, Wallet!recovery_state, Wallet!DefaultRule, Completing, Ids
<1>6. AddContextRule
  <2>1. /\ Default \in ContextTypes /\ None \in ValidUntils
        /\ {key} \in SUBSET PubKeys /\ {} \in SUBSET {OtherPolicy}
        BY <1>1 DEF ContextTypes, ValidUntils
  <2>2. Controller \in rules[recovery_rule_id].policies
        BY <1>1
  <2> HIDE DEF key
  <2> QED BY <1>2, <1>4, <1>5, <2>1, <2>2 DEF AddContextRule
<1>7. Pending'[Self] = None
      BY DEF Completing
<1> QED BY <1>6, <1>7
-----------------------------------------------------------------------------
(***************************************************************************)
(* The account and the controller each behave in the system as they do     *)
(* alone: what one asks of the other is among the answers and the calls    *)
(* the component is specified for.                                         *)
(*                                                                         *)
(* For the account that is all of SmartAccount.  Of the controller it is   *)
(* the promise: a deployment installs and inserts in one transaction, and  *)
(* an account's own rule ids and calls reach install and enforce, so not   *)
(* every step is one call of ZkRecovery, but each is one step of the       *)
(* promise or none.                                                        *)
(***************************************************************************)

(* Leaves and the rules that are installed are nothing the promise speaks of. *)
LEMMA LeavesAndInstalls ==
  ASSUME IInv, UNCHANGED <<now, Nullifier, Pending, completed, account_state>>,
         Leaves' \in Seq(Nullifiers), Installed' \in [Accounts -> RuleIds \cup {None}]
  PROVE  IInv' /\ [Abstract!Next]_(Abstract!vars)
<1>1. UNCHANGED <<Nonce, Cancels, LastCancel, RateWindow, log>>
      BY DEF account_state
<1>2. ReservationsMatchPendings' /\ PendingIsOwn'
      BY DEF IInv, ReservationsMatchPendings, PendingIsOwn
<1>3. TypeOK'
      BY <1>1 DEF IInv, TypeOK
<1>4. \A a \in Accounts : LiveAttempt(a)' = LiveAttempt(a)
      BY AttemptKept
<1>5. UNCHANGED Abstract!vars
      BY <1>4 DEF Abstract!vars
<1> QED BY <1>2, <1>3, <1>5 DEF IInv

(* install for one of the account's own rule ids. *)
LEMMA OwnInstall ==
  ASSUME IInv, NEW rule, rule.id \in Ids, install(Self, rule)
  PROVE  IInv' /\ [Abstract!Next]_(Abstract!vars)
<1>1. Leaves' \in Seq(Nullifiers)
      BY DEF install, IInv, TypeOK
<1>2. Installed' \in [Accounts -> RuleIds \cup {None}]
      BY SystemAssumption DEF install, IInv, TypeOK, Ids
<1> QED BY <1>1, <1>2, LeavesAndInstalls DEF install

(* What an account's authorisation makes the controller do. *)
LEMMA Authorises ==
  ASSUME IInv, UNCHANGED now, NEW id, NEW call, authorise(id, call)
  PROVE  IInv' /\ [Abstract!Next]_(Abstract!vars)
<1>1. CASE enforce(Self, id, call)
      BY <1>1, EnforcePreserves, EnforceRefines, SystemAssumption DEF Abstract!Next
<1>2. CASE UNCHANGED zk_vars
      BY <1>2, LeavesAndInstalls DEF zk_vars, IInv, TypeOK
<1> QED BY <1>1, <1>2 DEF authorise

LEMMA CallsAreSteps ==
  ASSUME AccountCallsController \/ AnyoneInitiates \/ LedgerCloses
  PROVE  Next
<1> USE SystemAssumption
<1>1. CASE AccountCallsController
      BY <1>1 DEF AccountCallsController, Next, Cancel, Burn, Insert, Install
<1>2. CASE AnyoneInitiates
      BY <1>2 DEF AnyoneInitiates, Next, Initiate
<1>3. CASE LedgerCloses
      BY <1>3 DEF LedgerCloses, Next
<1> QED BY <1>1, <1>2, <1>3

LEMMA SystemRefines ==
  ASSUME IInv, [SystemNext]_system_vars
  PROVE  IInv' /\ [Abstract!Next]_(Abstract!vars)
<1> USE SystemAssumption
<1>1. CASE CreateAccount
  <2>1. PICK key \in PubKeys, commitment \in Secrets \cup {NonCanonical} :
          /\ Wallet!constructor({key}, Controller)
          /\ Installed' = [Installed EXCEPT ![Self] = 1]
          /\ require_canonical(commitment)
          /\ insert_leaf(Self, commitment)
          /\ UNCHANGED <<Nullifier, Pending, completed, account_state>>
        BY <1>1 DEF CreateAccount
  <2>2. UNCHANGED now
        BY <2>1 DEF Wallet!constructor
  <2>3. Leaves' \in Seq(Nullifiers)
    <3>1. <<Self, commitment>> \in Nullifiers
          BY <2>1 DEF require_canonical, Nullifiers
    <3> QED BY <2>1, <3>1 DEF insert_leaf, IInv, TypeOK
  <2>4. Installed' \in [Accounts -> RuleIds \cup {None}]
        BY <2>1, IdsAreNumbers DEF IInv, TypeOK, Ids
  <2> QED BY <2>1, <2>2, <2>3, <2>4, LeavesAndInstalls
<1>2. CASE CreateBareAccount
  <2>1. UNCHANGED now /\ UNCHANGED zk_vars
        BY <1>2 DEF CreateBareAccount, Wallet!constructor_without_recovery
  <2> QED BY <2>1, LeavesAndInstalls DEF zk_vars, IInv, TypeOK
<1>3. CASE AddContextRule
  <2>1. PICK id, call : authorise(id, call)
        BY <1>3 DEF AddContextRule
  <2>2. UNCHANGED now
        BY <1>3 DEF AddContextRule, Wallet!add_context_rule
  <2> QED BY <2>1, <2>2, Authorises
<1>4. CASE ChangeRules
  <2>1. PICK id, call : authorise(id, call)
        BY <1>4 DEF ChangeRules
  <2>2. UNCHANGED now
        BY <1>4 DEF ChangeRules, Wallet!Guarded, Wallet!remove_context_rule,
             Wallet!update_context_rule_valid_until, Wallet!remove_signer, Wallet!remove_policy,
             Wallet!initiate_recovery_rule_removal, Wallet!execute_recovery_rule_removal,
             Wallet!AddSigner, Wallet!add_signer, Wallet!add_policy, Wallet!enroll_zk_recovery
  <2> QED BY <2>1, <2>2, Authorises
<1>5. CASE AddRuleWithController
  <2>1. PICK type \in ContextTypes, signers \in SUBSET PubKeys :
          install(Self, [id |-> next_rule_id, context_type |-> type, signers |-> signers])
        BY <1>5 DEF AddRuleWithController
  <2>2. next_rule_id \in Ids
        BY <1>5 DEF AddRuleWithController, Wallet!add_context_rule, Wallet!oz_add_context_rule, Ids
  <2> QED BY <2>1, <2>2, OwnInstall
<1>6. CASE AddController
      BY <1>6, OwnInstall DEF AddController, Ids
<1>7. CASE Enroll
  <2>1. next_rule_id \in Ids
        BY <1>7 DEF Enroll, Wallet!enroll_zk_recovery, Wallet!install_recovery_rule, Ids
  <2> QED BY <1>7, <2>1, OwnInstall DEF Enroll
<1>8. CASE AccountCallsController \/ AnyoneInitiates \/ LedgerCloses
      BY <1>8, CallsAreSteps, NextIInv, StepRefines
<1>9. CASE AccountCallsEnforce
      BY <1>9, EnforcePreserves, EnforceRefines DEF AccountCallsEnforce, Abstract!Next
<1>10. CASE UNCHANGED system_vars
  <2>1. UNCHANGED vars
        BY <1>10 DEF system_vars
  <2> QED BY <2>1, NextIInv, StepRefines
<1> QED BY <1>1, <1>2, <1>3, <1>4, <1>5, <1>6, <1>7, <1>8, <1>9, <1>10 DEF SystemNext

LEMMA SystemIInv == SystemSpec => []IInv
<1>1. SystemInit => IInv
      BY InitIInv DEF SystemInit
<1>2. IInv /\ [SystemNext]_system_vars => IInv'
      BY SystemRefines
<1> QED BY <1>1, <1>2, PTL DEF SystemSpec

(* With the account's own rules in the contract's hands, a deployment in one
   transaction and forged calls of the policy, the contract still keeps the
   promise of TimelockedRecovery (controller.rs, policy.rs). *)
THEOREM SystemKeepsPromise == SystemSpec => Promise
<1>1. SystemInit => Abstract!Init
      BY InitRefines DEF SystemInit
<1>2. IInv /\ [SystemNext]_system_vars => [Abstract!Next]_(Abstract!vars)
      BY SystemRefines
<1> QED BY <1>1, <1>2, SystemIInv, PTL DEF SystemSpec, Promise, Abstract!Spec

(* Reservations and stored records correspond one to one in the system too. *)
THEOREM SystemReservationsSound == SystemSpec => []ReservationsMatchPendings
<1>1. IInv => ReservationsMatchPendings
      BY DEF IInv
<1> QED BY <1>1, SystemIInv, PTL

-----------------------------------------------------------------------------

LEMMA WalletSteps ==
  ASSUME [SystemNext]_system_vars
  PROVE  [Wallet!Next]_(Wallet!vars)
<1> USE SystemAssumption
<1>1. CASE CreateAccount \/ CreateBareAccount
  <2>1. Wallet!Deploy
        BY <1>1 DEF CreateAccount, CreateBareAccount, Wallet!Deploy
  <2> QED BY <2>1 DEF Wallet!Next
<1>2. CASE AddContextRule \/ AddRuleWithController
  <2>1. ContextTypes \subseteq Wallet!ContextTypes /\ ValidUntils = Expiries \cup {None}
        BY DEF ContextTypes, Wallet!ContextTypes, ValidUntils
  <2>2. PICK type \in ContextTypes, valid_until \in ValidUntils, signers \in SUBSET PubKeys,
             policies \in SUBSET {Controller, OtherPolicy} :
          Wallet!add_context_rule(type, valid_until, signers, policies)
        BY <1>2 DEF AddContextRule, AddRuleWithController
  <2>3. Wallet!AddContextRule
        BY <2>1, <2>2 DEF Wallet!AddContextRule
  <2> QED BY <2>3 DEF Wallet!Next
<1>3. CASE ChangeRules \/ AddController
  <2>1. PICK live \in live_answers :
          \/ Wallet!Guarded(live)
          \/ Wallet!AddSigner
          \/ \E id \in Wallet!Ids, policy \in {Controller, OtherPolicy} :
               Wallet!add_policy(id, policy, live)
          \/ Wallet!enroll_zk_recovery(OtherPolicy)
        BY <1>3 DEF ChangeRules, AddController
  <2>2. live \in BOOLEAN
        BY DEF live_answers, has_pending
  <2> QED BY <2>1, <2>2 DEF Wallet!Next, Wallet!AddPolicy, Wallet!Enroll
<1>4. CASE Enroll
      BY <1>4 DEF Enroll, Wallet!Next, Wallet!Enroll
<1>5. CASE LedgerCloses
      BY <1>5 DEF LedgerCloses, Tick, account_vars, Wallet!Next, Wallet!Tick, Wallet!account_vars,
                  Wallet!recovery_state
<1>6. CASE AccountCallsController \/ AccountCallsEnforce \/ AnyoneInitiates
  <2>1. UNCHANGED now /\ UNCHANGED account_vars
        BY <1>6 DEF AccountCallsController, AccountCallsEnforce, AnyoneInitiates,
             cancel_recovery, burn_nullifier, insert_for, insert_bound, install, enforce,
             initiate_recovery
  <2> QED BY <2>1 DEF account_vars, Wallet!vars, Wallet!account_vars, Wallet!recovery_state
<1>7. CASE UNCHANGED system_vars
      BY <1>7 DEF system_vars, vars, account_vars, Wallet!vars, Wallet!account_vars,
                  Wallet!recovery_state
<1> QED BY <1>1, <1>2, <1>3, <1>4, <1>5, <1>6, <1>7 DEF SystemNext

(* The account of the system is a SmartAccount, whose controller answers for
   what is pending there (smart-account lib.rs, guard_no_pending). *)
THEOREM SystemHasASmartAccount == SystemSpec => Wallet!Spec
<1>1. SystemInit => Wallet!Init
      BY DEF SystemInit
<1>2. [SystemNext]_system_vars => [Wallet!Next]_(Wallet!vars)
      BY WalletSteps
<1> QED BY <1>1, <1>2, PTL DEF SystemSpec, Wallet!Spec
=============================================================================
