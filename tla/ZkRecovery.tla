----------------------------- MODULE ZkRecovery -----------------------------
(***************************************************************************)
(* The zk-recovery contract (src/contracts/zk-recovery): the pool of       *)
(* enrolled recovery credentials, the per-account recovery state machine,  *)
(* and the OZ Policy that lets an account complete a matured recovery.     *)
(*                                                                         *)
(* A contract call is one atomic step; a call that panics changes nothing, *)
(* so a check of the code is a guard of the action.  `account.require_auth'*)
(* is not a guard here: the account may authorise anything at any time,    *)
(* whoever holds its keys.  The account itself is modelled in              *)
(* SmartAccount and composed with this module in RecoverySystem.           *)
(*                                                                         *)
(* Data.  A credential (its nullifier, and the leaf that enrols it) is the *)
(* pair <<account, secret>>, since both hash the account and the secret.   *)
(* The root of the tree after k insertions is the number k.  A proof is    *)
(* the statement it proves; Proofs are the statements for which somebody   *)
(* who knows the secret ever produced a proof, and anyone may submit any   *)
(* of them, at any time, any number of times, with any call arguments.     *)
(*                                                                         *)
(* A definition marked "wrong variant" is no part of the model: it is the  *)
(* definition after it with a plausible mistake, kept to show that the     *)
(* property it breaks can be broken.                                       *)
(***************************************************************************)
EXTENDS Naturals, Sequences, FiniteSets

CONSTANTS
  Accounts,                \* account contract addresses
  Secrets,                 \* enrolment secrets (canonical field elements)
  NonCanonical,            \* a 32-byte commitment that is not below the field order
  PubKeys,                 \* P-256 public keys
  ZeroKey,                 \* the zeroed pubkey of cancel and revoke proofs
  Proofs,                  \* the statements proofs exist for
  Unused, Spent,           \* nullifier states; a reserved nullifier holds its account
  None,                    \* an absent storage entry
  delay_secs,              \* RecoveryConfig.delay_secs
  completion_window_secs,  \* RecoveryConfig.completion_window_secs
  timelock_floor_secs,     \* RecoveryConfig.timelock_floor_secs
  max_cancels,             \* RecoveryConfig.max_cancels
  RATE_WINDOW_SECS, RATE_LIMIT_MAX, CANCEL_COOLDOWN_SECS,
  RING_SIZE,               \* how many historic roots stay known
  MAX_LEAVES,              \* capacity of the tree
  Timelocks,               \* the timelock arguments callers try
  ContextRules,            \* the context rules install may be called with
  RuleIds,                 \* the rule ids enforce may be called for
  Calls,                   \* the calls an account may ask enforce to authorise
  MaxTime                  \* bound: the clock stops here

VARIABLES
  now,         \* ledger timestamp
  Leaves,      \* the inserted leaves, in order
  Nullifier,   \* Nullifier[n]: Unused, the account it is reserved for, or Spent
  Pending,     \* Pending[a]: the stored PendingRecovery, live or stale, or None
  Nonce,       \* Nonce[a]: nonce of the last accepted proof
  Cancels,     \* Cancels[a]: cancels ever made
  LastCancel,  \* LastCancel[a]: time of the last cancel, or None
  RateWindow,  \* RateWindow[a]: the retained initiations; the code's Vec of
               \* timestamps, each tagged with its nonce so that a set can
               \* hold two of the same second
  Installed,   \* Installed[a]: rule id the policy was installed under, or None
  completed,   \* history: the nullifiers spent by completing a recovery
  log          \* history: log[a] has one entry per accepted proof of a

account_state == <<Nonce, Cancels, LastCancel, RateWindow, log>>
vars == <<now, Leaves, Nullifier, Pending, Nonce, Cancels, LastCancel,
          RateWindow, Installed, completed, log>>

Nullifiers == Accounts \X Secrets
OwnerOf(nullifier) == nullifier[1]

ACTION_INITIATE == "initiate"
ACTION_CANCEL   == "cancel"
ACTION_REVOKE   == "revoke"
Actions == {ACTION_INITIATE, ACTION_CANCEL, ACTION_REVOKE}

Statements ==
  [action: Actions, account: Accounts, new_pubkey: PubKeys \cup {ZeroKey},
   nonce: Nat, timelock_secs: Nat, root: Nat, nullifier: Nullifiers]

PendingRecovery ==
  [new_pubkey: PubKeys, nullifier: Nullifiers, initiated_at: Nat,
   executable_after: Nat, expires_at: Nat]

(* A live recovery as TimelockedRecovery sees it. *)
Attempts == [key: PubKeys, credential: Nullifiers, ready: Nat, deadline: Nat]

LogEntries == [action: Actions, nonce: Nat, at: Nat]

ASSUME ConstantsAssumption ==
  /\ Proofs \subseteq Statements
  /\ Unused \notin Accounts /\ Spent \notin Accounts /\ Unused # Spent
  /\ None \notin PendingRecovery /\ None \notin Attempts /\ None \notin Nat
  /\ NonCanonical \notin Secrets
  /\ delay_secs \in Nat /\ completion_window_secs \in Nat /\ timelock_floor_secs \in Nat
  /\ max_cancels \in Nat /\ CANCEL_COOLDOWN_SECS \in Nat
  /\ RATE_WINDOW_SECS \in Nat /\ RATE_LIMIT_MAX \in Nat
  /\ RING_SIZE \in Nat \ {0} /\ MAX_LEAVES \in Nat /\ MaxTime \in Nat
  /\ RuleIds \subseteq Nat /\ \A r \in ContextRules : r.id \in RuleIds

-----------------------------------------------------------------------------
(* The pool (pool.rs, merkle.rs).                                          *)

(* The leaves a root commits to. *)
LeavesUnder(root) == {Leaves[i] : i \in 1..root}

(* The current root and the RING_SIZE - 1 before it; the empty tree's root
   only while the tree is empty. *)
is_known_root(root) ==
  IF Len(Leaves) = 0
    THEN root = 0
    ELSE root <= Len(Leaves) /\ root > 0 /\ root + RING_SIZE > Len(Leaves)

require_canonical(commitment) == commitment # NonCanonical

insert_leaf(account, commitment) ==
  /\ Len(Leaves) < MAX_LEAVES
  /\ Leaves' = Append(Leaves, <<account, commitment>>)

insert_bound(account, commitment) ==
  /\ require_canonical(commitment)
  /\ insert_leaf(account, commitment)
  /\ UNCHANGED <<now, Nullifier, Pending, Installed, completed, account_state>>

(* Called by the factory for the account it has just deployed. *)
insert(account, commitment) == insert_bound(account, commitment)

(* Called by the account itself, for a migration or a re-enrolment. *)
insert_for(account, commitment) == insert_bound(account, commitment)

-----------------------------------------------------------------------------
(* The proof system.                                                       *)

(* The public inputs of a call: the contract recomputes them from its own
   arguments, never from the proof. *)
public_inputs(action, account, new_pubkey, nonce, timelock_secs, root, nullifier) ==
  [action |-> action, account |-> account, new_pubkey |-> new_pubkey, nonce |-> nonce,
   timelock_secs |-> timelock_secs, root |-> root, nullifier |-> nullifier]

(* The circuit: one account and one secret give the leaf, the nullifier and
   the account bound in auth_hash. *)
circuit(s) ==
  /\ OwnerOf(s.nullifier) = s.account
  /\ s.nullifier \in LeavesUnder(s.root)

(* Wrong variant: an auth_hash that leaves the new key out. *)
verify_proof_any_key(s) ==
  circuit(s) /\ \E k \in PubKeys : [s EXCEPT !.new_pubkey = k] \in Proofs

(* Some proof verifies against these public inputs. *)
verify_proof(s) == s \in Proofs /\ circuit(s)

-----------------------------------------------------------------------------
(* Helpers of controller.rs.                                               *)

(* A stored record past expires_at is not live. *)
has_pending(account) ==
  Pending[account] # None /\ now < Pending[account].expires_at

(* The nullifier map with this account's own reservation of nullifier removed. *)
release_reservation_if_owned(nullifier, account) ==
  IF Nullifier[nullifier] = account
    THEN [Nullifier EXCEPT ![nullifier] = Unused]
    ELSE Nullifier

(* Wrong variant: a stale record's reservation is left behind. *)
superseded_kept(account) == Nullifier

(* The nullifier map once the account's stale record, if any, is superseded. *)
superseded(account) ==
  IF Pending[account] = None
    THEN Nullifier
    ELSE release_reservation_if_owned(Pending[account].nullifier, account)

(* Neither reserved nor spent, once a stale record is out of the way. *)
unclaimed(account, nullifier) == superseded(account)[nullifier] = Unused

(* Wrong variant: the last accepted nonce is accepted again. *)
is_next_nonce_or_last(account, nonce) == nonce >= Nonce[account]

is_next_nonce(account, nonce) == nonce = Nonce[account] + 1

(* Wrong variant: an initiation exactly one window ago is pruned. *)
retained_strictly(account) == {e \in RateWindow[account] : e.at + RATE_WINDOW_SECS > now}

(* Initiations still inside the rolling window. *)
retained(account) == {e \in RateWindow[account] : e.at + RATE_WINDOW_SECS >= now}

within_rate_limit(account) == Cardinality(retained(account)) < RATE_LIMIT_MAX

cancels_left(account) == Cancels[account] < max_cancels

cooled_down(account) ==
  LastCancel[account] # None => now >= LastCancel[account] + CANCEL_COOLDOWN_SECS

new_pending(new_pubkey, nullifier) ==
  [new_pubkey |-> new_pubkey, nullifier |-> nullifier, initiated_at |-> now,
   executable_after |-> now + delay_secs,
   expires_at |-> now + delay_secs + completion_window_secs]

(* The nonce an accepted proof leaves behind, and the history of it. *)
bump_nonce(account, nonce) == Nonce' = [Nonce EXCEPT ![account] = nonce]

record(action, account, nonce) ==
  log' = [log EXCEPT ![account] = @ \cup {[action |-> action, nonce |-> nonce, at |-> now]}]

-----------------------------------------------------------------------------
(* Entry points of controller.rs.                                          *)

initiate_recovery(account, new_pubkey, nonce, timelock_secs, root, nullifier) ==
  /\ ~has_pending(account)
  /\ is_known_root(root)
  /\ unclaimed(account, nullifier)
  /\ is_next_nonce(account, nonce)
  /\ timelock_secs >= timelock_floor_secs
  /\ timelock_secs = delay_secs
  /\ within_rate_limit(account)
  /\ verify_proof(public_inputs(ACTION_INITIATE, account, new_pubkey, nonce,
                                timelock_secs, root, nullifier))
  /\ Nullifier' = [superseded(account) EXCEPT ![nullifier] = account]
  /\ Pending' = [Pending EXCEPT ![account] = new_pending(new_pubkey, nullifier)]
  /\ bump_nonce(account, nonce)
  /\ RateWindow' = [RateWindow EXCEPT ![account] =
                      retained(account) \cup {[at |-> now, nonce |-> nonce]}]
  /\ record(ACTION_INITIATE, account, nonce)
  /\ UNCHANGED <<now, Leaves, Cancels, LastCancel, Installed, completed>>

(* The proof may be for any enrolled credential of the account; the record it
   removes, and the reservation it frees, are those of the live attempt. *)
cancel_recovery(account, nonce, root, nullifier) ==
  /\ has_pending(account)
  /\ cancels_left(account)
  /\ cooled_down(account)
  /\ is_next_nonce(account, nonce)
  /\ is_known_root(root)
  /\ verify_proof(public_inputs(ACTION_CANCEL, account, ZeroKey, nonce, 0, root, nullifier))
  /\ Nullifier' = release_reservation_if_owned(Pending[account].nullifier, account)
  /\ Pending' = [Pending EXCEPT ![account] = None]
  /\ bump_nonce(account, nonce)
  /\ Cancels' = [Cancels EXCEPT ![account] = @ + 1]
  /\ LastCancel' = [LastCancel EXCEPT ![account] = now]
  /\ record(ACTION_CANCEL, account, nonce)
  /\ UNCHANGED <<now, Leaves, RateWindow, Installed, completed>>

(* Wrong variant: revoking leaves the record in place. *)
without_pending_of_kept(account, nullifier) == Pending

(* Revoking a credential also drops the record, live or stale, that reserves it. *)
without_pending_of(account, nullifier) ==
  IF Pending[account] # None /\ Pending[account].nullifier = nullifier
    THEN [Pending EXCEPT ![account] = None]
    ELSE Pending

burn_nullifier(account, nonce, root, nullifier) ==
  /\ is_known_root(root)
  /\ is_next_nonce(account, nonce)
  /\ Nullifier[nullifier] # Spent
  /\ verify_proof(public_inputs(ACTION_REVOKE, account, ZeroKey, nonce, 0, root, nullifier))
  /\ Pending' = without_pending_of(account, nullifier)
  /\ Nullifier' = [Nullifier EXCEPT ![nullifier] = Spent]
  /\ bump_nonce(account, nonce)
  /\ record(ACTION_REVOKE, account, nonce)
  /\ UNCHANGED <<now, Leaves, Cancels, LastCancel, RateWindow, Installed, completed>>

-----------------------------------------------------------------------------
(* The OZ Policy (policy.rs).  `uninstall' panics on every call, so it is no
   action; the account's removal of a rule swallows that panic.            *)

(* Wrong variant: a later install repoints the policy. *)
installable_again(account, rule) == rule.signers = {} /\ rule.context_type = account

(* The first install for an account wins; the rule is taken on trust but for
   its shape.  A rule's context_type is the address it is scoped to. *)
installable(account, rule) ==
  /\ Installed[account] = None
  /\ rule.signers = {}
  /\ rule.context_type = account

install(account, rule) ==
  /\ installable(account, rule)
  /\ Installed' = [Installed EXCEPT ![account] = rule.id]
  /\ UNCHANGED <<now, Leaves, Nullifier, Pending, completed, account_state>>

(* Wrong variant: any call of the account completes. *)
is_completion_any_call(account, call) == call.contract = account

(* The gate: only the installation of the proven key on the account itself. *)
is_completion(account, call) ==
  /\ call.contract = account
  /\ call.fn_name = "add_context_rule"
  /\ call.signers = {Pending[account].new_pubkey}
  /\ call.policies = {}

(* Wrong variant: an expired recovery can still be completed. *)
is_executable_forever(account) ==
  Pending[account] # None /\ now >= Pending[account].executable_after

is_executable(account) ==
  /\ Pending[account] # None
  /\ now >= Pending[account].executable_after
  /\ now < Pending[account].expires_at

enforce(account, rule_id, call) ==
  /\ Installed[account] = rule_id
  /\ is_executable(account)
  /\ is_completion(account, call)
  /\ Nullifier' = [Nullifier EXCEPT ![Pending[account].nullifier] = Spent]
  /\ Pending' = [Pending EXCEPT ![account] = None]
  /\ completed' = completed \cup {Pending[account].nullifier}
  /\ UNCHANGED <<now, Leaves, Installed, account_state>>

-----------------------------------------------------------------------------

Init ==
  /\ now = 0
  /\ Leaves = <<>>
  /\ Nullifier = [n \in Nullifiers |-> Unused]
  /\ Pending = [a \in Accounts |-> None]
  /\ Nonce = [a \in Accounts |-> 0]
  /\ Cancels = [a \in Accounts |-> 0]
  /\ LastCancel = [a \in Accounts |-> None]
  /\ RateWindow = [a \in Accounts |-> {}]
  /\ Installed = [a \in Accounts |-> None]
  /\ completed = {}
  /\ log = [a \in Accounts |-> {}]

(* A ledger closes.  Bounded by MaxTime. *)
Tick ==
  /\ now < MaxTime
  /\ now' = now + 1
  /\ UNCHANGED <<Leaves, Nullifier, Pending, Installed, completed, account_state>>

Nonces == {p.nonce : p \in Proofs}
Roots  == 0..MAX_LEAVES

Initiate ==
  \E a \in Accounts, k \in PubKeys, n \in Nonces, t \in Timelocks, r \in Roots,
     nullifier \in Nullifiers : initiate_recovery(a, k, n, t, r, nullifier)
Cancel ==
  \E a \in Accounts, n \in Nonces, r \in Roots, nullifier \in Nullifiers :
    cancel_recovery(a, n, r, nullifier)
Burn ==
  \E a \in Accounts, n \in Nonces, r \in Roots, nullifier \in Nullifiers :
    burn_nullifier(a, n, r, nullifier)
Install == \E a \in Accounts, rule \in ContextRules : install(a, rule)
Enforce == \E a \in Accounts, id \in RuleIds, call \in Calls : enforce(a, id, call)
Insert ==
  \E a \in Accounts, c \in Secrets \cup {NonCanonical} : insert(a, c) \/ insert_for(a, c)

Next == Initiate \/ Cancel \/ Burn \/ Install \/ Enforce \/ Insert \/ Tick

Spec == Init /\ [][Next]_vars

-----------------------------------------------------------------------------
(* Properties.                                                             *)

(* Every variable has its type; the retained initiations never exceed the
   rate limit and the cancels never exceed the cap (controller.rs). *)
TypeOK ==
  /\ now \in Nat
  /\ Leaves \in Seq(Nullifiers)
  /\ Nullifier \in [Nullifiers -> Accounts \cup {Unused, Spent}]
  /\ Pending \in [Accounts -> PendingRecovery \cup {None}]
  /\ Nonce \in [Accounts -> Nat]
  /\ Cancels \in [Accounts -> Nat]
  /\ LastCancel \in [Accounts -> Nat \cup {None}]
  /\ RateWindow \in [Accounts -> SUBSET [at: Nat, nonce: Nat]]
  /\ Installed \in [Accounts -> RuleIds \cup {None}]
  /\ completed \subseteq Nullifiers
  /\ log \in [Accounts -> SUBSET LogEntries]
  /\ \A a \in Accounts : Cancels[a] <= max_cancels

(* A nullifier is reserved for an account exactly while the account's stored
   record, live or stale, is for that nullifier: initiate, supersede, cancel,
   burn and completion keep the two maps in step, whatever their order. *)
ReservationsMatchPendings ==
  \A n \in Nullifiers, a \in Accounts :
    Nullifier[n] = a <=> Pending[a] # None /\ Pending[a].nullifier = n

(* Once an account has no live recovery, none of its unspent credentials is
   held back: an attempt that expired, was cancelled or was superseded never
   makes a later initiate_recovery fail with NullifierReserved for good. *)
UnspentCredentialsUsable ==
  \A n \in Nullifiers :
    Nullifier[n] # Spent /\ ~has_pending(OwnerOf(n)) => superseded(OwnerOf(n))[n] = Unused

(* The staged key, credential and delay of a recovery are those somebody who
   knows an enrolled secret of that account proved for: replaying a published
   proof with another account, key or timelock stages nothing. *)
PendingWasProved ==
  \A a \in Accounts : Pending[a] # None =>
    /\ \E i \in DOMAIN Leaves : Leaves[i] = Pending[a].nullifier
    /\ \E p \in Proofs :
         /\ p.action = ACTION_INITIATE
         /\ p.account = a
         /\ p.new_pubkey = Pending[a].new_pubkey
         /\ p.nullifier = Pending[a].nullifier
         /\ p.timelock_secs = Pending[a].executable_after - Pending[a].initiated_at

(* Initiate, cancel and revoke share one nonce: no nonce of an account is ever
   accepted twice, so no proof is, and none is accepted after a later one. *)
AcceptedOnce ==
  \A a \in Accounts :
    /\ \A e \in log[a] : e.nonce <= Nonce[a]
    /\ \A e, f \in log[a] : e.nonce = f.nonce => e = f
    /\ \A e, f \in log[a] : e.nonce < f.nonce => e.at <= f.at

Initiations(a) == {e \in log[a] : e.action = ACTION_INITIATE}

(* At most RATE_LIMIT_MAX initiations of an account in any rolling window,
   counted over everything ever accepted, not over what check_rate_limit kept. *)
RollingRateLimit ==
  \A a \in Accounts : \A e \in log[a] :
    Cardinality({f \in Initiations(a) : e.at <= f.at /\ f.at <= e.at + RATE_WINDOW_SECS})
      <= RATE_LIMIT_MAX

(* Two cancels of an account are at least a cooldown apart. *)
CancelsSpaced ==
  \A a \in Accounts : \A e, f \in log[a] :
    e.action = ACTION_CANCEL /\ f.action = ACTION_CANCEL /\ e.nonce < f.nonce =>
      e.at + CANCEL_COOLDOWN_SECS <= f.at

(* A spent nullifier stays spent: no order of initiate, cancel, burn, expiry
   and completion makes a consumed credential usable again. *)
SpentForever ==
  [][\A n \in Nullifiers : Nullifier[n] = Spent => Nullifier'[n] = Spent]_vars

(* The step of one account never touches a credential of another: a public
   nullifier cannot be reserved, released or burnt through somebody else's
   account. *)
OwnCredentialsOnly ==
  [][\A n \in Nullifiers, a \in Accounts :
       Nullifier'[n] # Nullifier[n] /\ (Nonce'[a] # Nonce[a] \/ Pending'[a] # Pending[a])
         => OwnerOf(n) = a]_vars

(* A recovery is completed only for an initiation that is at least delay_secs
   and less than delay_secs plus the completion window old, and that no later
   initiation or cancel replaced. *)
CompletionsMature ==
  [][\A n \in Nullifiers :
       n \in completed' \ completed =>
         \E e \in Initiations(OwnerOf(n)) :
           /\ e.at + delay_secs <= now
           /\ now < e.at + delay_secs + completion_window_secs
           /\ \A f \in log[OwnerOf(n)] : f.nonce > e.nonce => f.action = ACTION_REVOKE]_vars

(* The contract implements TimelockedRecovery: a stale record is no attempt. *)
LiveAttempt(a) ==
  IF has_pending(a)
    THEN [key |-> Pending[a].new_pubkey, credential |-> Pending[a].nullifier,
          ready |-> Pending[a].executable_after, deadline |-> Pending[a].expires_at]
    ELSE None

Abstract == INSTANCE TimelockedRecovery WITH
  Credentials <- Nullifiers, Owner <- OwnerOf, Keys <- PubKeys,
  Delay <- delay_secs, Window <- completion_window_secs,
  attempt <- [a \in Accounts |-> LiveAttempt(a)],
  dead <- {n \in Nullifiers : Nullifier[n] = Spent},
  finished <- completed

Promise == Abstract!Spec
=============================================================================
