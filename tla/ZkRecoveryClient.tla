-------------------------- MODULE ZkRecoveryClient --------------------------
(***************************************************************************)
(* The wallet's side of zk recovery (zkRecoveryActions.ts, the SDK's       *)
(* zkRecovery modules, and the recovery and security pages) over the       *)
(* contract of ZkRecovery.  Devices that lost the passkey recover the      *)
(* account with a secret; the Owner still has a passkey, enrols secrets,   *)
(* and cancels or revokes.                                                 *)
(*                                                                         *)
(* Every procedure reads the chain, proves for up to a minute, submits and *)
(* waits, and the chain moves on in between.  A submitted call lands or is *)
(* refused at any later time, whether or not its sender still waits.       *)
(*                                                                         *)
(* A definition marked "wrong variant" is the definition after it with a   *)
(* plausible mistake, and no part of the model.                            *)
(***************************************************************************)
EXTENDS ZkRecovery

CONSTANTS
  Devices,    \* browsers that recover the account
  Owner,      \* the browser that still has a passkey
  Account,    \* the account
  KeyOf,      \* KeyOf[d]: the passkey device d creates
  Sources,    \* phrases and wallets a secret is derived from
  Signings,   \* Signings[w]: what two signatures of w may be, as secrets
  Sep53,      \* the sources whose signatures verify as SEP-53
  Rule,       \* the account's recovery rule
  Plans,      \* what the Owner does: a subset of OwnerKinds
  GivesUp,    \* TRUE: a wait may time out
  Patient     \* TRUE: time matters only while a recovery is pending, and no
              \* completion window ends

VARIABLES
  page,     \* page[d]: the recovery page of device d
  op,       \* op[x]: the procedure that x is in
  jobs,     \* the submitted calls that have neither landed nor been refused
  staged,   \* staged[x]: the advisory record in x's localStorage, or None
  saved,    \* saved[d]: the recovered key d keeps, or None
  keys      \* the keys that completed recoveries added to the account

chain_vars == vars
client_vars == <<page, op, jobs, staged, saved, keys>>
all_vars == <<vars, client_vars>>

Actors == Devices \cup {Owner}
OwnerKinds == {"cancel", "burn", "enroll"}

(* The one call a completion is for. *)
completion_of(key) ==
  [contract |-> Account, fn_name |-> "add_context_rule", signers |-> {key}, policies |-> {}]

ASSUME ClientAssumption ==
  /\ Owner \notin Devices /\ Account \in Accounts
  /\ KeyOf \in [Devices -> PubKeys] /\ Signings \in [Sources -> SUBSET (Secrets \X Secrets)]
  /\ Sep53 \subseteq Sources /\ Rule \in ContextRules /\ Plans \subseteq OwnerKinds
  /\ delay_secs \in Timelocks /\ {completion_of(k) : k \in PubKeys} \subseteq Calls
  /\ GivesUp \in BOOLEAN /\ Patient \in BOOLEAN

Keys == PubKeys \cup {ZeroKey}

Calls_ == [by: Actors, kind: {"initiate", "cancel", "burn", "enroll", "insert", "complete"},
           secret: Secrets \cup {None}, root: Nat, nonce: Nat, key: Keys,
           saw: PendingRecovery \cup {None}]

Ops ==
  [pc: {"idle"}]
  \cup [pc: {"sync"}, kind: {"check", "initiate", "cancel", "burn"}, secret: Secrets, fetched: Nat]
  \cup [pc: {"nonce"}, kind: {"initiate", "cancel", "burn"}, secret: Secrets, root: Nat]
  \cup [pc: {"prove"}, call: Calls_]
  \cup [pc: {"wait", "landed", "refused"}, call: Calls_, executable: Nat]

StagedRecovery == [key: PubKeys, executable: Nat]

Pages ==
  [pc: {"off", "start", "secret", "ready", "stuck", "countdown", "done"}, key: PubKeys \cup {None},
   own: BOOLEAN, secret: Secrets \cup {None}, executable: Nat, expires: Nat]

Idle == [pc |-> "idle"]
Off == [pc |-> "off", key |-> None, own |-> FALSE, secret |-> None, executable |-> 0, expires |-> 0]

pending == Pending[Account]
go(x, o) == op' = [op EXCEPT ![x] = o]
turn(d, p) == page' = [page EXCEPT ![d] = p]

-----------------------------------------------------------------------------
(* Secrets.  A phrase and a deterministic wallet always give the same one. *)

deriveSecretM2(signatures) == signatures[1]

(* Wrong variant: the wallet signs once. *)
deriveM2SecretSafely_once(w) == {deriveSecretM2(q) : q \in {p \in Signings[w] : w \in Sep53}}

(* Two signatures, compared and verified. *)
deriveM2SecretSafely(w) ==
  {deriveSecretM2(q) : q \in {p \in Signings[w] : w \in Sep53 /\ p[1] = p[2]}}

derivable == UNION {deriveM2SecretSafely(w) : w \in Sources}

-----------------------------------------------------------------------------
(* Proofs and calls.                                                       *)

wrapLeafStored(s) == <<Account, s>>

(* The hash binds the action, the account, the key, the nonce and the timelock. *)
computeAuthHash(action, key, nonce, timelock, root, nullifier) ==
  public_inputs(action, Account, key, nonce, timelock, root, nullifier)

action_of(c) == CASE c.kind = "initiate" -> ACTION_INITIATE
                  [] c.kind = "cancel" -> ACTION_CANCEL
                  [] OTHER -> ACTION_REVOKE

(* Cancel and burn proofs zero the key and the timelock. *)
assembleCircuitInputs(c) ==
  computeAuthHash(action_of(c), c.key, c.nonce, IF c.kind = "initiate" THEN delay_secs ELSE 0,
                  c.root, wrapLeafStored(c.secret))

next_nonce == Nonce[Account] + 1

(* The nonce is the next one; saw is what was pending when it was read. *)
proof_call(x, kind, secret, root) ==
  [by |-> x, kind |-> kind, secret |-> secret, root |-> root, nonce |-> next_nonce,
   key |-> IF kind = "initiate" THEN page[x].key ELSE ZeroKey, saw |-> pending]

prove(c) == [pc |-> "prove", call |-> c]

plain_call(x, kind, secret, key) ==
  [by |-> x, kind |-> kind, secret |-> secret, root |-> 0, nonce |-> 0, key |-> key, saw |-> None]

(* The contract's side of a call. *)
initiate_call(c) ==
  c.kind = "initiate"
  /\ initiate_recovery(Account, c.key, c.nonce, delay_secs, c.root, <<Account, c.secret>>)
cancel_call(c) == c.kind = "cancel" /\ cancel_recovery(Account, c.nonce, c.root, <<Account, c.secret>>)
burn_call(c) == c.kind = "burn" /\ burn_nullifier(Account, c.nonce, c.root, <<Account, c.secret>>)
enroll_call(c) == c.kind = "enroll" /\ install(Account, Rule)
insert_call(c) == c.kind = "insert" /\ insert_for(Account, c.secret)

(* The zero-signer completion: the policy's enforce, then the new rule. *)
complete_call(c) ==
  c.kind = "complete"
  /\ enforce(Account, Rule.id, completion_of(c.key))

runs(c) ==
  initiate_call(c) \/ cancel_call(c) \/ burn_call(c) \/ enroll_call(c) \/ insert_call(c) \/ complete_call(c)

-----------------------------------------------------------------------------
(* The recovery page.                                                      *)

stageRecovery(x, k, executable) ==
  staged' = [staged EXCEPT ![x] = [key |-> k, executable |-> executable]]
clearStaged(x) == staged' = [staged EXCEPT ![x] = None]

(* Wrong variant: a pending recovery is not resumed. *)
tryResume_never(d) ==
  /\ turn(d, [Off EXCEPT !.pc = "start"])
  /\ clearStaged(d)

(* A pending recovery is resumed, live or stale; the chain's record decides,
   and a read that fails counts as none. *)
tryResume(d) ==
  \/ /\ pending # None
     /\ turn(d, [Off EXCEPT !.pc = "countdown", !.key = pending.new_pubkey,
                            !.executable = pending.executable_after, !.expires = pending.expires_at])
     /\ UNCHANGED staged
  \/ /\ pending = None \/ GivesUp
     /\ turn(d, [Off EXCEPT !.pc = "start"])
     /\ clearStaged(d)

Load(d) ==
  /\ op[d] = Idle
  /\ tryResume(d)
  /\ UNCHANGED <<chain_vars, op, jobs, saved, keys>>

CreatePasskey(d) ==
  /\ page[d].pc = "start"
  /\ turn(d, [page[d] EXCEPT !.pc = "secret", !.key = KeyOf[d], !.own = TRUE])
  /\ UNCHANGED <<chain_vars, op, jobs, staged, saved, keys>>

(* The leaves a sync fetches are any prefix: an indexer lags. *)
sync(x, kind, secret) ==
  \E n \in 0..Len(Leaves) : go(x, [pc |-> "sync", kind |-> kind, secret |-> secret, fetched |-> n])

GiveSecret(d) ==
  /\ page[d].pc = "secret" /\ op[d] = Idle
  /\ \E s \in derivable : /\ turn(d, [page[d] EXCEPT !.secret = s]) /\ sync(d, "check", s)
  /\ UNCHANGED <<chain_vars, jobs, staged, saved, keys>>

StartInitiate(d) ==
  /\ page[d].pc = "ready" /\ op[d] = Idle
  /\ sync(d, "initiate", page[d].secret)
  /\ UNCHANGED <<chain_vars, page, jobs, staged, saved, keys>>

fetchCurrentRoot == Len(Leaves)

verifyAgainstOnChainRoot(fetched) == fetched = fetchCurrentRoot

locateLeaf(fetched, s) == wrapLeafStored(s) \in LeavesUnder(fetched)

(* syncPoolAndLocate: the root proved against is the chain's. *)
located(o) == verifyAgainstOnChainRoot(o.fetched) /\ locateLeaf(o.fetched, o.secret)

Locate(x) ==
  /\ op[x].pc = "sync"
  /\ IF op[x].kind = "check"
       THEN /\ go(x, Idle)
            /\ turn(x, [page[x] EXCEPT !.pc = IF located(op[x]) THEN "ready" ELSE "stuck"])
       ELSE /\ go(x, IF located(op[x])
                       THEN [pc |-> "nonce", kind |-> op[x].kind, secret |-> op[x].secret, root |-> op[x].fetched]
                       ELSE Idle)
            /\ UNCHANGED page
  /\ UNCHANGED <<chain_vars, jobs, staged, saved, keys>>

fetchNextNonce(x) ==
  /\ op[x].pc = "nonce"
  /\ go(x, prove(proof_call(x, op[x].kind, op[x].secret, op[x].root)))
  /\ UNCHANGED <<chain_vars, page, jobs, staged, saved, keys>>

post(x, c) ==
  /\ jobs' = jobs \cup {c}
  /\ go(x, [pc |-> "wait", call |-> c, executable |-> now + delay_secs])

(* The second step of an enrolment, also when the rule turns out to be there. *)
insert_next(c) == prove([c EXCEPT !.kind = "insert"])

(* The call is posted when its simulation passes; the time a recovery can be
   executed is the one the simulation returned. *)
Submit(x) ==
  /\ op[x].pc = "prove"
  /\ IF ENABLED runs(op[x].call) THEN post(x, op[x].call)
     ELSE /\ go(x, IF op[x].call.kind = "enroll" THEN insert_next(op[x].call) ELSE Idle)
          /\ UNCHANGED jobs
  /\ UNCHANGED <<chain_vars, page, staged, saved, keys>>

(* The completion is offered from the time it can be executed to the end of the
   window, where the page knows it. *)
offered(d) ==
  /\ page[d].pc = "countdown" /\ now >= page[d].executable
  /\ page[d].expires = 0 \/ now < page[d].expires

(* The key is the chain's, else the staged one, else the page's. *)
key_to_complete(d) ==
  IF pending # None THEN pending.new_pubkey
  ELSE IF staged[d] # None THEN staged[d].key ELSE page[d].key

(* No simulation runs the account's rules before the relayer does. *)
Complete(d) ==
  /\ op[d] = Idle /\ offered(d)
  /\ post(d, plain_call(d, "complete", None, key_to_complete(d)))
  /\ UNCHANGED <<chain_vars, page, staged, saved, keys>>

-----------------------------------------------------------------------------
(* The security page.                                                      *)

StartCancel ==
  /\ "cancel" \in Plans /\ op[Owner] = Idle /\ pending # None
  /\ \E s \in derivable : sync(Owner, "cancel", s)
  /\ UNCHANGED <<chain_vars, page, jobs, staged, saved, keys>>

StartBurn ==
  /\ "burn" \in Plans /\ op[Owner] = Idle
  /\ \E s \in derivable : sync(Owner, "burn", s)
  /\ UNCHANGED <<chain_vars, page, jobs, staged, saved, keys>>

(* runZkEnrollment: the rule first, unless the account has it. *)
first_step(s) == plain_call(Owner, IF Installed[Account] = None THEN "enroll" ELSE "insert", s, ZeroKey)

enrolled(s) == <<Account, s>> \in LeavesUnder(Len(Leaves))

(* Wrong variant: an account that has the rule counts as enrolled. *)
StartEnroll_once ==
  /\ "enroll" \in Plans /\ op[Owner] = Idle /\ Installed[Account] = None
  /\ \E s \in derivable : ~enrolled(s) /\ go(Owner, prove(first_step(s)))
  /\ UNCHANGED <<chain_vars, page, jobs, staged, saved, keys>>

StartEnroll ==
  /\ "enroll" \in Plans /\ op[Owner] = Idle
  /\ \E s \in derivable : ~enrolled(s) /\ go(Owner, prove(first_step(s)))
  /\ UNCHANGED <<chain_vars, page, jobs, staged, saved, keys>>

-----------------------------------------------------------------------------
(* Answers.                                                                *)

answered(c, o) ==
  op' = IF op[c.by].pc = "wait" /\ op[c.by].call = c THEN [op EXCEPT ![c.by].pc = o] ELSE op

Land ==
  \E c \in jobs :
    /\ runs(c)
    /\ jobs' = jobs \ {c}
    /\ answered(c, "landed")
    /\ keys' = IF c.kind = "complete" THEN keys \cup {c.key} ELSE keys
    /\ UNCHANGED <<page, staged, saved>>

Refuse ==
  \E c \in jobs :
    /\ ~ENABLED runs(c)
    /\ jobs' = jobs \ {c}
    /\ answered(c, "refused")
    /\ UNCHANGED <<chain_vars, page, staged, saved, keys>>

(* The wait ends; the call is still in flight. *)
TimeOut(x) ==
  /\ GivesUp /\ op[x].pc = "wait"
  /\ go(x, Idle)
  /\ UNCHANGED <<chain_vars, page, jobs, staged, saved, keys>>

(* An initiation is staged and counted down; nothing is known of its window. *)
InitiateDone(d) ==
  /\ op[d].pc = "landed" /\ op[d].call.kind = "initiate"
  /\ stageRecovery(d, op[d].call.key, op[d].executable)
  /\ turn(d, [page[d] EXCEPT !.pc = "countdown", !.executable = op[d].executable, !.expires = 0])
  /\ go(d, Idle)
  /\ UNCHANGED <<chain_vars, jobs, saved, keys>>

(* A device that made a passkey keeps it as the recovered one. *)
CompleteDone(d) ==
  /\ op[d].pc = "landed" /\ op[d].call.kind = "complete"
  /\ clearStaged(d)
  /\ saved' = IF page[d].own THEN [saved EXCEPT ![d] = page[d].key] ELSE saved
  /\ turn(d, [page[d] EXCEPT !.pc = "done"])
  /\ go(d, Idle)
  /\ UNCHANGED <<chain_vars, jobs, keys>>

OwnerDone ==
  /\ op[Owner].pc = "landed"
  /\ IF op[Owner].call.kind = "enroll"
       THEN go(Owner, insert_next(op[Owner].call)) /\ UNCHANGED staged
       ELSE /\ go(Owner, Idle)
            /\ IF op[Owner].call.kind = "insert" THEN UNCHANGED staged ELSE clearStaged(Owner)
  /\ UNCHANGED <<chain_vars, page, jobs, saved, keys>>

Failed(x) ==
  /\ op[x].pc = "refused"
  /\ go(x, Idle)
  /\ UNCHANGED <<chain_vars, page, jobs, staged, saved, keys>>

-----------------------------------------------------------------------------
(* Other accounts insert leaves, and time passes.  The tree never fills up
   here, as one of 2^24 leaves does not. *)
OtherInsert ==
  /\ Len(Leaves) + 1 < MAX_LEAVES
  /\ \E a \in Accounts \ {Account}, s \in Secrets : insert(a, s)
  /\ UNCHANGED client_vars

Time ==
  /\ Patient => has_pending(Account) /\ now + 1 < pending.expires_at
  /\ Tick
  /\ UNCHANGED client_vars

ClientInit ==
  /\ Init
  /\ page = [d \in Devices |-> Off]
  /\ op = [x \in Actors |-> Idle]
  /\ jobs = {} /\ keys = {}
  /\ staged = [x \in Actors |-> None]
  /\ saved = [d \in Devices |-> None]

Page(d) == CreatePasskey(d) \/ GiveSecret(d) \/ StartInitiate(d) \/ Complete(d)
           \/ InitiateDone(d) \/ CompleteDone(d)
Procedure(x) == Locate(x) \/ fetchNextNonce(x) \/ Submit(x) \/ Failed(x)
Security == StartCancel \/ StartBurn \/ StartEnroll \/ OwnerDone

ClientNext ==
  \/ \E d \in Devices : Load(d) \/ Page(d)
  \/ \E x \in Actors : Procedure(x) \/ TimeOut(x)
  \/ Security \/ Land \/ Refuse \/ OtherInsert \/ Time

ClientSpec == ClientInit /\ [][ClientNext]_all_vars

(* The device's owner loads the page, gives the secret and starts again, and
   completes, again and again; not every read fails or is stale. *)
Persistent(d) ==
  /\ SF_all_vars(Load(d) /\ (pending # None => page'[d].pc = "countdown"))
  /\ SF_all_vars(CreatePasskey(d))
  /\ SF_all_vars(GiveSecret(d) /\ located(op'[d])) /\ SF_all_vars(StartInitiate(d) /\ located(op'[d]))
  /\ SF_all_vars(Complete(d))
  /\ WF_all_vars(InitiateDone(d) \/ CompleteDone(d))

FairSpec ==
  /\ ClientSpec
  /\ \A d \in Devices : Persistent(d)
  /\ \A x \in Actors : WF_all_vars(Procedure(x))
  /\ SF_all_vars(StartEnroll) /\ WF_all_vars(OwnerDone)
  /\ WF_all_vars(Land \/ Refuse) /\ WF_all_vars(Time)

-----------------------------------------------------------------------------
(* Properties.                                                             *)

ClientTypeOK ==
  /\ page \in [Devices -> Pages]
  /\ op \in [Actors -> Ops]
  /\ jobs \subseteq Calls_
  /\ staged \in [Actors -> StagedRecovery \cup {None}]
  /\ saved \in [Devices -> PubKeys \cup {None}]
  /\ keys \subseteq PubKeys

(* Nothing is enrolled that cannot be derived again: a wallet whose signatures
   vary, or are no SEP-53 signatures, never gets a secret into the pool. *)
EnrolledIsReproducible ==
  \A s \in Secrets : enrolled(s) =>
    \E w \in Sep53 : Signings[w] = {<<s, s>>}

(* A cancel stops the very attempt that was pending when the owner's page read
   the nonce, and never a later one: not even when it was given up, submitted
   again, and lands after other proofs of the account. *)
CancelStopsWhatWasSeen ==
  [][\A c \in jobs \ jobs' : c.kind = "cancel" /\ LastCancel' # LastCancel => pending = c.saw]_all_vars

(* A recovery is recovered: a device whose owner keeps trying, in a world where
   leaves are inserted, reads are stale and waits time out, gets a key in
   unless the owner cancels or revokes. *)
RecoveryCompletes ==
  \A d \in Devices, s \in Secrets :
    (enrolled(s) /\ s \in derivable) ~> (keys # {} \/ Cancels[Account] > 0 \/ Spent \in {Nullifier[n] : n \in Nullifiers})

(* An enrolment that is tried again, after its first transaction landed and its
   answer was lost, still ends with the leaf in the pool. *)
EnrollmentFinishes == <>(\E s \in Secrets : enrolled(s))
=============================================================================
