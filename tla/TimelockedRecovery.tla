------------------------- MODULE TimelockedRecovery -------------------------
(***************************************************************************)
(* What the zk-recovery controller promises, without its mechanism: no     *)
(* nonces, proofs, reservations, stale records or rate windows.            *)
(*                                                                         *)
(* An account has at most one attempt.  An attempt is begun with one of    *)
(* the account's own credentials that is not dead, waits at least Delay,   *)
(* may be stopped at any time before it finishes, lapses by itself at its  *)
(* deadline, and finishing kills the credential it was begun with.  A dead *)
(* credential stays dead.                                                  *)
(***************************************************************************)
EXTENDS Naturals

CONSTANTS
  Accounts,      \* the accounts
  Credentials,   \* the recovery credentials
  Owner(_),      \* the account a credential belongs to
  Keys,          \* the keys an attempt may install
  None,          \* "no attempt"
  Delay,         \* the least time between the start and the end of an attempt
  Window         \* how long a mature attempt can be finished

VARIABLES
  now,           \* the ledger's clock
  attempt,       \* attempt[a]: the live attempt of account a, or None
  dead,          \* the credentials that can never be used again
  finished       \* the credentials whose attempt was finished

vars == <<now, attempt, dead, finished>>

Attempts == [key: Keys, credential: Credentials, ready: Nat, deadline: Nat]

Init ==
  /\ now = 0
  /\ attempt = [a \in Accounts |-> None]
  /\ dead = {}
  /\ finished = {}

(* Begin an attempt to install key k with credential c. *)
Begin(a, k, c) ==
  /\ attempt[a] = None
  /\ Owner(c) = a
  /\ c \notin dead
  /\ attempt' = [attempt EXCEPT ![a] =
       [key |-> k, credential |-> c,
        ready |-> now + Delay, deadline |-> now + Delay + Window]]
  /\ UNCHANGED <<now, dead, finished>>

(* Stop a live attempt; its credential stays usable. *)
Stop(a) ==
  /\ attempt[a] # None
  /\ attempt' = [attempt EXCEPT ![a] = None]
  /\ UNCHANGED <<now, dead, finished>>

(* Kill a credential, and with it the attempt that was begun with it. *)
Kill(c) ==
  /\ c \notin dead
  /\ dead' = dead \cup {c}
  /\ attempt' = [attempt EXCEPT ![Owner(c)] =
       IF @ # None /\ @.credential = c THEN None ELSE @]
  /\ UNCHANGED <<now, finished>>

(* Finish a mature attempt: its key is installed, its credential dies. *)
Finish(a) ==
  /\ attempt[a] # None
  /\ attempt[a].ready <= now
  /\ now < attempt[a].deadline
  /\ dead' = dead \cup {attempt[a].credential}
  /\ finished' = finished \cup {attempt[a].credential}
  /\ attempt' = [attempt EXCEPT ![a] = None]
  /\ UNCHANGED now

(* Time passes; an attempt that reaches its deadline lapses by itself. *)
Tick ==
  /\ now' = now + 1
  /\ attempt' = [a \in Accounts |->
       IF attempt[a] # None /\ attempt[a].deadline <= now' THEN None ELSE attempt[a]]
  /\ UNCHANGED <<dead, finished>>

Next ==
  \/ \E a \in Accounts, k \in Keys, c \in Credentials : Begin(a, k, c)
  \/ \E a \in Accounts : Stop(a) \/ Finish(a)
  \/ \E c \in Credentials : Kill(c)
  \/ Tick

Spec == Init /\ [][Next]_vars
=============================================================================
