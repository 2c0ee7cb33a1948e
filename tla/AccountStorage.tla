--------------------------- MODULE AccountStorage ---------------------------
(***************************************************************************)
(* The accounts a browser knows.  Every origin (the apex and the account   *)
(* subdomains) has a localStorage of its own with the accounts, those      *)
(* whose setup is pending, and their names (storage.ts).  A page on a      *)
(* subdomain exchanges snapshots with the apex through a hidden iframe     *)
(* (nidoSharedStorage.ts, nido-storage-bridge), and the switcher menu      *)
(* promotes pending accounts that are deployed (nidoSwitcher.ts).          *)
(*                                                                         *)
(* A page is loaded at every origin.  Its asynchronous functions go on     *)
(* after each await with whatever is stored by then; loading the page      *)
(* again ends them and resets the switcher's flags.                        *)
(*                                                                         *)
(* A definition marked "wrong variant" is the definition after it with a   *)
(* plausible mistake, and no part of the model.                            *)
(***************************************************************************)
EXTENDS Integers, FiniteSets

CONSTANTS
  Apex,        \* the apex origin
  Subdomains,  \* the origins of the accounts
  Contracts,   \* contract ids
  Names,       \* names of the registry
  None,
  Deploys,     \* TRUE: accounts are deployed while the pages are open
  MaxVisits    \* bound: page loads, or 0 for no bound

VARIABLES
  store,     \* store[o]: what localStorage holds at origin o
  deployed,  \* the contracts on the chain
  registry,  \* the name of each contract on the chain, or None
  bridge,    \* bridge[o]: syncNidoStorageViaBridge of the page at o
  page,      \* page[o]: the switcher's flags, and verifyPendingAccounts
  naming,    \* naming[o]: a lookup of resolveMissingNames under way
  visits     \* page loads so far

chain_vars == <<deployed, registry>>
vars == <<store, chain_vars, bridge, page, naming, visits>>

Origins == Subdomains \cup {Apex}

ASSUME StorageAssumption ==
  /\ Apex \notin Subdomains /\ None \notin Contracts \cup Names
  /\ Deploys \in BOOLEAN /\ MaxVisits \in Nat

Snapshots ==
  [accounts: SUBSET Contracts, pending: SUBSET Contracts, names: [Contracts -> Names \cup {None}]]

BridgeStates ==
  [pc: {"idle"}]
  \cup [pc: {"load"}, switcher: BOOLEAN]
  \cup [pc: {"request", "response"}, switcher: BOOLEAN, snapshot: Snapshots]

Verifications == [todo: SUBSET Contracts, changed: BOOLEAN]

Pages ==
  [synced: BOOLEAN, verified: BOOLEAN, rerun: BOOLEAN, verifying: Verifications \cup {None}]

Lookups == [contract: Contracts, name: Names]

Idle == [pc |-> "idle"]

-----------------------------------------------------------------------------
(* localStorage.                                                           *)

savePendingAccount(s, c) == [s EXCEPT !.pending = @ \cup {c}]
saveAccount(s, c) == [s EXCEPT !.accounts = @ \cup {c}]
removePendingAccount(s, c) == [s EXCEPT !.pending = @ \ {c}]

saveAccountName(s, c, name) == [s EXCEPT !.names[c] = name]

(* Wrong variant: the account is taken off one list and not put on the other. *)
activateAccount_half(s, c) == removePendingAccount(s, c)

activateAccount(s, c) == saveAccount(removePendingAccount(s, c), c)

(* A snapshot lists as pending what is not active. *)
localNidoSnapshot(s) == [s EXCEPT !.pending = @ \ s.accounts]

(* Wrong variant: the incoming snapshot replaces what is stored. *)
mergeNidoSnapshot_replace(s, incoming) ==
  [incoming EXCEPT !.pending = @ \ incoming.accounts]

mergeNidoSnapshot(s, incoming) ==
  LET accounts == s.accounts \cup incoming.accounts
      merged == [accounts |-> accounts,
                 pending |-> (s.pending \cup incoming.pending) \ accounts,
                 names |-> [c \in Contracts |->
                              IF incoming.names[c] = None THEN s.names[c] ELSE incoming.names[c]]]
  IN IF merged = localNidoSnapshot(s) THEN s ELSE merged

with(o, s) == store' = [store EXCEPT ![o] = s]

-----------------------------------------------------------------------------
(* The rest of the system, as these functions see it.                      *)

Deploy ==
  /\ Deploys
  /\ \E c \in Contracts \ deployed : deployed' = deployed \cup {c}
  /\ UNCHANGED <<store, registry, bridge, page, naming, visits>>

(* The registry gives a name to a deployed account, or another one. *)
Register ==
  /\ \E c \in deployed, name \in Names : registry' = [registry EXCEPT ![c] = name]
  /\ UNCHANGED <<store, deployed, bridge, page, naming, visits>>

-----------------------------------------------------------------------------
(* The bridge stands on subdomains only, and a page has one exchange at a
   time here: one more only merges the same lists again. *)
start_sync(o, switcher) ==
  bridge' = IF o # Apex /\ bridge[o] = Idle
              THEN [bridge EXCEPT ![o] = [pc |-> "load", switcher |-> switcher]]
              ELSE bridge

-----------------------------------------------------------------------------
(* Pages that set up, open or name an account.                             *)

(* reserveAccount: only an account that is not deployed is set up. *)
Reserve(o) ==
  /\ \E c \in Contracts \ deployed : with(o, savePendingAccount(store[o], c))
  /\ start_sync(o, FALSE)
  /\ UNCHANGED <<chain_vars, page, naming, visits>>

(* The account's own page, and the end of its setup. *)
OpenAccount(o) ==
  /\ \E c \in deployed :
       with(o, IF c \in store[o].pending THEN activateAccount(store[o], c) ELSE saveAccount(store[o], c))
  /\ UNCHANGED <<chain_vars, bridge, page, naming, visits>>

SaveName(o) ==
  /\ \E c \in deployed : registry[c] # None /\ with(o, saveAccountName(store[o], c, registry[c]))
  /\ UNCHANGED <<chain_vars, bridge, page, naming, visits>>

-----------------------------------------------------------------------------
(* The exchange.                                                           *)

(* The iframe is loaded: the request is posted. *)
PostRequest(o) ==
  /\ bridge[o].pc = "load"
  /\ bridge' = [bridge EXCEPT ![o] = [pc |-> "request", switcher |-> bridge[o].switcher,
                                      snapshot |-> localNidoSnapshot(store[o])]]
  /\ UNCHANGED <<store, chain_vars, page, naming, visits>>

(* The apex merges the request and answers with what it has then. *)
Answer(o) ==
  /\ bridge[o].pc = "request"
  /\ with(Apex, mergeNidoSnapshot(store[Apex], bridge[o].snapshot))
  /\ bridge' = [bridge EXCEPT ![o].pc = "response", ![o].snapshot = localNidoSnapshot(store'[Apex])]
  /\ UNCHANGED <<chain_vars, page, naming, visits>>

queuePendingVerification(o, p, force) ==
  IF p.verifying # None THEN [p EXCEPT !.rerun = @ \/ force]
  ELSE IF p.verified /\ ~force THEN p
  ELSE [p EXCEPT !.verified = TRUE,
                 !.verifying = [todo |-> store'[o].pending \ store'[o].accounts, changed |-> FALSE]]

synced(o, changed) ==
  LET p == [page[o] EXCEPT !.synced = TRUE]
  IN page' = [page EXCEPT ![o] = IF changed THEN queuePendingVerification(o, p, TRUE) ELSE p]

Receive(o) ==
  /\ bridge[o].pc = "response"
  /\ LET merged == mergeNidoSnapshot(store[o], bridge[o].snapshot)
     IN /\ with(o, merged)
        /\ IF bridge[o].switcher THEN synced(o, merged # store[o]) ELSE UNCHANGED page
  /\ bridge' = [bridge EXCEPT ![o] = Idle]
  /\ UNCHANGED <<chain_vars, naming, visits>>

(* A second is over, or the iframe failed: the iframe is removed. *)
TimeOut(o) ==
  /\ bridge[o] # Idle
  /\ bridge' = [bridge EXCEPT ![o] = Idle]
  /\ UNCHANGED store
  /\ IF bridge[o].switcher THEN synced(o, FALSE) ELSE UNCHANGED page
  /\ UNCHANGED <<chain_vars, naming, visits>>

-----------------------------------------------------------------------------
(* The switcher.                                                           *)

Fresh == [synced |-> FALSE, verified |-> FALSE, rerun |-> FALSE, verifying |-> None]

(* A page is loaded: its switcher queues a sync and a verification. *)
mountNidoSwitcher(o) ==
  /\ MaxVisits = 0 \/ visits < MaxVisits
  /\ visits' = IF MaxVisits = 0 THEN 0 ELSE visits + 1
  /\ UNCHANGED <<store, chain_vars>>
  /\ bridge' = [bridge EXCEPT ![o] = IF o = Apex THEN Idle ELSE [pc |-> "load", switcher |-> TRUE]]
  /\ page' = [page EXCEPT ![o] = queuePendingVerification(o, [Fresh EXCEPT !.synced = o = Apex], FALSE)]
  /\ naming' = [naming EXCEPT ![o] = None]

(* verifyPendingAccounts asks the chain about one account after the other. *)
VerifyOne(o) ==
  /\ page[o].verifying # None
  /\ \E c \in page[o].verifying.todo :
       /\ IF c \in deployed
            THEN /\ with(o, activateAccount(store[o], c))
                 /\ page' = [page EXCEPT ![o].verifying = [todo |-> @.todo \ {c}, changed |-> TRUE]]
            ELSE /\ UNCHANGED store
                 /\ page' = [page EXCEPT ![o].verifying.todo = @ \ {c}]
  /\ UNCHANGED <<chain_vars, bridge, naming, visits>>

VerifyEnd(o) ==
  /\ page[o].verifying # None /\ page[o].verifying.todo = {}
  /\ UNCHANGED store
  /\ LET p == [page[o] EXCEPT !.verifying = None, !.rerun = FALSE]
     IN page' = [page EXCEPT ![o] =
                   IF page[o].rerun THEN queuePendingVerification(o, p, TRUE) ELSE p]
  /\ IF page[o].verifying.changed THEN start_sync(o, FALSE) ELSE UNCHANGED bridge
  /\ UNCHANGED <<chain_vars, naming, visits>>

(* resolveMissingNames: a row without a name is looked up ... *)
LookupName(o) ==
  /\ naming[o] = None
  /\ \E c \in store[o].accounts :
       /\ store[o].names[c] = None /\ registry[c] # None
       /\ naming' = [naming EXCEPT ![o] = [contract |-> c, name |-> registry[c]]]
  /\ UNCHANGED <<store, chain_vars, bridge, page, visits>>

(* ... and the name it had then is kept. *)
KeepName(o) ==
  /\ naming[o] # None
  /\ with(o, saveAccountName(store[o], naming[o].contract, naming[o].name))
  /\ naming' = [naming EXCEPT ![o] = None]
  /\ UNCHANGED <<chain_vars, bridge, page, visits>>

-----------------------------------------------------------------------------
Nameless == [c \in Contracts |-> None]

(* What earlier visits left: any lists, and no names. *)
Init ==
  /\ deployed \in SUBSET Contracts
  /\ registry = Nameless
  /\ store \in [Origins -> {[accounts |-> a, pending |-> Contracts \ a, names |-> Nameless] : a \in {{}, deployed}}
                       \cup {[accounts |-> {}, pending |-> {}, names |-> Nameless]}]
  /\ bridge = [o \in Origins |-> Idle]
  /\ page = [o \in Origins |-> [Fresh EXCEPT !.synced = TRUE, !.verified = TRUE]]
  /\ naming = [o \in Origins |-> None]
  /\ visits = 0

Sync(o) == PostRequest(o) \/ Answer(o) \/ Receive(o) \/ TimeOut(o)
Verify(o) == VerifyOne(o) \/ VerifyEnd(o)
Name(o) == SaveName(o) \/ LookupName(o) \/ KeepName(o)

Next ==
  \/ Deploy \/ Register
  \/ \E o \in Origins :
       Reserve(o) \/ OpenAccount(o) \/ Sync(o) \/ mountNidoSwitcher(o) \/ Verify(o) \/ Name(o)

Spec == Init /\ [][Next]_vars

(* Pages are opened again and again, and not every exchange times out. *)
VisitSpec ==
  Spec /\ \A o \in Origins :
    /\ WF_vars(mountNidoSwitcher(o)) /\ SF_vars(PostRequest(o)) /\ SF_vars(Answer(o))
    /\ SF_vars(Receive(o)) /\ SF_vars(VerifyOne(o)) /\ SF_vars(VerifyEnd(o))

-----------------------------------------------------------------------------
(* Properties.                                                             *)

TypeOK ==
  /\ store \in [Origins -> Snapshots]
  /\ deployed \subseteq Contracts
  /\ registry \in [Contracts -> Names \cup {None}]
  /\ bridge \in [Origins -> BridgeStates]
  /\ page \in [Origins -> Pages]
  /\ naming \in [Origins -> Lookups \cup {None}]
  /\ visits \in 0..MaxVisits

known(o) == store[o].accounts \cup store[o].pending

(* No account an origin knows is forgotten by it, active or half set up,
   whatever snapshots are merged while it is being promoted: the salt of a
   pending account exists nowhere else. *)
NeverForgotten == [][\A o \in Origins : known(o) \subseteq known(o)']_vars

(* What is active at one origin is active at all in the end. *)
KnownEverywhere ==
  \A c \in Contracts :
    (\E o \in Origins : c \in store[o].accounts) ~> (\A o \in Origins : c \in store[o].accounts)
=============================================================================
