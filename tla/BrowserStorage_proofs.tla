------------------------ MODULE BrowserStorage_proofs ------------------------
(***************************************************************************)
(* Two components that live in what browsers store and share between their *)
(* pages: the account lists of the origins (AccountStorage), and the       *)
(* session keys of the dApp and the wallet's stashed requests              *)
(* (SessionKeys).                                                          *)
(*                                                                         *)
(* No origin forgets an account it knows, for every set of origins,        *)
(* accounts and names, and however exchanges, promotions and reloads       *)
(* interleave.  The lists meet through records that were read before and   *)
(* written after other pages wrote theirs; what makes that harmless is     *)
(* that a merge keeps what is stored (MergeKeeps), whatever the snapshot   *)
(* holds.  So all that is needed of the rest is that snapshots under way   *)
(* are snapshots.                                                          *)
(*                                                                         *)
(* The dApp redirects by itself once for a connect, tells the truth of     *)
(* tips and grants, and grants a key once, for every number of tabs.  The  *)
(* inductive invariant DappInv has three parts beside the types: a page    *)
(* waits for a job of the kind it submitted; a key that is not granted yet *)
(* is requested in one place of one tab; and each flag that would start a  *)
(* delegation is a connect that was not answered by one yet.               *)
(***************************************************************************)
EXTENDS AccountStorage, SessionKeys, FiniteSetTheorems, SequenceTheorems, TLAPS


Known(s) == s.accounts \cup s.pending

StoreOK ==
  /\ store \in [Origins -> Snapshots]
  /\ deployed \subseteq Contracts
  /\ registry \in [Contracts -> Names \cup {None}]
  /\ naming \in [Origins -> Lookups \cup {None}]

Underway(o) == bridge[o].pc \in {"request", "response"} => bridge[o].snapshot \in Snapshots

BridgeOK == DOMAIN bridge = Origins /\ \A o \in Origins : Underway(o)

IInv == StoreOK /\ BridgeOK

-----------------------------------------------------------------------------
(* localStorage.                                                           *)

LEMMA ActivateKeeps ==
  ASSUME NEW s \in Snapshots, NEW c \in Contracts
  PROVE  /\ activateAccount(s, c) \in Snapshots /\ Known(s) \subseteq Known(activateAccount(s, c))
         /\ saveAccount(s, c) \in Snapshots /\ Known(s) \subseteq Known(saveAccount(s, c))
         /\ savePendingAccount(s, c) \in Snapshots /\ Known(s) \subseteq Known(savePendingAccount(s, c))
BY DEF activateAccount, saveAccount, savePendingAccount, removePendingAccount, Snapshots, Known

LEMMA NameKeeps ==
  ASSUME NEW s \in Snapshots, NEW c \in Contracts, NEW name \in Names
  PROVE  saveAccountName(s, c, name) \in Snapshots /\ Known(s) = Known(saveAccountName(s, c, name))
BY DEF saveAccountName, Snapshots, Known

LEMMA SnapshotType ==
  ASSUME NEW s \in Snapshots
  PROVE  localNidoSnapshot(s) \in Snapshots
BY DEF localNidoSnapshot, Snapshots

(* Nothing is lost in a merge: what is pending here and active there becomes
   active, and the rest stays on its list. *)
LEMMA MergeKeeps ==
  ASSUME NEW s \in Snapshots, NEW incoming \in Snapshots
  PROVE  /\ mergeNidoSnapshot(s, incoming) \in Snapshots
         /\ Known(s) \subseteq Known(mergeNidoSnapshot(s, incoming))
<1> DEFINE accounts == s.accounts \cup incoming.accounts
           merged == [accounts |-> accounts,
                      pending |-> (s.pending \cup incoming.pending) \ accounts,
                      names |-> [c \in Contracts |-> IF incoming.names[c] = None THEN s.names[c]
                                                                               ELSE incoming.names[c]]]
<1>1. /\ s.accounts \in SUBSET Contracts /\ s.pending \in SUBSET Contracts
      /\ incoming.accounts \in SUBSET Contracts /\ incoming.pending \in SUBSET Contracts
      /\ s.names \in [Contracts -> Names \cup {None}]
      /\ incoming.names \in [Contracts -> Names \cup {None}]
      BY DEF Snapshots
<1>2. merged \in Snapshots
      BY <1>1 DEF Snapshots
<1>3. Known(s) \subseteq Known(merged)
      BY DEF Known
<1>4. mergeNidoSnapshot(s, incoming) \in {s, merged}
      BY DEF mergeNidoSnapshot
<1> QED BY <1>2, <1>3, <1>4

-----------------------------------------------------------------------------
(* One origin's lists are replaced by lists that keep what they knew.      *)
LEMMA StoreStep ==
  ASSUME IInv, NEW o \in Origins, NEW s \in Snapshots, Known(store[o]) \subseteq Known(s),
         with(o, s)
  PROVE  /\ store' \in [Origins -> Snapshots] /\ store'[o] = s
         /\ \A p \in Origins : known(p) \subseteq known(p)'
<1>1. /\ store' \in [Origins -> Snapshots]
      /\ \A p \in Origins : store'[p] = IF p = o THEN s ELSE store[p]
      BY DEF with, IInv, StoreOK
<1> QED BY <1>1 DEF Known, known

LEMMA StoreSame ==
  ASSUME IInv, UNCHANGED store
  PROVE  store' \in [Origins -> Snapshots] /\ \A p \in Origins : known(p) \subseteq known(p)'
BY DEF IInv, StoreOK, known

(* The bridge, but for an exchange that has no snapshot. *)
LEMMA BridgeStep ==
  ASSUME IInv, NEW o \in Origins, NEW b, bridge' = [bridge EXCEPT ![o] = b],
         b.pc \in {"request", "response"} => b.snapshot \in Snapshots
  PROVE  BridgeOK'
<1>1. DOMAIN bridge' = Origins /\ \A p \in Origins : bridge'[p] = IF p = o THEN b ELSE bridge[p]
      BY DEF IInv, BridgeOK
<1> QED BY <1>1 DEF IInv, BridgeOK, Underway

LEMMA BridgeSame ==
  ASSUME IInv, UNCHANGED bridge
  PROVE  BridgeOK'
BY DEF IInv, BridgeOK, Underway

LEMMA BridgeEnds ==
  ASSUME IInv, NEW o \in Origins, bridge' = [bridge EXCEPT ![o] = Idle]
  PROVE  BridgeOK'
BY BridgeStep DEF Idle

LEMMA SyncStarts ==
  ASSUME IInv, NEW o \in Origins, NEW switcher \in BOOLEAN, start_sync(o, switcher)
  PROVE  BridgeOK'
<1> DEFINE b == [pc |-> "load", switcher |-> switcher]
<1>1. b.pc \notin {"request", "response"}
      OBVIOUS
<1>2. bridge' = bridge \/ bridge' = [bridge EXCEPT ![o] = b]
      BY DEF start_sync
<1> HIDE DEF b
<1> QED BY <1>1, <1>2, BridgeStep, BridgeSame

Kept == \A p \in Origins : known(p) \subseteq known(p)'

LEMMA ChainStep == IInv /\ (Deploy \/ Register) => IInv' /\ Kept
<1> SUFFICES ASSUME IInv, Deploy \/ Register PROVE IInv' /\ Kept
    OBVIOUS
<1>1. UNCHANGED <<store, bridge, naming>>
      BY DEF Deploy, Register
<1>2. deployed' \subseteq Contracts /\ registry' \in [Contracts -> Names \cup {None}]
      BY DEF Deploy, Register, IInv, StoreOK
<1> QED BY <1>1, <1>2, StoreSame, BridgeSame DEF IInv, StoreOK, Kept

LEMMA PageSteps ==
  ASSUME IInv, NEW o \in Origins, Reserve(o) \/ OpenAccount(o) \/ Name(o)
  PROVE  IInv' /\ Kept
<1>1. CASE Reserve(o)
  <2>1. PICK c \in Contracts : with(o, savePendingAccount(store[o], c))
        BY <1>1 DEF Reserve
  <2>2. store[o] \in Snapshots
        BY DEF IInv, StoreOK
  <2> QED BY <1>1, <2>1, <2>2, ActivateKeeps, StoreStep, SyncStarts
          DEF Reserve, chain_vars, IInv, StoreOK, Kept
<1>2. CASE OpenAccount(o)
  <2>1. PICK c \in Contracts :
          with(o, IF c \in store[o].pending THEN activateAccount(store[o], c)
                                            ELSE saveAccount(store[o], c))
        BY <1>2 DEF OpenAccount, IInv, StoreOK
  <2>2. store[o] \in Snapshots
        BY DEF IInv, StoreOK
  <2> QED BY <1>2, <2>1, <2>2, ActivateKeeps, StoreStep, BridgeSame
          DEF OpenAccount, chain_vars, IInv, StoreOK, Kept
<1>3. CASE SaveName(o)
  <2>1. PICK c \in Contracts : registry[c] \in Names /\ with(o, saveAccountName(store[o], c, registry[c]))
        BY <1>3 DEF SaveName, IInv, StoreOK
  <2>2. store[o] \in Snapshots
        BY DEF IInv, StoreOK
  <2> QED BY <1>3, <2>1, <2>2, NameKeeps, StoreStep, BridgeSame
          DEF SaveName, chain_vars, IInv, StoreOK, Kept
<1>4. CASE LookupName(o)
  <2>1. naming' \in [Origins -> Lookups \cup {None}]
        BY <1>4 DEF LookupName, Lookups, Snapshots, IInv, StoreOK
  <2> QED BY <1>4, <2>1, StoreSame, BridgeSame DEF LookupName, chain_vars, IInv, StoreOK, Kept
<1>5. CASE KeepName(o)
  <2>1. naming[o].contract \in Contracts /\ naming[o].name \in Names /\ store[o] \in Snapshots
        BY <1>5 DEF KeepName, Lookups, IInv, StoreOK
  <2>2. naming' \in [Origins -> Lookups \cup {None}]
        BY <1>5 DEF KeepName, IInv, StoreOK
  <2> QED BY <1>5, <2>1, <2>2, NameKeeps, StoreStep, BridgeSame
          DEF KeepName, chain_vars, IInv, StoreOK, Kept
<1> QED BY <1>1, <1>2, <1>3, <1>4, <1>5 DEF Name

LEMMA SyncSteps ==
  ASSUME IInv, NEW o \in Origins, Sync(o)
  PROVE  IInv' /\ Kept
<1>1. CASE PostRequest(o)
  <2> DEFINE b == [pc |-> "request", switcher |-> bridge[o].switcher,
                   snapshot |-> localNidoSnapshot(store[o])]
  <2>1. b.snapshot \in Snapshots
        BY SnapshotType DEF IInv, StoreOK
  <2>2. bridge' = [bridge EXCEPT ![o] = b]
        BY <1>1 DEF PostRequest
  <2> HIDE DEF b
  <2> QED BY <1>1, <2>1, <2>2, BridgeStep, StoreSame DEF PostRequest, chain_vars, IInv, StoreOK, Kept
<1>2. CASE Answer(o)
  <2>1. bridge[o].snapshot \in Snapshots
        BY <1>2 DEF Answer, IInv, BridgeOK, Underway
  <2>2. Apex \in Origins
        BY DEF Origins
  <2>3. store' \in [Origins -> Snapshots] /\ Kept
        BY <1>2, <2>1, <2>2, MergeKeeps, StoreStep DEF Answer, IInv, StoreOK, Kept
  <2>4. localNidoSnapshot(store'[Apex]) \in Snapshots
        BY <2>2, <2>3, SnapshotType
  <2>5. DOMAIN bridge' = Origins /\ \A p \in Origins : p # o => bridge'[p] = bridge[p]
        BY <1>2 DEF Answer, IInv, BridgeOK
  <2>6. bridge'[o].pc = "response" => bridge'[o].snapshot \in Snapshots
    <3>1. bridge'[o] = [[bridge[o] EXCEPT !.pc = "response"]
                          EXCEPT !.snapshot = localNidoSnapshot(store'[Apex])]
          BY <1>2 DEF Answer, IInv, BridgeOK
    <3> QED BY <2>1, <2>4, <3>1
  <2> QED BY <1>2, <2>3, <2>5, <2>6 DEF Answer, chain_vars, IInv, StoreOK, BridgeOK, Underway
<1>3. CASE Receive(o)
  <2>1. bridge[o].snapshot \in Snapshots
        BY <1>3 DEF Receive, IInv, BridgeOK, Underway
  <2>2. store' \in [Origins -> Snapshots] /\ Kept
        BY <1>3, <2>1, MergeKeeps, StoreStep DEF Receive, IInv, StoreOK, Kept
  <2> QED BY <1>3, <2>2, BridgeEnds DEF Receive, chain_vars, IInv, StoreOK
<1>4. CASE TimeOut(o)
      BY <1>4, StoreSame, BridgeEnds DEF TimeOut, chain_vars, IInv, StoreOK, Kept
<1> QED BY <1>1, <1>2, <1>3, <1>4 DEF Sync

LEMMA SwitcherSteps ==
  ASSUME IInv, NEW o \in Origins, mountNidoSwitcher(o) \/ Verify(o)
  PROVE  IInv' /\ Kept
<1>1. CASE mountNidoSwitcher(o)
  <2> DEFINE b == IF o = Apex THEN Idle ELSE [pc |-> "load", switcher |-> TRUE]
  <2>1. b.pc \notin {"request", "response"}
        BY DEF Idle
  <2>2. bridge' = [bridge EXCEPT ![o] = b]
        BY <1>1 DEF mountNidoSwitcher
  <2>3. naming' \in [Origins -> Lookups \cup {None}]
        BY <1>1 DEF mountNidoSwitcher, IInv, StoreOK
  <2> HIDE DEF b
  <2> QED BY <1>1, <2>1, <2>2, <2>3, BridgeStep, StoreSame
          DEF mountNidoSwitcher, chain_vars, IInv, StoreOK, Kept
<1>2. CASE VerifyOne(o)
  <2>1. \/ UNCHANGED store
        \/ \E c \in Contracts : with(o, activateAccount(store[o], c))
    <3>1. PICK c : IF c \in deployed THEN with(o, activateAccount(store[o], c)) ELSE UNCHANGED store
          BY <1>2 DEF VerifyOne
    <3> QED BY <3>1 DEF IInv, StoreOK
  <2>2. store' \in [Origins -> Snapshots] /\ Kept
        BY <2>1, ActivateKeeps, StoreStep, StoreSame DEF IInv, StoreOK, Kept
  <2> QED BY <1>2, <2>2, BridgeSame DEF VerifyOne, chain_vars, IInv, StoreOK
<1>3. CASE VerifyEnd(o)
  <2>1. BridgeOK'
        BY <1>3, SyncStarts, BridgeSame DEF VerifyEnd
  <2> QED BY <1>3, <2>1, StoreSame DEF VerifyEnd, chain_vars, IInv, StoreOK, Kept
<1> QED BY <1>1, <1>2, <1>3 DEF Verify

LEMMA NextInductive == IInv /\ [Next]_vars => IInv' /\ [Kept]_vars
<1>1. ASSUME IInv, Next PROVE IInv' /\ Kept
      BY <1>1, ChainStep, PageSteps, SyncSteps, SwitcherSteps DEF Next
<1>2. ASSUME IInv, UNCHANGED vars PROVE IInv'
      BY <1>2 DEF vars, chain_vars, IInv, StoreOK, BridgeOK, Underway
<1> QED BY <1>1, <1>2

LEMMA InitInductive == Init => IInv
<1> SUFFICES ASSUME Init PROVE IInv
    OBVIOUS
<1>1. store \in [Origins -> Snapshots]
      BY DEF Init, Snapshots, Nameless
<1> QED BY <1>1 DEF Init, IInv, StoreOK, BridgeOK, Underway, Nameless, Idle

(* No account an origin knows, active or half set up, is forgotten by it:
   promotions, merges of snapshots read before them, time-outs and reloads
   included (storage.ts, nidoSharedStorage.ts). *)
THEOREM NothingIsForgotten == Spec => NeverForgotten
<1>1. IInv /\ [Next]_vars => IInv'
      BY NextInductive
<1>2. IInv /\ [Next]_vars => [\A o \in Origins : known(o) \subseteq known(o)']_vars
      BY NextInductive DEF Kept
<1> QED BY <1>1, <1>2, InitInductive, PTL DEF Spec, NeverForgotten

-----------------------------------------------------------------------------
(* The dApp.                                                               *)


(* A page waits for a job of the kind it submitted. *)
WaitsFor(w, js) ==
  /\ \A x \in Targets : w.call[x].step = "wait" =>
       w.call[x].job \in DOMAIN js /\ js[w.call[x].job].kind = kindOf(x)
  /\ w.stage.step = "wait" => w.stage.job \in DOMAIN js /\ js[w.stage.job].kind = "grant"

(* The keys of the requests that a tab still has. *)
held(w) == {q.key : q \in {w.request, w.stash} \ {Absent}}

Once(w) == w.request # Absent /\ w.stash # Absent => w.request.key # w.stash.key

(* A key is requested in one tab, in one place, until it is granted. *)
Held ==
  /\ granted \subseteq made
  /\ \A t \in Tabs : held(tab[t]) \subseteq made \ granted /\ Once(tab[t])
  /\ \A t, u \in Tabs : t # u => held(tab[t]) \cap held(tab[u]) = {}

flagged == {t \in Tabs : tab[t].auto}

(* Each flag is an interactive connect that has not been answered yet. *)
Flags == autostarts + Cardinality(flagged) <= connects

DappInv ==
  /\ DappTypeOK
  /\ \A t \in Tabs : WaitsFor(tab[t], jobs)
  /\ Held /\ Flags /\ ReportsAreTrue

-----------------------------------------------------------------------------
(* The relayer's jobs.                                                     *)

LEMMA JobsMove ==
  ASSUME DappInv, UNCHANGED <<connected, material, tab, history>>, rules' \subseteq SessionRules,
         jobs' \in Seq(Jobs), Len(jobs') <= MaxJobs, DOMAIN jobs \subseteq DOMAIN jobs',
         \A i \in DOMAIN jobs : jobs'[i].kind = jobs[i].kind, ReportsAreTrue'
  PROVE  DappInv'
<1>1. DappTypeOK'
      BY DEF DappInv, DappTypeOK, history
<1>2. ASSUME NEW t \in Tabs PROVE WaitsFor(tab'[t], jobs')
      BY <1>2 DEF DappInv, WaitsFor
<1>3. Held' /\ Flags'
      BY DEF DappInv, Held, Flags, flagged, history
<1> QED BY <1>1, <1>2, <1>3 DEF DappInv

(* One tab moves, and what it submits or is told is recorded. *)
LEMMA TabMoves ==
  ASSUME DappInv, NEW t \in Tabs, NEW w \in TabStates, tab' = [tab EXCEPT ![t] = w],
         connected' \in BOOLEAN, material' \in [Targets -> Keys \cup {Absent}], rules' = rules,
         jobs' \in Seq(Jobs), Len(jobs') <= MaxJobs, DOMAIN jobs \subseteq DOMAIN jobs',
         \A i \in DOMAIN jobs : jobs'[i].kind = jobs[i].kind, ReportsAreTrue',
         WaitsFor(w, jobs'), w.auto = tab[t].auto, UNCHANGED <<connects, autostarts>>,
         made' = made /\ granted' = granted, held(w) \subseteq held(tab[t]), Once(w)
  PROVE  DappInv'
<1>0. tab \in [Tabs -> TabStates]
      BY DEF DappInv, DappTypeOK
<1>1. tab' \in [Tabs -> TabStates] /\ tab'[t] = w /\ \A u \in Tabs : u # t => tab'[u] = tab[u]
      BY <1>0
<1>2. DappTypeOK'
      BY <1>1 DEF DappInv, DappTypeOK
<1>3. ASSUME NEW u \in Tabs PROVE WaitsFor(tab'[u], jobs')
  <2>1. CASE u = t
        BY <1>1, <2>1
  <2>2. CASE u # t
        BY <1>1, <2>2 DEF DappInv, WaitsFor
  <2> QED BY <2>1, <2>2
<1>4. Held'
  <2>1. \A u \in Tabs : held(tab'[u]) \subseteq held(tab[u]) /\ Once(tab'[u])
        BY <1>1 DEF DappInv, Held
  <2>2. Held
        BY DEF DappInv
  <2> QED BY <2>1, <2>2 DEF Held
<1>5. Flags'
  <2>1. \A u \in Tabs : tab'[u].auto = tab[u].auto
        BY <1>1
  <2>2. flagged' = flagged
        BY <2>1 DEF flagged
  <2> QED BY <2>2 DEF DappInv, Flags
<1> QED BY <1>2, <1>3, <1>4, <1>5 DEF DappInv

(* A load of the page drops what the page was waiting for. *)
LEMMA Loaded ==
  ASSUME NEW w \in TabStates, NEW c \in BOOLEAN, NEW m \in [Targets -> Keys \cup {Absent}], NEW ret
  PROVE  /\ load(w, c, m, ret) \in TabStates
         /\ \A x \in Targets : load(w, c, m, ret).call[x] = Resting
         /\ load(w, c, m, ret).stage = Resting
         /\ load(w, c, m, ret).auto = w.auto
         /\ load(w, c, m, ret).request = Absent /\ load(w, c, m, ret).stash = w.stash
<1> DEFINE ui == uiState(c, m)
           check == checks(c, m)
           call == [x \in Targets |-> Resting]
           author == (ret = "ok" /\ w.context)
           context == (w.context /\ ret = "none")
<1>1. ui \in [Targets -> {"missing", "checking", "live"}]
      BY DEF uiState
<1>2. check \in [Targets -> Keys \cup {Absent}]
      BY DEF checks
<1>3. call \in [Targets -> Steps] /\ \A x \in Targets : call[x] = Resting
      BY DEF Steps
<1>4. author \in BOOLEAN /\ context \in BOOLEAN
      OBVIOUS
<1>5. Resting \in Stages
      BY DEF Stages
<1> DEFINE v == [w EXCEPT !.page = "app", !.ui = ui, !.check = check, !.making = Absent,
                          !.tip = "idle", !.call = call, !.request = Absent, !.stage = Resting,
                          !.author = author, !.context = context]
<1>6. load(w, c, m, ret) = v
      BY DEF load
<1> HIDE DEF ui, check, call, author, context
<1>7. v \in TabStates
      BY <1>1, <1>2, <1>3, <1>4, <1>5 DEF TabStates
<1>8. /\ v.call = call /\ v.stage = Resting /\ v.auto = w.auto
      /\ v.request = Absent /\ v.stash = w.stash
      BY DEF TabStates
<1> HIDE DEF v
<1> QED BY <1>3, <1>6, <1>7, <1>8

(* A tab moves that submits nothing and is told nothing. *)
LEMMA TabOnly ==
  ASSUME DappInv, NEW t \in Tabs, NEW w \in TabStates, tab' = [tab EXCEPT ![t] = w],
         connected' \in BOOLEAN, material' \in [Targets -> Keys \cup {Absent}], UNCHANGED chain,
         \A x \in Targets : w.call[x] = tab[t].call[x] \/ w.call[x].step # "wait",
         w.stage = tab[t].stage \/ w.stage.step # "wait",
         w.auto = tab[t].auto, UNCHANGED <<connects, autostarts>>,
         made' = made /\ granted' = granted,
         \/ w.request = tab[t].request /\ w.stash = tab[t].stash
         \/ w.request = Absent /\ w.stash \in {tab[t].stash, tab[t].request, Absent}
  PROVE  DappInv'
<1>1. jobs \in Seq(Jobs) /\ Len(jobs) <= MaxJobs /\ jobs' = jobs /\ rules' = rules
      BY DEF DappInv, DappTypeOK, chain
<1>2. ReportsAreTrue'
      BY <1>1 DEF DappInv, ReportsAreTrue
<1>3. WaitsFor(w, jobs')
      BY <1>1 DEF DappInv, WaitsFor
<1>4. held(w) \subseteq held(tab[t]) /\ Once(w)
      BY DEF held, Once, DappInv, Held
<1> QED BY <1>1, <1>2, <1>3, <1>4, TabMoves

LEMMA RestingDoesNotWait == Resting.step # "wait" /\ Resting \in Steps /\ Resting \in Stages
BY DEF Resting, Steps, Stages

LEMMA LoadKeeps ==
  ASSUME DappInv, NEW t \in Tabs, NEW ret, Load(t, ret), UNCHANGED <<connected, material, chain, history>>
  PROVE  DappInv'
<1> DEFINE w == load(tab[t], connected, material, ret)
<1>1. tab[t] \in TabStates /\ connected \in BOOLEAN /\ material \in [Targets -> Keys \cup {Absent}]
      BY DEF DappInv, DappTypeOK
<1>2. /\ w \in TabStates /\ \A x \in Targets : w.call[x] = Resting
      /\ w.stage = Resting /\ w.auto = tab[t].auto
      /\ w.request = Absent /\ w.stash = tab[t].stash
      BY <1>1, Loaded
<1>3. tab' = [tab EXCEPT ![t] = w]
      BY DEF Load
<1> HIDE DEF w
<1> QED BY <1>1, <1>2, <1>3, TabOnly, RestingDoesNotWait DEF history

(* The check of a target, a delegation begun or given up, a status read. *)
LEMMA PageKeeps ==
  ASSUME DappInv, NEW t \in Tabs,
         \/ \E x \in Targets, answered \in BOOLEAN : CheckEnds(t, x, answered)
         \/ enableTipping(t) \/ PasskeyCancelled(t) \/ readStatus(t)
  PROVE  DappInv'
<1>0. /\ tab \in [Tabs -> TabStates] /\ tab[t] \in TabStates /\ connected \in BOOLEAN
      /\ material \in [Targets -> Keys \cup {Absent}]
      BY DEF DappInv, DappTypeOK
<1>1. ASSUME NEW x \in Targets, NEW answered \in BOOLEAN, CheckEnds(t, x, answered) PROVE DappInv'
  <2> DEFINE revoked == answered /\ findRuleForPubkey(tab[t].check[x]) = {}
             ui == IF tab[t].ui[x] # "checking" THEN tab[t].ui[x]
                   ELSE IF revoked THEN "missing" ELSE "live"
             w == [tab[t] EXCEPT !.check[x] = Absent, !.ui[x] = ui]
  <2>1. /\ tab' = [tab EXCEPT ![t].check[x] = Absent, ![t].ui[x] = ui]
        /\ material' = IF revoked THEN forgetSessionKeyMaterial(x) ELSE material
        /\ UNCHANGED <<connected, chain, history>>
        BY <1>1 DEF CheckEnds
  <2>2. ui \in {"missing", "checking", "live"}
        BY <1>0 DEF TabStates
  <2> HIDE DEF ui
  <2>3. tab' = [tab EXCEPT ![t] = w]
        BY <1>0, <2>1
  <2>4. /\ w \in TabStates /\ w.call = tab[t].call /\ w.stage = tab[t].stage /\ w.auto = tab[t].auto
        /\ w.request = tab[t].request /\ w.stash = tab[t].stash
        BY <1>0, <2>2 DEF TabStates
  <2>5. material' \in [Targets -> Keys \cup {Absent}]
        BY <1>0, <2>1 DEF forgetSessionKeyMaterial
  <2> HIDE DEF w
  <2> QED BY <1>0, <2>1, <2>3, <2>4, <2>5, TabOnly DEF history
<1>2. ASSUME enableTipping(t) PROVE DappInv'
  <2> DEFINE w == [tab[t] EXCEPT !.making = Sac, !.tip = "loading", !.context = TRUE]
  <2>1. tab' = [tab EXCEPT ![t] = w] /\ UNCHANGED <<connected, material, chain, history>>
        BY <1>0, <1>2 DEF enableTipping
  <2>2. /\ w \in TabStates /\ w.call = tab[t].call /\ w.stage = tab[t].stage /\ w.auto = tab[t].auto
        /\ w.request = tab[t].request /\ w.stash = tab[t].stash
        BY <1>0 DEF TabStates, Targets
  <2> HIDE DEF w
  <2> QED BY <1>0, <2>1, <2>2, TabOnly DEF history
<1>3. ASSUME PasskeyCancelled(t) PROVE DappInv'
  <2> DEFINE w == [tab[t] EXCEPT !.making = Absent,
                                 !.tip = IF tab[t].making = Sac THEN "failure" ELSE @,
                                 !.context = IF tab[t].making = Sac THEN FALSE ELSE @]
  <2>1. tab' = [tab EXCEPT ![t] = w] /\ UNCHANGED <<connected, material, chain, history>>
        BY <1>0, <1>3 DEF PasskeyCancelled
  <2>2. /\ w \in TabStates /\ w.call = tab[t].call /\ w.stage = tab[t].stage /\ w.auto = tab[t].auto
        /\ w.request = tab[t].request /\ w.stash = tab[t].stash
        BY <1>0 DEF TabStates
  <2> HIDE DEF w
  <2> QED BY <1>0, <2>1, <2>2, TabOnly DEF history
<1>4. ASSUME readStatus(t) PROVE DappInv'
  <2> DEFINE w == [tab[t] EXCEPT !.tip = "idle", !.author = TRUE]
  <2>1. tab' = [tab EXCEPT ![t] = w] /\ UNCHANGED <<connected, material, chain, history>>
        BY <1>0, <1>4 DEF readStatus
  <2>2. /\ w \in TabStates /\ w.call = tab[t].call /\ w.stage = tab[t].stage /\ w.auto = tab[t].auto
        /\ w.request = tab[t].request /\ w.stash = tab[t].stash
        BY <1>0 DEF TabStates
  <2> HIDE DEF w
  <2> QED BY <1>0, <2>1, <2>2, TabOnly DEF history
<1> QED BY <1>1, <1>2, <1>3, <1>4

(* The wallet's pages that submit nothing. *)
LEMMA WalletKeeps ==
  ASSUME DappInv, NEW t \in Tabs, Review(t) \/ Reopen(t)
  PROVE  DappInv'
<1>0. /\ tab \in [Tabs -> TabStates] /\ tab[t] \in TabStates /\ connected \in BOOLEAN
      /\ material \in [Targets -> Keys \cup {Absent}]
      BY DEF DappInv, DappTypeOK
<1>1. ASSUME Review(t) PROVE DappInv'
  <2> DEFINE w == [tab[t] EXCEPT !.page = "sign", !.stash = tab[t].request, !.stage = Resting,
                                 !.request = Absent]
  <2>1. tab' = [tab EXCEPT ![t] = w] /\ UNCHANGED <<connected, material, chain, history>>
        BY <1>0, <1>1 DEF Review
  <2>2. /\ w \in TabStates /\ w.call = tab[t].call /\ w.stage = Resting /\ w.auto = tab[t].auto
        /\ w.request = Absent /\ w.stash = tab[t].request
        BY <1>0, RestingDoesNotWait DEF TabStates
  <2> HIDE DEF w
  <2> QED BY <1>0, <2>1, <2>2, TabOnly, RestingDoesNotWait DEF history
<1>2. ASSUME Reopen(t) PROVE DappInv'
  <2> DEFINE w == [tab[t] EXCEPT !.page = "sign", !.stage = Resting]
  <2>1. tab' = [tab EXCEPT ![t] = w] /\ UNCHANGED <<connected, material, chain, history>>
        BY <1>0, <1>2 DEF Reopen
  <2>2. /\ w \in TabStates /\ w.call = tab[t].call /\ w.stage = Resting /\ w.auto = tab[t].auto
        /\ w.request = tab[t].request /\ w.stash = tab[t].stash
        BY <1>0, RestingDoesNotWait DEF TabStates
  <2> HIDE DEF w
  <2> QED BY <1>0, <2>1, <2>2, TabOnly, RestingDoesNotWait DEF history
<1> QED BY <1>1, <1>2

(* The session changes in every tab that shows the dApp. *)
LEMMA SessionMoves ==
  ASSUME DappInv, NEW c \in BOOLEAN, NEW auto \in [Tabs -> BOOLEAN], connected' = c,
         tab' = [u \in Tabs |->
           IF OnApp(u) THEN [tab[u] EXCEPT !.ui = uiState(c, material), !.check = checks(c, material),
                                           !.auto = auto[u]]
           ELSE tab[u]],
         UNCHANGED <<material, chain, made, autostarts, granted>>
  PROVE  /\ DappTypeOK' \/ connects' \notin Nat
         /\ \A u \in Tabs : WaitsFor(tab'[u], jobs')
         /\ Held' /\ ReportsAreTrue'
         /\ \A u \in Tabs : tab'[u].auto \in {tab[u].auto, auto[u]}
<1>0. tab \in [Tabs -> TabStates] /\ material \in [Targets -> Keys \cup {Absent}]
      BY DEF DappInv, DappTypeOK
<1>1. uiState(c, material) \in [Targets -> {"missing", "checking", "live"}]
      BY DEF uiState
<1>2. checks(c, material) \in [Targets -> Keys \cup {Absent}]
      BY <1>0 DEF checks
<1>3. ASSUME NEW u \in Tabs
      PROVE  /\ tab'[u] \in TabStates /\ tab'[u].call = tab[u].call /\ tab'[u].stage = tab[u].stage
             /\ tab'[u].request = tab[u].request /\ tab'[u].stash = tab[u].stash
             /\ tab'[u].auto \in {tab[u].auto, auto[u]}
  <2>1. tab[u] \in TabStates /\ auto[u] \in BOOLEAN
        BY <1>0
  <2> DEFINE w == [tab[u] EXCEPT !.ui = uiState(c, material), !.check = checks(c, material),
                                 !.auto = auto[u]]
  <2>2. /\ w \in TabStates /\ w.call = tab[u].call /\ w.stage = tab[u].stage
        /\ w.request = tab[u].request /\ w.stash = tab[u].stash /\ w.auto = auto[u]
        BY <1>1, <1>2, <2>1 DEF TabStates
  <2>3. tab'[u] = IF OnApp(u) THEN w ELSE tab[u]
        OBVIOUS
  <2> HIDE DEF w
  <2> QED BY <2>1, <2>2, <2>3
<1>4. tab' \in [Tabs -> TabStates]
  <2>1. DOMAIN tab' = Tabs /\ tab' = [u \in Tabs |-> tab'[u]]
        OBVIOUS
  <2> QED BY <1>3, <2>1
<1>5. DappTypeOK' \/ connects' \notin Nat
      BY <1>4 DEF DappInv, DappTypeOK, chain
<1>6. ASSUME NEW u \in Tabs PROVE WaitsFor(tab'[u], jobs')
  <2>1. tab'[u].call = tab[u].call /\ tab'[u].stage = tab[u].stage /\ jobs' = jobs
        BY <1>3 DEF chain
  <2>2. WaitsFor(tab[u], jobs)
        BY DEF DappInv
  <2> QED BY <2>1, <2>2 DEF WaitsFor
<1>7. \A u \in Tabs : held(tab'[u]) = held(tab[u]) /\ (Once(tab[u]) => Once(tab'[u]))
      BY <1>3 DEF held, Once
<1>8. Held'
      BY <1>7 DEF DappInv, Held
<1>9. ReportsAreTrue'
      BY DEF DappInv, ReportsAreTrue, chain
<1> QED BY <1>3, <1>5, <1>6, <1>8, <1>9

(* Flags are counted. *)
LEMMA FlagsCount ==
  /\ IsFiniteSet(flagged) /\ Cardinality(flagged) \in Nat
  /\ \A S, T : IsFiniteSet(T) /\ S \subseteq T =>
       IsFiniteSet(S) /\ Cardinality(S) \in Nat /\ Cardinality(T) \in Nat /\ Cardinality(S) <= Cardinality(T)
  /\ \A t : IsFiniteSet(flagged \cup {t}) /\ Cardinality(flagged \cup {t}) <= Cardinality(flagged) + 1
  /\ \A t \in flagged : Cardinality(flagged \ {t}) = Cardinality(flagged) - 1
<1>1. flagged \subseteq Tabs /\ IsFiniteSet(Tabs)
      BY DappAssumption DEF DappAssumption, flagged
<1>2. IsFiniteSet(flagged)
      BY <1>1, FS_Subset
<1>3. Cardinality(flagged) \in Nat
      BY <1>2, FS_CardinalityType
<1>4. ASSUME NEW S, NEW T, IsFiniteSet(T), S \subseteq T
      PROVE  IsFiniteSet(S) /\ Cardinality(S) \in Nat /\ Cardinality(T) \in Nat /\ Cardinality(S) <= Cardinality(T)
      BY <1>4, FS_Subset, FS_CardinalityType
<1>5. ASSUME NEW t
      PROVE  IsFiniteSet(flagged \cup {t}) /\ Cardinality(flagged \cup {t}) <= Cardinality(flagged) + 1
      BY <1>2, <1>3, FS_AddElement
<1>6. ASSUME NEW t \in flagged PROVE Cardinality(flagged \ {t}) = Cardinality(flagged) - 1
      BY <1>2, <1>3, FS_RemoveElement
<1> QED BY <1>2, <1>3, <1>4, <1>5, <1>6

LEMMA ConnectKeeps ==
  ASSUME DappInv, NEW t \in Tabs, connectWallet(t) \/ disconnectWallet(t)
  PROVE  DappInv'
<1>0. /\ tab \in [Tabs -> TabStates] /\ connects \in Nat /\ autostarts \in Nat
      /\ autostarts + Cardinality(flagged) <= connects
      BY DEF DappInv, DappTypeOK, Flags
<1>00. \A u \in Tabs : tab[u].auto \in BOOLEAN
       BY <1>0 DEF TabStates
<1>1. CASE connectWallet(t)
  <2> DEFINE auto == [u \in Tabs |-> tab[u].auto \/ u = t]
  <2>1. auto \in [Tabs -> BOOLEAN]
        OBVIOUS
  <2>2. tab' = [u \in Tabs |->
           IF OnApp(u) THEN [tab[u] EXCEPT !.ui = uiState(TRUE, material), !.check = checks(TRUE, material),
                                           !.auto = auto[u]]
           ELSE tab[u]]
    <3>1. ASSUME NEW u \in Tabs
          PROVE  [tab[u] EXCEPT !.ui = uiState(TRUE, material), !.check = checks(TRUE, material),
                                !.auto = auto[u]]
               = [tab[u] EXCEPT !.ui = uiState(TRUE, material), !.check = checks(TRUE, material),
                                !.auto = @ \/ u = t]
          BY <1>0 DEF TabStates
    <3> QED BY <1>1, <3>1 DEF connectWallet
  <2>3. connected' = TRUE /\ connects' = connects + 1 /\ UNCHANGED <<material, chain, made, autostarts, granted>>
        BY <1>1 DEF connectWallet
  <2> HIDE DEF auto
  <2>4. /\ DappTypeOK' \/ connects' \notin Nat
        /\ \A u \in Tabs : WaitsFor(tab'[u], jobs')
        /\ Held' /\ ReportsAreTrue'
        /\ \A u \in Tabs : tab'[u].auto \in {tab[u].auto, auto[u]}
        BY <2>1, <2>2, <2>3, SessionMoves
  <2>5. flagged' \subseteq flagged \cup {t}
        BY <1>00, <2>4 DEF flagged, auto
  <2>6. Cardinality(flagged') <= Cardinality(flagged) + 1 /\ Cardinality(flagged') \in Nat
    <3>1. IsFiniteSet(flagged \cup {t}) /\ Cardinality(flagged \cup {t}) <= Cardinality(flagged) + 1
          BY FlagsCount
    <3>2. /\ Cardinality(flagged') <= Cardinality(flagged \cup {t}) /\ Cardinality(flagged') \in Nat
          /\ Cardinality(flagged \cup {t}) \in Nat
          BY <2>5, <3>1, FlagsCount
    <3> QED BY <3>1, <3>2, FlagsCount
  <2>7. Flags'
        BY <1>0, <2>3, <2>6, FlagsCount DEF Flags
  <2> QED BY <1>0, <2>3, <2>4, <2>7 DEF DappInv
<1>2. CASE disconnectWallet(t)
  <2> DEFINE auto == [u \in Tabs |-> tab[u].auto]
  <2>1. auto \in [Tabs -> BOOLEAN]
        BY <1>00
  <2>2. tab' = [u \in Tabs |->
           IF OnApp(u) THEN [tab[u] EXCEPT !.ui = uiState(FALSE, material), !.check = checks(FALSE, material),
                                           !.auto = auto[u]]
           ELSE tab[u]]
    <3>1. ASSUME NEW u \in Tabs
          PROVE  [tab[u] EXCEPT !.ui = uiState(FALSE, material), !.check = checks(FALSE, material),
                                !.auto = auto[u]]
               = [tab[u] EXCEPT !.ui = uiState(FALSE, material), !.check = checks(FALSE, material)]
          BY <1>0 DEF TabStates
    <3> QED BY <1>2, <3>1 DEF disconnectWallet, setSession
  <2>3. connected' = FALSE /\ UNCHANGED <<material, chain, made, autostarts, granted, connects>>
        BY <1>2 DEF disconnectWallet, setSession, history
  <2> HIDE DEF auto
  <2>4. /\ DappTypeOK' \/ connects' \notin Nat
        /\ \A u \in Tabs : WaitsFor(tab'[u], jobs')
        /\ Held' /\ ReportsAreTrue'
        /\ \A u \in Tabs : tab'[u].auto \in {tab[u].auto, auto[u]}
        BY <2>1, <2>2, <2>3, SessionMoves
  <2>5. flagged' = flagged
        BY <2>4 DEF flagged, auto
  <2>6. Flags'
        BY <2>3, <2>5 DEF DappInv, Flags
  <2> QED BY <1>0, <2>3, <2>4, <2>6 DEF DappInv
<1> QED BY <1>1, <1>2

LEMMA AutoStartKeeps ==
  ASSUME DappInv, NEW t \in Tabs, AutoStart(t)
  PROVE  DappInv'
<1> DEFINE w == [tab[t] EXCEPT !.auto = FALSE,
                               !.making = IF shouldAutoStart(t) THEN Status ELSE @]
<1>0. /\ tab \in [Tabs -> TabStates] /\ tab[t] \in TabStates /\ connects \in Nat /\ autostarts \in Nat
      /\ autostarts + Cardinality(flagged) <= connects
      BY DEF DappInv, DappTypeOK, Flags
<1>1. tab' = [tab EXCEPT ![t] = w] /\ tab[t].auto /\ UNCHANGED <<connected, material, chain, made, connects, granted>>
      BY <1>0 DEF AutoStart, consumeAutoStart
<1>2. autostarts' \in {autostarts, autostarts + 1}
      BY DEF AutoStart
<1>3. /\ w \in TabStates /\ w.call = tab[t].call /\ w.stage = tab[t].stage /\ w.auto = FALSE
      /\ w.request = tab[t].request /\ w.stash = tab[t].stash
      BY <1>0 DEF TabStates, Targets
<1> HIDE DEF w
<1>4. tab' \in [Tabs -> TabStates] /\ tab'[t] = w /\ \A u \in Tabs : u # t => tab'[u] = tab[u]
      BY <1>0, <1>1, <1>3
<1>5. DappTypeOK'
      BY <1>0, <1>1, <1>2, <1>4 DEF DappInv, DappTypeOK, chain
<1>6. ASSUME NEW u \in Tabs
      PROVE  WaitsFor(tab'[u], jobs') /\ held(tab'[u]) = held(tab[u]) /\ Once(tab'[u])
  <2>1. /\ tab'[u].call = tab[u].call /\ tab'[u].stage = tab[u].stage
        /\ tab'[u].request = tab[u].request /\ tab'[u].stash = tab[u].stash
        BY <1>3, <1>4
  <2> QED BY <1>1, <2>1 DEF DappInv, WaitsFor, held, Held, Once, chain
<1>7. Held'
      BY <1>1, <1>6 DEF DappInv, Held
<1>8. Flags'
  <2>1. flagged' = flagged \ {t} /\ t \in flagged
        BY <1>1, <1>3, <1>4 DEF flagged
  <2>2. Cardinality(flagged') = Cardinality(flagged) - 1 /\ Cardinality(flagged) \in Nat
        BY <2>1, FlagsCount
  <2> QED BY <1>0, <1>1, <1>2, <2>2 DEF Flags
<1>9. ReportsAreTrue'
      BY <1>1 DEF DappInv, ReportsAreTrue, chain
<1> QED BY <1>5, <1>6, <1>7, <1>8, <1>9 DEF DappInv

(* A new key is requested nowhere else. *)
LEMMA DelegationKeeps ==
  ASSUME DappInv, NEW t \in Tabs, NEW k \in Keys, startDelegation(t, k)
  PROVE  DappInv'
<1> DEFINE q == [target |-> tab[t].making, key |-> k]
           w == [tab[t] EXCEPT !.page = "delegate", !.making = Absent, !.tip = "idle",
                               !.request = q, !.author = FALSE,
                               !.call = [x \in Targets |-> Resting],
                               !.ui = uiState(FALSE, material), !.check = checks(FALSE, material)]
<1>0. /\ tab \in [Tabs -> TabStates] /\ tab[t] \in TabStates /\ made \subseteq Keys
      /\ material \in [Targets -> Keys \cup {Absent}]
      BY DEF DappInv, DappTypeOK
<1>1. /\ tab' = [tab EXCEPT ![t] = w] /\ tab[t].making # Absent /\ k \notin made
      /\ made' = made \cup {k} /\ material' = saveSessionKeyMaterial(tab[t].making, k)
      /\ UNCHANGED <<connected, chain, connects, autostarts, granted>>
      BY <1>0 DEF startDelegation
<1>2. q \in Requests /\ q.key = k /\ q # Absent
      BY <1>0, <1>1, DappAssumption DEF TabStates, Requests, DappAssumption
<1>3. /\ [x \in Targets |-> Resting] \in [Targets -> Steps]
      /\ uiState(FALSE, material) \in [Targets -> {"missing", "checking", "live"}]
      /\ checks(FALSE, material) \in [Targets -> Keys \cup {Absent}]
      BY RestingDoesNotWait DEF uiState, checks
<1> HIDE DEF q
<1>4. /\ w \in TabStates /\ \A x \in Targets : w.call[x] = Resting
      /\ w.stage = tab[t].stage /\ w.auto = tab[t].auto
      /\ w.request = q /\ w.stash = tab[t].stash
      BY <1>0, <1>2, <1>3 DEF TabStates
<1> HIDE DEF w
<1>5. tab' \in [Tabs -> TabStates] /\ tab'[t] = w /\ \A u \in Tabs : u # t => tab'[u] = tab[u]
      BY <1>0, <1>1, <1>4
<1>6. material' \in [Targets -> Keys \cup {Absent}]
      BY <1>0, <1>1 DEF saveSessionKeyMaterial
<1>7. DappTypeOK'
      BY <1>0, <1>1, <1>5, <1>6 DEF DappInv, DappTypeOK, chain
<1>8. ASSUME NEW u \in Tabs PROVE WaitsFor(tab'[u], jobs')
  <2>1. CASE u = t
        BY <1>1, <1>4, <1>5, <2>1, RestingDoesNotWait DEF DappInv, WaitsFor, chain
  <2>2. CASE u # t
        BY <1>1, <1>5, <2>2 DEF DappInv, WaitsFor, chain
  <2> QED BY <2>1, <2>2
<1>9. Held'
  <2>0. /\ granted \subseteq made
        /\ \A u \in Tabs : held(tab[u]) \subseteq made \ granted /\ Once(tab[u])
        /\ \A u, v \in Tabs : u # v => held(tab[u]) \cap held(tab[v]) = {}
        BY DEF DappInv, Held
  <2>1. held(w) \subseteq held(tab[t]) \cup {k}
        BY <1>2, <1>4 DEF held
  <2>2. Once(w)
    <3>1. tab[t].stash # Absent => tab[t].stash.key \in made
          BY <2>0 DEF held
    <3> QED BY <1>1, <1>2, <1>4, <3>1 DEF Once
  <2>3. k \notin granted /\ \A u \in Tabs : k \notin held(tab[u])
        BY <1>1, <2>0
  <2>4. \A u \in Tabs : held(tab'[u]) \subseteq made' \ granted' /\ Once(tab'[u])
        BY <1>1, <1>5, <2>0, <2>1, <2>2, <2>3
  <2>5. ASSUME NEW u \in Tabs, NEW v \in Tabs, u # v PROVE held(tab'[u]) \cap held(tab'[v]) = {}
    <3>1. /\ u # t => held(tab'[u]) = held(tab[u])
          /\ v # t => held(tab'[v]) = held(tab[v])
          /\ held(tab'[t]) \subseteq held(tab[t]) \cup {k}
          BY <1>5, <2>1
    <3>2. CASE u = t
          BY <2>0, <2>3, <2>5, <3>1, <3>2
    <3>3. CASE v = t
          BY <2>0, <2>3, <2>5, <3>1, <3>3
    <3>4. CASE u # t /\ v # t
          BY <2>0, <2>5, <3>1, <3>4
    <3> QED BY <3>2, <3>3, <3>4
  <2> QED BY <1>1, <2>0, <2>4, <2>5 DEF Held
<1>10. Flags'
  <2>1. \A u \in Tabs : tab'[u].auto = tab[u].auto
        BY <1>4, <1>5
  <2>2. flagged' = flagged
        BY <2>1 DEF flagged
  <2> QED BY <1>1, <2>2 DEF DappInv, Flags
<1>11. ReportsAreTrue'
       BY <1>1 DEF DappInv, ReportsAreTrue, chain
<1> QED BY <1>7, <1>8, <1>9, <1>10, <1>11 DEF DappInv

-----------------------------------------------------------------------------
(* Calls and grants.                                                       *)

LEMMA JobIsTyped ==
  ASSUME NEW kind \in {"grant", "revoke", "save", "tip"}, NEW t \in Tabs \cup {Absent},
         NEW r \in SessionRules
  PROVE  /\ job(kind, t, r) \in Jobs /\ job(kind, t, r).kind = kind /\ job(kind, t, r).rule = r
         /\ job(kind, t, r).report = "none"
BY DEF job, Jobs

LEMMA Posted ==
  ASSUME DappInv, NEW j \in Jobs, j.report = "none", post(j)
  PROVE  /\ jobs' \in Seq(Jobs) /\ Len(jobs') <= MaxJobs /\ DOMAIN jobs \subseteq DOMAIN jobs'
         /\ \A i \in DOMAIN jobs : jobs'[i] = jobs[i]
         /\ DOMAIN jobs' = DOMAIN jobs \cup {Len(jobs) + 1}
         /\ Len(jobs) + 1 \in 1..MaxJobs /\ jobs'[Len(jobs) + 1] = j
         /\ ReportsAreTrue'
<1>1. jobs \in Seq(Jobs) /\ Len(jobs) < MaxJobs /\ jobs' = Append(jobs, j) /\ MaxJobs \in Nat
      BY DappAssumption DEF DappInv, DappTypeOK, post, DappAssumption
<1>2. /\ jobs' \in Seq(Jobs) /\ Len(jobs') = Len(jobs) + 1 /\ Len(jobs) \in Nat
      /\ \A i \in 1..Len(jobs) : jobs'[i] = jobs[i]
      /\ jobs'[Len(jobs) + 1] = j
      BY <1>1
<1>3. DOMAIN jobs = 1..Len(jobs) /\ DOMAIN jobs' = 1..(Len(jobs) + 1)
      BY <1>1, <1>2
<1>4. ReportsAreTrue'
      BY <1>2, <1>3 DEF DappInv, ReportsAreTrue
<1> QED BY <1>1, <1>2, <1>3, <1>4

LEMMA Ended ==
  ASSUME NEW w \in TabStates, NEW x \in Targets, NEW outcome \in {"success", "failure", "pending"}
  PROVE  /\ ended(w, x, outcome) \in TabStates
         /\ ended(w, x, outcome).call[x] = Resting
         /\ \A y \in Targets : y # x => ended(w, x, outcome).call[y] = w.call[y]
         /\ ended(w, x, outcome).stage = w.stage /\ ended(w, x, outcome).auto = w.auto
         /\ ended(w, x, outcome).request = w.request /\ ended(w, x, outcome).stash = w.stash
<1> DEFINE v == [w EXCEPT !.call[x] = Resting]
<1>1. /\ v \in TabStates /\ v.call[x] = Resting /\ \A y \in Targets : y # x => v.call[y] = w.call[y]
      /\ v.stage = w.stage /\ v.auto = w.auto /\ v.request = w.request /\ v.stash = w.stash
      BY RestingDoesNotWait DEF TabStates
<1>2. ended(w, x, outcome) = IF x = Sac THEN [v EXCEPT !.tip = outcome]
                             ELSE IF outcome = "success" THEN [v EXCEPT !.tip = "idle", !.author = FALSE]
                             ELSE v
      BY DEF ended
<1> HIDE DEF v
<1>3. CASE x = Sac
  <2>1. ended(w, x, outcome) = [v EXCEPT !.tip = outcome]
        BY <1>2, <1>3
  <2>2. [v EXCEPT !.tip = outcome] \in TabStates
        BY <1>1 DEF TabStates
  <2> QED BY <1>1, <2>1, <2>2 DEF TabStates
<1>4. CASE x # Sac /\ outcome = "success"
  <2>1. ended(w, x, outcome) = [v EXCEPT !.tip = "idle", !.author = FALSE]
        BY <1>2, <1>4
  <2>2. [v EXCEPT !.tip = "idle", !.author = FALSE] \in TabStates
        BY <1>1 DEF TabStates
  <2> QED BY <1>1, <2>1, <2>2 DEF TabStates
<1>5. CASE x # Sac /\ outcome # "success"
      BY <1>1, <1>2, <1>5
<1> QED BY <1>3, <1>4, <1>5

LEMMA EndedKeeps ==
  ASSUME DappInv, NEW t \in Tabs, NEW x \in Targets, NEW outcome \in {"success", "failure", "pending"},
         tab' = [tab EXCEPT ![t] = ended(tab[t], x, outcome)],
         material' \in [Targets -> Keys \cup {Absent}], UNCHANGED <<connected, chain, history>>
  PROVE  DappInv'
<1>1. tab[t] \in TabStates /\ connected \in BOOLEAN
      BY DEF DappInv, DappTypeOK
<1> DEFINE w == ended(tab[t], x, outcome)
<1>2. /\ w \in TabStates /\ w.call[x] = Resting /\ \A y \in Targets : y # x => w.call[y] = tab[t].call[y]
      /\ w.stage = tab[t].stage /\ w.auto = tab[t].auto
      /\ w.request = tab[t].request /\ w.stash = tab[t].stash
      BY <1>1, Ended
<1> HIDE DEF w
<1>3. \A y \in Targets : w.call[y] = tab[t].call[y] \/ w.call[y].step # "wait"
      BY <1>2, RestingDoesNotWait
<1>4. tab' = [tab EXCEPT ![t] = w]
      BY DEF w
<1> QED BY <1>1, <1>2, <1>3, <1>4, TabOnly DEF history

LEMMA PressKeeps ==
  ASSUME DappInv, NEW t \in Tabs, NEW x \in Targets, Press(t, x) \/ FindRule(t, x)
  PROVE  DappInv'
<1>0. /\ tab \in [Tabs -> TabStates] /\ tab[t] \in TabStates /\ connected \in BOOLEAN
      /\ material \in [Targets -> Keys \cup {Absent}] /\ rules \subseteq SessionRules
      BY DEF DappInv, DappTypeOK
(* The call moves on to a step that waits for nothing. *)
<1>1. ASSUME NEW s \in Steps, s.step # "wait", NEW tip \in {"loading", tab[t].tip},
             tab' = [tab EXCEPT ![t] = [tab[t] EXCEPT !.call[x] = s, !.tip = tip]],
             UNCHANGED <<connected, material, chain, history>>
      PROVE  DappInv'
  <2> DEFINE w == [tab[t] EXCEPT !.call[x] = s, !.tip = tip]
  <2>1. /\ w \in TabStates /\ w.call[x] = s /\ \A y \in Targets : y # x => w.call[y] = tab[t].call[y]
        /\ w.stage = tab[t].stage /\ w.auto = tab[t].auto
        /\ w.request = tab[t].request /\ w.stash = tab[t].stash
        BY <1>0, <1>1 DEF TabStates
  <2>2. tab' = [tab EXCEPT ![t] = w]
        BY <1>1
  <2> HIDE DEF w
  <2>3. \A y \in Targets : w.call[y] = tab[t].call[y] \/ w.call[y].step # "wait"
        BY <1>1, <2>1
  <2> QED BY <1>0, <1>1, <2>1, <2>2, <2>3, TabOnly DEF history
<1>2. CASE Press(t, x)
  <2>1. UNCHANGED <<connected, material, chain, history>>
        BY <1>2 DEF Press
  <2>2. CASE material[x] = Absent
    <3>1. tab' = [tab EXCEPT ![t] = ended(tab[t], x, "failure")]
          BY <1>0, <1>2, <2>2 DEF Press
    <3> QED BY <1>0, <2>1, <3>1, EndedKeeps
  <2>3. CASE material[x] # Absent
    <3> DEFINE s == [step |-> "find", key |-> material[x]]
               tip == IF x = Sac THEN "loading" ELSE tab[t].tip
    <3>1. s \in Steps /\ s.step # "wait"
          BY <1>0, <2>3 DEF Steps
    <3>2. tab' = [tab EXCEPT ![t] = [tab[t] EXCEPT !.call[x] = s, !.tip = tip]]
      <4>1. tab' = [tab EXCEPT ![t].call[x] = s, ![t].tip = IF x = Sac THEN "loading" ELSE @]
            BY <1>2, <2>3 DEF Press
      <4> HIDE DEF s
      <4> QED BY <1>0, <4>1 DEF TabStates
    <3>3. tip \in {"loading", tab[t].tip}
          OBVIOUS
    <3> HIDE DEF s, tip
    <3> QED BY <1>1, <2>1, <3>1, <3>2, <3>3
  <2> QED BY <2>2, <2>3
<1>3. CASE FindRule(t, x)
  <2>1. UNCHANGED <<connected, chain, history>>
        BY <1>3 DEF FindRule
  <2>2. ASSUME NEW r \in findRuleForPubkey(tab[t].call[x].key),
               tab' = [tab EXCEPT ![t].call[x] = [step |-> "sign", rule |-> r]], UNCHANGED material
        PROVE  DappInv'
    <3> DEFINE s == [step |-> "sign", rule |-> r]
    <3>1. s \in Steps /\ s.step # "wait"
          BY <1>0, <2>2 DEF Steps, findRuleForPubkey
    <3>2. tab' = [tab EXCEPT ![t] = [tab[t] EXCEPT !.call[x] = s, !.tip = tab[t].tip]]
      <4>1. [tab[t] EXCEPT !.call[x] = s, !.tip = tab[t].tip] = [tab[t] EXCEPT !.call[x] = s]
            BY <1>0 DEF TabStates
      <4> QED BY <1>0, <2>2, <4>1
    <3> HIDE DEF s
    <3> QED BY <1>1, <2>1, <2>2, <3>1, <3>2
  <2>3. ASSUME material' = forgetSessionKeyMaterial(x),
               tab' = [tab EXCEPT ![t] = IF x = Sac THEN [ended(@, x, "failure") EXCEPT !.ui[Sac] = "missing"]
                                         ELSE ended(@, x, "failure")]
        PROVE  DappInv'
    <3>1. material' \in [Targets -> Keys \cup {Absent}]
          BY <1>0, <2>3 DEF forgetSessionKeyMaterial
    <3>2. CASE x # Sac
      <4>1. tab' = [tab EXCEPT ![t] = ended(tab[t], x, "failure")]
            BY <1>0, <2>3, <3>2
      <4> QED BY <2>1, <3>1, <4>1, EndedKeeps
    <3>3. CASE x = Sac
      <4> DEFINE v == ended(tab[t], x, "failure")
                 w == [v EXCEPT !.ui[Sac] = "missing"]
      <4>1. tab' = [tab EXCEPT ![t] = w]
            BY <1>0, <2>3, <3>3
      <4>2. /\ v \in TabStates /\ v.call[x] = Resting
            /\ \A y \in Targets : y # x => v.call[y] = tab[t].call[y]
            /\ v.stage = tab[t].stage /\ v.auto = tab[t].auto
            /\ v.request = tab[t].request /\ v.stash = tab[t].stash
            BY <1>0, Ended
      <4> HIDE DEF v
      <4>3. /\ w \in TabStates /\ w.call = v.call /\ w.stage = v.stage /\ w.auto = v.auto
            /\ w.request = v.request /\ w.stash = v.stash
            BY <4>2 DEF TabStates
      <4> HIDE DEF w
      <4>4. \A y \in Targets : w.call[y] = tab[t].call[y] \/ w.call[y].step # "wait"
            BY <4>2, <4>3, RestingDoesNotWait
      <4>5. /\ w.stage = tab[t].stage /\ w.auto = tab[t].auto
            /\ w.request = tab[t].request /\ w.stash = tab[t].stash
            BY <4>2, <4>3
      <4>6. UNCHANGED <<connects, autostarts, made, granted, connected, chain>>
            BY <2>1 DEF history
      <4> QED BY <1>0, <3>1, <4>1, <4>3, <4>4, <4>5, <4>6, TabOnly
    <3> QED BY <3>2, <3>3
  <2>4. ASSUME tab' = [tab EXCEPT ![t] = ended(@, x, "failure")], UNCHANGED material PROVE DappInv'
    <3>1. tab' = [tab EXCEPT ![t] = ended(tab[t], x, "failure")]
          BY <1>0, <2>4
    <3> QED BY <1>0, <2>1, <2>4, <3>1, EndedKeeps
  <2> QED BY <1>3, <2>2, <2>3, <2>4 DEF FindRule
<1> QED BY <1>2, <1>3

(* The call of a tab waits for the job it was posted as, or failed. *)
LEMMA SubmitKeeps ==
  ASSUME DappInv, NEW t \in Tabs, NEW x \in Targets, Submit(t, x)
  PROVE  DappInv'
<1> DEFINE c == tab[t].call[x]
           j == job(kindOf(x), t, c.rule)
           s == [step |-> "wait", job |-> Len(jobs) + 1]
<1>0. /\ tab \in [Tabs -> TabStates] /\ tab[t] \in TabStates /\ connected \in BOOLEAN
      /\ material \in [Targets -> Keys \cup {Absent}] /\ jobs \in Seq(Jobs) /\ Len(jobs) <= MaxJobs
      /\ WaitsFor(tab[t], jobs) /\ ReportsAreTrue
      BY DEF DappInv, DappTypeOK
<1>1. UNCHANGED <<connected, material, rules, history>> /\ c.step = "sign"
      BY DEF Submit
<1>2. j \in Jobs /\ j.kind = kindOf(x) /\ j.report = "none"
  <2>1. c \in Steps
        BY <1>0 DEF TabStates
  <2>2. c.rule \in SessionRules
        BY <1>1, <2>1 DEF Steps, Resting, Waiting
  <2>3. kindOf(x) \in {"grant", "revoke", "save", "tip"}
        BY DEF kindOf
  <2> QED BY <2>2, <2>3, JobIsTyped
<1>3. /\ post(j) /\ tab' = [tab EXCEPT ![t].call[x] = s]
      \/ /\ jobs' = jobs \/ post(j)
         /\ tab' = [tab EXCEPT ![t] = ended(tab[t], x, "failure")]
      BY <1>0 DEF Submit
<1> HIDE DEF j
<1>4. ASSUME post(j)
      PROVE  /\ jobs' \in Seq(Jobs) /\ Len(jobs') <= MaxJobs /\ DOMAIN jobs \subseteq DOMAIN jobs'
             /\ \A i \in DOMAIN jobs : jobs'[i] = jobs[i]
             /\ DOMAIN jobs' = DOMAIN jobs \cup {Len(jobs) + 1}
             /\ Len(jobs) + 1 \in 1..MaxJobs /\ jobs'[Len(jobs) + 1] = j
             /\ ReportsAreTrue'
      BY <1>2, <1>4, Posted
<1>5. CASE post(j) /\ tab' = [tab EXCEPT ![t].call[x] = s]
  <2> DEFINE w == [tab[t] EXCEPT !.call[x] = s]
  <2>1. s \in Steps /\ s.step = "wait" /\ s.job = Len(jobs) + 1
        BY <1>4, <1>5 DEF Steps, Waiting
  <2>2. tab' = [tab EXCEPT ![t] = w]
        BY <1>0, <1>5
  <2> HIDE DEF s
  <2>3. /\ w \in TabStates /\ w.call[x] = s /\ \A y \in Targets : y # x => w.call[y] = tab[t].call[y]
        /\ w.stage = tab[t].stage /\ w.auto = tab[t].auto
        /\ w.request = tab[t].request /\ w.stash = tab[t].stash
        BY <1>0, <2>1 DEF TabStates
  <2> HIDE DEF w
  <2>4. WaitsFor(w, jobs')
    <3>1. w.call[x].job \in DOMAIN jobs' /\ jobs'[w.call[x].job].kind = kindOf(x)
          BY <1>2, <1>4, <1>5, <2>1, <2>3
    <3>2. ASSUME NEW y \in Targets, y # x, w.call[y].step = "wait"
          PROVE  w.call[y].job \in DOMAIN jobs' /\ jobs'[w.call[y].job].kind = kindOf(y)
      <4>1. w.call[y] = tab[t].call[y]
            BY <2>3, <3>2
      <4> QED BY <1>0, <1>4, <1>5, <3>2, <4>1 DEF WaitsFor
    <3>3. w.stage.step = "wait" => w.stage.job \in DOMAIN jobs' /\ jobs'[w.stage.job].kind = "grant"
          BY <1>0, <1>4, <1>5, <2>3 DEF WaitsFor
    <3> QED BY <3>1, <3>2, <3>3 DEF WaitsFor
  <2>5. held(w) \subseteq held(tab[t]) /\ Once(w)
        BY <2>3 DEF held, Once, DappInv, Held
  <2> QED BY <1>0, <1>1, <1>4, <1>5, <2>2, <2>3, <2>4, <2>5, TabMoves DEF history
<1>6. CASE (jobs' = jobs \/ post(j)) /\ tab' = [tab EXCEPT ![t] = ended(tab[t], x, "failure")]
  <2> DEFINE w == ended(tab[t], x, "failure")
  <2>1. /\ w \in TabStates /\ w.call[x] = Resting
        /\ \A y \in Targets : y # x => w.call[y] = tab[t].call[y]
        /\ w.stage = tab[t].stage /\ w.auto = tab[t].auto
        /\ w.request = tab[t].request /\ w.stash = tab[t].stash
        BY <1>0, Ended
  <2>2. tab' = [tab EXCEPT ![t] = w]
        BY <1>6
  <2> HIDE DEF w
  <2>3. /\ jobs' \in Seq(Jobs) /\ Len(jobs') <= MaxJobs /\ DOMAIN jobs \subseteq DOMAIN jobs'
        /\ \A i \in DOMAIN jobs : jobs'[i] = jobs[i]
        /\ ReportsAreTrue'
    <3>1. CASE jobs' = jobs
          BY <1>0, <3>1 DEF ReportsAreTrue
    <3>2. CASE post(j)
          BY <1>4, <3>2
    <3> QED BY <1>6, <3>1, <3>2
  <2>4. WaitsFor(w, jobs')
    <3>1. ASSUME NEW y \in Targets, w.call[y].step = "wait"
          PROVE  w.call[y].job \in DOMAIN jobs' /\ jobs'[w.call[y].job].kind = kindOf(y)
      <4>1. w.call[y] = tab[t].call[y]
            BY <2>1, <3>1, RestingDoesNotWait
      <4> QED BY <1>0, <2>3, <3>1, <4>1 DEF WaitsFor
    <3> QED BY <1>0, <2>1, <2>3, <3>1 DEF WaitsFor
  <2>5. held(w) \subseteq held(tab[t]) /\ Once(w)
        BY <2>1 DEF held, Once, DappInv, Held
  <2> QED BY <1>0, <1>1, <2>1, <2>2, <2>3, <2>4, <2>5, TabMoves DEF history
<1> QED BY <1>3, <1>5, <1>6

(* What is told of a job is true of the kinds whose outcome is final. *)
LEMMA Told ==
  ASSUME DappInv, NEW i \in DOMAIN jobs, NEW o \in waitForConfirmation(i),
         NEW told \in {"success", "failure", "pending"},
         jobs[i].kind \in {"tip", "grant"} => told = reportOf(o),
         jobs' = [jobs EXCEPT ![i].report = told]
  PROVE  /\ jobs' \in Seq(Jobs) /\ Len(jobs') <= MaxJobs /\ DOMAIN jobs' = DOMAIN jobs
         /\ \A n \in DOMAIN jobs : jobs'[n].kind = jobs[n].kind
         /\ ReportsAreTrue'
<1>1. /\ jobs \in Seq(Jobs) /\ Len(jobs) <= MaxJobs /\ jobs[i] \in Jobs /\ ReportsAreTrue
      /\ DOMAIN jobs = 1..Len(jobs)
      BY DEF DappInv, DappTypeOK
<1> DEFINE j == [jobs[i] EXCEPT !.report = told]
<1>2. jobs' = [jobs EXCEPT ![i] = j]
      BY <1>1
<1>3. j \in Jobs /\ j.kind = jobs[i].kind /\ j.state = jobs[i].state /\ j.report = told
      BY <1>1 DEF Jobs
<1> HIDE DEF j
<1>4. /\ jobs' \in Seq(Jobs) /\ Len(jobs') = Len(jobs) /\ DOMAIN jobs' = DOMAIN jobs
      /\ jobs'[i] = j /\ \A n \in DOMAIN jobs : n # i => jobs'[n] = jobs[n]
      BY <1>1, <1>2, <1>3
<1>5. jobs[i].kind \in {"tip", "grant"} =>
        /\ told = "failure" => jobs[i].state = "failed"
        /\ told = "success" => jobs[i].state = "landed"
      BY DEF reportOf, waitForConfirmation
<1>6. ASSUME NEW n \in DOMAIN jobs', jobs'[n].kind \in {"tip", "grant"}
      PROVE  /\ jobs'[n].report = "failure" => jobs'[n].state = "failed"
             /\ jobs'[n].report = "success" => jobs'[n].state = "landed"
  <2>1. CASE n = i
        BY <1>3, <1>4, <1>5, <1>6, <2>1
  <2>2. CASE n # i
        BY <1>1, <1>4, <1>6, <2>2 DEF ReportsAreTrue
  <2> QED BY <2>1, <2>2
<1> QED BY <1>1, <1>3, <1>4, <1>6 DEF ReportsAreTrue

LEMMA ConfirmKeeps ==
  ASSUME DappInv, NEW t \in Tabs, NEW x \in Targets, Confirm(t, x)
  PROVE  DappInv'
<1> DEFINE i == tab[t].call[x].job
<1>0. /\ tab \in [Tabs -> TabStates] /\ tab[t] \in TabStates /\ connected \in BOOLEAN
      /\ material \in [Targets -> Keys \cup {Absent}] /\ WaitsFor(tab[t], jobs)
      BY DEF DappInv, DappTypeOK
<1>1. PICK o \in waitForConfirmation(i) :
        LET told == IF x = Sac THEN reportOf(o) ELSE IF o = "timeout" THEN "failure" ELSE o
        IN  /\ tab' = [tab EXCEPT ![t] = ended(tab[t], x, told)]
            /\ jobs' = [jobs EXCEPT ![i].report = told]
      BY DEF Confirm
<1>2. UNCHANGED <<connected, material, rules, history>> /\ tab[t].call[x].step = "wait"
      BY DEF Confirm
<1> DEFINE told == IF x = Sac THEN reportOf(o) ELSE IF o = "timeout" THEN "failure" ELSE o
           w == ended(tab[t], x, told)
<1>3. i \in DOMAIN jobs /\ jobs[i].kind = kindOf(x)
      BY <1>0, <1>2 DEF WaitsFor
<1>4. o \in {"success", "failure", "timeout"}
      BY DEF waitForConfirmation
<1>5. told \in {"success", "failure", "pending"}
      BY <1>4 DEF reportOf
<1>6. jobs[i].kind \in {"tip", "grant"} => told = reportOf(o)
      BY <1>3 DEF kindOf
<1>7. tab' = [tab EXCEPT ![t] = w] /\ jobs' = [jobs EXCEPT ![i].report = told]
      BY <1>1
<1> HIDE DEF told, i
<1>8. /\ jobs' \in Seq(Jobs) /\ Len(jobs') <= MaxJobs /\ DOMAIN jobs' = DOMAIN jobs
      /\ \A n \in DOMAIN jobs : jobs'[n].kind = jobs[n].kind
      /\ ReportsAreTrue'
      BY <1>3, <1>5, <1>6, <1>7, Told
<1>9. /\ w \in TabStates /\ w.call[x] = Resting
      /\ \A y \in Targets : y # x => w.call[y] = tab[t].call[y]
      /\ w.stage = tab[t].stage /\ w.auto = tab[t].auto
      /\ w.request = tab[t].request /\ w.stash = tab[t].stash
      BY <1>0, <1>5, Ended
<1> HIDE DEF w
<1>10. WaitsFor(w, jobs')
  <2>1. ASSUME NEW y \in Targets, w.call[y].step = "wait"
        PROVE  w.call[y].job \in DOMAIN jobs' /\ jobs'[w.call[y].job].kind = kindOf(y)
    <3>1. w.call[y] = tab[t].call[y]
          BY <1>9, <2>1, RestingDoesNotWait
    <3> QED BY <1>0, <1>8, <2>1, <3>1 DEF WaitsFor
  <2> QED BY <1>0, <1>8, <1>9, <2>1 DEF WaitsFor
<1>11. held(w) \subseteq held(tab[t]) /\ Once(w)
       BY <1>9 DEF held, Once, DappInv, Held
<1> QED BY <1>0, <1>2, <1>7, <1>8, <1>9, <1>10, <1>11, TabMoves DEF history

LEMMA ApproveKeeps ==
  ASSUME DappInv, NEW t \in Tabs, Approve(t)
  PROVE  DappInv'
<1> DEFINE q == tab[t].stash
           j == job("grant", t, [id |-> 0, target |-> q.target, key |-> q.key])
           s == [step |-> "wait", job |-> Len(jobs) + 1]
           w == [tab[t] EXCEPT !.stage = s]
<1>0. /\ tab \in [Tabs -> TabStates] /\ tab[t] \in TabStates /\ connected \in BOOLEAN
      /\ material \in [Targets -> Keys \cup {Absent}] /\ jobs \in Seq(Jobs) /\ Len(jobs) <= MaxJobs
      /\ WaitsFor(tab[t], jobs)
      BY DEF DappInv, DappTypeOK
<1>1. /\ q \in Requests /\ post(j) /\ tab' \in {tab, [tab EXCEPT ![t].stage = s]}
      /\ UNCHANGED <<connected, material, rules, history>>
      BY <1>0 DEF Approve, Ready, OnSign, TabStates
<1>2. j \in Jobs /\ j.kind = "grant" /\ j.report = "none"
  <2>1. [id |-> 0, target |-> q.target, key |-> q.key] \in SessionRules
        BY <1>1 DEF SessionRules, Requests
  <2> QED BY <2>1, JobIsTyped
<1> HIDE DEF j
<1>3. /\ jobs' \in Seq(Jobs) /\ Len(jobs') <= MaxJobs /\ DOMAIN jobs \subseteq DOMAIN jobs'
      /\ \A i \in DOMAIN jobs : jobs'[i] = jobs[i]
      /\ DOMAIN jobs' = DOMAIN jobs \cup {Len(jobs) + 1}
      /\ Len(jobs) + 1 \in 1..MaxJobs /\ jobs'[Len(jobs) + 1] = j
      /\ ReportsAreTrue'
      BY <1>1, <1>2, Posted
<1>4. CASE tab' = tab
      BY <1>1, <1>3, <1>4, JobsMove DEF DappInv, DappTypeOK
<1>5. CASE tab' = [tab EXCEPT ![t].stage = s]
  <2>1. s \in Stages /\ s.step = "wait" /\ s.job = Len(jobs) + 1
        BY <1>3 DEF Stages, Waiting
  <2>2. tab' = [tab EXCEPT ![t] = w]
        BY <1>0, <1>5
  <2> HIDE DEF s
  <2>3. /\ w \in TabStates /\ w.call = tab[t].call /\ w.stage = s /\ w.auto = tab[t].auto
        /\ w.request = tab[t].request /\ w.stash = tab[t].stash
        BY <1>0, <2>1 DEF TabStates
  <2> HIDE DEF w
  <2>4. WaitsFor(w, jobs')
    <3>1. ASSUME NEW y \in Targets, w.call[y].step = "wait"
          PROVE  w.call[y].job \in DOMAIN jobs' /\ jobs'[w.call[y].job].kind = kindOf(y)
          BY <1>0, <1>3, <2>3, <3>1 DEF WaitsFor
    <3>2. w.stage.job \in DOMAIN jobs' /\ jobs'[w.stage.job].kind = "grant"
          BY <1>2, <1>3, <2>1, <2>3
    <3> QED BY <3>1, <3>2 DEF WaitsFor
  <2>5. held(w) \subseteq held(tab[t]) /\ Once(w)
        BY <2>3 DEF held, Once, DappInv, Held
  <2> QED BY <1>0, <1>1, <1>3, <2>2, <2>3, <2>4, <2>5, TabMoves DEF history
<1> QED BY <1>1, <1>4, <1>5

(* What is granted leaves the stash, and no other place holds it. *)
LEMMA SignedKeeps ==
  ASSUME DappInv, NEW t \in Tabs, Signed(t)
  PROVE  DappInv'
<1> DEFINE i == tab[t].stage.job
           q == tab[t].stash
<1>0. /\ tab \in [Tabs -> TabStates] /\ tab[t] \in TabStates /\ connected \in BOOLEAN
      /\ material \in [Targets -> Keys \cup {Absent}] /\ WaitsFor(tab[t], jobs) /\ Held
      BY DEF DappInv, DappTypeOK
<1>1. PICK o \in waitForConfirmation(i) :
        /\ jobs' = [jobs EXCEPT ![i].report = reportOf(o)]
        /\ granted' = IF o = "success" THEN granted \cup {q.key} ELSE granted
        /\ tab' = [tab EXCEPT ![t] =
             CASE o = "success" -> [load(tab[t], connected, material, "ok")
                                      EXCEPT !.stash = clearSignRequest(q)]
               [] o = "failure" -> [tab[t] EXCEPT !.stage = Resting]
               [] o = "timeout" -> [tab[t] EXCEPT !.stage = [step |-> "stuck"]]]
      BY <1>0 DEF Signed
<1>2. /\ UNCHANGED <<connected, material, rules, made, connects, autostarts>>
      /\ q \in Requests /\ q # Absent /\ tab[t].stage.step = "wait"
      BY <1>0 DEF Signed, OnSign, TabStates
<1>3. i \in DOMAIN jobs /\ jobs[i].kind = "grant"
      BY <1>0, <1>2 DEF WaitsFor
<1>4. o \in {"success", "failure", "timeout"}
      BY DEF waitForConfirmation
<1>5. reportOf(o) \in {"success", "failure", "pending"}
      BY <1>4 DEF reportOf
<1> HIDE DEF i
<1>6. /\ jobs' \in Seq(Jobs) /\ Len(jobs') <= MaxJobs /\ DOMAIN jobs' = DOMAIN jobs
      /\ \A n \in DOMAIN jobs : jobs'[n].kind = jobs[n].kind
      /\ ReportsAreTrue'
      BY <1>1, <1>3, <1>5, Told
<1>7. CASE o # "success"
  <2> DEFINE stage == IF o = "failure" THEN Resting ELSE [step |-> "stuck"]
             w == [tab[t] EXCEPT !.stage = stage]
  <2>1. stage \in Stages /\ stage.step # "wait"
        BY RestingDoesNotWait DEF Stages
  <2>2. tab' = [tab EXCEPT ![t] = w]
    <3>1. CASE o = "failure"
          BY <1>1, <3>1
    <3>2. CASE o = "timeout"
          BY <1>1, <3>2
    <3> QED BY <1>4, <1>7, <3>1, <3>2
  <2> HIDE DEF stage
  <2>3. /\ w \in TabStates /\ w.call = tab[t].call /\ w.stage = stage /\ w.auto = tab[t].auto
        /\ w.request = tab[t].request /\ w.stash = tab[t].stash
        BY <1>0, <2>1 DEF TabStates
  <2> HIDE DEF w
  <2>4. WaitsFor(w, jobs')
        BY <1>0, <1>6, <2>1, <2>3 DEF WaitsFor
  <2>5. held(w) \subseteq held(tab[t]) /\ Once(w)
        BY <1>0, <2>3 DEF held, Once, Held
  <2> QED BY <1>0, <1>1, <1>2, <1>6, <1>7, <2>2, <2>3, <2>4, <2>5, TabMoves
<1>8. CASE o = "success"
  <2> DEFINE v == load(tab[t], connected, material, "ok")
             w == [v EXCEPT !.stash = Absent]
  <2>1. /\ v \in TabStates /\ \A x \in Targets : v.call[x] = Resting
        /\ v.stage = Resting /\ v.auto = tab[t].auto
        /\ v.request = Absent /\ v.stash = tab[t].stash
        BY <1>0, Loaded
  <2>2. tab' = [tab EXCEPT ![t] = w] /\ granted' = granted \cup {q.key}
        BY <1>1, <1>8 DEF clearSignRequest
  <2> HIDE DEF v
  <2>3. /\ w \in TabStates /\ \A x \in Targets : w.call[x] = Resting
        /\ w.stage = Resting /\ w.auto = tab[t].auto /\ w.request = Absent /\ w.stash = Absent
        BY <2>1 DEF TabStates
  <2> HIDE DEF w
  <2>4. tab' \in [Tabs -> TabStates] /\ tab'[t] = w /\ \A u \in Tabs : u # t => tab'[u] = tab[u]
        BY <1>0, <2>2, <2>3
  <2>5. q.key \in held(tab[t]) /\ q.key \in Keys
        BY <1>2 DEF held, Requests
  <2>6. /\ granted \subseteq made /\ held(tab[t]) \subseteq made \ granted
        /\ \A u \in Tabs : held(tab[u]) \subseteq made \ granted /\ Once(tab[u])
        /\ \A u, v1 \in Tabs : u # v1 => held(tab[u]) \cap held(tab[v1]) = {}
        BY <1>0 DEF Held
  <2>7. held(w) = {} /\ Once(w)
        BY <2>3 DEF held, Once
  <2>8. Held'
    <3>1. granted' \subseteq made'
          BY <1>2, <2>2, <2>5, <2>6
    <3>2. ASSUME NEW u \in Tabs PROVE held(tab'[u]) \subseteq made' \ granted' /\ Once(tab'[u])
      <4>1. CASE u = t
            BY <2>4, <2>7, <4>1
      <4>2. CASE u # t
        <5>1. tab'[u] = tab[u] /\ q.key \notin held(tab[u])
              BY <2>4, <2>5, <2>6, <4>2
        <5> QED BY <1>2, <2>2, <2>6, <5>1
      <4> QED BY <4>1, <4>2
    <3>3. \A u \in Tabs : held(tab'[u]) \subseteq held(tab[u])
      <4>1. ASSUME NEW u \in Tabs PROVE held(tab'[u]) \subseteq held(tab[u])
        <5>1. CASE u = t
              BY <2>4, <2>7, <5>1
        <5>2. CASE u # t
              BY <2>4, <5>2
        <5> QED BY <5>1, <5>2
      <4> QED BY <4>1
    <3>4. \A u, v1 \in Tabs : u # v1 => held(tab'[u]) \cap held(tab'[v1]) = {}
          BY <2>6, <3>3
    <3> QED BY <3>1, <3>2, <3>4 DEF Held
  <2>9. ASSUME NEW u \in Tabs PROVE WaitsFor(tab'[u], jobs')
    <3>1. CASE u = t
          BY <2>3, <2>4, <3>1, RestingDoesNotWait DEF WaitsFor
    <3>2. CASE u # t
      <4>1. tab'[u] = tab[u] /\ WaitsFor(tab[u], jobs)
            BY <2>4, <3>2 DEF DappInv
      <4> QED BY <1>6, <4>1 DEF WaitsFor
    <3> QED BY <3>1, <3>2
  <2>10. DappTypeOK'
         BY <1>2, <1>6, <2>2, <2>4, <2>5 DEF DappInv, DappTypeOK
  <2>11. Flags'
    <3>1. \A u \in Tabs : tab'[u].auto = tab[u].auto
          BY <2>3, <2>4
    <3>2. flagged' = flagged
          BY <3>1 DEF flagged
    <3> QED BY <1>2, <3>2 DEF DappInv, Flags
  <2> QED BY <1>6, <2>8, <2>9, <2>10, <2>11 DEF DappInv
<1> QED BY <1>7, <1>8

LEMMA RelayerKeeps ==
  ASSUME DappInv,
         \/ \E i \in DOMAIN jobs : Lands(i) \/ Fails(i)
         \/ \E r \in rules : Revoke(r)
  PROVE  DappInv'
<1>0. /\ jobs \in Seq(Jobs) /\ Len(jobs) <= MaxJobs /\ rules \subseteq SessionRules /\ ReportsAreTrue
      /\ DOMAIN jobs = 1..Len(jobs)
      BY DEF DappInv, DappTypeOK
(* A pending job reaches its end: nothing final was told of it. *)
<1>1. ASSUME NEW i \in DOMAIN jobs, NEW end \in {"landed", "failed"}, jobs[i].state = "pending",
             jobs' = [jobs EXCEPT ![i].state = end]
      PROVE  /\ jobs' \in Seq(Jobs) /\ Len(jobs') <= MaxJobs /\ DOMAIN jobs' = DOMAIN jobs
             /\ \A n \in DOMAIN jobs : jobs'[n].kind = jobs[n].kind
             /\ ReportsAreTrue'
  <2> DEFINE j == [jobs[i] EXCEPT !.state = end]
  <2>1. jobs' = [jobs EXCEPT ![i] = j] /\ jobs[i] \in Jobs
        BY <1>0, <1>1
  <2>2. j \in Jobs /\ j.kind = jobs[i].kind /\ j.report = jobs[i].report
        BY <2>1 DEF Jobs
  <2> HIDE DEF j
  <2>3. /\ jobs' \in Seq(Jobs) /\ Len(jobs') = Len(jobs) /\ DOMAIN jobs' = DOMAIN jobs
        /\ jobs'[i] = j /\ \A n \in DOMAIN jobs : n # i => jobs'[n] = jobs[n]
        BY <1>0, <2>1, <2>2
  <2>4. ASSUME NEW n \in DOMAIN jobs', jobs'[n].kind \in {"tip", "grant"}
        PROVE  /\ jobs'[n].report = "failure" => jobs'[n].state = "failed"
               /\ jobs'[n].report = "success" => jobs'[n].state = "landed"
    <3>1. CASE n = i
          BY <1>0, <1>1, <2>2, <2>3, <2>4, <3>1 DEF ReportsAreTrue
    <3>2. CASE n # i
          BY <1>0, <2>3, <2>4, <3>2 DEF ReportsAreTrue
    <3> QED BY <3>1, <3>2
  <2> QED BY <1>0, <2>2, <2>3, <2>4 DEF ReportsAreTrue
<1>2. ASSUME NEW i \in DOMAIN jobs, Lands(i) PROVE DappInv'
  <2>1. /\ jobs[i].state = "pending" /\ jobs' = [jobs EXCEPT ![i].state = "landed"]
        /\ UNCHANGED <<connected, material, tab, history>>
        BY <1>2 DEF Lands
  <2>2. rules' \subseteq SessionRules
    <3>1. next_rule \in Nat
      <4> DEFINE S == {n \in DOMAIN jobs : jobs[n].kind = "grant" /\ jobs[n].state = "landed"}
      <4>1. S \subseteq 1..Len(jobs) /\ Len(jobs) \in Nat
            BY <1>0
      <4>2. IsFiniteSet(S)
            BY <4>1, FS_Interval, FS_Subset
      <4>3. Cardinality(S) \in Nat
            BY <4>2, FS_CardinalityType
      <4>4. next_rule = 1 + Cardinality(S)
            BY DEF next_rule
      <4> HIDE DEF S
      <4> QED BY <4>3, <4>4
    <3>2. jobs[i].rule \in SessionRules
      <4>1. jobs[i] \in Jobs
            BY <1>0
      <4> QED BY <4>1 DEF Jobs
    <3>3. [jobs[i].rule EXCEPT !.id = next_rule] \in SessionRules
          BY <3>1, <3>2 DEF SessionRules
    <3>4. CASE jobs[i].kind = "grant"
          BY <1>0, <1>2, <3>3, <3>4 DEF Lands
    <3>5. CASE jobs[i].kind # "grant"
          BY <1>0, <1>2, <3>5 DEF Lands
    <3> QED BY <3>4, <3>5
  <2> QED BY <1>1, <2>1, <2>2, JobsMove
<1>3. ASSUME NEW i \in DOMAIN jobs, Fails(i) PROVE DappInv'
  <2>1. /\ jobs[i].state = "pending" /\ jobs' = [jobs EXCEPT ![i].state = "failed"]
        /\ UNCHANGED <<connected, material, tab, rules, history>>
        BY <1>3 DEF Fails
  <2> QED BY <1>0, <1>1, <2>1, JobsMove
<1>4. ASSUME NEW r \in rules, Revoke(r) PROVE DappInv'
  <2> DEFINE j == job("revoke", Absent, r)
  <2>1. post(j) /\ UNCHANGED <<connected, material, tab, rules, history>>
        BY <1>4 DEF Revoke
  <2>2. j \in Jobs /\ j.report = "none"
    <3>1. r \in SessionRules
          BY <1>0, <1>4
    <3> QED BY <3>1, JobIsTyped
  <2> HIDE DEF j
  <2>3. /\ jobs' \in Seq(Jobs) /\ Len(jobs') <= MaxJobs /\ DOMAIN jobs \subseteq DOMAIN jobs'
        /\ \A i \in DOMAIN jobs : jobs'[i] = jobs[i]
        /\ ReportsAreTrue'
        BY <2>1, <2>2, Posted
  <2>4. \A i \in DOMAIN jobs : jobs'[i].kind = jobs[i].kind
        BY <2>3
  <2> QED BY <1>0, <2>1, <2>3, <2>4, JobsMove
<1> QED BY <1>2, <1>3, <1>4

-----------------------------------------------------------------------------
LEMMA DappStarts == DappInit => DappInv
<1> SUFFICES ASSUME DappInit PROVE DappInv
    OBVIOUS
<1> DEFINE w == [page |-> "app", ui |-> [x \in Targets |-> "missing"], check |-> [x \in Targets |-> Absent],
                 making |-> Absent, auto |-> FALSE, context |-> FALSE, author |-> FALSE, tip |-> "idle",
                 call |-> [x \in Targets |-> Resting], request |-> Absent, stash |-> Absent, stage |-> Resting]
<1>1. w \in TabStates
      BY RestingDoesNotWait DEF TabStates
<1>2. /\ \A x \in Targets : w.call[x] = Resting
      /\ w.stage = Resting /\ w.auto = FALSE /\ w.request = Absent /\ w.stash = Absent
      OBVIOUS
<1>3. \A t \in Tabs : tab[t] = w
      BY DEF DappInit
<1>4. tab \in [Tabs -> TabStates]
  <2>1. tab = [t \in Tabs |-> w]
        BY DEF DappInit
  <2> HIDE DEF w
  <2> QED BY <1>1, <2>1
<1> HIDE DEF w
<1>5. DappTypeOK
  <2>1. jobs = <<>> /\ MaxJobs \in Nat
        BY DappAssumption DEF DappInit, DappAssumption
  <2>2. jobs \in Seq(Jobs) /\ Len(jobs) <= MaxJobs
        BY <2>1
  <2> QED BY <1>4, <2>2 DEF DappInit, DappTypeOK
<1>6. \A t \in Tabs : WaitsFor(tab[t], jobs)
      BY <1>2, <1>3, RestingDoesNotWait DEF WaitsFor
<1>7. Held
      BY <1>2, <1>3 DEF Held, held, Once, DappInit
<1>8. Flags
  <2>1. flagged = {}
        BY <1>2, <1>3 DEF flagged
  <2> QED BY <2>1, FS_EmptySet DEF Flags, DappInit
<1>9. ReportsAreTrue
      BY DEF DappInit, ReportsAreTrue
<1> QED BY <1>5, <1>6, <1>7, <1>8, <1>9 DEF DappInv

LEMMA DappStep == DappInv /\ [DappNext]_dapp_vars => DappInv'
<1> SUFFICES ASSUME DappInv, [DappNext]_dapp_vars PROVE DappInv'
    OBVIOUS
<1>1. ASSUME NEW t \in Tabs, Page(t) PROVE DappInv'
  <2>1. CASE Visit(t)
        BY <2>1, LoadKeeps DEF Visit
  <2>2. CASE connectWallet(t) \/ disconnectWallet(t)
        BY <2>2, ConnectKeeps
  <2>3. CASE AutoStart(t)
        BY <2>3, AutoStartKeeps
  <2>4. CASE \/ \E x \in Targets : \E answered \in BOOLEAN : CheckEnds(t, x, answered)
             \/ enableTipping(t) \/ PasskeyCancelled(t) \/ readStatus(t)
        BY <2>4, PageKeeps
  <2>5. CASE \E k \in Keys : startDelegation(t, k)
        BY <2>5, DelegationKeeps
  <2>6. CASE \E x \in Targets : Press(t, x) \/ FindRule(t, x)
        BY <2>6, PressKeeps
  <2>7. CASE \E x \in Targets : Submit(t, x)
        BY <2>7, SubmitKeeps
  <2>8. CASE \E x \in Targets : Confirm(t, x)
        BY <2>8, ConfirmKeeps
  <2> QED BY <1>1, <2>1, <2>2, <2>3, <2>4, <2>5, <2>6, <2>7, <2>8 DEF Page
<1>2. ASSUME NEW t \in Tabs, Wallet(t) PROVE DappInv'
  <2>1. CASE Deny(t) \/ Decline(t)
        BY <2>1, LoadKeeps DEF Deny, Decline
  <2>2. CASE Review(t) \/ Reopen(t)
        BY <2>2, WalletKeeps
  <2>3. CASE Approve(t)
        BY <2>3, ApproveKeeps
  <2>4. CASE Signed(t)
        BY <2>4, SignedKeeps
  <2> QED BY <1>2, <2>1, <2>2, <2>3, <2>4 DEF Wallet
<1>3. CASE UNCHANGED dapp_vars
  <2>1. jobs' = jobs /\ rules' = rules /\ UNCHANGED <<connected, material, tab, history>>
        BY <1>3 DEF dapp_vars, history
  <2>2. jobs \in Seq(Jobs) /\ Len(jobs) <= MaxJobs /\ rules \subseteq SessionRules /\ ReportsAreTrue
        BY DEF DappInv, DappTypeOK
  <2>3. ReportsAreTrue'
        BY <2>1, <2>2 DEF ReportsAreTrue
  <2> QED BY <2>1, <2>2, <2>3, JobsMove
<1> QED BY <1>1, <1>2, <1>3, RelayerKeeps DEF DappNext

LEMMA AlwaysDappInv == DappSpec => []DappInv
BY DappStarts, DappStep, PTL DEF DappSpec

(***************************************************************************)
(* The pages, the storage, the account's session rules and the relayer's   *)
(* jobs keep their shape.                                                  *)
(***************************************************************************)
THEOREM DappTypeCorrect == DappSpec => []DappTypeOK
<1>1. DappInv => DappTypeOK
      BY DEF DappInv
<1> QED BY <1>1, AlwaysDappInv, PTL

(***************************************************************************)
(* However the user cancels, reloads and reconnects in whatever tabs, the  *)
(* dApp redirects by itself at most once for each interactive connect:     *)
(* consumeAutoStartDelegation takes the flag that the connect left.        *)
(***************************************************************************)
THEOREM RedirectsAnswerConnects == DappSpec => []NoRedirectLoop
<1>1. DappInv => NoRedirectLoop
  <2> SUFFICES ASSUME DappInv PROVE NoRedirectLoop
      OBVIOUS
  <2>1. autostarts + Cardinality(flagged) <= connects /\ connects \in Nat /\ autostarts \in Nat
        BY DEF DappInv, DappTypeOK, Flags
  <2> QED BY <2>1, FlagsCount DEF NoRedirectLoop
<1> QED BY <1>1, AlwaysDappInv, PTL

(***************************************************************************)
(* What the dApp tells of a tip, and /sign/ of a request, stays true: a    *)
(* job told as rejected never lands, and one told as done has landed,      *)
(* though waits time out and answers are lost.                             *)
(***************************************************************************)
THEOREM ReportsStayTrue == DappSpec => []ReportsAreTrue
<1>1. DappInv => ReportsAreTrue
      BY DEF DappInv
<1> QED BY <1>1, AlwaysDappInv, PTL

(***************************************************************************)
(* A delegation that came back as done is not submitted again, by any tab, *)
(* reload or step back in the history: clearSignRequest emptied the only   *)
(* place that held its key.                                                *)
(***************************************************************************)
THEOREM GrantsAreNotRepeated == DappSpec => GrantedOnce
<1> DEFINE Once_granted ==
      \A k \in granted : \A i \in DOMAIN jobs' :
        jobs'[i].kind = "grant" /\ jobs'[i].rule.key = k => i \in DOMAIN jobs
<1>1. ASSUME DappInv, [DappNext]_dapp_vars PROVE [Once_granted]_dapp_vars
  <2>0. jobs \in Seq(Jobs) /\ DOMAIN jobs = 1..Len(jobs)
        BY <1>1 DEF DappInv, DappTypeOK
  <2>1. CASE DOMAIN jobs' = DOMAIN jobs
        BY <2>1
  <2>2. ASSUME NEW j \in Jobs, post(j), j.report = "none",
               j.kind = "grant" => j.rule.key \notin granted
        PROVE  Once_granted
    <3>1. DOMAIN jobs' = DOMAIN jobs \cup {Len(jobs) + 1} /\ jobs'[Len(jobs) + 1] = j
          BY <1>1, <2>2, Posted
    <3> QED BY <2>2, <3>1
  <2>3. ASSUME NEW t \in Tabs, Approve(t) PROVE Once_granted
    <3> DEFINE q == tab[t].stash
               r == [id |-> 0, target |-> q.target, key |-> q.key]
               j == job("grant", t, r)
    <3>1. q \in Requests /\ q # Absent /\ post(j) /\ Held
          BY <1>1, <2>3 DEF Approve, Ready, OnSign, DappInv, DappTypeOK, TabStates
    <3>2. r \in SessionRules /\ r.key = q.key
          BY <3>1 DEF SessionRules, Requests
    <3>3. j \in Jobs /\ j.report = "none" /\ j.rule = r
          BY <3>2, JobIsTyped
    <3>4. q.key \in held(tab[t])
          BY <3>1 DEF held
    <3>5. q.key \notin granted
          BY <3>1, <3>4 DEF Held
    <3> HIDE DEF j, r
    <3> QED BY <2>2, <3>1, <3>2, <3>3, <3>5
  <2>4. ASSUME NEW t \in Tabs, NEW x \in Targets, Submit(t, x) PROVE Once_granted
    <3> DEFINE c == tab[t].call[x]
               j == job(kindOf(x), t, c.rule)
    <3>1. c \in Steps /\ c.step = "sign" /\ (jobs' = jobs \/ post(j))
          BY <1>1, <2>4 DEF Submit, DappInv, DappTypeOK, TabStates
    <3>2. c.rule \in SessionRules /\ kindOf(x) \in {"save", "tip"}
          BY <3>1 DEF Steps, Resting, Waiting, kindOf
    <3>3. j \in Jobs /\ j.report = "none" /\ j.kind # "grant"
          BY <3>2, JobIsTyped
    <3> HIDE DEF j
    <3> QED BY <2>1, <2>2, <3>1, <3>3
  <2>5. ASSUME NEW r \in rules, Revoke(r) PROVE Once_granted
    <3> DEFINE j == job("revoke", Absent, r)
    <3>1. post(j) /\ r \in SessionRules
          BY <1>1, <2>5 DEF Revoke, DappInv, DappTypeOK
    <3>2. j \in Jobs /\ j.report = "none" /\ j.kind # "grant"
          BY <3>1, JobIsTyped
    <3> HIDE DEF j
    <3> QED BY <2>2, <3>1, <3>2
  <2>6. ASSUME NEW t \in Tabs, Page(t), \A x \in Targets : ~Submit(t, x) PROVE DOMAIN jobs' = DOMAIN jobs
        BY <2>0, <2>6 DEF Page, Visit, connectWallet, disconnectWallet, AutoStart, enableTipping,
           PasskeyCancelled, readStatus, startDelegation, CheckEnds, Press, FindRule, Confirm, chain
  <2>7. ASSUME NEW t \in Tabs, Wallet(t), ~Approve(t) PROVE DOMAIN jobs' = DOMAIN jobs
        BY <2>0, <2>7 DEF Wallet, Deny, Review, Signed, Decline, Reopen, chain
  <2>8. ASSUME NEW i \in DOMAIN jobs, Lands(i) \/ Fails(i) PROVE DOMAIN jobs' = DOMAIN jobs
        BY <2>0, <2>8 DEF Lands, Fails
  <2>9. CASE UNCHANGED dapp_vars
        BY <2>9
  <2> QED BY <1>1, <2>1, <2>3, <2>4, <2>5, <2>6, <2>7, <2>8, <2>9 DEF DappNext
<1>2. (DappInv /\ [DappNext]_dapp_vars => [Once_granted]_dapp_vars)
      BY <1>1
<1> QED BY <1>2, AlwaysDappInv, PTL DEF DappSpec, GrantedOnce
=============================================================================
