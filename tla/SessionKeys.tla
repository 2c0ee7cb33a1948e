----------------------------- MODULE SessionKeys -----------------------------
(***************************************************************************)
(* The session keys of the status-message dApp: one Nido account, the      *)
(* browser tabs in which the user has the dApp open, the wallet pages a    *)
(* tab is redirected to, the relayer, and the rules of the account.        *)
(*                                                                         *)
(* A tab asks the wallet for a key that may act on one target contract.    *)
(* It makes a passkey, saves its handle (the "material") in the storage    *)
(* that all tabs of the dApp share, and navigates to the wallet, where the *)
(* user reviews the request and approves it on /sign/.  Back at the dApp   *)
(* the tab checks on chain that the key is installed, and from then on     *)
(* signs saves and tips in the page.  Transactions pass through a relayer  *)
(* that may lose its answer, and may outlast the time a page waits.        *)
(*                                                                         *)
(* A scan of the account's rules is one step here: RuleScan shows what the *)
(* scan over several reads promises.  A navigation ends what the page was  *)
(* waiting for, and nothing else.                                          *)
(***************************************************************************)
EXTENDS Naturals, Sequences, FiniteSets

CONSTANTS Tabs, Keys, Absent,
          Status, Sac,                \* the two targets the dApp delegates
          MaxConnects, MaxJobs        \* bounds of an instance

Targets == {Status, Sac}
Requests == [target: Targets, key: Keys]

ASSUME DappAssumption ==
  /\ IsFiniteSet(Tabs) /\ Status # Sac
  /\ Absent \notin Targets \cup Keys \cup Requests
  /\ MaxConnects \in Nat /\ MaxJobs \in Nat

VARIABLES
  connected,     \* walletId and walletAddress of the session, one account
  material,      \* nido.<account>.session-key.<target>, [Targets -> key]
  tab,           \* what each tab shows, and its sessionStorage
  rules,         \* the account's session rules
  jobs,          \* what the relayer accepted, in order
  made, connects, autostarts, granted   \* history

dapp_vars == <<connected, material, tab, rules, jobs, made, connects, autostarts, granted>>
history == <<made, connects, autostarts, granted>>
chain == <<rules, jobs>>

Resting == [step |-> "idle"]

SessionRules == [id: Nat, target: Targets, key: Keys]

Jobs ==
  [kind: {"grant", "revoke", "save", "tip"}, tab: Tabs \cup {Absent}, rule: SessionRules,
   state: {"pending", "landed", "failed"}, report: {"none", "success", "failure", "pending"}]

Waiting == [step: {"wait"}, job: 1..MaxJobs]
Steps == {Resting} \cup [step: {"find"}, key: Keys] \cup [step: {"sign"}, rule: SessionRules] \cup Waiting
Stages == {Resting} \cup Waiting \cup [step: {"stuck"}]

TabStates ==
  [page: {"app", "delegate", "sign"}, ui: [Targets -> {"missing", "checking", "live"}],
   check: [Targets -> Keys \cup {Absent}], making: Targets \cup {Absent},
   auto: BOOLEAN, context: BOOLEAN, author: BOOLEAN,
   tip: {"idle", "loading", "success", "failure", "pending"}, call: [Targets -> Steps],
   request: Requests \cup {Absent}, stash: Requests \cup {Absent}, stage: Stages]

(* What a scan for a key finds: the first rule that carries it, if one does. *)
findRuleForPubkey(k) ==
  {r \in rules : r.key = k /\ \A s \in rules : s.key = k => r.id <= s.id}

(* The storage of a target holds one key: a new one replaces it. *)
saveSessionKeyMaterial(x, k) == [material EXCEPT ![x] = k]
forgetSessionKeyMaterial(x) == [material EXCEPT ![x] = Absent]

-----------------------------------------------------------------------------
(* The page.                                                               *)

(* The effect of useSessionKeyUiState: a target with material is checked. *)
uiState(c, m) == [x \in Targets |-> IF c /\ m[x] # Absent THEN "checking" ELSE "missing"]
checks_never(c, m) == [x \in Targets |-> Absent]
checks(c, m) == [x \in Targets |-> IF c THEN m[x] ELSE Absent]

(* What the page renders: material it has not checked counts as checking. *)
sessionUi(t, x) ==
  IF tab[t].ui[x] = "missing" /\ material[x] # Absent THEN "checking" ELSE tab[t].ui[x]

(* A load of the dApp's page, with the ?delegation of the wallet if any.  A *)
(* return from the wallet consumes the tip context, and restores the row   *)
(* only when the delegation was installed.                                 *)
load(w, c, m, ret) ==
  [w EXCEPT !.page = "app", !.ui = uiState(c, m), !.check = checks(c, m), !.making = Absent,
            !.tip = "idle", !.call = [x \in Targets |-> Resting], !.request = Absent, !.stage = Resting,
            !.author = (ret = "ok" /\ w.context),
            !.context = (w.context /\ ret = "none")]

Load(t, ret) == tab' = [tab EXCEPT ![t] = load(@, connected, material, ret)]

OnApp(t) == tab[t].page = "app"

(* Opens the dApp, reloads it, or comes back to it from the wallet. *)
Visit(t) == Load(t, "none") /\ UNCHANGED <<connected, material, chain, history>>

(* The session is shared by the tabs, whose providers poll it; a check of  *)
(* an earlier session that is still in flight is a bound of the instance.  *)
setSession(c) ==
  /\ \A t \in Tabs : \A x \in Targets : tab[t].check[x] = Absent
  /\ connected' = c
  /\ tab' = [t \in Tabs |->
       IF OnApp(t) THEN [tab[t] EXCEPT !.ui = uiState(c, material), !.check = checks(c, material)]
       ELSE tab[t]]

(* An interactive connect flags one delegation that starts by itself. *)
connectWallet(t) ==
  /\ OnApp(t) /\ ~connected /\ connects < MaxConnects
  /\ \A u \in Tabs : \A x \in Targets : tab[u].check[x] = Absent
  /\ connected' = TRUE /\ connects' = connects + 1
  /\ tab' = [u \in Tabs |->
       IF OnApp(u) THEN [tab[u] EXCEPT !.ui = uiState(TRUE, material),
                                       !.check = checks(TRUE, material),
                                       !.auto = @ \/ u = t]
       ELSE tab[u]]
  /\ UNCHANGED <<material, chain, made, autostarts, granted>>

disconnectWallet(t) ==
  /\ OnApp(t) /\ connected /\ setSession(FALSE)
  /\ UNCHANGED <<material, chain, history>>

(* checkSessionKeyStatus: no rule carries the key, so what is stored for   *)
(* the target is forgotten; an RPC failure counts as live.                 *)
CheckEnds(t, x, answered) ==
  LET k == tab[t].check[x]
      revoked == answered /\ findRuleForPubkey(k) = {}
  IN  /\ k # Absent
      /\ material' = IF revoked THEN forgetSessionKeyMaterial(x) ELSE material
      /\ tab' = [tab EXCEPT ![t].check[x] = Absent,
                            ![t].ui[x] = IF @ # "checking" THEN @
                                         ELSE IF revoked THEN "missing" ELSE "live"]
      /\ UNCHANGED <<connected, chain, history>>

(* What is left of the flag once it was read. *)
consumeAutoStart_not(flag) == flag
consumeAutoStart(flag) == FALSE

shouldAutoStart(t) == tab[t].auto /\ sessionUi(t, Status) # "live" /\ tab[t].making = Absent

AutoStart(t) ==
  /\ OnApp(t) /\ connected /\ tab[t].auto /\ sessionUi(t, Status) # "checking"
  /\ tab' = [tab EXCEPT ![t].auto = consumeAutoStart(@),
                        ![t].making = IF shouldAutoStart(t) THEN Status ELSE @]
  /\ autostarts' = IF shouldAutoStart(t) THEN autostarts + 1 ELSE autostarts
  /\ UNCHANGED <<connected, material, chain, made, connects, granted>>

enableTipping(t) ==
  /\ OnApp(t) /\ connected /\ tab[t].author /\ tab[t].making = Absent
  /\ sessionUi(t, Sac) = "missing" /\ tab[t].tip # "loading"
  /\ tab' = [tab EXCEPT ![t].making = Sac, ![t].tip = "loading", ![t].context = TRUE]
  /\ UNCHANGED <<connected, material, chain, history>>

(* startDelegation: the passkey, the material, the redirect. *)
startDelegation(t, k) ==
  /\ OnApp(t) /\ tab[t].making # Absent /\ k \notin made
  /\ made' = made \cup {k}
  /\ material' = saveSessionKeyMaterial(tab[t].making, k)
  /\ tab' = [tab EXCEPT ![t].page = "delegate", ![t].making = Absent, ![t].tip = "idle",
                        ![t].request = [target |-> tab[t].making, key |-> k],
                        ![t].author = FALSE, ![t].call = [x \in Targets |-> Resting],
                        ![t].ui = uiState(FALSE, material), ![t].check = checks(FALSE, material)]
  /\ UNCHANGED <<connected, chain, connects, autostarts, granted>>

PasskeyCancelled(t) ==
  /\ OnApp(t) /\ tab[t].making # Absent
  /\ tab' = [tab EXCEPT ![t].making = Absent,
                        ![t].tip = IF tab[t].making = Sac THEN "failure" ELSE @,
                        ![t].context = IF tab[t].making = Sac THEN FALSE ELSE @]
  /\ UNCHANGED <<connected, material, chain, history>>

(* Reads the status of somebody else, whom the row then offers to tip. *)
readStatus(t) ==
  /\ OnApp(t)
  /\ tab' = [tab EXCEPT ![t].tip = "idle", ![t].author = TRUE]
  /\ UNCHANGED <<connected, material, chain, history>>

-----------------------------------------------------------------------------
(* The relayer: it may lose the answer to a submission, and what it has    *)
(* accepted lands or fails at any later time.                              *)

valid(j) ==
  CASE j.kind = "grant"  -> TRUE
    [] j.kind = "revoke" -> \E r \in rules : r.id = j.rule.id
    [] OTHER             -> j.rule \in rules

post(j) == Len(jobs) < MaxJobs /\ valid(j) /\ jobs' = Append(jobs, j)
job(kind, t, rule) == [kind |-> kind, tab |-> t, rule |-> rule, state |-> "pending", report |-> "none"]

next_rule == 1 + Cardinality({i \in DOMAIN jobs : jobs[i].kind = "grant" /\ jobs[i].state = "landed"})

Lands(i) ==
  LET j == jobs[i]
  IN  /\ j.state = "pending" /\ valid(j)
      /\ jobs' = [jobs EXCEPT ![i].state = "landed"]
      /\ rules' = CASE j.kind = "grant"  -> rules \cup {[j.rule EXCEPT !.id = next_rule]}
                    [] j.kind = "revoke" -> {r \in rules : r.id # j.rule.id}
                    [] OTHER             -> rules
      /\ UNCHANGED <<connected, material, tab, history>>

Fails(i) ==
  /\ jobs[i].state = "pending" /\ jobs' = [jobs EXCEPT ![i].state = "failed"]
  /\ UNCHANGED <<connected, material, tab, rules, history>>

(* waitForConfirmation: a final status, or at the last poll none. *)
waitForConfirmation(i) ==
  CASE jobs[i].state = "landed" -> {"success", "timeout"}
    [] jobs[i].state = "failed" -> {"failure", "timeout"}
    [] OTHER                    -> {"timeout"}

(* What the page tells of a wait that timed out. *)
reportOf_failure(outcome) == IF outcome = "timeout" THEN "failure" ELSE outcome
reportOf(outcome) == IF outcome = "timeout" THEN "pending" ELSE outcome

-----------------------------------------------------------------------------
(* A save or a tip, signed in the page by signSessionCallInPage.           *)

kindOf(x) == IF x = Sac THEN "tip" ELSE "save"

(* The page of t after its call for x ended as told; a save that succeeded *)
(* reads the account's own status back, which nobody tips.                 *)
ended(w, x, outcome) ==
  LET v == [w EXCEPT !.call[x] = Resting]
  IN  IF x = Sac THEN [v EXCEPT !.tip = outcome]
      ELSE IF outcome = "success" THEN [v EXCEPT !.tip = "idle", !.author = FALSE]
      ELSE v

Press(t, x) ==
  /\ OnApp(t) /\ connected /\ \A y \in Targets : tab[t].call[y] = Resting
  /\ x = Sac => /\ tab[t].author /\ sessionUi(t, Sac) = "live"
                /\ tab[t].tip \notin {"loading", "pending"}
  /\ \/ /\ material[x] = Absent
        /\ tab' = [tab EXCEPT ![t] = ended(@, x, "failure")]
     \/ /\ material[x] # Absent
        /\ tab' = [tab EXCEPT ![t].call[x] = [step |-> "find", key |-> material[x]],
                              ![t].tip = IF x = Sac THEN "loading" ELSE @]
  /\ UNCHANGED <<connected, material, chain, history>>

FindRule(t, x) ==
  LET c == tab[t].call[x]
      found == findRuleForPubkey(c.key)
  IN  /\ c.step = "find"
      /\ \/ \E r \in found : tab' = [tab EXCEPT ![t].call[x] = [step |-> "sign", rule |-> r]]
            /\ UNCHANGED material
         \/ found = {} /\ material' = forgetSessionKeyMaterial(x)
            /\ tab' = [tab EXCEPT ![t] = IF x = Sac THEN [ended(@, x, "failure") EXCEPT !.ui[Sac] = "missing"]
                                         ELSE ended(@, x, "failure")]
         \/ tab' = [tab EXCEPT ![t] = ended(@, x, "failure")] /\ UNCHANGED material
      /\ UNCHANGED <<connected, chain, history>>

(* The passkey signs and the relayer answers with the job; or one of them  *)
(* refuses; or the job is accepted and the answer is lost.                 *)
Submit(t, x) ==
  LET c == tab[t].call[x]
  IN  /\ c.step = "sign"
      /\ \/ /\ post(job(kindOf(x), t, c.rule))
            /\ tab' = [tab EXCEPT ![t].call[x] = [step |-> "wait", job |-> Len(jobs) + 1]]
         \/ /\ jobs' = jobs \/ post(job(kindOf(x), t, c.rule))
            /\ tab' = [tab EXCEPT ![t] = ended(@, x, "failure")]
      /\ UNCHANGED <<connected, material, rules, history>>

(* The page tells a save that timed out as failed, and a tip as pending. *)
Confirm(t, x) ==
  LET i == tab[t].call[x].job
  IN  /\ tab[t].call[x].step = "wait"
      /\ \E o \in waitForConfirmation(i) :
           LET told == IF x = Sac THEN reportOf(o) ELSE IF o = "timeout" THEN "failure" ELSE o
           IN  /\ tab' = [tab EXCEPT ![t] = ended(@, x, told)]
               /\ jobs' = [jobs EXCEPT ![i].report = told]
      /\ UNCHANGED <<connected, material, rules, history>>

-----------------------------------------------------------------------------
(* The wallet: the review of a delegation, and the page /sign/ with the    *)
(* request it was stashed as in the tab's sessionStorage.                  *)

OnSign(t) == tab[t].page = "sign" /\ tab[t].stash # Absent
Ready(t) == OnSign(t) /\ tab[t].stage = Resting

Deny(t) ==
  /\ tab[t].page = "delegate" /\ Load(t, "cancelled")
  /\ UNCHANGED <<connected, material, chain, history>>

Review(t) ==
  /\ tab[t].page = "delegate"
  /\ tab' = [tab EXCEPT ![t].page = "sign", ![t].stash = tab[t].request, ![t].stage = Resting,
                        ![t].request = Absent]
  /\ UNCHANGED <<connected, material, chain, history>>

(* Approve stays disabled while the page waits, and after a time-out; an   *)
(* error, that of a lost answer too, enables it again.                     *)
Approve(t) ==
  LET q == tab[t].stash
      grant == job("grant", t, [id |-> 0, target |-> q.target, key |-> q.key])
  IN  /\ Ready(t) /\ post(grant)
      /\ tab' \in {tab, [tab EXCEPT ![t].stage = [step |-> "wait", job |-> Len(jobs) + 1]]}
      /\ UNCHANGED <<connected, material, rules, history>>

(* What is left of the stash of a request that was carried out. *)
clearSignRequest_not(q) == q
clearSignRequest(q) == Absent

Signed(t) ==
  LET i == tab[t].stage.job
  IN  /\ OnSign(t) /\ tab[t].stage.step = "wait"
      /\ \E o \in waitForConfirmation(i) :
           /\ jobs' = [jobs EXCEPT ![i].report = reportOf(o)]
           /\ granted' = IF o = "success" THEN granted \cup {tab[t].stash.key} ELSE granted
           /\ tab' = [tab EXCEPT ![t] =
                CASE o = "success" -> [load(@, connected, material, "ok")
                                         EXCEPT !.stash = clearSignRequest(tab[t].stash)]
                  [] o = "failure" -> [@ EXCEPT !.stage = Resting]
                  [] o = "timeout" -> [@ EXCEPT !.stage = [step |-> "stuck"]]]
      /\ UNCHANGED <<connected, material, rules, made, connects, autostarts>>

Decline(t) ==
  /\ Ready(t) /\ Load(t, "cancelled")
  /\ UNCHANGED <<connected, material, chain, history>>

(* A reload of /sign/, and the back button to it, find what is stashed. *)
Reopen(t) ==
  /\ tab[t].stash # Absent
  /\ tab' = [tab EXCEPT ![t].page = "sign", ![t].stage = Resting]
  /\ UNCHANGED <<connected, material, chain, history>>

(* A card of the security page revokes its rule, if that still exists. *)
Revoke(r) ==
  /\ post(job("revoke", Absent, r))
  /\ UNCHANGED <<connected, material, tab, rules, history>>

-----------------------------------------------------------------------------
DappInit ==
  /\ connected = FALSE
  /\ material = [x \in Targets |-> Absent]
  /\ tab = [t \in Tabs |->
       [page |-> "app", ui |-> [x \in Targets |-> "missing"], check |-> [x \in Targets |-> Absent],
        making |-> Absent, auto |-> FALSE, context |-> FALSE, author |-> FALSE, tip |-> "idle",
        call |-> [x \in Targets |-> Resting], request |-> Absent, stash |-> Absent, stage |-> Resting]]
  /\ rules = {} /\ jobs = <<>>
  /\ made = {} /\ connects = 0 /\ autostarts = 0 /\ granted = {}

Page(t) ==
  \/ Visit(t) \/ connectWallet(t) \/ disconnectWallet(t) \/ AutoStart(t)
  \/ enableTipping(t) \/ PasskeyCancelled(t) \/ readStatus(t)
  \/ \E k \in Keys : startDelegation(t, k)
  \/ \E x \in Targets : \/ \E answered \in BOOLEAN : CheckEnds(t, x, answered)
                        \/ Press(t, x) \/ FindRule(t, x) \/ Submit(t, x) \/ Confirm(t, x)

Wallet(t) == Deny(t) \/ Review(t) \/ Approve(t) \/ Signed(t) \/ Decline(t) \/ Reopen(t)

DappNext ==
  \/ \E t \in Tabs : Page(t) \/ Wallet(t)
  \/ \E r \in rules : Revoke(r)
  \/ \E i \in DOMAIN jobs : Lands(i) \/ Fails(i)

DappSpec == DappInit /\ [][DappNext]_dapp_vars

(* The user keeps coming back to the dApp, and a scan is answered at times. *)
FairSpec ==
  /\ DappSpec
  /\ \A t \in Tabs : /\ WF_dapp_vars(Visit(t))
                     /\ \A x \in Targets : SF_dapp_vars(CheckEnds(t, x, TRUE))

-----------------------------------------------------------------------------
DappTypeOK ==
  /\ connected \in BOOLEAN
  /\ material \in [Targets -> Keys \cup {Absent}]
  /\ tab \in [Tabs -> TabStates]
  /\ rules \subseteq SessionRules
  /\ jobs \in Seq(Jobs) /\ Len(jobs) <= MaxJobs
  /\ made \subseteq Keys /\ granted \subseteq Keys
  /\ connects \in Nat /\ autostarts \in Nat

(* A delegation that starts by itself is the answer to an interactive      *)
(* connect: cancelled returns, reloads, revoked keys and checks that end   *)
(* late never redirect the user a second time.                             *)
NoRedirectLoop == autostarts <= connects

(* What the dApp tells of a tip, and /sign/ of a request, is final: what   *)
(* is reported as rejected, and offered again, never lands, and what is    *)
(* reported as done has.                                                   *)
ReportsAreTrue ==
  \A i \in DOMAIN jobs : jobs[i].kind \in {"tip", "grant"} =>
    /\ jobs[i].report = "failure" => jobs[i].state = "failed"
    /\ jobs[i].report = "success" => jobs[i].state = "landed"

(* A delegation that came back as done is not submitted again, though the  *)
(* user goes back to /sign/ and reloads it.                                *)
GrantedOnce ==
  [][\A k \in granted : \A i \in DOMAIN jobs' :
       jobs'[i].kind = "grant" /\ jobs'[i].rule.key = k => i \in DOMAIN jobs]_dapp_vars

Installed(k) == \E r \in rules : r.key = k
Coming(k) ==
  \E i \in DOMAIN jobs : jobs[i].kind = "grant" /\ jobs[i].rule.key = k /\ jobs[i].state = "pending"

(* The material of a key that the account no longer has, or never got, is  *)
(* purged by a user who keeps coming back, though scans fail.              *)
StaleIsPurged ==
  \A x \in Targets : \A k \in Keys :
    <>[](connected /\ ~Installed(k) /\ ~Coming(k)) => []<>(material[x] # k)
=============================================================================
