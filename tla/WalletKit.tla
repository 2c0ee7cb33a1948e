------------------------------ MODULE WalletKit ------------------------------
(***************************************************************************)
(* A dApp that uses Nido through the wallets kit, in one browser tab: the  *)
(* session it stores (util/wallet.ts, WalletProvider.tsx of the example    *)
(* dApp), the kit's module, the popup in which the wallet's /connect/ and  *)
(* /sign/ pages run (WalletSign is the latter), and the message by which a *)
(* page answers before it closes.                                          *)
(*                                                                         *)
(* The session is also kept alive by a poll that reads it, asks the wallet *)
(* and writes it back.  For Nido the poll never waits; a wallet in an      *)
(* extension may take its time, or fail.  The dApp asks for one thing at a *)
(* time; what an earlier request left in flight is no longer followed.     *)
(***************************************************************************)
EXTENDS WalletSign

CONSTANTS Accounts,     \* Nido accounts
          Registered,   \* those with a passkey on this device
          Extension     \* the address of the extension's wallet

VARIABLES device,   \* the accounts the wallet knows on this device
          stored,   \* walletId, walletAddress, walletNetwork (set or not)
          cache,    \* nido:wallet-kit:address
          app,      \* the page: the address it shows, the kit's selected
                    \* wallet, the poll, the promise that is waited for
          popup,    \* the wallet's window
          message,  \* an answer on its way to the opener
          told,     \* how the last signature promise ended
          wanted, switched \* history: whether the user chose to be connected;
                           \* to switch, and picked no account since

session == <<device, stored, cache>>
kit == <<popup, message, told>>
history == <<wanted, switched>>
vars == <<sign_vars, session, app, kit, history>>

ASSUME KitAssumption == None \notin {"nido", "extension"}

Closed == [page |-> "closed"]
Fresh == [address |-> None, selected |-> None, poll |-> None, promise |-> None]
SignedOut == [id |-> None, address |-> None, network |-> TRUE]

-----------------------------------------------------------------------------
(* The poll of the provider.                                               *)

nullify == stored' = SignedOut /\ app' = [app EXCEPT !.address = None, !.poll = None]

(* Nido is never asked: its address is the stored one.                     *)
PollNido ==
  /\ app.poll = None /\ stored.id = "nido" /\ stored.address # None
  /\ stored' = [stored EXCEPT !.network = TRUE]
  /\ app' = [app EXCEPT !.address = stored.address, !.selected = "nido"]

PollExtension ==
  /\ app.poll = None /\ stored.id = "extension"
  /\ app' = [app EXCEPT !.poll = "extension", !.selected = "extension",
                        !.address = IF stored.address # None /\ stored.network
                                    THEN stored.address ELSE @]
  /\ UNCHANGED stored

PollBegin ==
  /\ PollNido \/ PollExtension \/ (app.poll = None /\ stored.id = None /\ nullify)
  /\ UNCHANGED <<sign_vars, device, cache, kit, history>>

(* Wrong variant: the wallet that was read at the start is written back.   *)
refreshed_with_id == [id |-> "extension", address |-> Extension, network |-> TRUE]

(* The wallet is not written back: the user may have left it meanwhile.    *)
refreshed == [stored EXCEPT !.address = Extension, !.network = TRUE]

PollEnd ==
  /\ app.poll # None
  /\ \/ stored' = refreshed /\ app' = [app EXCEPT !.address = Extension, !.poll = None]
     \/ stored' = [stored EXCEPT !.id = None] /\ app' = [app EXCEPT !.poll = None]
     \/ nullify
  /\ UNCHANGED <<sign_vars, device, cache, kit, history>>

(* The dApp is reloaded: nothing waits for the popup any more.             *)
Reload ==
  /\ app' = Fresh
  /\ UNCHANGED <<sign_vars, session, kit, history>>

-----------------------------------------------------------------------------
(* Connecting.                                                             *)

(* window.open reuses the window of an earlier ceremony, and its page ends. *)
openCeremonyPopup(p, wait, s) ==
  /\ popup' = p /\ message' = None
  /\ app' = [app EXCEPT !.promise = wait, !.selected = "nido"]
  /\ NewRequest(s) /\ told' = "none"

(* The kit's modal, with Nido picked: the picker opens on the address of   *)
(* the last connection.                                                    *)
getAddress ==
  /\ app.address = None /\ app.promise = None
  /\ openCeremonyPopup([page |-> "connect", previous |-> cache], "connect", NoPage)
  /\ UNCHANGED <<session, history>>

connected(id, a) ==
  /\ stored' = [stored EXCEPT !.id = id, !.address = a]
  /\ wanted' = TRUE

connectExtension ==
  /\ app.address = None /\ app.promise = None
  /\ connected("extension", Extension)
  /\ app' = [app EXCEPT !.selected = "extension"]
  /\ UNCHANGED <<sign_vars, device, cache, kit, switched>>

post(m) ==
  /\ message' = m /\ popup' = Closed /\ page' = NoPage
  /\ UNCHANGED <<chain, txs, lost, session, app, told>>

Answer(from, result, account) == [from |-> from, result |-> result, account |-> account]

(* One account, and the dApp was connected with it: nothing to choose.     *)
fastPath == popup.previous # None /\ device = {popup.previous}

PickerLoads ==
  /\ popup.page = "connect"
  /\ IF fastPath THEN post(Answer("connect", "ok", popup.previous))
     ELSE /\ popup' = [page |-> "picker"]
          /\ UNCHANGED <<sign_vars, session, app, message, told>>
  /\ UNCHANGED history

PickerAnswers ==
  /\ popup.page = "picker"
  /\ \/ \E a \in device : post(Answer("connect", "ok", a)) /\ switched' = FALSE
     \/ post(Answer("connect", "cancelled", None)) /\ UNCHANGED switched
  /\ UNCHANGED wanted

-----------------------------------------------------------------------------
(* The answers.                                                            *)

(* The session of the dApp goes, whether or not the kit's disconnect       *)
(* throws; the module forgets its address when it is called.               *)
disconnectWallet(c) ==
  /\ cache' \in {c} \cup (IF app.selected = "nido" THEN {None} ELSE {})
  /\ stored' = [id |-> None, address |-> None, network |-> FALSE]
  /\ wanted' = FALSE

Disconnect ==
  /\ app.address # None /\ app.promise = None /\ disconnectWallet(cache)
  /\ UNCHANGED <<sign_vars, device, app, kit, switched>>

(* What the module keeps of its address when the user asks to switch.      *)
switch_account_keeps(c) == c
switch_account(c) == None

parseSignReturn(result) ==
  /\ told' = result
  /\ IF result = "switch-account"
     THEN disconnectWallet(switch_account(cache)) /\ switched' = TRUE
     ELSE UNCHANGED <<stored, cache, history>>

parseConnectReturn(m) ==
  /\ IF m.result = "ok"
     THEN cache' = m.account /\ connected("nido", m.account)
     ELSE UNCHANGED <<stored, cache, wanted>>
  /\ UNCHANGED <<told, switched>>

(* The page listens for the window it opened, by origin.                   *)
Receive ==
  /\ message # None /\ message' = None
  /\ IF app.promise = message.from
     THEN /\ app' = [app EXCEPT !.promise = None]
          /\ IF message.from = "sign" THEN parseSignReturn(message.result)
             ELSE parseConnectReturn(message)
     ELSE UNCHANGED <<app, stored, cache, told, history>>
  /\ UNCHANGED <<sign_vars, device, popup>>

(* The window is seen closed, with or without an answer under way, or five *)
(* minutes pass and it is closed.                                          *)
GiveUp ==
  /\ app.promise # None
  /\ app' = [app EXCEPT !.promise = None]
  /\ told' = IF app.promise = "sign" THEN "no_answer" ELSE told
  /\ popup' = Closed /\ message' = None /\ NewRequest(NoPage)
  /\ UNCHANGED <<session, history>>

-----------------------------------------------------------------------------
(* The sign page in the popup, or in a tab of its own for an action of the *)
(* wallet itself, while the dApp is not connected.                         *)

signTransaction(request) ==
  /\ app.address \in Accounts /\ app.selected = "nido" /\ app.promise = None
  /\ openCeremonyPopup([page |-> "sign"], "sign", opened(request, app.address \in Registered))
  /\ UNCHANGED <<session, history>>

OwnAction ==
  /\ app = Fresh /\ stored.id = None /\ popup = Closed /\ message = None /\ page = NoPage
  /\ NewRequest(opened("own", TRUE)) /\ told' = "none"
  /\ UNCHANGED <<session, app, popup, message, history>>

finish(result) ==
  /\ popup.page = "sign" /\ post(Answer("sign", result, None)) /\ UNCHANGED history

SignAnswers ==
  \/ At("done") /\ finish("submitted")
  \/ At("signed") /\ finish("signed")
  \/ page.step \in {"review", "no_passkey"} /\ \E r \in {"cancelled", "switch-account"} : finish(r)

(* The user leaves the page for good, or reloads it: a request that was    *)
(* not done is there again.                                                *)
Leave ==
  /\ page # NoPage /\ popup' = Closed /\ NewRequest(NoPage)
  /\ UNCHANGED <<session, app, message, told, history>>

Reopen ==
  /\ ~At("done") /\ txs # <<>> /\ page # NoPage
  /\ page' = opened(page.request, TRUE) /\ lost' = TRUE
  /\ UNCHANGED <<chain, txs, session, app, kit, history>>

Init ==
  /\ SignInit
  /\ device \in { D \in SUBSET Accounts : Registered \subseteq D }
  /\ stored = [id |-> None, address |-> None, network |-> FALSE]
  /\ cache = None /\ app = Fresh /\ popup = Closed /\ message = None /\ told = "none"
  /\ wanted = FALSE /\ switched = FALSE

Poll == PollBegin \/ PollEnd
Session == Reload \/ getAddress \/ connectExtension \/ Disconnect
Popup == PickerLoads \/ PickerAnswers \/ Receive \/ GiveUp
Signing == \/ SignNext /\ UNCHANGED <<session, app, kit, history>>
           \/ (\E r \in {"tx", "entry"} : signTransaction(r))
           \/ OwnAction \/ SignAnswers \/ Leave \/ Reopen

Next == Poll \/ Session \/ Popup \/ Signing

Spec == Init /\ [][Next]_vars /\ WF_vars(PollBegin) /\ WF_vars(PollEnd)

-----------------------------------------------------------------------------
(* Properties.                                                             *)

Wallets == {"nido", "extension", None}
Answers ==
  [from: {"connect"}, result: {"ok", "cancelled"}, account: Accounts \cup {None}]
  \cup [from: {"sign"}, result: {"submitted", "signed", "cancelled", "switch-account"}, account: {None}]

TypeOK ==
  /\ SignTypeOK
  /\ device \subseteq Accounts /\ cache \in Accounts \cup {None}
  /\ stored \in [id: Wallets, address: Accounts \cup {Extension, None}, network: BOOLEAN]
  /\ app \in [address: Accounts \cup {Extension, None}, selected: Wallets,
              poll: {"extension", None}, promise: {"connect", "sign", None}]
  /\ popup \in [page: {"closed", "picker", "sign"}]
              \cup [page: {"connect"}, previous: Accounts \cup {None}]
  /\ message \in Answers \cup {None}
  /\ told \in {"none", "no_answer", "submitted", "signed", "cancelled", "switch-account"}
  /\ wanted \in BOOLEAN /\ switched \in BOOLEAN

read_of(info, rule) ==
  /\ info # None /\ rule # None /\ cred \in rule.external
  /\ info.externalSigners = rule.external /\ info.delegatedCount = rule.delegated
  /\ info.policyCount = Cardinality(rule.policies)
  /\ \A m \in rule.policies \ {0} : info.threshold = m

no_fewer(rule, n) ==
  \A S \in SUBSET rule.external : satisfied(rule, S) => Cardinality(S) >= n

(* The passkeys a dApp's transaction is signed with are neither too few    *)
(* nor too many: the check after the ceremony fails only if the rule was   *)
(* not read or changed since, a ceremony asks for no more assertions than  *)
(* the rule needs, and what is turned down before it no passkeys could     *)
(* have satisfied (walletSign.ts, the preflight).                          *)
PreflightIsExact ==
  [][/\ At("enforce") /\ page'.outcome = "refused" => ~read_of(page.info, rules[page.rule])
     /\ At("preflight") /\ page'.info # None /\ read_of(page'.info, rules[page.rule]) =>
          IF page'.outcome = "beyond_passkeys"
          THEN \A S \in SUBSET rules[page.rule].external : ~satisfied(rules[page.rule], S)
          ELSE no_fewer(rules[page.rule], page'.required)]_vars

landed == { i \in DOMAIN txs : txs[i].state = "landed" }

(* What the dApp is told of its request, or the user of an own action, is  *)
(* true of the chain: submitted means landed, cancelled or switched that   *)
(* nothing has landed or will; and however often Approve is pressed, one   *)
(* request lands once.  The page fails at this only when it lost sight of  *)
(* a transaction by a lost answer, polls that ran out or a reload          *)
(* (submit.ts; relayer.ts, waitForConfirmation; the sign page, approve).   *)
ToldTheTruth ==
  /\ told = "submitted" \/ At("done") => landed # {}
  /\ told \in {"cancelled", "switch-account"} /\ ~lost =>
       \A i \in DOMAIN txs : txs[i].state = "failed"
  /\ Cardinality(landed) <= 1 \/ lost

(* A user who asked for another account is not connected with an account   *)
(* nobody picked since (module.ts, runSign; /connect/, the fast path).     *)
SwitchIsHonoured ==
  [][popup.page = "connect" /\ popup'.page = "closed" /\ message' # None => ~switched]_vars

(* A user who leaves and does not connect again stays signed out, whatever *)
(* a poll that began before brings (wallet.ts; WalletProvider.tsx).        *)
SignOutSticks ==
  <>[]~wanted => <>[](stored.id = None /\ app.address = None)
=============================================================================
