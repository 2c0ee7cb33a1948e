------------------------------- MODULE NameClaim -------------------------------
(***************************************************************************)
(* One browser claims a name for one of its accounts, against a registry   *)
(* that others use too.  A name's subdomain resolves the name (resolve.ts, *)
(* with a cache of five minutes) and offers a free one (claimFlow.ts); the *)
(* claim is handed to the account's own subdomain, which is that of the    *)
(* name this browser saved for it, stashed there and signed on /sign/.     *)
(* The registry traps without a message, so /sign/ asks it what happened,  *)
(* before it signs and after a failure, with two reads that others may     *)
(* come between and that may fail.                                         *)
(*                                                                         *)
(* The stash holds the last request, which the user may come back to.  A   *)
(* page that is left leaves its transaction adrift; two such transactions  *)
(* of one claim are one.  A definition marked "wrong variant" is the       *)
(* definition after it with a plausible mistake, and no part of the model. *)
(***************************************************************************)
EXTENDS NameRegistry, FiniteSets

CONSTANTS
  Mine,       \* the accounts with a passkey on this device
  MaxChanges  \* bounds the calls of the registry from elsewhere

ASSUME MineAssumption == Mine \subseteq Addresses

VARIABLES
  changes,  \* how many there were
  cache,    \* cache[n]: the address this tab read for the name, while fresh
  saved,    \* saved[a]: the name this browser saved for the account
  known,    \* the accounts this browser lists
  request,  \* the stashed claim, or None
  page,     \* what the tab shows
  adrift,   \* claims in flight that no page waits for
  held,     \* history: who has held which name
  seen      \* history: what was so since the page last began to ask

local == <<cache, saved, known>>
claim_vars == <<vars, changes, local, request, page, adrift, held, seen>>

NoPage == [step |-> "elsewhere", account |-> None, name |-> None,
           after |-> FALSE, unread |-> FALSE, told |-> "none"]

At(step) == page.step = step
OnSignPage == page.step \in {"review", "lookup", "resolve", "signing",
                             "sent", "landed", "failed", "stuck", "settled"}

claim(account, name) == [account |-> account, name |-> name]
mine == claim(page.account, page.name)

(* The transaction the page waited for, once the page is left.             *)
leaving == adrift \cup (IF At("sent") THEN {mine} ELSE {})

registry_unchanged == UNCHANGED <<vars, changes>>

-----------------------------------------------------------------------------
(* The registry and the network.                                           *)

(* Calls of other people, and of the user from another device.             *)
Elsewhere ==
  /\ changes < MaxChanges /\ changes' = changes + 1
  /\ Next
  /\ UNCHANGED <<local, request, page, adrift>>

(* A claim in flight is included; it registers the name or traps.          *)
Lands(c) ==
  /\ register(c.account, c.name)
  /\ \/ c \in adrift /\ adrift' = adrift \ {c} /\ UNCHANGED page
     \/ At("sent") /\ c = mine /\ page' = [page EXCEPT !.step = "landed"] /\ UNCHANGED adrift
  /\ UNCHANGED <<changes, local, request>>

LandsNot(c) ==
  /\ \/ c \in adrift /\ adrift' = adrift \ {c} /\ UNCHANGED page
     \/ At("sent") /\ c = mine /\ page' = [page EXCEPT !.step = "failed"] /\ UNCHANGED adrift
  /\ registry_unchanged /\ UNCHANGED <<local, request>>

-----------------------------------------------------------------------------
(* The name's subdomain and the account's.                                 *)

(* A simulation that fails reads like a name nobody has, and is not cached.*)
resolveNameCached(name) == IF cache[name] # None THEN {cache[name]} ELSE {names[name], None}

Expire(name) ==
  /\ cache[name] # None /\ cache' = [cache EXCEPT ![name] = None]
  /\ registry_unchanged /\ UNCHANGED <<saved, known, request, page, adrift>>

review(c) == [NoPage EXCEPT !.step = "review", !.account = c.account, !.name = c.name]

entry(name, claimer) == [NoPage EXCEPT !.step = "entry", !.account = claimer, !.name = name]

(* The account that claims: the one the link names, else the one used last; *)
(* of several the user may choose.                                         *)
selectClaimer(param) ==
  LET chosen == IF Cardinality(known) > 1 \/ param = None THEN known ELSE {}
      named  == IF param = None THEN {} ELSE {param}
  IN  IF chosen \cup named = {} THEN {None} ELSE chosen \cup named

(* Wrong variant: the name is saved for the account the link names.        *)
savedBy_param(name, resolved, param) ==
  IF resolved = None THEN saved
  ELSE [saved EXCEPT ![IF param # None THEN param ELSE resolved] = name]

savedBy(name, resolved, param) ==
  IF resolved = None THEN saved ELSE [saved EXCEPT ![resolved] = name]

(* The subdomain of a name loads, with ?account= and ?claim= or without.   *)
(* It shows the account the name resolved to, whichever the link names.    *)
arrive(name, param, claiming) ==
  \E resolved \in resolveNameCached(name) :
    /\ cache' = [cache EXCEPT ![name] = resolved]
    /\ saved' = savedBy(name, resolved, param)
    /\ adrift' = leaving
    /\ IF resolved = None
       THEN request' = request /\ \E a \in selectClaimer(param) : page' = entry(name, a)
       ELSE IF claiming # None
       THEN request' = claim(resolved, claiming) /\ page' = review(request')
       ELSE request' = request /\ page' = [NoPage EXCEPT !.step = "shown", !.account = resolved]
    /\ registry_unchanged

Visit(name) == arrive(name, None, None) /\ UNCHANGED known

(* No account: one is made, and the user returns to the name with it.      *)
NewAccount ==
  /\ At("entry") /\ page.account = None
  /\ \E a \in Mine : known' = {a} /\ arrive(page.name, a, None)

stash(c) == request' = c /\ page' = review(c) /\ registry_unchanged /\ UNCHANGED <<local, adrift>>

(* To the account's own subdomain: that of the name saved for it, if any.  *)
handoff ==
  /\ At("entry") /\ page.account # None
  /\ IF saved[page.account] = None THEN stash(mine)
     ELSE arrive(saved[page.account], page.account, page.name) /\ UNCHANGED known

(* The form of the account's page, which an account with a saved name does *)
(* not have.                                                               *)
claimForm(account, name) ==
  /\ At("elsewhere") /\ account \in known /\ saved[account] = None
  /\ stash(claim(account, name))

(* The menu of accounts looks up those without a saved name.               *)
resolveMissingNames(account) ==
  /\ account \in known /\ saved[account] = None /\ owners[account] # None
  /\ saved' = [saved EXCEPT ![account] = owners[account]]
  /\ registry_unchanged /\ UNCHANGED <<cache, known, request, page, adrift>>

(* The user goes elsewhere.                                                *)
Leave ==
  /\ page # NoPage /\ page' = NoPage /\ adrift' = leaving
  /\ registry_unchanged /\ UNCHANGED <<local, request>>

(* /sign/ is reloaded, or reached again by the back button: the stash is   *)
(* still there.                                                            *)
Reopen ==
  /\ request # None /\ page' = review(request) /\ adrift' = leaving
  /\ registry_unchanged /\ UNCHANGED <<local, request>>

-----------------------------------------------------------------------------
(* /sign/.                                                                 *)

Become(p) == page' = p /\ registry_unchanged /\ UNCHANGED <<local, adrift, request>>

asking(after) == [page EXCEPT !.step = "lookup", !.after = after, !.told = "none", !.unread = FALSE]

(* Approve is enabled again, below what the user is told.                  *)
retryable(told) == [page EXCEPT !.step = "review", !.told = told]

approve == At("review") /\ page.account \in Mine /\ Become(asking(FALSE))

(* Nothing conclusive: before, the ceremony begins; after, the failure is  *)
(* shown as it came.                                                       *)
ok == IF page.after THEN retryable("failed") ELSE [page EXCEPT !.step = "signing"]

unread == [page EXCEPT !.unread = TRUE]

settle(told) ==
  /\ page' = [page EXCEPT !.step = "settled", !.told = told] /\ request' = None
  /\ registry_unchanged /\ UNCHANGED <<local, adrift>>

(* Wrong variant: whether the account has a name is not asked.             *)
classifyOwn_not == At("lookup") /\ Become([page EXCEPT !.step = "resolve"])

(* classifyClaim, its first read: does the account have a name?  Whichever *)
(* it is, the claim is taken to have gone through before.                  *)
classifyOwn ==
  /\ At("lookup")
  /\ IF owners[page.account] # None THEN settle("own")
     ELSE Become([page EXCEPT !.step = "resolve"])

(* Its second: does another have the name?                                 *)
classifyTaken ==
  /\ At("resolve")
  /\ Become(IF names[page.name] \in {None, page.account} THEN ok ELSE retryable("taken"))

(* A simulation that fails reads like no name; a call that throws ends the *)
(* classification.                                                         *)
Unreadable ==
  \/ At("lookup") /\ Become([unread EXCEPT !.step = "resolve"])
  \/ page.step \in {"lookup", "resolve"} /\ Become([ok EXCEPT !.unread = TRUE])

(* runSign: the simulations of the page and of the relayer pass.           *)
submit ==
  /\ At("signing") /\ registrable(page.account, page.name)
  /\ Become([page EXCEPT !.step = "sent"])

(* The relayer accepts it and the answer is lost.                          *)
answerLost ==
  /\ At("signing") /\ registrable(page.account, page.name)
  /\ adrift' = adrift \cup {mine} /\ page' = asking(TRUE)
  /\ registry_unchanged /\ UNCHANGED <<local, request>>

(* The prompt is dismissed, a simulation traps, or a call fails.           *)
signFails == At("signing") /\ Become(asking(TRUE))

confirmed == At("landed") /\ settle("done")

onchainFailure == At("failed") /\ Become(asking(TRUE))

(* It may yet go through: Approve stays disabled.                          *)
timedOut ==
  /\ page.step \in {"sent", "landed", "failed"}
  /\ page' = [page EXCEPT !.step = "stuck"] /\ adrift' = leaving
  /\ registry_unchanged /\ UNCHANGED <<local, request>>

(* To the name that was asked for.                                         *)
return == At("settled") /\ arrive(page.name, None, None) /\ UNCHANGED known

-----------------------------------------------------------------------------

Holders == { h \in Addresses \X Names : names[h[2]] = h[1] }

Facts ==
  IF ~OnSignPage THEN {}
  ELSE (IF owners[page.account] = None THEN {"unnamed"} ELSE {"named"})
       \cup (IF names[page.name] = page.account THEN {"mine"}
             ELSE IF names[page.name] # None THEN {"other"} ELSE {})

begins == page'.step = "lookup" /\ page.step # "lookup"

Network == Elsewhere \/ \E a \in Mine, n \in Names : Lands(claim(a, n)) \/ LandsNot(claim(a, n))

Browse ==
  \/ \E n \in Names : Visit(n) \/ Expire(n)
  \/ \E a \in Mine : resolveMissingNames(a) \/ \E n \in Names : claimForm(a, n)
  \/ NewAccount \/ handoff \/ Leave \/ Reopen \/ return

Classify == classifyOwn \/ classifyTaken \/ Unreadable

SignClaim ==
  \/ approve \/ Classify
  \/ submit \/ answerLost \/ signFails \/ confirmed \/ onchainFailure \/ timedOut

ClaimInit ==
  /\ \E a \in Addresses, n \in Names : \* a name held already, or none
       /\ names \in {[m \in Names |-> None], [m \in Names |-> IF m = n THEN a ELSE None]}
       /\ owners = [b \in Addresses |-> IF names[n] = b THEN n ELSE None]
  /\ changes = 0
  /\ cache = [n \in Names |-> None]
  /\ saved = [a \in Addresses |-> None]
  /\ known \in SUBSET Mine
  /\ request = None /\ page = NoPage /\ adrift = {}
  /\ held = Holders /\ seen = {}

Recorded ==
  /\ held' = held \cup Holders'
  /\ seen' = IF ~OnSignPage' THEN {} ELSE (IF begins THEN {} ELSE seen) \cup Facts'

ClaimNext == (Network \/ Browse \/ SignClaim) /\ Recorded

ClaimSpec == ClaimInit /\ [][ClaimNext]_claim_vars

(* The user who is on /sign/ approves when they can, and reloads the page  *)
(* when it gave up; the registry answers now and then, and what is         *)
(* accepted again and again lands once.                                    *)
Fairness ==
  /\ WF_claim_vars((approve \/ Classify \/ submit \/ answerLost \/ signFails) /\ Recorded)
  /\ WF_claim_vars((confirmed \/ onchainFailure \/ timedOut) /\ Recorded)
  /\ WF_claim_vars(At("stuck") /\ Reopen /\ Recorded)
  /\ SF_claim_vars(classifyOwn /\ Recorded)
  /\ SF_claim_vars(classifyTaken /\ Recorded)
  /\ SF_claim_vars(submit /\ Recorded)
  /\ \A c \in [account : Mine, name : Names] : SF_claim_vars(Lands(c) /\ Recorded)

FairClaimSpec == ClaimSpec /\ Fairness

-----------------------------------------------------------------------------
(* Properties.                                                             *)

(* What the user is told of a claim was so after the page began to ask: an
   account said to be named had a name; a name said to be taken had another
   holder; a claim said to be done gave the account the name; and a failure
   is shown only for an account without a name, or when the registry could
   not be read.  The reads are two, the claim itself may land between them,
   and so may the calls of others (sign/index.astro, classifyClaim and the
   handler of Approve). *)
VerdictsAreTrue ==
  /\ page.told = "own" => "named" \in seen
  /\ page.told = "taken" => "other" \in seen
  /\ page.told = "done" => "mine" \in seen
  /\ page.told = "failed" => "unnamed" \in seen \/ page.unread

(* A name saved for an account, and an answer of the cache, were once so:
   links name accounts the name never belonged to, and the page must trust
   the registry only (account/index.astro, name resolution; resolve.ts,
   resolveNameCached). *)
SavedOnceHeld ==
  /\ \A a \in Addresses : saved[a] # None => <<a, saved[a]>> \in held
  /\ \A n \in Names : cache[n] # None => <<cache[n], n>> \in held

(* A user who stays with their claim gets an answer: the account is named,
   or the name is another's.  A claim that landed although its page was
   told it failed, or gave up waiting, is not signed for ever after
   (sign/index.astro, handler of Approve). *)
ClaimIsAnswered ==
  []<>(~OnSignPage \/ page.account \notin Mine \/ page.told \in {"taken", "own", "done"})
=============================================================================
