-------------------------- MODULE NameClaim_proofs --------------------------
(***************************************************************************)
(* The registry's two maps are inverse to each other, for every set of     *)
(* names and of addresses; and whatever others do with the registry, what  *)
(* the wallet saves of a name was once so, and what /sign/ says of a claim *)
(* was so after the page began to ask.                                     *)
(*                                                                         *)
(* TypeOK /\ MapsAgree is inductive as it stands.  The verdicts need to    *)
(* know what the page has read so far: AskedSoFar says it of each step     *)
(* between the question and the verdict.                                   *)
(***************************************************************************)
EXTENDS NameClaim, TLAPS

(* The registry on its own.                                                *)
Consistent == TypeOK /\ MapsAgree

LEMMA InitConsistent == Init => Consistent
BY NoneAssumption DEF Init, Consistent, TypeOK, MapsAgree

LEMMA NextConsistent == Consistent /\ [Next]_vars => Consistent'
<1> SUFFICES ASSUME Consistent, [Next]_vars PROVE Consistent'
    OBVIOUS
<1> USE NoneAssumption DEF Consistent, TypeOK, MapsAgree
<1>1. ASSUME NEW owner \in Addresses, NEW name \in Names, register(owner, name)
      PROVE  Consistent'
      BY <1>1 DEF register, registrable
<1>2. ASSUME NEW owner \in Addresses, release(owner)
      PROVE  Consistent'
      BY <1>2 DEF release
<1>3. ASSUME NEW owner \in Addresses, NEW new_owner \in Addresses,
             transfer(owner, new_owner)
      PROVE  Consistent'
  <2> DEFINE name == owners[owner]
  <2>1. name \in Names /\ names[name] = owner
        BY <1>3 DEF transfer, transferable
  <2>2. TypeOK'
        BY <1>3, <2>1 DEF transfer, transferable
  <2>3. \A n \in Names : names'[n] = IF n = name THEN new_owner ELSE names[n]
        BY <1>3, <2>1 DEF transfer
  <2>4. \A a \in Addresses : owners'[a] = IF a = new_owner THEN name
                                          ELSE IF a = owner THEN None ELSE owners[a]
        BY <1>3, <2>1 DEF transfer
  <2>5. MapsAgree'
        BY <1>3, <2>1, <2>3, <2>4 DEF transfer, transferable
  <2> QED BY <2>2, <2>5
<1>4. CASE UNCHANGED vars
      BY <1>4 DEF vars
<1> QED BY <1>1, <1>2, <1>3, <1>4 DEF Next

THEOREM AlwaysConsistent == Spec => []Consistent
<1> QED BY InitConsistent, NextConsistent, PTL DEF Spec

(* resolve and lookup agree in every state: no sequence of register, release
   and transfer leaves a name whose owner looks up to another one. *)
THEOREM ResolveMatchesLookup == Spec => []MapsAgree
<1>1. Consistent => MapsAgree
      BY DEF Consistent
<1> QED BY <1>1, AlwaysConsistent, PTL

LEMMA CallsReplaceNoName ==
  Consistent /\ [Next]_vars =>
    [\A a \in Addresses : owners[a] # None => owners'[a] \in {owners[a], None}]_vars
<1> DEFINE Kept == \A a \in Addresses : owners[a] # None => owners'[a] \in {owners[a], None}
<1> SUFFICES ASSUME Consistent, Next PROVE Kept
    OBVIOUS
<1> USE DEF Consistent, TypeOK
<1>1. ASSUME NEW owner \in Addresses, NEW name \in Names, register(owner, name)
      PROVE  Kept
      BY <1>1 DEF register, registrable
<1>2. ASSUME NEW owner \in Addresses, release(owner)
      PROVE  Kept
      BY <1>2 DEF release
<1>3. ASSUME NEW owner \in Addresses, NEW new_owner \in Addresses,
             transfer(owner, new_owner)
      PROVE  Kept
      BY <1>3 DEF transfer, transferable
<1> QED BY <1>1, <1>2, <1>3 DEF Next

(* No call replaces the name an address holds by another one. *)
THEOREM NamesAreNotReplaced == Spec => NameNeverReplaced
BY CallsReplaceNoName, AlwaysConsistent, PTL DEF Spec, NameNeverReplaced

-----------------------------------------------------------------------------
(* The wallet.                                                             *)

Claims == [account : Addresses, name : Names]

PageStates ==
  [step : {"elsewhere", "shown", "entry", "review", "lookup", "resolve", "signing",
           "sent", "landed", "failed", "stuck", "settled"},
   account : Addresses \cup {None}, name : Names \cup {None},
   after : BOOLEAN, unread : BOOLEAN, told : {"none", "own", "taken", "done", "failed"}]

PageOK ==
  /\ page \in PageStates
  /\ OnSignPage => page.account \in Addresses /\ page.name \in Names
  /\ At("entry") => page.account \in Mine \cup {None} /\ page.name \in Names
  /\ ~OnSignPage => page.told = "none"

WalletOK ==
  /\ cache \in [Names -> Addresses \cup {None}]
  /\ saved \in [Addresses -> Names \cup {None}]
  /\ known \subseteq Mine
  /\ request \in Claims \cup {None}

(* What is so now was seen, and is in the history. *)
Remembered == Holders \subseteq held /\ Facts \subseteq seen

(* Between the question and the verdict. *)
AskedSoFar ==
  /\ At("resolve") => "unnamed" \in seen \/ page.unread
  /\ At("landed") => "mine" \in seen

IInv == Consistent /\ PageOK /\ WalletOK /\ Remembered /\ AskedSoFar /\ SavedOnceHeld /\ VerdictsAreTrue

LEMMA InitInductive == ClaimInit => IInv
<1> SUFFICES ASSUME ClaimInit PROVE IInv
    OBVIOUS
<1> USE NoneAssumption, MineAssumption
<1>1. PICK a \in Addresses, n \in Names :
        /\ names \in {[m \in Names |-> None], [m \in Names |-> IF m = n THEN a ELSE None]}
        /\ owners = [b \in Addresses |-> IF names[n] = b THEN n ELSE None]
      BY DEF ClaimInit
<1>2. Consistent
      BY <1>1 DEF Consistent, TypeOK, MapsAgree
<1>3. page = NoPage /\ ~OnSignPage
      BY DEF ClaimInit, NoPage, OnSignPage
<1>4. PageOK /\ AskedSoFar /\ VerdictsAreTrue
      BY <1>3 DEF PageOK, PageStates, NoPage, OnSignPage, AskedSoFar, VerdictsAreTrue, At
<1>5. WalletOK /\ SavedOnceHeld
      BY DEF ClaimInit, WalletOK, SavedOnceHeld
<1>6. Remembered
      BY <1>3 DEF ClaimInit, Remembered, Facts
<1> QED BY <1>2, <1>4, <1>5, <1>6 DEF IInv

-----------------------------------------------------------------------------
(* What a step does to the histories, given the rest.                      *)

(* The names saved and cached have been held, those of now included. *)
SavedNow ==
  /\ \A a \in Addresses : saved'[a] # None => <<a, saved'[a]>> \in held \cup Holders'
  /\ \A n \in Names : cache'[n] # None => <<cache'[n], n>> \in held \cup Holders'

VerdictNow == AskedSoFar' /\ VerdictsAreTrue'

LEMMA StepRecorded ==
  ASSUME IInv, Recorded, Consistent', PageOK', WalletOK', SavedNow, VerdictNow
  PROVE  IInv'
<1>1. Remembered'
      BY DEF Recorded, Remembered, Facts
<1>2. SavedOnceHeld'
      BY DEF SavedNow, SavedOnceHeld, Recorded
<1> QED BY <1>1, <1>2 DEF IInv, VerdictNow

LEMMA RegistryKept ==
  ASSUME IInv, registry_unchanged
  PROVE  Consistent'
BY DEF registry_unchanged, vars, IInv, Consistent, TypeOK, MapsAgree

LEMMA SavedKept ==
  ASSUME IInv, UNCHANGED <<cache, saved>>
  PROVE  SavedNow
BY DEF IInv, SavedOnceHeld, SavedNow

(* Nothing is said, and nothing was asked. *)
LEMMA Quiet ==
  ASSUME page'.told = "none", page'.step \notin {"resolve", "landed"}
  PROVE  VerdictNow
BY DEF VerdictNow, AskedSoFar, VerdictsAreTrue, At

(* What was said stays so, for what was seen is remembered until the page asks
   anew. *)
LEMMA SaidBefore ==
  ASSUME IInv, Recorded, OnSignPage', page'.step = "lookup" => page.step = "lookup",
         page'.told = page.told, page'.unread = page.unread,
         page'.step = "resolve" => page.step = "resolve",
         page'.step = "landed" => page.step = "landed"
  PROVE  VerdictNow
<1>1. seen \subseteq seen'
      BY DEF Recorded, begins
<1> QED BY <1>1 DEF IInv, VerdictNow, AskedSoFar, VerdictsAreTrue, At

LEMMA SamePage ==
  ASSUME IInv, Recorded, UNCHANGED page
  PROVE  VerdictNow
<1>1. CASE OnSignPage
      BY <1>1, SaidBefore DEF OnSignPage
<1>2. CASE ~OnSignPage
      BY <1>2, Quiet DEF IInv, PageOK, OnSignPage
<1> QED BY <1>1, <1>2

LEMMA PageKept ==
  ASSUME IInv, UNCHANGED <<page, cache, saved>>, known' \subseteq Mine, UNCHANGED request
  PROVE  PageOK' /\ WalletOK'
BY DEF IInv, PageOK, WalletOK, OnSignPage, At

-----------------------------------------------------------------------------
(* The registry's steps.                                                   *)

LEMMA RegisterKeeps ==
  ASSUME IInv, NEW owner \in Addresses, NEW name \in Names, register(owner, name)
  PROVE  Consistent'
BY NextConsistent DEF IInv, Next

LEMMA NetworkInductive == IInv /\ Network /\ Recorded => IInv'
<1> SUFFICES ASSUME IInv, Network, Recorded PROVE IInv'
    OBVIOUS
<1>1. CASE Elsewhere
  <2>1. Consistent' /\ UNCHANGED <<page, cache, saved, known, request>>
        BY <1>1, NextConsistent DEF Elsewhere, IInv, local
  <2>2. known' \subseteq Mine
        BY <2>1 DEF IInv, WalletOK
  <2> QED BY <2>1, <2>2, StepRecorded, SavedKept, SamePage, PageKept
<1>2. ASSUME NEW a \in Mine, NEW n \in Names, Lands(claim(a, n))
      PROVE  IInv'
  <2> DEFINE c == claim(a, n)
  <2>1. c.account = a /\ c.name = n /\ a \in Addresses
        BY MineAssumption DEF claim
  <2>2. Consistent' /\ UNCHANGED <<cache, saved, known, request>>
        BY <1>2, <2>1, RegisterKeeps DEF Lands, local
  <2>3. known' \subseteq Mine
        BY <2>2 DEF IInv, WalletOK
  <2>4. CASE UNCHANGED page
        BY <2>2, <2>3, <2>4, StepRecorded, SavedKept, SamePage, PageKept
  <2>5. CASE At("sent") /\ c = mine /\ page' = [page EXCEPT !.step = "landed"]
    <3>1. page.account = a /\ page.name = n /\ page.step = "sent" /\ page \in PageStates
          BY <2>1, <2>5 DEF mine, claim, At, IInv, PageOK
    <3>2. /\ page' \in PageStates /\ page'.step = "landed" /\ page'.account = a
          /\ page'.name = n /\ page'.told = page.told /\ page'.unread = page.unread
          BY <2>5, <3>1 DEF PageStates
    <3>3. names'[n] = a
          BY <1>2, <2>1 DEF Lands, register, IInv, Consistent, TypeOK
    <3>4. OnSignPage'
          BY <3>2 DEF OnSignPage
    <3>5. "mine" \in Facts'
          BY <3>2, <3>3, <3>4 DEF Facts
    <3>6. seen \subseteq seen' /\ "mine" \in seen'
          BY <3>2, <3>4, <3>5 DEF Recorded, begins
    <3>7. VerdictNow
          BY <3>2, <3>6 DEF IInv, VerdictNow, AskedSoFar, VerdictsAreTrue, At
    <3>8. PageOK'
          BY <2>1, <3>2, <3>4 DEF PageOK, At
    <3>9. WalletOK'
          BY <2>2 DEF IInv, WalletOK
    <3> QED BY <2>2, <3>7, <3>8, <3>9, StepRecorded, SavedKept
  <2> QED BY <1>2, <2>4, <2>5 DEF Lands
<1>3. ASSUME NEW a \in Mine, NEW n \in Names, LandsNot(claim(a, n))
      PROVE  IInv'
  <2>1. Consistent' /\ UNCHANGED <<cache, saved, known, request>>
        BY <1>3, RegistryKept DEF LandsNot, local
  <2>2. known' \subseteq Mine
        BY <2>1 DEF IInv, WalletOK
  <2>3. CASE UNCHANGED page
        BY <2>1, <2>2, <2>3, StepRecorded, SavedKept, SamePage, PageKept
  <2>4. CASE At("sent") /\ page' = [page EXCEPT !.step = "failed"]
    <3>1. page.step = "sent" /\ page \in PageStates /\ OnSignPage
          BY <2>4 DEF At, IInv, PageOK, OnSignPage
    <3>2. /\ page' \in PageStates /\ page'.step = "failed" /\ page'.account = page.account
          /\ page'.name = page.name /\ page'.told = page.told /\ page'.unread = page.unread
          BY <2>4, <3>1 DEF PageStates
    <3>3. OnSignPage' /\ PageOK'
          BY <3>1, <3>2 DEF OnSignPage, PageOK, At, IInv
    <3>4. WalletOK'
          BY <2>1 DEF IInv, WalletOK
    <3> QED BY <2>1, <3>2, <3>3, <3>4, StepRecorded, SavedKept, SaidBefore
  <2> QED BY <1>3, <2>3, <2>4 DEF LandsNot
<1> QED BY <1>1, <1>2, <1>3 DEF Network

-----------------------------------------------------------------------------
(* The pages.                                                              *)

(* A page that says nothing, for steps that leave the registry alone. *)
LEMMA QuietStep ==
  ASSUME IInv, Recorded, registry_unchanged, PageOK', WalletOK', SavedNow,
         page'.told = "none", page'.step \notin {"resolve", "landed"}
  PROVE  IInv'
BY RegistryKept, Quiet, StepRecorded

LEMMA ReviewPage ==
  ASSUME NEW c \in Claims, page' = review(c)
  PROVE  PageOK' /\ page'.told = "none" /\ page'.step = "review"
<1>1. page' = [step |-> "review", account |-> c.account, name |-> c.name,
               after |-> FALSE, unread |-> FALSE, told |-> "none"]
      BY DEF review, NoPage
<1>2. c.account \in Addresses /\ c.name \in Names
      BY DEF Claims
<1> QED BY <1>1, <1>2 DEF PageOK, PageStates, OnSignPage, At

(* A name's subdomain shows, and saves, what the name resolved to. *)
LEMMA ArriveInductive ==
  ASSUME IInv, Recorded, NEW name \in Names, NEW param \in Mine \cup {None},
         NEW claiming \in Names \cup {None}, arrive(name, param, claiming), known' \subseteq Mine
  PROVE  IInv'
<1> USE NoneAssumption, MineAssumption
<1>1. PICK resolved \in resolveNameCached(name) :
        /\ cache' = [cache EXCEPT ![name] = resolved]
        /\ saved' = savedBy(name, resolved, param)
        /\ IF resolved = None
           THEN request' = request /\ \E a \in selectClaimer(param) : page' = entry(name, a)
           ELSE IF claiming # None
           THEN request' = claim(resolved, claiming) /\ page' = review(request')
           ELSE request' = request /\ page' = [NoPage EXCEPT !.step = "shown", !.account = resolved]
      BY DEF arrive
<1>2. resolved \in Addresses \cup {None}
      BY <1>1 DEF resolveNameCached, IInv, WalletOK, Consistent, TypeOK
<1>3. registry_unchanged /\ Holders' = Holders
      BY DEF arrive, registry_unchanged, vars, Holders
<1>4. resolved # None => <<resolved, name>> \in held
      BY <1>1, <1>2 DEF resolveNameCached, IInv, SavedOnceHeld, Remembered, Holders
<1>5. SavedNow
  <2>1. \A n \in Names : cache'[n] = IF n = name THEN resolved ELSE cache[n]
        BY <1>1 DEF IInv, WalletOK
  <2>2. \A a \in Addresses : saved'[a] = IF a = resolved THEN name ELSE saved[a]
        BY <1>1, <1>2 DEF savedBy, IInv, WalletOK
  <2> QED BY <1>4, <2>1, <2>2 DEF IInv, SavedOnceHeld, SavedNow
<1>6. saved' \in [Addresses -> Names \cup {None}] /\ cache' \in [Names -> Addresses \cup {None}]
      BY <1>1, <1>2 DEF savedBy, IInv, WalletOK
<1>7. CASE resolved = None
  <2>1. PICK a \in selectClaimer(param) : page' = entry(name, a)
        BY <1>1, <1>7
  <2>2. a \in Mine \cup {None}
        BY DEF selectClaimer, IInv, WalletOK
  <2>3. page' = [step |-> "entry", account |-> a, name |-> name,
                 after |-> FALSE, unread |-> FALSE, told |-> "none"]
        BY <2>1 DEF entry, NoPage
  <2>4. PageOK'
        BY <2>2, <2>3 DEF PageOK, PageStates, OnSignPage, At
  <2>5. WalletOK'
        BY <1>1, <1>6, <1>7 DEF IInv, WalletOK
  <2> QED BY <1>3, <1>5, <2>3, <2>4, <2>5, QuietStep
<1>8. CASE resolved # None /\ claiming # None
  <2>1. request' = claim(resolved, claiming) /\ page' = review(request') /\ request' \in Claims
        BY <1>1, <1>2, <1>8 DEF claim, Claims
  <2>2. WalletOK'
        BY <1>6, <2>1 DEF WalletOK
  <2> QED BY <1>3, <1>5, <2>1, <2>2, ReviewPage, QuietStep
<1>9. CASE resolved # None /\ claiming = None
  <2>1. page' = [step |-> "shown", account |-> resolved, name |-> None,
                 after |-> FALSE, unread |-> FALSE, told |-> "none"]
        BY <1>1, <1>9 DEF NoPage
  <2>2. PageOK'
        BY <1>2, <2>1 DEF PageOK, PageStates, OnSignPage, At
  <2>3. WalletOK'
        BY <1>1, <1>6, <1>9 DEF IInv, WalletOK
  <2> QED BY <1>3, <1>5, <2>1, <2>2, <2>3, QuietStep
<1> QED BY <1>7, <1>8, <1>9

LEMMA StashInductive ==
  ASSUME IInv, Recorded, NEW c \in Claims, stash(c)
  PROVE  IInv'
<1>1. WalletOK' /\ SavedNow
      BY SavedKept DEF stash, local, IInv, WalletOK
<1> QED BY <1>1, ReviewPage, QuietStep DEF stash

LEMMA BrowseInductive == IInv /\ Browse /\ Recorded => IInv'
<1> SUFFICES ASSUME IInv, Browse, Recorded PROVE IInv'
    OBVIOUS
<1> USE NoneAssumption, MineAssumption
<1>0. known \subseteq Mine
      BY DEF IInv, WalletOK
<1>1. ASSUME NEW n \in Names, Visit(n)
      PROVE  IInv'
      BY <1>0, <1>1, ArriveInductive DEF Visit
<1>2. ASSUME NEW n \in Names, Expire(n)
      PROVE  IInv'
  <2>1. \A m \in Names : cache'[m] \in {cache[m], None}
        BY <1>2 DEF Expire, IInv, WalletOK
  <2>2. SavedNow
        BY <1>2, <2>1 DEF Expire, IInv, SavedOnceHeld, SavedNow
  <2>3. PageOK' /\ WalletOK'
        BY <1>2 DEF Expire, IInv, PageOK, WalletOK, OnSignPage, At
  <2> QED BY <1>2, <2>2, <2>3, SamePage, RegistryKept, StepRecorded DEF Expire
<1>3. ASSUME NEW a \in Mine, resolveMissingNames(a)
      PROVE  IInv'
  <2>1. a \in Addresses /\ owners[a] \in Names /\ names[owners[a]] = a
        BY <1>3 DEF resolveMissingNames, IInv, Consistent, TypeOK, MapsAgree
  <2>2. \A b \in Addresses : saved'[b] = IF b = a THEN owners[a] ELSE saved[b]
        BY <1>3 DEF resolveMissingNames, IInv, WalletOK
  <2>3. <<a, owners[a]>> \in held
        BY <2>1 DEF IInv, Remembered, Holders
  <2>4. SavedNow
        BY <1>3, <2>1, <2>2, <2>3 DEF resolveMissingNames, IInv, SavedOnceHeld, SavedNow
  <2>5. PageOK' /\ WalletOK'
        BY <1>3, <2>1 DEF resolveMissingNames, IInv, PageOK, WalletOK, OnSignPage, At
  <2> QED BY <1>3, <2>4, <2>5, SamePage, RegistryKept, StepRecorded DEF resolveMissingNames
<1>4. ASSUME NEW a \in Mine, NEW n \in Names, claimForm(a, n)
      PROVE  IInv'
      BY <1>4, StashInductive DEF claimForm, claim, Claims
<1>5. CASE NewAccount
  <2>1. PICK a \in Mine : known' = {a} /\ arrive(page.name, a, None)
        BY <1>5 DEF NewAccount
  <2>2. page.name \in Names
        BY <1>5 DEF NewAccount, IInv, PageOK
  <2> QED BY <2>1, <2>2, ArriveInductive
<1>6. CASE handoff
  <2>1. page.account \in Mine /\ page.name \in Names
        BY <1>6 DEF handoff, IInv, PageOK
  <2>2. mine \in Claims
        BY <2>1 DEF mine, claim, Claims
  <2>3. saved[page.account] \in Names \cup {None}
        BY <2>1 DEF IInv, WalletOK
  <2> QED BY <1>0, <1>6, <2>1, <2>2, <2>3, StashInductive, ArriveInductive DEF handoff
<1>7. CASE Leave
  <2>1. page' = [step |-> "elsewhere", account |-> None, name |-> None,
                 after |-> FALSE, unread |-> FALSE, told |-> "none"]
        BY <1>7 DEF Leave, NoPage
  <2>2. PageOK'
        BY <2>1 DEF PageOK, PageStates, OnSignPage, At
  <2>3. WalletOK' /\ SavedNow
        BY <1>7, SavedKept DEF Leave, local, IInv, WalletOK
  <2> QED BY <1>7, <2>1, <2>2, <2>3, QuietStep DEF Leave
<1>8. CASE Reopen
  <2>1. request \in Claims
        BY <1>8 DEF Reopen, IInv, WalletOK
  <2>2. WalletOK' /\ SavedNow
        BY <1>8, SavedKept DEF Reopen, local, IInv, WalletOK
  <2> QED BY <1>8, <2>1, <2>2, ReviewPage, QuietStep DEF Reopen
<1>9. CASE return
  <2>1. page.name \in Names
        BY <1>9 DEF return, IInv, PageOK, OnSignPage, At
  <2> QED BY <1>0, <1>9, <2>1, ArriveInductive DEF return
<1> QED BY <1>1, <1>2, <1>3, <1>4, <1>5, <1>6, <1>7, <1>8, <1>9 DEF Browse

-----------------------------------------------------------------------------
(* /sign/.                                                                 *)

(* The page goes on about the same claim. *)
LEMMA SignPageType ==
  ASSUME IInv, OnSignPage, NEW p \in PageStates, page' = p, OnSignPage',
         p.account = page.account, p.name = page.name
  PROVE  PageOK'
BY DEF IInv, PageOK, OnSignPage, At

(* A step of /sign/ about the same claim, with what it says shown to be so. *)
LEMMA SignStep ==
  ASSUME IInv, Recorded, registry_unchanged, OnSignPage, OnSignPage',
         page' \in PageStates, page'.account = page.account, page'.name = page.name,
         UNCHANGED local, request' \in {request, None}, VerdictNow
  PROVE  IInv'
<1>1. PageOK'
      BY SignPageType
<1>2. WalletOK' /\ SavedNow
      BY SavedKept DEF local, IInv, WalletOK
<1> QED BY <1>1, <1>2, RegistryKept, StepRecorded

(* What is so when the page says it is seen, when it says it and before. *)
LEMMA SeenNow ==
  ASSUME IInv, Recorded, registry_unchanged, OnSignPage, OnSignPage', page'.step # "lookup",
         page'.account = page.account, page'.name = page.name
  PROVE  seen \subseteq seen' /\ Facts \subseteq seen'
BY DEF Recorded, begins, IInv, Remembered

LEMMA AskingInductive ==
  ASSUME IInv, Recorded, registry_unchanged, OnSignPage, NEW after \in BOOLEAN,
         page' = asking(after), UNCHANGED <<local, request>>
  PROVE  IInv'
<1>1. page \in PageStates
      BY DEF IInv, PageOK
<1>2. /\ page' \in PageStates /\ page'.step = "lookup" /\ page'.told = "none"
      /\ page'.account = page.account /\ page'.name = page.name
      BY <1>1 DEF asking, PageStates
<1>3. OnSignPage'
      BY <1>2 DEF OnSignPage
<1> QED BY <1>2, <1>3, Quiet, SignStep

LEMMA SettleInductive ==
  ASSUME IInv, Recorded, OnSignPage, NEW told \in {"own", "done"}, settle(told),
         told = "own" => "named" \in Facts, told = "done" => "mine" \in seen
  PROVE  IInv'
<1>1. page \in PageStates
      BY DEF IInv, PageOK
<1>2. /\ page' \in PageStates /\ page'.step = "settled" /\ page'.told = told
      /\ page'.account = page.account /\ page'.name = page.name
      BY <1>1 DEF settle, PageStates
<1>3. OnSignPage'
      BY <1>2 DEF OnSignPage
<1>4. VerdictNow
      BY <1>2, <1>3, SeenNow DEF settle, VerdictNow, AskedSoFar, VerdictsAreTrue, At
<1> QED BY <1>2, <1>3, <1>4, SignStep DEF settle

LEMMA ClassifyInductive == IInv /\ Classify /\ Recorded => IInv'
<1> SUFFICES ASSUME IInv, Classify, Recorded PROVE IInv'
    OBVIOUS
<1>1. page \in PageStates /\ OnSignPage
      BY DEF Classify, classifyOwn, classifyTaken, Unreadable, At, OnSignPage, IInv, PageOK
<1>2. CASE classifyOwn
  <2>1. CASE owners[page.account] # None
        BY <1>1, <1>2, <2>1, SettleInductive DEF classifyOwn, Facts
  <2>2. CASE owners[page.account] = None
    <3>1. /\ page' = [page EXCEPT !.step = "resolve"] /\ registry_unchanged
          /\ UNCHANGED <<local, request>>
          BY <1>2, <2>2 DEF classifyOwn, Become
    <3>2. /\ page' \in PageStates /\ page'.step = "resolve" /\ page'.told = page.told
          /\ page'.unread = page.unread /\ page'.account = page.account /\ page'.name = page.name
          BY <1>1, <3>1 DEF PageStates
    <3>3. OnSignPage' /\ "unnamed" \in Facts
          BY <1>1, <2>2, <3>2 DEF OnSignPage, Facts
    <3>4. VerdictNow
          BY <1>1, <3>1, <3>2, <3>3, SeenNow
          DEF IInv, VerdictNow, AskedSoFar, VerdictsAreTrue, At
    <3> QED BY <1>1, <3>1, <3>2, <3>3, <3>4, SignStep
  <2> QED BY <2>1, <2>2
<1>3. CASE classifyTaken
  <2>1. /\ page.step = "resolve" /\ registry_unchanged /\ UNCHANGED <<local, request>>
        /\ page' = IF names[page.name] \in {None, page.account} THEN ok ELSE retryable("taken")
        BY <1>3 DEF classifyTaken, Become, At
  <2>2. /\ page' \in PageStates /\ page'.step \in {"review", "signing"}
        /\ page'.told \in {"failed", "taken", page.told}
        /\ page'.told # page.told /\ page'.told = "taken" => names[page.name] \notin {None, page.account}
        /\ page'.unread = page.unread /\ page'.account = page.account /\ page'.name = page.name
        BY <1>1, <2>1 DEF PageStates, ok, retryable
  <2>3. OnSignPage'
        BY <2>2 DEF OnSignPage
  <2>4. names[page.name] \notin {None, page.account} => "other" \in Facts
        BY <1>1 DEF Facts
  <2>5. VerdictNow
        BY <1>1, <2>1, <2>2, <2>3, <2>4, SeenNow
        DEF IInv, VerdictNow, AskedSoFar, VerdictsAreTrue, At
  <2> QED BY <1>1, <2>1, <2>2, <2>3, <2>5, SignStep
<1>4. CASE Unreadable
  <2>1. /\ registry_unchanged /\ UNCHANGED <<local, request>>
        /\ page' = [unread EXCEPT !.step = "resolve"] \/ page' = [ok EXCEPT !.unread = TRUE]
        BY <1>4 DEF Unreadable, Become
  <2>2. /\ page' \in PageStates /\ page'.step \in {"resolve", "review", "signing"}
        /\ page'.told \in {"failed", page.told}
        /\ page'.unread = TRUE /\ page'.account = page.account /\ page'.name = page.name
        BY <1>1, <2>1 DEF PageStates, ok, retryable, unread
  <2>3. OnSignPage'
        BY <2>2 DEF OnSignPage
  <2>4. VerdictNow
        BY <1>1, <2>1, <2>2, <2>3, SeenNow
        DEF IInv, VerdictNow, AskedSoFar, VerdictsAreTrue, At
  <2> QED BY <1>1, <2>1, <2>2, <2>3, <2>4, SignStep
<1> QED BY <1>2, <1>3, <1>4 DEF Classify

LEMMA SignInductive == IInv /\ SignClaim /\ Recorded => IInv'
<1> SUFFICES ASSUME IInv, SignClaim, Recorded PROVE IInv'
    OBVIOUS
<1>1. CASE approve
      BY <1>1, AskingInductive DEF approve, Become, At, OnSignPage
<1>2. CASE answerLost \/ signFails \/ onchainFailure
      BY <1>2, AskingInductive DEF answerLost, signFails, onchainFailure, Become, At, OnSignPage
<1>3. CASE submit \/ timedOut
  <2>1. /\ registry_unchanged /\ UNCHANGED <<local, request>> /\ OnSignPage
        /\ page' = [page EXCEPT !.step = "sent"] \/ page' = [page EXCEPT !.step = "stuck"]
        BY <1>3 DEF submit, timedOut, Become, At, OnSignPage
  <2>2. /\ page' \in PageStates /\ page'.step \in {"sent", "stuck"} /\ page'.told = page.told
        /\ page'.unread = page.unread /\ page'.account = page.account /\ page'.name = page.name
        BY <2>1 DEF PageStates, IInv, PageOK
  <2>3. OnSignPage'
        BY <2>2 DEF OnSignPage
  <2> QED BY <2>1, <2>2, <2>3, SaidBefore, SignStep
<1>4. CASE confirmed
  <2>1. OnSignPage /\ "mine" \in seen
        BY <1>4 DEF confirmed, At, OnSignPage, IInv, AskedSoFar
  <2> QED BY <1>4, <2>1, SettleInductive DEF confirmed
<1> QED BY <1>1, <1>2, <1>3, <1>4, ClassifyInductive DEF SignClaim

LEMMA StutterInductive == IInv /\ UNCHANGED claim_vars => IInv'
BY DEF claim_vars, vars, local, IInv, Consistent, TypeOK, MapsAgree, PageOK, OnSignPage, At, WalletOK,
       Remembered, Holders, Facts, AskedSoFar, SavedOnceHeld, VerdictsAreTrue

THEOREM ClaimInductive == ClaimSpec => []IInv
<1>1. IInv /\ [ClaimNext]_claim_vars => IInv'
      BY NetworkInductive, BrowseInductive, SignInductive, StutterInductive DEF ClaimNext
<1> QED BY <1>1, InitInductive, PTL DEF ClaimSpec

(* What the user is told of a claim was so after the page began to ask, for
   every interleaving of the two reads with the claim's own landing and the
   calls of others (sign/index.astro, classifyClaim). *)
THEOREM VerdictsAlwaysTrue == ClaimSpec => []VerdictsAreTrue
<1>1. IInv => VerdictsAreTrue
      BY DEF IInv
<1> QED BY <1>1, ClaimInductive, PTL

(* Whatever account a link names, a name saved for an account, and an answer
   of the cache, were once so (account/index.astro, resolve.ts). *)
THEOREM SavedNamesWereHeld == ClaimSpec => []SavedOnceHeld
<1>1. IInv => SavedOnceHeld
      BY DEF IInv
<1> QED BY <1>1, ClaimInductive, PTL

-----------------------------------------------------------------------------
(* The wallet as the registry sees it.                                     *)

LEMMA ClaimsAreCalls == [ClaimNext]_claim_vars => [Next]_vars
<1> SUFFICES ASSUME [ClaimNext]_claim_vars PROVE [Next]_vars
    OBVIOUS
<1>1. CASE Elsewhere
      BY <1>1 DEF Elsewhere
<1>2. ASSUME NEW a \in Mine, NEW n \in Names, Lands(claim(a, n))
      PROVE  Next
  <2>1. register(a, n) /\ a \in Addresses
        BY <1>2, MineAssumption DEF Lands, claim
  <2> QED BY <2>1 DEF Next
<1>3. ASSUME NEW c, LandsNot(c)
      PROVE  UNCHANGED vars
      BY <1>3 DEF LandsNot, registry_unchanged
<1>4. CASE Browse
      BY <1>4 DEF Browse, Visit, Expire, resolveMissingNames, claimForm, NewAccount, handoff,
                  Leave, Reopen, return, arrive, stash, registry_unchanged
<1>5. CASE SignClaim
      BY <1>5 DEF SignClaim, approve, Classify, classifyOwn, classifyTaken, Unreadable, submit,
                  answerLost, signFails, confirmed, onchainFailure, timedOut, settle, Become,
                  registry_unchanged
<1>6. CASE UNCHANGED claim_vars
      BY <1>6 DEF claim_vars
<1> QED BY <1>1, <1>2, <1>3, <1>4, <1>5, <1>6 DEF ClaimNext, Network

(* What the wallet's pages make of the registry, with claims that land late,
   twice accepted or after their page is gone, are calls of it: resolve and
   lookup agree, and no name is replaced, whatever names were held before
   (contract.rs, register; sign/index.astro). *)
THEOREM ClaimsAreRegistryCalls ==
  ClaimSpec => [][Next]_vars /\ []MapsAgree /\ NameNeverReplaced
<1>1. IInv => Consistent /\ MapsAgree
      BY DEF IInv, Consistent
<1> QED BY <1>1, ClaimsAreCalls, CallsReplaceNoName, ClaimInductive, PTL
        DEF ClaimSpec, NameNeverReplaced
=============================================================================
