---------------------------- MODULE NameRegistry ----------------------------
(***************************************************************************)
(* The registry of human-readable account names (src/contracts/            *)
(* name-registry): two maps, from names to owners and from owners to       *)
(* names, which register, release and transfer change together.  A call    *)
(* is one transaction and is atomic; a failed assertion changes nothing.   *)
(*                                                                         *)
(* Names is the set of names validate_name accepts.  Storage expiry, and   *)
(* with it extend_ttl, is left out: an archived entry is restored, not     *)
(* lost.                                                                   *)
(***************************************************************************)
EXTENDS Naturals

CONSTANTS
  Names,      \* names of 1 to 15 characters a-z0-9 that start with a letter
  Addresses,  \* the addresses that may hold one
  None        \* an absent entry

ASSUME NoneAssumption == None \notin Names \cup Addresses

VARIABLES
  names,   \* names[n]: who holds the name, or None
  owners   \* owners[a]: the name the address holds, or None

vars == <<names, owners>>

-----------------------------------------------------------------------------

registrable(owner, name) == names[name] = None /\ owners[owner] = None

(* The owner authorises. *)
register(owner, name) ==
  /\ registrable(owner, name)
  /\ names' = [names EXCEPT ![name] = owner]
  /\ owners' = [owners EXCEPT ![owner] = name]

release(owner) ==
  /\ owners[owner] # None
  /\ names' = [names EXCEPT ![owners[owner]] = None]
  /\ owners' = [owners EXCEPT ![owner] = None]

transferable(owner, new_owner) == owners[owner] # None /\ owners[new_owner] = None

(* Both authorise. *)
transfer(owner, new_owner) ==
  /\ transferable(owner, new_owner)
  /\ names' = [names EXCEPT ![owners[owner]] = new_owner]
  /\ owners' = [owners EXCEPT ![owner] = None, ![new_owner] = owners[owner]]

-----------------------------------------------------------------------------

Init ==
  /\ names = [n \in Names |-> None]
  /\ owners = [a \in Addresses |-> None]

Next ==
  \E owner \in Addresses :
    \/ \E name \in Names : register(owner, name)
    \/ release(owner)
    \/ \E new_owner \in Addresses : transfer(owner, new_owner)

Spec == Init /\ [][Next]_vars

-----------------------------------------------------------------------------
(* Properties.                                                             *)

(* Every variable has its type. *)
TypeOK ==
  /\ names \in [Names -> Addresses \cup {None}]
  /\ owners \in [Addresses -> Names \cup {None}]

(* resolve and lookup agree: a name resolves to an address exactly when that
   address looks up to the name.  Both maps are written by each entry point,
   one entry at a time (contract.rs, register, release, transfer), and the
   wallet trusts either. *)
MapsAgree ==
  \A n \in Names, a \in Addresses : names[n] = a <=> owners[a] = n

(* An address that holds a name never has it replaced by another one in one
   call: it first has to be without (contract.rs, the assertions of register
   and transfer). *)
NameNeverReplaced ==
  [][\A a \in Addresses : owners[a] # None => owners'[a] \in {owners[a], None}]_vars
=============================================================================
