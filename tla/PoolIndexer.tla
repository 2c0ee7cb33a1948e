---------------------------- MODULE PoolIndexer ----------------------------
(***************************************************************************)
(* How a wallet learns the leaves of the recovery pool: the pool contract  *)
(* emits one LeafInserted event per leaf, the pool-indexer worker          *)
(* (src/infra/pool-indexer) copies events into a key-value store from a    *)
(* cron job, and a client (poolSync.ts, syncPoolAndLocate) rebuilds the    *)
(* tree from what the indexer, or the RPC node itself, hands it.           *)
(*                                                                         *)
(* Every await of the worker is a step of its own.  Invocations of the     *)
(* cron job may overlap, and each may die between any two steps.           *)
(*                                                                         *)
(* Data.  A leaf's event is at the leaf's index; a cursor is the number of *)
(* events before it.  The root of a tree is what it has at every index,    *)
(* the empty leaf where nothing was inserted.                              *)
(*                                                                         *)
(* A definition marked "wrong variant" is the definition after it with a   *)
(* plausible mistake, and no part of the model.                            *)
(***************************************************************************)
EXTENDS Integers, Sequences, FiniteSets

CONSTANTS
  Leaves,       \* the leaves that may be inserted
  MyLeaf,       \* the one the client looks for
  EmptyLeaf,    \* ZEROS[0]
  None,         \* an absent key
  Scans,        \* the invocations of the cron job that may overlap
  PAGE_LIMIT,   \* events in a page of getEvents
  KvLags,       \* TRUE: a read of the key-value store may miss recent writes
  SourceErrs,   \* TRUE: the event source may give an index any leaf
  IndexerErrs,  \* TRUE: the indexer may answer a client with any leaves
  LongOutages,  \* TRUE: events may be pruned before the worker has seen them
  MaxLeaves,    \* bound: insertions, and the capacity of the tree
  MaxDeaths     \* bound: invocations that die

VARIABLES
  chain,    \* the leaves of the pool contract
  oldest,   \* the RPC node has forgotten the events below this index
  kv,       \* kv[i]: what is stored under leaf/i, or None
  cursor,   \* what is stored under meta/rpcCursor, or None
  cursors,  \* every value cursor ever had: a lagging read returns any of them
  scans,    \* scans[s]: the state of an invocation
  deaths,   \* how many invocations have died
  client    \* the state of the client

worker_vars == <<kv, cursor, cursors, scans, deaths>>
vars == <<chain, oldest, worker_vars, client>>

Indices == 0..(MaxLeaves - 1)
Events  == [index: Indices, leaf: Leaves \cup {EmptyLeaf}]
Positions == 0..MaxLeaves

ScanStates ==
  [pc: {"idle"}]
  \cup [pc: {"get events"}, from: Positions \cup {None}]
  \cup [pc: {"append"}, todo: SUBSET Events, next: Positions]
  \cup [pc: {"put"}, todo: (SUBSET Events) \ {{}}, next: Positions]

Witnesses == [index: Indices, size: Positions]

ClientStates ==
  [pc: {"idle"}]
  \cup [pc: {"verify"}, merged: UNION {[1..n -> Leaves \cup {EmptyLeaf}] : n \in Positions}]
  \cup [pc: {"located"}, witness: Witnesses]

ASSUME IndexerAssumption ==
  /\ MyLeaf \in Leaves /\ EmptyLeaf \notin Leaves
  /\ None \notin Leaves \cup {EmptyLeaf} /\ None \notin Nat
  /\ PAGE_LIMIT \in Nat \ {0} /\ MaxLeaves \in Nat \ {0} /\ MaxDeaths \in Nat
  /\ {KvLags, SourceErrs, IndexerErrs, LongOutages} \subseteq BOOLEAN

-----------------------------------------------------------------------------
(* The chain and the RPC node.                                             *)

InsertLeaf ==
  /\ Len(chain) < MaxLeaves
  /\ \E leaf \in Leaves : chain' = Append(chain, leaf)
  /\ UNCHANGED <<oldest, worker_vars, client>>

(* Retention ends for the oldest event.  Retention is seven days and the cron
   job runs every fifteen minutes: but for a long outage, an event is pruned
   only after the worker recorded it, and no invocation lasts that long. *)
Prune ==
  /\ oldest < Len(chain)
  /\ LongOutages \/ (cursor # None /\ oldest < cursor /\ \A s \in Scans : scans[s].pc = "idle")
  /\ oldest' = oldest + 1
  /\ UNCHANGED <<chain, worker_vars, client>>

(* The leaves the source may give for an index. *)
emitted(i) == IF SourceErrs THEN Leaves \cup {EmptyLeaf} ELSE {chain[i + 1]}

-----------------------------------------------------------------------------
(* The worker.                                                             *)

readable(i) == {kv[i]} \cup IF KvLags THEN {None} ELSE {}
readable_cursor == {cursor} \cup IF KvLags THEN cursors ELSE {}

Begin(s) ==
  /\ scans[s].pc = "idle"
  /\ \E from \in readable_cursor : scans' = [scans EXCEPT ![s] = [pc |-> "get events", from |-> from]]
  /\ UNCHANGED <<kv, cursor, cursors, deaths>>

(* Without a cursor the scan starts at POOL_START_LEDGER. *)
start(s) == IF scans[s].from = None THEN 0 ELSE scans[s].from

page_end(from) == IF from + PAGE_LIMIT < Len(chain) THEN from + PAGE_LIMIT ELSE Len(chain)

GetEvents(s) ==
  /\ scans[s].pc = "get events"
  /\ start(s) >= oldest
  /\ \E page \in [start(s)..(page_end(start(s)) - 1) -> Leaves \cup {EmptyLeaf}] :
       /\ \A i \in DOMAIN page : page[i] \in emitted(i)
       /\ scans' = [scans EXCEPT ![s] =
            [pc |-> "append", todo |-> {[index |-> i, leaf |-> page[i]] : i \in DOMAIN page},
             next |-> page_end(start(s))]]
  /\ UNCHANGED <<kv, cursor, cursors, deaths>>

(* The node refuses to start below its retention: the invocation fails. *)
Refused(s) ==
  /\ scans[s].pc = "get events"
  /\ start(s) < oldest
  /\ scans' = [scans EXCEPT ![s] = [pc |-> "idle"]]
  /\ UNCHANGED <<kv, cursor, cursors, deaths>>

(* Wrong variant: events are appended in the order they come. *)
next_event_any(s, e) == e \in scans[s].todo

(* runScan sorts the page by index. *)
next_event(s, e) ==
  e \in scans[s].todo /\ \A f \in scans[s].todo : e.index <= f.index

done_with(s, e) ==
  [scans EXCEPT ![s] = [pc |-> "append", todo |-> scans[s].todo \ {e}, next |-> scans[s].next]]

putting(s) ==
  [scans EXCEPT ![s] = [pc |-> "put", todo |-> scans[s].todo, next |-> scans[s].next]]

appendable(existing) == existing = None

(* appendLeaf: the first read ... *)
LookUp(s) ==
  /\ scans[s].pc = "append"
  /\ \E e \in scans[s].todo, existing \in {None} \cup Leaves \cup {EmptyLeaf} :
       /\ next_event(s, e)
       /\ existing \in readable(e.index)
       /\ scans' = IF appendable(existing) THEN putting(s) ELSE done_with(s, e)
  /\ UNCHANGED <<kv, cursor, cursors, deaths>>

(* ... and the write after it. *)
Put(s) ==
  /\ scans[s].pc = "put"
  /\ \E e \in scans[s].todo :
       /\ next_event(s, e)
       /\ kv' = [kv EXCEPT ![e.index] = e.leaf]
       /\ scans' = done_with(s, e)
  /\ UNCHANGED <<cursor, cursors, deaths>>

(* Wrong variant: the cursor is stored without waiting for the appends. *)
scanned_at_once(s) == scans[s].pc = "append"

(* Wrong variant: a full page is taken for one that is still being filled. *)
scanned_short_page(s) ==
  scans[s].pc = "append" /\ scans[s].todo = {} /\ scans[s].next = Len(chain)

scanned(s) == scans[s].pc = "append" /\ scans[s].todo = {}

PersistCursor(s) ==
  /\ scanned(s)
  /\ cursor' = scans[s].next
  /\ cursors' = cursors \cup {scans[s].next}
  /\ scans' = [scans EXCEPT ![s] = [pc |-> "idle"]]
  /\ UNCHANGED <<kv, deaths>>

(* An exception or an eviction.  Bounded by MaxDeaths. *)
Die(s) ==
  /\ scans[s].pc # "idle"
  /\ deaths < MaxDeaths
  /\ deaths' = deaths + 1
  /\ scans' = [scans EXCEPT ![s] = [pc |-> "idle"]]
  /\ UNCHANGED <<kv, cursor, cursors>>

Scan(s) ==
  /\ Begin(s) \/ GetEvents(s) \/ Refused(s) \/ LookUp(s) \/ Put(s) \/ PersistCursor(s)
  /\ UNCHANGED <<chain, oldest, client>>

-----------------------------------------------------------------------------
(* The client.                                                             *)

(* /leaves: the stored leaves, those a lagging listing misses left out. *)
served == {shown \in SUBSET {i \in Indices : kv[i] # None} :
             KvLags \/ shown = {i \in Indices : kv[i] # None}}

contiguous(indices) == indices = 0..(Cardinality(indices) - 1)

(* mergeLeaves throws on a gap. *)
merge(found) ==
  /\ contiguous(DOMAIN found)
  /\ client' = [pc |-> "verify",
                merged |-> [i \in 1..Cardinality(DOMAIN found) |-> found[i - 1]]]

FetchFromIndexer ==
  /\ client.pc = "idle"
  /\ \/ \E shown \in served : merge([i \in shown |-> kv[i]])
     \/ /\ IndexerErrs
        /\ \E shown \in SUBSET Indices : \E found \in [shown -> Leaves \cup {EmptyLeaf}] : merge(found)
  /\ UNCHANGED <<chain, oldest, worker_vars>>

(* Without an indexer: every event the node still has. *)
FetchFromChain ==
  /\ client.pc = "idle"
  /\ merge([i \in oldest..(Len(chain) - 1) |-> chain[i + 1]])
  /\ UNCHANGED <<chain, oldest, worker_vars>>

root(leaves) == [i \in Indices |-> IF i < Len(leaves) THEN leaves[i + 1] ELSE EmptyLeaf]

(* Wrong variant: the snapshot is trusted. *)
verify_nothing(leaves) == TRUE

verifyAgainstOnChainRoot(leaves) == root(leaves) = root(chain)

(* The last place of the client's leaf. *)
located_at(leaves, i) ==
  /\ i \in DOMAIN leaves /\ leaves[i] = MyLeaf
  /\ \A j \in DOMAIN leaves : leaves[j] = MyLeaf => j <= i

Locate ==
  /\ client.pc = "verify"
  /\ verifyAgainstOnChainRoot(client.merged)
  /\ \E i \in DOMAIN client.merged :
       /\ located_at(client.merged, i)
       /\ client' = [pc |-> "located", witness |-> [index |-> i - 1, size |-> Len(chain)]]
  /\ UNCHANGED <<chain, oldest, worker_vars>>

(* A root that does not match, or no leaf of the client: it may try again. *)
GiveUp ==
  /\ client.pc = "verify"
  /\ ~verifyAgainstOnChainRoot(client.merged) \/ \A i \in DOMAIN client.merged : client.merged[i] # MyLeaf
  /\ client' = [pc |-> "idle"]
  /\ UNCHANGED <<chain, oldest, worker_vars>>

Client == FetchFromIndexer \/ FetchFromChain \/ Locate \/ GiveUp

-----------------------------------------------------------------------------

Init ==
  /\ chain = <<>>
  /\ oldest = 0
  /\ kv = [i \in Indices |-> None]
  /\ cursor = None
  /\ cursors = {None}
  /\ scans = [s \in Scans |-> [pc |-> "idle"]]
  /\ deaths = 0
  /\ client = [pc |-> "idle"]

(* An invocation that reads the last cursor written. *)
BeginCurrent(s) == Scan(s) /\ Begin(s) /\ scans'[s].from = cursor

Next ==
  \/ InsertLeaf \/ Prune \/ Client
  \/ \E s \in Scans : Scan(s)
  \/ \E s \in Scans : Die(s) /\ UNCHANGED <<chain, oldest, client>>

(* The platform runs the cron job again and again, and runs an invocation it
   has started to its end unless it dies; not every read of the cursor lags. *)
Spec == Init /\ [][Next]_vars
FairSpec == Spec /\ \A s \in Scans : WF_vars(Scan(s)) /\ SF_vars(BeginCurrent(s))

-----------------------------------------------------------------------------
(* Properties.                                                             *)

(* Every variable has its type. *)
TypeOK ==
  /\ chain \in Seq(Leaves) /\ Len(chain) <= MaxLeaves
  /\ oldest \in 0..Len(chain)
  /\ kv \in [Indices -> Leaves \cup {EmptyLeaf, None}]
  /\ cursor \in Positions \cup {None}
  /\ cursors \subseteq Positions \cup {None}
  /\ scans \in [Scans -> ScanStates]
  /\ deaths \in 0..MaxDeaths
  /\ client \in ClientStates

(* No event below the stored cursor is missing from the store, whatever
   invocations overlapped, died or read old values: the cursor is never ahead
   of the leaves, so no leaf is skipped (index.ts, scheduled). *)
CursorNeverAhead ==
  \A i \in Indices : cursor # None /\ i < cursor => kv[i] # None

(* The indexer never stores a leaf before all earlier ones: a reader of the
   store in the middle of a scan sees a prefix of the pool, not a gap. *)
NoGap ==
  \A i, j \in Indices : i < j /\ kv[j] # None => kv[i] # None

(* Whatever the indexer serves, a witness the client accepts is one of its own
   leaf in the contract's tree (poolSync.ts: the root check is "the ONLY
   authority a caller may rely on"). *)
WitnessSound ==
  client.pc = "located" =>
    /\ client.witness.size <= Len(chain)
    /\ client.witness.index < client.witness.size
    /\ chain[client.witness.index + 1] = MyLeaf

(* Every leaf inserted is stored in the end, though invocations die. *)
EveryLeafStored ==
  \A i \in Indices : Len(chain) > i ~> kv[i] # None
=============================================================================
