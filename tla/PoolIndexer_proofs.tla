------------------------- MODULE PoolIndexer_proofs -------------------------
(***************************************************************************)
(* What the pool indexer and its clients keep, for every page size, every  *)
(* number of leaves and of overlapping invocations, a lagging store and a  *)
(* source that contradicts itself.                                         *)
(*                                                                         *)
(* The cursor is not enough for an invariant: a lagging read may return    *)
(* any value it ever had, and an invocation may be anywhere in its page.   *)
(* IInv speaks of every value the cursor ever had, and of the events an    *)
(* invocation still has to append.                                         *)
(***************************************************************************)
EXTENDS PoolIndexer, FiniteSetTheorems, TLAPS

(* Every leaf below p is stored. *)
StoredBelow(p) == \A i \in Indices : i < p => kv[i] # None

(* Every leaf below the end of the page of s is stored or in its list. *)
PageComplete(s) ==
  \A i \in Indices : i < scans[s].next => kv[i] # None \/ \E e \in scans[s].todo : e.index = i

CursorsSound ==
  /\ cursor \in cursors
  /\ \A c \in cursors : c # None => StoredBelow(c)

ScanSound(s) ==
  /\ scans[s].pc = "get events" => scans[s].from \in cursors
  /\ scans[s].pc \in {"append", "put"} =>
       PageComplete(s) /\ \A e \in scans[s].todo : e.index < scans[s].next

WorkerInv == CursorsSound /\ NoGap /\ \A s \in Scans : ScanSound(s)

IInv == TypeOK /\ WorkerInv

-----------------------------------------------------------------------------
(* Types.                                                                  *)

LEMMA IndicesFinite ==
  /\ IsFiniteSet(Indices)
  /\ \A S \in SUBSET Indices : Cardinality(S) \in Nat /\ Cardinality(S) <= MaxLeaves
<1>1. IsFiniteSet(Indices) /\ Cardinality(Indices) = MaxLeaves
      BY FS_Interval, IndexerAssumption DEF Indices
<1>2. ASSUME NEW S \in SUBSET Indices PROVE Cardinality(S) \in Nat /\ Cardinality(S) <= MaxLeaves
      BY <1>1, FS_Subset, FS_CardinalityType
<1> QED BY <1>1, <1>2

LEMMA PageEndIsPosition ==
  ASSUME TypeOK, NEW from \in Positions
  PROVE  page_end(from) \in Positions /\ page_end(from) <= Len(chain)
<1>1. Len(chain) \in Nat /\ Len(chain) <= MaxLeaves
      BY DEF TypeOK
<1> QED BY <1>1, IndexerAssumption DEF page_end, Positions

(* What mergeLeaves lets through is a sequence of leaves. *)
LEMMA MergeType ==
  ASSUME NEW found, DOMAIN found \in SUBSET Indices,
         \A i \in DOMAIN found : found[i] \in Leaves \cup {EmptyLeaf},
         merge(found)
  PROVE  client' \in ClientStates
<1> DEFINE n == Cardinality(DOMAIN found)
           m == [i \in 1..n |-> found[i - 1]]
<1>1. n \in Positions
      BY IndicesFinite, IndexerAssumption DEF Positions
<1>2. DOMAIN found = 0..(n - 1)
      BY DEF merge, contiguous
<1>3. \A i \in 1..n : i - 1 \in 0..(n - 1)
      BY <1>1 DEF Positions
<1>4. m \in [1..n -> Leaves \cup {EmptyLeaf}]
      BY <1>2, <1>3
<1>5. client' = [pc |-> "verify", merged |-> m]
      BY DEF merge
<1> HIDE DEF m, n
<1> QED BY <1>1, <1>4, <1>5 DEF ClientStates

LEMMA InitType == Init => TypeOK
<1> SUFFICES ASSUME Init PROVE TypeOK
    OBVIOUS
<1>1. chain \in Seq(Leaves) /\ Len(chain) = 0
      BY DEF Init
<1> QED BY <1>1, IndexerAssumption DEF Init, TypeOK, ScanStates, ClientStates, Positions, Indices

(* A step of the worker leaves its variables typed. *)
WorkerTypeOK ==
  /\ kv \in [Indices -> Leaves \cup {EmptyLeaf, None}]
  /\ cursor \in Positions \cup {None}
  /\ cursors \subseteq Positions \cup {None}
  /\ scans \in [Scans -> ScanStates]
  /\ deaths \in 0..MaxDeaths

LEMMA GetEventsType == ASSUME TypeOK, NEW s \in Scans, GetEvents(s) PROVE WorkerTypeOK'
<1> DEFINE from == start(s)
           end == page_end(from)
<1>1. scans[s].from \in Positions \cup {None}
      BY DEF GetEvents, TypeOK, ScanStates
<1>2. from \in Positions
      BY <1>1, IndexerAssumption DEF start, Positions
<1>3. end \in Positions /\ end <= Len(chain)
      BY <1>2, PageEndIsPosition
<1>4. PICK page \in [from..(end - 1) -> Leaves \cup {EmptyLeaf}] :
        scans' = [scans EXCEPT ![s] =
          [pc |-> "append", todo |-> {[index |-> i, leaf |-> page[i]] : i \in DOMAIN page}, next |-> end]]
      BY DEF GetEvents
<1>5. from..(end - 1) \subseteq Indices
      BY <1>2, <1>3, IndexerAssumption DEF Positions, Indices, TypeOK
<1>6. {[index |-> i, leaf |-> page[i]] : i \in DOMAIN page} \in SUBSET Events
      BY <1>5 DEF Events
<1> HIDE DEF from, end
<1>7. scans' \in [Scans -> ScanStates]
      BY <1>3, <1>4, <1>6 DEF TypeOK, ScanStates
<1> QED BY <1>7 DEF GetEvents, TypeOK, WorkerTypeOK

(* The fields of a scan that appends. *)
LEMMA AppendingType ==
  ASSUME TypeOK, NEW s \in Scans, scans[s].pc \in {"append", "put"}
  PROVE  scans[s].todo \in SUBSET Events /\ scans[s].next \in Positions
<1>1. scans[s] \in ScanStates
      BY DEF TypeOK
<1> QED BY <1>1 DEF ScanStates

LEMMA DoneType ==
  ASSUME TypeOK, NEW s \in Scans, NEW e, scans[s].pc \in {"append", "put"}
  PROVE  done_with(s, e) \in [Scans -> ScanStates]
<1>1. scans[s].todo \ {e} \in SUBSET Events /\ scans[s].next \in Positions
      BY AppendingType
<1>2. [pc |-> "append", todo |-> scans[s].todo \ {e}, next |-> scans[s].next] \in ScanStates
      BY <1>1 DEF ScanStates
<1> QED BY <1>2 DEF TypeOK, done_with

LEMMA PuttingType ==
  ASSUME TypeOK, NEW s \in Scans, scans[s].pc = "append", scans[s].todo # {}
  PROVE  putting(s) \in [Scans -> ScanStates]
<1>1. scans[s].todo \in (SUBSET Events) \ {{}} /\ scans[s].next \in Positions
      BY AppendingType
<1>2. [pc |-> "put", todo |-> scans[s].todo, next |-> scans[s].next] \in ScanStates
      BY <1>1 DEF ScanStates
<1> QED BY <1>2 DEF TypeOK, putting

(* Back to idle: the end of an invocation, whatever its cause. *)
LEMMA IdleType ==
  ASSUME TypeOK, NEW s \in Scans
  PROVE  [scans EXCEPT ![s] = [pc |-> "idle"]] \in [Scans -> ScanStates]
<1>1. [pc |-> "idle"] \in ScanStates
      BY DEF ScanStates
<1> QED BY <1>1 DEF TypeOK

LEMMA ScanType == ASSUME TypeOK, NEW s \in Scans, Scan(s) PROVE TypeOK'
<1> USE DEF WorkerTypeOK
<1>1. ASSUME Begin(s) PROVE WorkerTypeOK'
  <2>1. PICK from \in readable_cursor : scans' = [scans EXCEPT ![s] = [pc |-> "get events", from |-> from]]
        BY <1>1 DEF Begin
  <2>2. from \in Positions \cup {None}
        BY DEF readable_cursor, TypeOK
  <2>3. [pc |-> "get events", from |-> from] \in ScanStates
        BY <2>2 DEF ScanStates
  <2> QED BY <1>1, <2>1, <2>3 DEF Begin, TypeOK
<1>2. ASSUME GetEvents(s) PROVE WorkerTypeOK'
      BY <1>2, GetEventsType
<1>3. ASSUME Refused(s) PROVE WorkerTypeOK'
      BY <1>3, IdleType DEF Refused, TypeOK
<1>4. ASSUME LookUp(s) PROVE WorkerTypeOK'
  <2>1. scans[s].pc = "append" /\ scans[s].todo # {}
        BY <1>4 DEF LookUp
  <2>2. scans' = putting(s) \/ \E e : scans' = done_with(s, e)
        BY <1>4 DEF LookUp
  <2>3. scans' \in [Scans -> ScanStates]
        BY <2>1, <2>2, PuttingType, DoneType
  <2> QED BY <1>4, <2>3 DEF LookUp, TypeOK
<1>5. ASSUME Put(s) PROVE WorkerTypeOK'
  <2>1. PICK e \in scans[s].todo : kv' = [kv EXCEPT ![e.index] = e.leaf] /\ scans' = done_with(s, e)
        BY <1>5 DEF Put
  <2>2. e.leaf \in Leaves \cup {EmptyLeaf}
        BY <1>5, <2>1, AppendingType DEF Put, Events
  <2>3. scans' \in [Scans -> ScanStates]
        BY <1>5, <2>1, DoneType DEF Put
  <2> QED BY <1>5, <2>1, <2>2, <2>3 DEF Put, TypeOK
<1>6. ASSUME PersistCursor(s) PROVE WorkerTypeOK'
  <2>1. scans[s].next \in Positions
        BY <1>6, AppendingType DEF PersistCursor, scanned
  <2> QED BY <1>6, <2>1, IdleType DEF PersistCursor, TypeOK
<1>7. WorkerTypeOK'
      BY <1>1, <1>2, <1>3, <1>4, <1>5, <1>6 DEF Scan
<1>8. UNCHANGED <<chain, oldest, client>>
      BY DEF Scan
<1> QED BY <1>7, <1>8 DEF TypeOK

LEMMA ClientType == ASSUME TypeOK, Client PROVE TypeOK'
<1>1. CASE FetchFromIndexer
  <2>1. ASSUME \E shown \in served : merge([i \in shown |-> kv[i]])
        PROVE  client' \in ClientStates
    <3>1. PICK shown \in served : merge([i \in shown |-> kv[i]])
          BY <2>1
    <3>2. shown \subseteq {i \in Indices : kv[i] # None}
          BY DEF served
    <3> QED BY <3>1, <3>2, MergeType DEF TypeOK
  <2>2. ASSUME \E shown \in SUBSET Indices : \E found \in [shown -> Leaves \cup {EmptyLeaf}] : merge(found)
        PROVE  client' \in ClientStates
    <3>1. PICK shown \in SUBSET Indices : \E found \in [shown -> Leaves \cup {EmptyLeaf}] : merge(found)
          BY <2>2
    <3>2. PICK found \in [shown -> Leaves \cup {EmptyLeaf}] : merge(found)
          BY <3>1
    <3>3. DOMAIN found \in SUBSET Indices /\ \A i \in DOMAIN found : found[i] \in Leaves \cup {EmptyLeaf}
          OBVIOUS
    <3> QED BY <3>2, <3>3, MergeType
  <2>3. client' \in ClientStates
        BY <1>1, <2>1, <2>2 DEF FetchFromIndexer
  <2> QED BY <1>1, <2>3 DEF FetchFromIndexer, TypeOK, worker_vars
<1>2. CASE FetchFromChain
  <2>1. \A i \in oldest..(Len(chain) - 1) : i \in Indices /\ chain[i + 1] \in Leaves
        BY IndexerAssumption DEF TypeOK, Indices
  <2>2. client' \in ClientStates
        BY <1>2, <2>1, MergeType DEF FetchFromChain
  <2> QED BY <1>2, <2>2 DEF FetchFromChain, TypeOK, worker_vars
<1>3. CASE Locate
  <2>1. PICK i \in DOMAIN client.merged :
          client' = [pc |-> "located", witness |-> [index |-> i - 1, size |-> Len(chain)]]
        BY <1>3 DEF Locate
  <2>2. PICK n \in Positions : client.merged \in [1..n -> Leaves \cup {EmptyLeaf}]
        BY <1>3 DEF Locate, TypeOK, ClientStates
  <2>3. i - 1 \in Indices /\ Len(chain) \in Positions
        BY <2>1, <2>2, IndexerAssumption DEF Indices, Positions, TypeOK
  <2>4. client' \in ClientStates
        BY <2>1, <2>3 DEF ClientStates, Witnesses
  <2> QED BY <1>3, <2>4 DEF Locate, TypeOK, worker_vars
<1>4. CASE GiveUp
      BY <1>4 DEF GiveUp, TypeOK, worker_vars, ClientStates
<1> QED BY <1>1, <1>2, <1>3, <1>4 DEF Client

LEMMA NextType == TypeOK /\ [Next]_vars => TypeOK'
<1> SUFFICES ASSUME TypeOK, [Next]_vars PROVE TypeOK'
    OBVIOUS
<1>1. CASE InsertLeaf
  <2>1. PICK leaf \in Leaves : chain' = Append(chain, leaf)
        BY <1>1 DEF InsertLeaf
  <2>2. chain' \in Seq(Leaves) /\ Len(chain') = Len(chain) + 1
        BY <2>1 DEF TypeOK
  <2> QED BY <1>1, <2>2, IndexerAssumption DEF InsertLeaf, TypeOK, worker_vars
<1>2. CASE Prune
      BY <1>2 DEF Prune, TypeOK, worker_vars
<1>3. CASE Client
      BY <1>3, ClientType
<1>4. ASSUME NEW s \in Scans, Scan(s) PROVE TypeOK'
      BY <1>4, ScanType
<1>5. ASSUME NEW s \in Scans, Die(s), UNCHANGED <<chain, oldest, client>> PROVE TypeOK'
      BY <1>5, IdleType, IndexerAssumption DEF Die, TypeOK
<1>6. CASE UNCHANGED vars
      BY <1>6 DEF vars, worker_vars, TypeOK
<1> QED BY <1>1, <1>2, <1>3, <1>4, <1>5, <1>6 DEF Next

(* Every variable keeps its type. *)
THEOREM TypeCorrect == Spec => []TypeOK
<1> QED BY InitType, NextType, PTL DEF Spec

-----------------------------------------------------------------------------
(* The store and the cursor.                                               *)

(* What a step changes of the scans: at most that of one invocation. *)
OthersKept(s) == \A t \in Scans \ {s} : scans'[t] = scans[t]

(* A stored leaf stays stored. *)
StoredKept == \A i \in Indices : kv[i] # None => kv'[i] # None

(* If nothing stored is lost, no value of the cursor is, and the store stays
   without gaps, only the invocation that steps has to be looked at. *)
LEMMA ScanFrame ==
  ASSUME TypeOK, WorkerInv, NEW s \in Scans, OthersKept(s), StoredKept,
         cursors \subseteq cursors', CursorsSound', NoGap', ScanSound(s)'
  PROVE  WorkerInv'
<1>1. ASSUME NEW t \in Scans, t # s PROVE ScanSound(t)'
  <2>1. scans'[t] = scans[t] /\ ScanSound(t)
        BY <1>1 DEF OthersKept, WorkerInv
  <2> QED BY <2>1 DEF ScanSound, PageComplete, StoredKept
<1> QED BY <1>1 DEF WorkerInv

(* An invocation that reads the cursor starts from a value it once had. *)
LEMMA BeginKeeps == ASSUME TypeOK, WorkerInv, NEW s \in Scans, Begin(s) PROVE WorkerInv'
<1>1. PICK c \in readable_cursor : scans' = [scans EXCEPT ![s] = [pc |-> "get events", from |-> c]]
      BY DEF Begin
<1> DEFINE scan == [pc |-> "get events", from |-> c]
<1>2. scan.pc = "get events" /\ scan.from = c
      OBVIOUS
<1>3. UNCHANGED <<kv, cursor, cursors>>
      BY DEF Begin
<1>4. c \in cursors'
      BY <1>3 DEF readable_cursor, WorkerInv, CursorsSound
<1>5. scans'[s] = scan /\ OthersKept(s)
      BY <1>1 DEF TypeOK, OthersKept
<1> HIDE DEF scan
<1>6. ScanSound(s)'
      BY <1>2, <1>4, <1>5 DEF ScanSound
<1> QED BY <1>3, <1>5, <1>6, ScanFrame DEF StoredKept, WorkerInv, CursorsSound, NoGap, StoredBelow

(* A page follows on what is stored below its start. *)
LEMMA GetEventsKeeps == ASSUME TypeOK, WorkerInv, NEW s \in Scans, GetEvents(s) PROVE WorkerInv'
<1> DEFINE from == start(s)
           end == page_end(from)
<1>1. scans[s].pc = "get events" /\ scans[s].from \in cursors
      BY DEF GetEvents, WorkerInv, ScanSound
<1>2. from \in Positions /\ StoredBelow(from)
  <2>1. CASE scans[s].from = None
        BY <2>1, IndexerAssumption DEF start, StoredBelow, Positions, Indices
  <2>2. CASE scans[s].from # None
        BY <1>1, <2>2 DEF start, WorkerInv, CursorsSound, TypeOK
  <2> QED BY <2>1, <2>2
<1>3. end \in Positions
      BY <1>2, PageEndIsPosition
<1>4. PICK page \in [from..(end - 1) -> Leaves \cup {EmptyLeaf}] :
        scans' = [scans EXCEPT ![s] =
          [pc |-> "append", todo |-> {[index |-> i, leaf |-> page[i]] : i \in DOMAIN page}, next |-> end]]
      BY DEF GetEvents
<1> DEFINE todo == {[index |-> i, leaf |-> page[i]] : i \in DOMAIN page}
<1>5. \A e \in todo : e.index < end
      BY <1>2, <1>3 DEF Positions
<1>6. ASSUME NEW i \in Indices, i < end, kv[i] = None PROVE \E e \in todo : e.index = i
  <2>1. i \in from..(end - 1)
        BY <1>2, <1>3, <1>6 DEF StoredBelow, Positions, Indices
  <2>2. [index |-> i, leaf |-> page[i]] \in todo
        BY <2>1
  <2> QED BY <2>2
<1>7. UNCHANGED <<kv, cursor, cursors>>
      BY DEF GetEvents
<1> HIDE DEF from, end, todo
<1>8. scans'[s] = [pc |-> "append", todo |-> todo, next |-> end] /\ OthersKept(s)
      BY <1>4 DEF TypeOK, OthersKept, todo
<1>9. ScanSound(s)'
      BY <1>5, <1>6, <1>7, <1>8 DEF ScanSound, PageComplete
<1> QED BY <1>7, <1>8, <1>9, ScanFrame DEF StoredKept, WorkerInv, CursorsSound, NoGap, StoredBelow

(* An invocation that ends has nothing more to answer for. *)
LEMMA EndKeeps ==
  ASSUME TypeOK, WorkerInv, NEW s \in Scans, scans' = [scans EXCEPT ![s] = [pc |-> "idle"]],
         UNCHANGED <<kv, cursor, cursors>>
  PROVE  WorkerInv'
<1>1. scans'[s] = [pc |-> "idle"] /\ OthersKept(s)
      BY DEF TypeOK, OthersKept
<1>2. ScanSound(s)'
      BY <1>1 DEF ScanSound, TypeOK
<1> QED BY <1>1, <1>2, ScanFrame DEF StoredKept, WorkerInv, CursorsSound, NoGap, StoredBelow

(* An event leaves the list only when its leaf is stored. *)
LEMMA LookUpKeeps == ASSUME TypeOK, WorkerInv, NEW s \in Scans, LookUp(s) PROVE WorkerInv'
<1>1. PICK e \in scans[s].todo, existing \in {None} \cup Leaves \cup {EmptyLeaf} :
        /\ existing \in readable(e.index)
        /\ scans' = IF appendable(existing) THEN putting(s) ELSE done_with(s, e)
      BY DEF LookUp
<1>2. scans[s].pc = "append" /\ UNCHANGED <<kv, cursor, cursors>>
      BY DEF LookUp
<1>3. OthersKept(s) /\ scans'[s].next = scans[s].next /\ scans'[s].pc \in {"append", "put"}
      BY <1>1 DEF putting, done_with, OthersKept, TypeOK
<1>4. scans'[s].todo \subseteq scans[s].todo
      BY <1>1 DEF putting, done_with, TypeOK
<1>5. ASSUME NEW f \in scans[s].todo, f \notin scans'[s].todo PROVE kv[f.index] # None
      BY <1>1, <1>5 DEF putting, done_with, appendable, readable, TypeOK
<1>6. PageComplete(s) /\ \A f \in scans[s].todo : f.index < scans[s].next
      BY <1>2 DEF WorkerInv, ScanSound
<1>7. ScanSound(s)'
      BY <1>2, <1>3, <1>4, <1>5, <1>6 DEF ScanSound, PageComplete
<1> QED BY <1>2, <1>3, <1>7, ScanFrame DEF StoredKept, WorkerInv, CursorsSound, NoGap, StoredBelow

(* The next event is the one of the lowest index, so everything below it is
   stored already, and it may be stored. *)
LEMMA PutKeeps == ASSUME TypeOK, WorkerInv, NEW s \in Scans, Put(s) PROVE WorkerInv'
<1>1. PICK e \in scans[s].todo :
        next_event(s, e) /\ kv' = [kv EXCEPT ![e.index] = e.leaf] /\ scans' = done_with(s, e)
      BY DEF Put
<1>2. scans[s].pc = "put" /\ UNCHANGED <<cursor, cursors>>
      BY DEF Put
<1>3. scans[s].todo \in SUBSET Events /\ scans[s].next \in Positions
      BY <1>2, AppendingType
<1>4. e.index \in Indices /\ e.leaf # None
      BY <1>3, IndexerAssumption DEF Events
<1>5. \A i \in Indices : kv'[i] = IF i = e.index THEN e.leaf ELSE kv[i]
      BY <1>1, <1>4 DEF TypeOK
<1>6. StoredKept
      BY <1>4, <1>5 DEF StoredKept
<1>7. scans'[s] = [pc |-> "append", todo |-> scans[s].todo \ {e}, next |-> scans[s].next] /\ OthersKept(s)
      BY <1>1 DEF done_with, OthersKept, TypeOK
<1>8. PageComplete(s) /\ \A f \in scans[s].todo : f.index < scans[s].next
      BY <1>2 DEF WorkerInv, ScanSound
<1>9. ScanSound(s)'
  <2>1. PageComplete(s)'
        BY <1>4, <1>5, <1>7, <1>8 DEF PageComplete
  <2> QED BY <1>7, <1>8, <2>1 DEF ScanSound
<1>10. StoredBelow(e.index)
  <2>1. ASSUME NEW i \in Indices, i < e.index, kv[i] = None PROVE FALSE
    <3>1. i < scans[s].next
          BY <1>3, <1>4, <1>8, <2>1 DEF Indices, Positions
    <3>2. PICK f \in scans[s].todo : f.index = i
          BY <1>8, <2>1, <3>1 DEF PageComplete
    <3>3. e.index <= i
          BY <1>1, <3>2 DEF next_event
    <3> QED BY <1>4, <2>1, <3>3 DEF Indices
  <2> QED BY <2>1 DEF StoredBelow
<1>11. NoGap'
      BY <1>4, <1>5, <1>6, <1>10 DEF NoGap, WorkerInv, StoredKept, StoredBelow
<1>12. CursorsSound'
      BY <1>2, <1>6 DEF CursorsSound, WorkerInv, StoredKept, StoredBelow
<1> QED BY <1>2, <1>6, <1>7, <1>9, <1>11, <1>12, ScanFrame

(* The cursor moves to the end of a page whose list is empty. *)
LEMMA PersistKeeps == ASSUME TypeOK, WorkerInv, NEW s \in Scans, PersistCursor(s) PROVE WorkerInv'
<1>1. scans[s].pc = "append" /\ scans[s].todo = {} /\ UNCHANGED kv
      BY DEF PersistCursor, scanned
<1>2. StoredBelow(scans[s].next)
      BY <1>1 DEF WorkerInv, ScanSound, PageComplete, StoredBelow
<1>3. cursor' = scans[s].next /\ cursors' = cursors \cup {scans[s].next}
      BY DEF PersistCursor
<1>4. CursorsSound'
      BY <1>1, <1>2, <1>3 DEF CursorsSound, WorkerInv, StoredBelow
<1>5. scans'[s] = [pc |-> "idle"] /\ OthersKept(s)
      BY DEF PersistCursor, OthersKept, TypeOK
<1>6. ScanSound(s)'
      BY <1>5 DEF ScanSound
<1> QED BY <1>1, <1>3, <1>4, <1>5, <1>6, ScanFrame DEF StoredKept, WorkerInv, NoGap

LEMMA InitInv == Init => IInv
<1> SUFFICES ASSUME Init PROVE WorkerInv
    BY InitType DEF IInv
<1> QED BY DEF Init, WorkerInv, CursorsSound, NoGap, ScanSound

LEMMA NextInv == IInv /\ [Next]_vars => IInv'
<1> SUFFICES ASSUME TypeOK, WorkerInv, [Next]_vars PROVE WorkerInv'
    BY NextType DEF IInv
<1>1. CASE UNCHANGED worker_vars
      BY <1>1 DEF worker_vars, WorkerInv, CursorsSound, NoGap, ScanSound, PageComplete, StoredBelow
<1>2. ASSUME NEW s \in Scans, Scan(s) PROVE WorkerInv'
  <2>1. CASE Refused(s)
        BY <2>1, EndKeeps DEF Refused
  <2> QED BY <1>2, <2>1, BeginKeeps, GetEventsKeeps, LookUpKeeps, PutKeeps, PersistKeeps DEF Scan
<1>3. ASSUME NEW s \in Scans, Die(s) PROVE WorkerInv'
      BY <1>3, EndKeeps DEF Die
<1>4. InsertLeaf \/ Prune \/ Client \/ UNCHANGED vars => UNCHANGED worker_vars
      BY DEF InsertLeaf, Prune, Client, FetchFromIndexer, FetchFromChain, Locate, GiveUp, vars
<1> QED BY <1>1, <1>2, <1>3, <1>4 DEF Next

THEOREM AlwaysIInv == Spec => []IInv
<1> QED BY InitInv, NextInv, PTL DEF Spec

(* The cursor is never ahead of the leaves. *)
THEOREM CursorSound == Spec => []CursorNeverAhead
<1>1. IInv => CursorNeverAhead
      BY DEF IInv, WorkerInv, CursorsSound, StoredBelow, CursorNeverAhead
<1> QED BY <1>1, AlwaysIInv, PTL

(* The store never shows a gap. *)
THEOREM StoreHasNoGap == Spec => []NoGap
<1>1. IInv => NoGap
      BY DEF IInv, WorkerInv
<1> QED BY <1>1, AlwaysIInv, PTL

-----------------------------------------------------------------------------
(* The client.                                                             *)

(* The tree of the contract only grows. *)
LEMMA ChainGrows ==
  ASSUME TypeOK, [Next]_vars
  PROVE  Len(chain) <= Len(chain') /\ \A i \in 1..Len(chain) : chain'[i] = chain[i]
<1>1. CASE InsertLeaf
      BY <1>1 DEF InsertLeaf, TypeOK
<1>2. CASE UNCHANGED chain
      BY <1>2 DEF TypeOK
<1>3. InsertLeaf \/ UNCHANGED chain
      BY DEF Next, vars, Prune, Client, FetchFromIndexer, FetchFromChain, Locate, GiveUp, Scan
<1> QED BY <1>1, <1>2, <1>3

(* Two trees with one root have one leaf at each index: a leaf that is not
   empty is in both, at the same place. *)
LEMMA LocateSound == ASSUME TypeOK, Locate PROVE WitnessSound'
<1>1. PICK i \in DOMAIN client.merged :
        located_at(client.merged, i) /\ client' = [pc |-> "located", witness |-> [index |-> i - 1, size |-> Len(chain)]]
      BY DEF Locate
<1>2. PICK n \in Positions : client.merged \in [1..n -> Leaves \cup {EmptyLeaf}]
      BY DEF Locate, TypeOK, ClientStates
<1>3. i \in 1..n /\ i - 1 \in Indices /\ Len(client.merged) = n
      BY <1>1, <1>2, IndexerAssumption DEF Positions, Indices
<1>4. root(client.merged)[i - 1] = MyLeaf
      BY <1>1, <1>2, <1>3 DEF root, located_at, Positions
<1>5. root(chain)[i - 1] = MyLeaf
      BY <1>4 DEF Locate, verifyAgainstOnChainRoot
<1>6. i - 1 < Len(chain) /\ chain[i] = MyLeaf
      BY <1>2, <1>3, <1>5, IndexerAssumption DEF root, Positions
<1>7. UNCHANGED chain
      BY DEF Locate
<1> QED BY <1>1, <1>2, <1>3, <1>6, <1>7 DEF WitnessSound, TypeOK, Positions

LEMMA NextWitness == TypeOK /\ WitnessSound /\ [Next]_vars => WitnessSound'
<1> SUFFICES ASSUME TypeOK, WitnessSound, [Next]_vars PROVE WitnessSound'
    OBVIOUS
<1>1. CASE UNCHANGED client
  <2>1. SUFFICES ASSUME client.pc = "located" PROVE WitnessSound'
        BY <1>1 DEF WitnessSound
  <2> DEFINE w == client.witness
  <2>2. w.index \in Nat /\ w.size \in Nat
        BY <2>1 DEF TypeOK, ClientStates, Witnesses, Indices, Positions
  <2>3. w.size <= Len(chain) /\ w.index < w.size /\ chain[w.index + 1] = MyLeaf
        BY <2>1 DEF WitnessSound
  <2>4. w.index + 1 \in 1..Len(chain) /\ Len(chain) \in Nat
        BY <2>2, <2>3 DEF TypeOK
  <2>5. chain'[w.index + 1] = MyLeaf /\ w.size <= Len(chain')
        BY <2>2, <2>3, <2>4, ChainGrows, NextType DEF TypeOK
  <2> QED BY <1>1, <2>3, <2>5 DEF WitnessSound
<1>2. CASE FetchFromIndexer \/ FetchFromChain \/ GiveUp
      BY <1>2 DEF FetchFromIndexer, FetchFromChain, GiveUp, merge, WitnessSound
<1>3. CASE Locate
      BY <1>3, LocateSound
<1>4. UNCHANGED client \/ Client
      BY DEF Next, vars, InsertLeaf, Prune, Scan
<1> QED BY <1>1, <1>2, <1>3, <1>4 DEF Client

(* A witness the client accepts is one of its leaf in the contract's tree,
   whatever the indexer served. *)
THEOREM WitnessAlwaysSound == Spec => []WitnessSound
<1>1. Init => WitnessSound
      BY DEF Init, WitnessSound
<1> QED BY <1>1, NextWitness, TypeCorrect, PTL DEF Spec
=============================================================================
