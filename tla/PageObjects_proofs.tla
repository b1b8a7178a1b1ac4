------------------------- MODULE PageObjects_proofs -------------------------
(***************************************************************************)
(* What holds of the objects of page files for every number of keys, pages *)
(* and objects, as long as pages come and go as page files (PageSpec): no  *)
(* object without its page, none read over another, none read by half, and *)
(* none left out.                                                          *)
(*                                                                         *)
(* The first three need each other: ReadObjects meets no loaded key        *)
(* because the unload that precedes it has left none, and an object is     *)
(* read to its end because nothing replaces it.  The last one rests on     *)
(* them, and on the index of the page.                                     *)
(***************************************************************************)
EXTENDS ResManager_proofs

\* The objects of a page are read right behind its index, which registers it.
Follows(i) ==
  /\ todo[i][1] \in {"unload", "index", "objects"}
  /\ todo[i][1] = "objects" =>
       IF i = 1 THEN todo[1][2] \in Range(pages)
       ELSE todo[i - 1] = <<"index", todo[i][2]>>
Program == \A i \in 1..Len(todo) : Follows(i)

ReadingObjects == todo # <<>> /\ todo[1][1] = "objects"

\* Where ReadObjects is.
Progress ==
  /\ ~ReadingObjects \/ pc # "idle" => at = Start /\ reading = App
  /\ pc \in {"delAll", "cleanup"} => ~ReadingObjects
  /\ reading # App => InBucket /\ reading = Current /\ reading \in loaded

\* delAll has still to come to k.
Doomed(k) ==
  /\ pc = "delAll" /\ uoid[k].loc = cur.loc
  /\ \/ uoid[k].type > cur.type
     \/ uoid[k].type = cur.type /\ \E i \in DOMAIN Bucket : i >= cur.idx /\ Bucket[i] = k

Homed ==
  \A k \in loaded : Registered(k) /\ (uoid[k].loc \in Range(pages) \/ Doomed(k))

\* ReadObjects has been at k, or is reading its object.
Behind(k) ==
  \/ uoid[k].type < at.type
  \/ /\ uoid[k].type = at.type
     /\ \E i \in DOMAIN PageBucket :
          PageBucket[i] = k /\ (i < at.idx \/ (i = at.idx /\ reading = k))

Unread == ReadingObjects => \A k \in loaded : uoid[k].loc = Target => Behind(k)

\* The references of the object of k, those that are still to be read included,
\* are those of one version of its page file.
Rest(k) == IF k = reading THEN body ELSE {}
Whole(k) ==
  \E v \in Versions[uoid[k].loc] : \E e \in v :
    /\ EntryUoid(uoid[k].loc, e) = uoid[k]
    /\ {uoid[x] : x \in refs[k]} \cup Rest(k) = e.uses

Objects ==
  /\ \A k \in loaded : Whole(k)
  /\ \A k \in Key \ loaded : refs[k] = {}
  /\ \A l \in Locs : disk[l] \in Versions[l]

Pages == Program /\ Progress /\ Homed /\ Unread /\ Objects /\ NothingReplaced
PageInv == OnePage /\ Pages

-----------------------------------------------------------------------------
(* Steps of the registry that do not touch the objects that stay.          *)

Owned(k) == Registered(k) \/ k \in loaded \/ \E h \in Holders : k \in refs[h]

\* What has an owner is on the heap.
OwnedAllocated == \A k \in Key : Owned(k) => refCnt[k] # 0
LEMMA OwnedIsAllocated == IInv => OwnedAllocated
BY FreeHasNoOwner DEF IInv, Owned, OwnedAllocated

\* After a step as well.
LEMMA OwnedStaysAllocated == IInv' => OwnedAllocated'
BY OwnedIsAllocated, PTL

\* Every object that is there has a registered key, and a key without an object
\* holds nothing.
Linked ==
  /\ \A k \in loaded : Registered(k)
  /\ \A k \in Key \ loaded : refs[k] = {}

\* The objects that are left are as they were, and so are the keys they hold.
Keeps(k) ==
  /\ k \in loaded /\ uoid'[k] = uoid[k] /\ Registered(k)' /\ refs'[k] = refs[k]
  /\ \A x \in refs[k] : uoid'[x] = uoid[x]
Quiet ==
  /\ \A k \in loaded' : Keeps(k)
  /\ \A k \in Key \ loaded' : refs'[k] = {}

\* A step that changes neither uoids nor the registered keys.
LEMMA SameRegistry ==
  ASSUME IInv, Linked, UNCHANGED <<uoid, loaded>>,
         \A k \in Key : Registered(k)' <=> Registered(k),
         \A k \in Key : refs'[k] = refs[k]
  PROVE  Quiet
<1>1. loaded \in SUBSET Key
  BY DEF IInv, TypeOK
<1> QED
  BY <1>1 DEF Linked, Quiet, Keeps

\* UnRef leaves the keys of the objects that stay, and the keys they hold.
LEMMA SettledObjects ==
  ASSUME IInv, IInv', Linked, NEW rc, NEW ids, Settle(uoid, ids, rc),
         loaded' \subseteq loaded,
         \A k \in loaded' : Registered(k)' /\ refs'[k] = refs[k],
         \A k \in Key \ loaded' : refs'[k] = {}
  PROVE  Quiet
<1>1. /\ loaded \in SUBSET Key /\ refs \in [Holders -> SUBSET Key]
      /\ Key \subseteq Holders
  BY DEF IInv, TypeOK, Holders
<1>2. ASSUME NEW x \in Key, Owned(x)' PROVE uoid'[x] = uoid[x]
  BY <1>2, OwnedStaysAllocated DEF Settle, OwnedAllocated
<1>3. ASSUME NEW k \in loaded' PROVE Keeps(k)
  <2>1. k \in Key /\ k \in loaded /\ k \in Holders
    BY <1>1
  <2>2. uoid'[k] = uoid[k]
    BY <1>2, <2>1 DEF Owned
  <2>3. \A x \in refs[k] : x \in Key /\ x \in refs'[k]
    BY <1>1, <2>1
  <2>4. \A x \in refs[k] : uoid'[x] = uoid[x]
    BY <1>2, <2>1, <2>3 DEF Owned
  <2> QED
    BY <2>1, <2>2, <2>4 DEF Keeps
<1> QED
  BY <1>3 DEF Quiet

\* A slot that was free is nobody's.
LEMMA TakenSlot ==
  ASSUME IInv, Linked, NEW k \in Key, ~Allocated(k), NEW u,
         uoid' = [uoid EXCEPT ![k] = u], loaded' = loaded,
         \A x \in loaded : Registered(x)' /\ refs'[x] = refs[x],
         \A x \in Key \ loaded : refs'[x] = {}
  PROVE  Quiet
<1>1. /\ loaded \in SUBSET Key /\ refs \in [Holders -> SUBSET Key]
      /\ uoid \in [Key -> Uoids] /\ Key \subseteq Holders
      /\ refCnt \in [Key -> Nat]
  BY DEF IInv, TypeOK, Holders, Uoids
<1>2. refCnt[k] = 0
  BY <1>1 DEF Allocated
<1>3. k \notin loaded /\ \A h \in Holders : k \notin refs[h]
  BY <1>2, FreeHasNoOwner DEF IInv
<1>4. ASSUME NEW x \in loaded' PROVE Keeps(x)
  <2>1. x \in Key /\ x # k /\ x \in Holders /\ k \notin refs[x]
    BY <1>1, <1>3
  <2> QED
    BY <1>1, <2>1 DEF Keeps
<1> QED
  BY <1>4 DEF Quiet

\* The key that AddKey registers joins the others.
LEMMA AddedStays ==
  ASSUME IInv, NEW k \in Key, ~Allocated(k), NEW u \in Uoid,
         keys' = AddedKeys(k, u), uoid' = [uoid EXCEPT ![k] = u]
  PROVE  \A x \in Key : Registered(x)' <=> (Registered(x) \/ x = k)
<1>1. refCnt[k] = 0
  BY DEF Allocated, IInv, TypeOK
<1>2. ~Registered(k)
  BY <1>1, FreeHasNoOwner DEF IInv
<1>3. u \in Uoids /\ <<u.loc, u.type>> \in Buckets
  BY UoidBucket
<1> QED
  BY <1>2, <1>3, AddedKey DEF IInv

\* The application's handles and del.
LEMMA HandlesQuiet ==
  ASSUME IInv, IInv', Linked, NEW k \in Key,
         AcquireHandle(k) \/ ReleaseHandle(k) \/ DelKey(k)
  PROVE  Quiet
<1>1. /\ App \notin Key /\ refs \in [Holders -> SUBSET Key] /\ loaded \in SUBSET Key
      /\ keys \in [Buckets -> Seq(Key)] /\ Key \subseteq Holders
  BY KeyAssumption DEF IInv, TypeOK, Holders
<1>2. CASE AcquireHandle(k)
  <2>1. /\ UNCHANGED <<keys, uoid, loaded>> /\ refs' = [refs EXCEPT ![App] = @ \cup {k}]
    BY <1>2 DEF AcquireHandle, registry
  <2>2. \A x \in Key : refs'[x] = refs[x]
    BY <1>1, <2>1
  <2> QED
    BY <2>1, <2>2, SameRegistry DEF Registered
<1>3. CASE ReleaseHandle(k)
  <2>1. /\ UNCHANGED <<keys, loaded>> /\ refs' = [refs EXCEPT ![App] = @ \ {k}]
        /\ Settle(uoid, id, [refCnt EXCEPT ![k] = @ - 1])
    BY <1>3 DEF ReleaseHandle, registry
  <2>2. \A x \in Key : refs'[x] = refs[x] /\ (Registered(x)' <=> Registered(x))
    BY <1>1, <2>1 DEF Registered
  <2> QED
    BY <1>1, <2>1, <2>2, SettledObjects DEF Linked
<1>4. CASE DelKey(k)
  <2> DEFINE new == [keys EXCEPT ![Home(k)] = Without(keys[Home(k)], k)]
             ids == Renumbered(keys[Home(k)], k)
             rc == [x \in Key |-> refCnt[x] - DeleteObjDrop(k, x)
                                  - IF x = k THEN WithoutDrop(keys[Home(k)], k) ELSE 0]
  <2>1. keys' = new /\ Settle(uoid, ids, rc) /\ DeleteObj(k)
    BY <1>4 DEF DelKey
  <2> HIDE DEF ids, rc
  <2>2. \A x \in Key : RegisteredIn(new, x) <=> (Registered(x) /\ x # k)
    BY WithoutRemoves
  <2>3. \A x \in Key : Registered(x)' <=> (Registered(x) /\ x # k)
    BY <2>1, <2>2 DEF Registered, RegisteredIn
  <2> HIDE DEF new
  <2>4. /\ loaded' = loaded \ {k}
        /\ \A x \in Key : x # k => refs'[x] = refs[x]
        /\ refs'[k] = {}
    BY <1>1, <2>1 DEF DeleteObj, Linked
  <2>5. \A x \in loaded' : Registered(x)' /\ refs'[x] = refs[x]
    BY <1>1, <2>3, <2>4 DEF Linked
  <2>6. \A x \in Key \ loaded' : refs'[x] = {}
    BY <2>4 DEF Linked
  <2> QED
    BY <2>1, <2>4, <2>5, <2>6, SettledObjects
<1> QED
  BY <1>2, <1>3, <1>4

\* The application reads keys.
LEMMA AppReadsQuiet ==
  ASSUME IInv, Linked, NEW u \in Uoid, ReadKnownKey(App, u, 0) \/ ReadNewKey(App, u, 0)
  PROVE  Quiet
<1>1. /\ App \notin Key /\ refs \in [Holders -> SUBSET Key] /\ Key \subseteq Holders
      /\ loaded \in SUBSET Key
  BY KeyAssumption DEF IInv, TypeOK, Holders
<1>2. CASE ReadKnownKey(App, u, 0)
  <2>1. /\ UNCHANGED <<keys, uoid, loaded>>
        /\ \E x : refs' = [refs EXCEPT ![App] = @ \cup {x}]
    BY <1>2 DEF ReadKnownKey, KnownKey, registry
  <2>2. \A x \in Key : refs'[x] = refs[x]
    BY <1>1, <2>1
  <2> QED
    BY <2>1, <2>2, SameRegistry DEF Registered
<1>3. CASE ReadNewKey(App, u, 0)
  <2>1. PICK k \in Key :
          /\ ~Allocated(k) /\ keys' = AddedKeys(k, u)
          /\ uoid' = [uoid EXCEPT ![k] = u]
          /\ refs' = [refs EXCEPT ![App] = @ \cup {k}]
    BY <1>3 DEF ReadNewKey
  <2>2. loaded' = loaded
    BY <1>3 DEF ReadNewKey
  <2>3. \A x \in Key : refs'[x] = refs[x]
    BY <1>1, <2>1
  <2>4. \A x \in Key : Registered(x)' <=> (Registered(x) \/ x = k)
    BY <2>1, AddedStays
  <2>5. \A x \in loaded : Registered(x)' /\ refs'[x] = refs[x]
    BY <1>1, <2>3, <2>4 DEF Linked
  <2>6. \A x \in Key \ loaded : refs'[x] = {}
    BY <2>3 DEF Linked
  <2> QED
    BY <2>1, <2>2, <2>5, <2>6, TakenSlot
<1> QED
  BY <1>2, <1>3

\* The key at the iterator leaves its bucket, and those behind it move up.
LEMMA ErasedKey ==
  ASSUME IInv, EraseHere, cur.idx <= Len(Bucket)
  PROVE  /\ Here \in Key /\ Home(Here) = <<cur.loc, cur.type>> /\ Registered(Here)
         /\ \A x \in Key : Registered(x)' <=> (Registered(x) /\ x # Here)
         /\ Bucket \in Seq(Key) /\ cur.idx \in 1..Len(Bucket)
         /\ keys' = [keys EXCEPT ![<<cur.loc, cur.type>>] = RemoveAt(Bucket, cur.idx)]
         /\ <<cur.loc, cur.type>> \in Buckets
<1> DEFINE b == <<cur.loc, cur.type>>
<1>1. /\ b \in Buckets /\ keys \in [Buckets -> Seq(Key)]
      /\ cur.idx \in Nat \ {0}
  BY DEF IInv, TypeOK, Buckets
<1>2. Bucket = keys[b] /\ keys[b] \in Seq(Key) /\ IsInjective(keys[b])
  BY <1>1 DEF Bucket, IInv, Placed, PlacedIn
<1>3. cur.idx \in 1..Len(Bucket)
  <2>1. Len(Bucket) \in Nat
    BY <1>2
  <2> QED
    BY <1>1, <2>1
<1>4. Here \in Key /\ Here \in Range(keys[b])
  BY <1>2, <1>3 DEF Here, Range
<1>5. Home(Here) = b /\ Registered(Here)
  BY <1>1, <1>4 DEF IInv, Placed, PlacedIn, Home, Registered
<1>6. keys' = [keys EXCEPT ![b] = RemoveAt(Bucket, cur.idx)]
  BY <1>1, <1>2 DEF EraseHere
<1>7. Range(RemoveAt(Bucket, cur.idx)) = Range(keys[b]) \ {Here}
  BY <1>2, <1>3, RemoveAtRange DEF Here
<1> HIDE DEF b
<1>8. ASSUME NEW x \in Key PROVE Registered(x)' <=> (Registered(x) /\ x # Here)
  <2>1. keys'[b] = RemoveAt(Bucket, cur.idx) /\ \A c \in Buckets : c # b => keys'[c] = keys[c]
    BY <1>1, <1>6
  <2>2. RemovedFrom(Here, b, keys')
    BY <1>1, <1>4, <1>5, <1>7, <2>1, <1>2, <1>3, RemoveAtRange DEF RemovedFrom
  <2>3. \A y \in Key : RegisteredIn(keys', y) <=> (Registered(y) /\ y # Here)
    BY <2>2, RemovedIn, ZenonT(40) DEF IInv
  <2> QED
    BY <2>3 DEF Registered, RegisteredIn
<1> QED
  BY <1>1, <1>2, <1>3, <1>4, <1>5, <1>6, <1>8 DEF b

\* delAll and cleanupKeys.
LEMMA EraseQuiet ==
  ASSUME IInv, IInv', Linked, EraseHere, cur.idx <= Len(Bucket)
  PROVE  Quiet /\ loaded' = loaded \ {Here}
<1> DEFINE k == Here
           rc == [x \in Key |-> refCnt[x] - DeleteObjDrop(k, x)
                                - IF x = k THEN EraseDrop(Bucket, cur.idx) ELSE 0]
<1>1. Settle(uoid, id, rc) /\ DeleteObj(k)
  BY DEF EraseHere
<1> HIDE DEF rc
<1>2. k \in Key /\ \A x \in Key : Registered(x)' <=> (Registered(x) /\ x # k)
  BY ErasedKey
<1>3. /\ refs \in [Holders -> SUBSET Key] /\ Key \subseteq Holders /\ loaded \in SUBSET Key
  BY DEF IInv, TypeOK, Holders
<1> HIDE DEF k
<1>4. /\ loaded' = loaded \ {k} /\ refs'[k] = {}
      /\ \A x \in Key : x # k => refs'[x] = refs[x]
  BY <1>1, <1>2, <1>3 DEF DeleteObj, Linked
<1>5. \A x \in loaded' : Registered(x)' /\ refs'[x] = refs[x]
  BY <1>2, <1>3, <1>4 DEF Linked
<1>6. \A x \in Key \ loaded' : refs'[x] = {}
  BY <1>4 DEF Linked
<1> QED
  BY <1>1, <1>4, <1>5, <1>6, SettledObjects DEF k

\* A key of an index.
LEMMA EntryQuiet ==
  ASSUME IInv, Linked, NEW n \in Names, KeyringEntry(n, 0)
  PROVE  Quiet /\ loaded' = loaded
<1> DEFINE u == [loc |-> cur.loc, type |-> cur.type, name |-> n]
<1>1. u \in Uoid
  BY DEF KeyringEntry, IInv, TypeOK, Anchored, Uoid
<1> HIDE DEF u
<1>2. PICK k \in Key :
        /\ ~Allocated(k) /\ keys' = AddedKeys(k, u) /\ uoid' = [uoid EXCEPT ![k] = u]
  BY DEF KeyringEntry, u
<1>3. UNCHANGED <<loaded, refs>>
  BY DEF KeyringEntry
<1>4. loaded \in SUBSET Key
  BY DEF IInv, TypeOK
<1>5. \A x \in Key : Registered(x)' <=> (Registered(x) \/ x = k)
  BY <1>1, <1>2, AddedStays
<1> QED
  BY <1>2, <1>3, <1>4, <1>5, TakenSlot DEF Linked

\* sortKeys registers nothing and drops nothing.
LEMMA SortStays ==
  ASSUME IInv, KeyringSort
  PROVE  \A x \in Key : Registered(x)' <=> Registered(x)
<1>1. UNCHANGED refCnt /\ cur.loc \in Locs
  BY DEF KeyringSort, IInv, Anchored
<1>2. CASE keys' = keys
  BY <1>2 DEF Registered
<1>3. CASE SortKeys(cur.loc)
  <2>1. PICK new \in Rearrangements(cur.loc, LeqID) : Reordered(cur.loc, new)
    BY <1>3 DEF SortKeys
  <2>2. \A b \in Buckets : Range(keys'[b]) = Range(keys[b])
    BY <1>1, <2>1, ReorderedBuckets
  <2> QED
    BY <2>2 DEF Registered
<1> QED
  BY <1>2, <1>3 DEF KeyringSort, registry

\* sortKeys and the objects.
LEMMA SortQuiet ==
  ASSUME IInv, Linked, KeyringSort
  PROVE  Quiet /\ loaded' = loaded /\ pc' = "idle"
<1>1. UNCHANGED <<uoid, loaded, refs>> /\ pc' = "idle"
  BY DEF KeyringSort
<1> QED
  BY <1>1, SortStays, SameRegistry

\* An object that fails.
LEMMA FailQuiet ==
  ASSUME IInv, IInv', Linked, FailObject, Current \in Key
  PROVE  /\ Quiet /\ loaded' = loaded \ {Current}
         /\ UNCHANGED <<keys, pc, cur>>
<1> DEFINE d == Current
           rc == [x \in Key |-> refCnt[x] - DeleteObjDrop(d, x)]
<1>1. Settle(uoid, id, rc) /\ DeleteObj(d) /\ UNCHANGED <<keys, pc, cur>>
  BY DEF FailObject, registry
<1> HIDE DEF rc
<1>2. /\ refs \in [Holders -> SUBSET Key] /\ Key \subseteq Holders /\ loaded \in SUBSET Key
  BY DEF IInv, TypeOK, Holders
<1>3. d \in Key
  OBVIOUS
<1> HIDE DEF d
<1>4. /\ loaded' = loaded \ {d} /\ refs'[d] = {}
      /\ \A x \in Key : x # d => refs'[x] = refs[x]
  BY <1>1, <1>2, <1>3 DEF DeleteObj, Linked
<1>5. \A x \in loaded' : Registered(x)' /\ refs'[x] = refs[x]
  BY <1>1, <1>2, <1>4 DEF Linked, Registered
<1>6. \A x \in Key \ loaded' : refs'[x] = {}
  BY <1>4 DEF Linked
<1> QED
  BY <1>1, <1>4, <1>5, <1>6, SettledObjects DEF d

\* Nothing at all.
LEMMA StillQuiet ==
  ASSUME IInv, Linked, UNCHANGED <<keys, uoid, loaded, refs>>
  PROVE  Quiet
BY SameRegistry DEF Registered

-----------------------------------------------------------------------------
(* The parts of the invariant under a quiet step.                          *)

\* What the invariant says of types.
LEMMA PageTypes ==
  ASSUME PageInv
  PROVE  /\ IInv /\ RMTypes /\ Linked /\ TodoTyped
         /\ loaded \in SUBSET Key /\ uoid \in [Key -> Uoids]
         /\ refs \in [Holders -> SUBSET Key] /\ keys \in [Buckets -> Seq(Key)]
         /\ pages \in Seq(Locs) /\ at \in Ats /\ App \notin Key
<1>1. IInv /\ RMTypes /\ TodoTyped /\ pages \in Seq(Locs) /\ at \in Ats
  BY DEF PageInv, OnePage, RMInv, RMTypes, FilesTyped, CallTyped
<1>2. Linked
  BY DEF PageInv, Pages, Homed, Objects, Linked
<1> QED
  BY <1>1, <1>2, KeyAssumption DEF IInv, TypeOK, Uoids

\* The references of the objects.
LEMMA QuietObjects ==
  ASSUME PageInv, Quiet, \A k \in loaded' : Rest(k)' = Rest(k),
         \A l \in Locs : disk'[l] \in Versions[l]
  PROVE  Objects'
<1>1. ASSUME NEW k \in loaded' PROVE Whole(k)'
  <2>1. Keeps(k) /\ Rest(k)' = Rest(k)
    BY DEF Quiet
  <2>2. k \in loaded /\ uoid'[k] = uoid[k] /\ refs'[k] = refs[k]
        /\ \A x \in refs[k] : uoid'[x] = uoid[x]
    BY <2>1 DEF Keeps
  <2>3. {uoid'[x] : x \in refs'[k]} = {uoid[x] : x \in refs[k]}
    BY <2>2
  <2>4. PICK v \in Versions[uoid[k].loc] : \E e \in v :
          /\ EntryUoid(uoid[k].loc, e) = uoid[k]
          /\ {uoid[x] : x \in refs[k]} \cup Rest(k) = e.uses
    BY <2>2 DEF PageInv, Pages, Objects, Whole
  <2>5. \E e \in v :
          /\ EntryUoid(uoid'[k].loc, e) = uoid'[k]
          /\ {uoid'[x] : x \in refs'[k]} \cup Rest(k)' = e.uses
    BY <2>1, <2>2, <2>3, <2>4
  <2> QED
    BY <2>2, <2>5 DEF Whole, EntryUoid
<1> QED
  BY <1>1 DEF Objects, Quiet

\* The pages of the objects, when no unload goes on.
LEMMA QuietHomed ==
  ASSUME PageInv, Quiet, pc # "delAll", Range(pages) \subseteq Range(pages')
  PROVE  Homed'
<1>1. ASSUME NEW k \in loaded' PROVE Registered(k)' /\ uoid'[k].loc \in Range(pages')
  <2>1. k \in loaded /\ uoid'[k] = uoid[k] /\ Registered(k)'
    BY DEF Quiet, Keeps
  <2>2. uoid[k].loc \in Range(pages)
    BY <2>1 DEF PageInv, Pages, Homed, Doomed
  <2> QED
    BY <2>1, <2>2
<1> QED
  BY <1>1 DEF Homed

\* When ReadObjects begins, no object of its page is there.
LEMMA NoneRead ==
  ASSUME PageInv, ReadingObjects, at = Start, reading = App
  PROVE  \A k \in loaded : uoid[k].loc # Target
<1> SUFFICES ASSUME NEW k \in loaded, uoid[k].loc = Target PROVE FALSE
  OBVIOUS
<1>1. k \in Key /\ App \notin Key /\ uoid[k].type \in Types /\ keys \in [Buckets -> Seq(Key)]
  BY PageTypes DEF Uoids
<1>2. Behind(k)
  BY DEF PageInv, Pages, Unread
<1>3. at.type = 1 /\ at.idx = 1 /\ reading # k
  BY <1>1 DEF Start
<1>4. ~(uoid[k].type < 1)
  BY <1>1 DEF Types
<1>5. PICK i \in DOMAIN PageBucket : i < 1
  BY <1>2, <1>3, <1>4 DEF Behind
<1>6. Target \in Locs
  BY FirstTyped, PageTypes DEF ReadingObjects, Target
<1>7. PageBucket \in Seq(Key)
  BY <1>1, <1>3, <1>6, LocAssumption DEF PageBucket, Buckets, Types
<1>8. DOMAIN PageBucket \subseteq Nat \ {0}
  BY <1>7
<1> QED
  BY <1>5, <1>8

\* An instruction is done.
LEMMA NextFollows ==
  ASSUME TodoTyped, Program, todo # <<>>, todo' = Tail(todo),
         todo[1][1] = "index" => Target \in Range(pages')
  PROVE  /\ Program'
         /\ ReadingObjects' => todo[1][1] = "index" /\ Target' = Target
<1>1. /\ todo \in Seq(Instruction) /\ Len(todo) \in Nat /\ Len(todo') = Len(todo) - 1
      /\ \A i \in 1..Len(todo) - 1 : todo'[i] = todo[i + 1]
      /\ todo' # <<>> => 1 \in 1..Len(todo) - 1
  BY DEF TodoTyped
<1>2. ASSUME NEW i \in 1..Len(todo')
      PROVE  /\ todo'[i][1] \in {"unload", "index", "objects"}
             /\ todo'[i][1] = "objects" => todo[i] = <<"index", todo'[i][2]>>
  <2>1. i + 1 \in 1..Len(todo) /\ i + 1 # 1 /\ i + 1 - 1 = i /\ todo'[i] = todo[i + 1]
    BY <1>1
  <2>2. Follows(i + 1)
    BY <2>1 DEF Program
  <2> QED
    BY <2>1, <2>2 DEF Follows
<1>3. ReadingObjects' => todo[1][1] = "index" /\ Target' = Target
  <2> SUFFICES ASSUME ReadingObjects' PROVE todo[1][1] = "index" /\ Target' = Target
    OBVIOUS
  <2>1. 1 \in 1..Len(todo') /\ todo'[1][1] = "objects"
    BY <1>1 DEF ReadingObjects
  <2>2. todo[1] = <<"index", todo'[1][2]>>
    BY <1>2, <2>1
  <2>3. PICK l : todo[1] = <<"index", l>> /\ todo'[1][2] = l
    BY <2>2
  <2>4. todo[1][1] = "index" /\ todo[1][2] = l
    BY <2>3
  <2> QED
    BY <2>3, <2>4, Zenon DEF Target
<1>4. ASSUME NEW i \in 1..Len(todo'), todo'[i][1] = "objects"
      PROVE  IF i = 1 THEN todo'[1][2] \in Range(pages')
             ELSE todo'[i - 1] = <<"index", todo'[i][2]>>
  <2>1. todo[i] = <<"index", todo'[i][2]>>
    BY <1>2, <1>4
  <2>2. CASE i = 1
    BY <2>1, <2>2 DEF Target
  <2>3. CASE i # 1
    <3>1. i - 1 \in 1..Len(todo) - 1 /\ i - 1 + 1 = i
      BY <1>1, <2>3
    <3> QED
      BY <1>1, <2>1, <2>3, <3>1
  <2> QED
    BY <2>2, <2>3
<1>5. Program'
  BY <1>2, <1>4 DEF Program, Follows
<1> QED
  BY <1>3, <1>5

-----------------------------------------------------------------------------
(* The calls.                                                              *)

\* The programs of ReadPage, UnloadPage and UnloadAge read the objects of a page
\* behind its index, and begin with an unload.
LEMMA ProgramsFollow ==
  ASSUME PageInv, NEW l \in Locs, ReadPage(l) \/ UnloadPage(l) \/ UnloadAge
  PROVE  Program' /\ ~ReadingObjects'
<1>1. CASE ReadPage(l)
  <2>1. todo' = << <<"unload", l>>, <<"index", l>>, <<"objects", l>> >>
    BY <1>1 DEF ReadPage, Begin
  <2>2. /\ Len(todo') = 3 /\ todo'[1] = <<"unload", l>>
        /\ todo'[2] = <<"index", l>> /\ todo'[3] = <<"objects", l>>
    BY <2>1
  <2>3. ASSUME NEW i \in 1..Len(todo') PROVE Follows(i)'
    <3>1. CASE i = 1
      BY <2>2, <3>1 DEF Follows
    <3>2. CASE i = 2
      BY <2>2, <3>2 DEF Follows
    <3>3. CASE i = 3
      BY <2>2, <3>3 DEF Follows
    <3> QED
      BY <2>2, <3>1, <3>2, <3>3
  <2> QED
    BY <2>2, <2>3 DEF Program, ReadingObjects
<1>2. CASE UnloadPage(l)
  <2>1. todo' = << <<"unload", l>> >>
    BY <1>2 DEF UnloadPage, Begin
  <2>2. Len(todo') = 1 /\ todo'[1] = <<"unload", l>>
    BY <2>1
  <2>3. ASSUME NEW i \in 1..Len(todo') PROVE Follows(i)'
    BY <2>2 DEF Follows
  <2> QED
    BY <2>2, <2>3 DEF Program, ReadingObjects
<1>3. CASE UnloadAge
  <2>1. todo' = [i \in DOMAIN pages |-> <<"unload", pages[i]>>] /\ pages # <<>>
    BY <1>3 DEF UnloadAge, Begin
  <2>2. pages \in Seq(Locs) /\ Len(pages) \in Nat /\ DOMAIN pages = 1..Len(pages)
    BY PageTypes
  <2>3. Len(todo') = Len(pages) /\ \A i \in 1..Len(pages) : todo'[i][1] = "unload"
    BY <2>1, <2>2
  <2>4. ASSUME NEW i \in 1..Len(todo') PROVE Follows(i)'
    BY <2>3 DEF Follows
  <2>5. 1 \in 1..Len(pages)
    BY <2>1, <2>2
  <2> QED
    BY <2>3, <2>4, <2>5 DEF Program, ReadingObjects
<1> QED
  BY <1>1, <1>2, <1>3

\* A call that does nothing to the objects.
LEMMA QuietCall ==
  ASSUME PageInv, todo = <<>>, pc' = pc, pc = "idle", Quiet, Program', ~ReadingObjects',
         Range(pages) \subseteq Range(pages'),
         \A l \in Locs : disk'[l] \in Versions[l],
         UNCHANGED <<at, body, reading, undefined>>
  PROVE  Pages'
<1>1. at = Start /\ reading = App
  BY DEF PageInv, Pages, Progress, ReadingObjects
<1>2. Progress'
  BY <1>1 DEF Progress
<1>3. Homed'
  BY QuietHomed
<1>4. Unread'
  BY DEF Unread
<1>5. Objects'
  BY QuietObjects DEF Rest
<1>6. NothingReplaced'
  BY DEF PageInv, Pages, NothingReplaced
<1> QED
  BY <1>2, <1>3, <1>4, <1>5, <1>6 DEF Pages

\* The calls of PageSpec.
LEMMA CallsPages ==
  ASSUME PageInv, IInv', PageCalls
  PROVE  Pages'
<1>1. \A l \in Locs : disk[l] \in Versions[l]
  BY DEF PageInv, Pages, Objects
<1>2. IInv /\ Linked /\ pages \in Seq(Locs) /\ 1 \in Locs
  BY PageTypes, LocAssumption DEF Locs
<1>3. CASE UnloadAge \/ \E l \in Locs : ReadPage(l) \/ UnloadPage(l)
  <2>1. PICK l \in Locs : ReadPage(l) \/ UnloadPage(l) \/ UnloadAge
    BY <1>2, <1>3
  <2>2. \E program : Begin(program)
    BY <2>1 DEF ReadPage, UnloadPage, UnloadAge
  <2>3. /\ todo = <<>> /\ pc = "idle"
        /\ UNCHANGED <<vars, disk, pages, at, body, reading, undefined>>
    BY <2>2 DEF Begin, Free, files
  <2>4. UNCHANGED <<keys, uoid, loaded, refs, pc>>
    BY <2>3 DEF vars
  <2>5. Quiet
    BY <1>2, <2>4, StillQuiet
  <2>6. Program' /\ ~ReadingObjects'
    BY <2>1, ProgramsFollow
  <2> QED
    BY <1>1, <2>3, <2>4, <2>5, <2>6, QuietCall
<1>4. CASE \E l \in Locs : AddPage(l) \/ ReplaceFile(l)
  <2>1. PICK l \in Locs : AddPage(l) \/ ReplaceFile(l)
    BY <1>4
  <2>2. /\ todo = <<>> /\ pc = "idle" /\ todo' = todo
        /\ UNCHANGED <<vars, at, body, reading, undefined>>
    BY <2>1 DEF AddPage, ReplaceFile, Free, call
  <2>3. UNCHANGED <<keys, uoid, loaded, refs, pc>>
    BY <2>2 DEF vars
  <2>4. Quiet
    BY <1>2, <2>3, StillQuiet
  <2>5. Program' /\ ~ReadingObjects'
    BY <2>2 DEF Program, ReadingObjects
  <2>6. Range(pages) \subseteq Range(pages')
    <3>1. CASE pages' = pages
      BY <3>1
    <3>2. CASE pages' = Append(pages, l)
      <4>1. \A i \in DOMAIN pages : i \in DOMAIN Append(pages, l) /\ Append(pages, l)[i] = pages[i]
        BY <1>2
      <4> QED
        BY <3>2, <4>1 DEF Range
    <3> QED
      BY <2>1, <3>1, <3>2 DEF AddPage, ReplaceFile
  <2>7. \A m \in Locs : disk'[m] \in Versions[m]
    <3>1. disk' = disk \/ \E v \in Versions[l] : disk' = [disk EXCEPT ![l] = v]
      BY <2>1 DEF AddPage, ReplaceFile
    <3>2. disk \in [Locs -> SUBSET Entry]
      BY PageTypes DEF RMTypes, FilesTyped
    <3> QED
      BY <1>1, <3>1, <3>2
  <2> QED
    BY <2>2, <2>3, <2>4, <2>5, <2>6, <2>7, QuietCall
<1>5. CASE EditKeys
  <2>1. /\ todo = <<>> /\ pc = "idle" /\ todo' = todo
        /\ UNCHANGED <<disk, pages, at, body, reading, undefined>>
    BY <1>5 DEF EditKeys, Collector, Free, call, files
  <2>2. Quiet /\ pc' = pc
    <3>1. CASE \E k \in Key : AcquireHandle(k) \/ ReleaseHandle(k) \/ DelKey(k)
      BY <1>2, <3>1, HandlesQuiet DEF AcquireHandle, ReleaseHandle, DelKey, Idle
    <3>2. CASE \E u \in Uoid : ReadKnownKey(App, u, 0) \/ ReadNewKey(App, u, 0)
      BY <1>2, <3>2, AppReadsQuiet DEF ReadKnownKey, KnownKey, ReadNewKey, Idle
    <3> QED
      BY <1>5, <3>1, <3>2 DEF EditKeys, Collector
  <2>3. Program' /\ ~ReadingObjects'
    BY <2>1 DEF Program, ReadingObjects
  <2> QED
    BY <1>1, <2>1, <2>2, <2>3, QuietCall
<1> QED
  BY <1>3, <1>4, <1>5 DEF PageCalls

-----------------------------------------------------------------------------
(* Unloading.                                                              *)

\* UnloadPage: delAll will come to every object of the page.
LEMMA UnloadPages ==
  ASSUME PageInv, UnloadRegistered \/ UnloadUnknown
  PROVE  Pages'
<1>1. /\ todo # <<>> /\ todo' = Tail(todo) /\ todo[1][1] = "unload" /\ pc = "idle"
      /\ UNCHANGED <<disk, at, body, reading, undefined>>
      /\ UNCHANGED <<keys, uoid, loaded, refs>>
  BY DEF UnloadRegistered, UnloadUnknown, Doing, call, files, DelAll, registry, data, vars
<1>2. Program' /\ ~ReadingObjects'
  BY <1>1, NextFollows, PageTypes DEF PageInv, Pages
<1>3. at = Start /\ reading = App
  BY <1>1 DEF PageInv, Pages, Progress, ReadingObjects
<1>4. Progress' /\ Unread'
  BY <1>1, <1>2, <1>3 DEF Progress, Unread
<1>5. Quiet
  BY <1>1, StillQuiet, PageTypes
<1>6. Objects'
  BY <1>1, <1>5, QuietObjects DEF Rest, PageInv, Pages, Objects
<1>7. Homed'
  <2>1. CASE UnloadUnknown
    <3>1. pages' = pages
      BY <2>1 DEF UnloadUnknown, files
    <3> QED
      BY <1>1, <1>5, <3>1, QuietHomed
  <2>2. CASE UnloadRegistered
    <3>1. /\ Target \in Range(pages) /\ pages' = RemoveFirst(pages, Target)
          /\ pc' = "delAll" /\ cur' = [loc |-> Target, type |-> 1, idx |-> 1]
      BY <2>2 DEF UnloadRegistered, DelAll
    <3>2. Range(pages') = Range(pages) \ {Target}
      BY <3>1, RemovedPage, PageTypes DEF PageInv, OnePage
    <3>3. ASSUME NEW k \in loaded, uoid[k].loc = Target PROVE Doomed(k)'
      <4>1. k \in Key /\ Registered(k) /\ uoid[k].type \in Types /\ IInv
        BY PageTypes DEF PageInv, Pages, Homed, Uoids
      <4>2. k \in Range(keys[<<Target, uoid[k].type>>])
        BY <3>3, <4>1, RegisteredAtHome DEF IInv, Home
      <4>3. Home(k) \in Buckets /\ Home(k) = <<Target, uoid[k].type>>
        BY <3>3, <4>1, HomeIsBucket DEF IInv, Home
      <4>4. keys[<<Target, uoid[k].type>>] \in Seq(Key)
        BY <4>3, PageTypes
      <4>5. \E i \in DOMAIN keys[<<Target, uoid[k].type>>] :
              i >= 1 /\ keys[<<Target, uoid[k].type>>][i] = k
        BY <4>2, <4>4 DEF Range
      <4>6. uoid[k].type > 1 \/ uoid[k].type = 1
        BY <4>1 DEF Types
      <4>7. cur'.loc = Target /\ cur'.type = 1 /\ cur'.idx = 1
        BY <3>1
      <4>8. Bucket' = keys[<<Target, 1>>]
        BY <1>1, <4>7 DEF Bucket
      <4> QED
        BY <1>1, <3>1, <3>3, <4>5, <4>6, <4>7, <4>8 DEF Doomed
    <3>4. ASSUME NEW k \in loaded'
          PROVE  Registered(k)' /\ (uoid'[k].loc \in Range(pages') \/ Doomed(k)')
      <4>1. k \in loaded /\ uoid'[k] = uoid[k] /\ Registered(k)'
        BY <1>5 DEF Quiet, Keeps
      <4>2. uoid[k].loc \in Range(pages)
        BY <1>1, <4>1 DEF PageInv, Pages, Homed, Doomed
      <4> QED
        BY <3>2, <3>3, <4>1, <4>2
    <3> QED
      BY <3>4 DEF Homed
  <2> QED
    BY <2>1, <2>2
<1>8. NothingReplaced'
  BY <1>1 DEF PageInv, Pages, NothingReplaced
<1> QED
  BY <1>2, <1>4, <1>6, <1>7, <1>8 DEF Pages

\* A step of a loop: only delAll has to account for what it leaves.
LEMMA QuietLoop ==
  ASSUME PageInv, pc # "idle", Quiet, pc = "delAll" => Homed',
         pc' \in {"delAll", "cleanup"} => pc \in {"delAll", "cleanup"},
         loaded' \subseteq loaded,
         UNCHANGED <<disk, pages, todo, at, body, reading, undefined>>
  PROVE  Pages'
<1>1. at = Start /\ reading = App
  BY DEF PageInv, Pages, Progress
<1>2. Program'
  BY DEF PageInv, Pages, Program, Follows
<1>3. Progress'
  BY <1>1 DEF PageInv, Pages, Progress, ReadingObjects
<1>4. Homed'
  BY QuietHomed
<1>5. Unread'
  <2> SUFFICES ASSUME ReadingObjects', NEW k \in loaded' PROVE uoid'[k].loc # Target'
    BY DEF Unread
  <2>1. ReadingObjects /\ Target' = Target
    BY DEF ReadingObjects, Target
  <2>2. k \in loaded /\ uoid'[k] = uoid[k]
    BY DEF Quiet, Keeps
  <2> QED
    BY <1>1, <2>1, <2>2, NoneRead
<1>6. Objects'
  BY QuietObjects DEF Rest, PageInv, Pages, Objects
<1>7. NothingReplaced'
  BY DEF PageInv, Pages, NothingReplaced
<1> QED
  BY <1>2, <1>3, <1>4, <1>5, <1>6, <1>7 DEF Pages

\* The key of the object whose page is gone is in the part of the buckets that
\* delAll has not seen.
LEMMA DelAllHomed ==
  ASSUME PageInv, IInv', Quiet, pc = "delAll", pages' = pages,
         DelAllKey \/ DelAllNext
  PROVE  Homed'
<1>1. /\ IInv /\ cur.loc \in Locs \cup {NoLoc} /\ cur.type \in Types /\ cur.idx \in Nat \ {0}
      /\ <<cur.loc, cur.type>> \in Buckets /\ Bucket \in Seq(Key)
  BY PageTypes DEF IInv, TypeOK, Buckets, Bucket
<1>2. Len(Bucket) \in Nat /\ DOMAIN Bucket = 1..Len(Bucket)
  BY <1>1
<1>3. ASSUME NEW k \in loaded', uoid'[k].loc \notin Range(pages')
      PROVE  Doomed(k)'
  <2>1. /\ k \in loaded /\ uoid'[k] = uoid[k] /\ Registered(k)' /\ Registered(k)
        /\ k \in Key /\ uoid[k].type \in Types
    BY PageTypes DEF Quiet, Keeps, PageInv, Pages, Homed, Uoids
  <2>2. Doomed(k)
    BY <1>3, <2>1 DEF PageInv, Pages, Homed
  <2>3. uoid[k].loc = cur.loc
    BY <2>2 DEF Doomed
  <2>4. CASE DelAllKey /\ Here \notin loaded
    <3>1. /\ cur' = [cur EXCEPT !.idx = @ + 1] /\ pc' = pc /\ keys' = keys
      BY <2>4 DEF DelAllKey, Advance, registry
    <3>2. /\ cur'.loc = cur.loc /\ cur'.type = cur.type /\ cur'.idx = cur.idx + 1
      BY <3>1, PageTypes DEF IInv, TypeOK
    <3>3. Bucket' = Bucket
      BY <3>1, <3>2 DEF Bucket
    <3>4. ASSUME NEW i \in DOMAIN Bucket, i >= cur.idx, Bucket[i] = k PROVE i >= cur.idx + 1
      <4>1. i # cur.idx
        BY <2>1, <2>4, <3>4 DEF Here
      <4> QED
        BY <1>1, <1>2, <3>4, <4>1
    <3>5. \/ uoid[k].type > cur.type
          \/ uoid[k].type = cur.type
               /\ \E i \in DOMAIN Bucket : i >= cur.idx + 1 /\ Bucket[i] = k
      BY <2>2, <3>4 DEF Doomed
    <3> QED
      BY <2>1, <2>3, <3>1, <3>2, <3>3, <3>5 DEF Doomed
  <2>5. CASE DelAllKey /\ Here \in loaded
    <3>1. EraseHere /\ cur.idx <= Len(Bucket) /\ pc' = pc /\ cur' = cur
      BY <2>5 DEF DelAllKey, EraseHere, AfterErase
    <3>2. /\ cur.idx \in 1..Len(Bucket)
          /\ keys' = [keys EXCEPT ![<<cur.loc, cur.type>>] = RemoveAt(Bucket, cur.idx)]
      BY <1>1, <3>1, ErasedKey
    <3>3. Bucket' = RemoveAt(Bucket, cur.idx)
      BY <1>1, <3>1, <3>2, PageTypes DEF Bucket
    <3>4. k # Here
      BY <1>1, <3>1, EraseQuiet, PageTypes
    <3>5. /\ Len(RemoveAt(Bucket, cur.idx)) = Len(Bucket) - 1
          /\ RemoveAt(Bucket, cur.idx) \in Seq(Key)
          /\ \A j \in 1..Len(Bucket) - 1 :
               RemoveAt(Bucket, cur.idx)[j] = IF j < cur.idx THEN Bucket[j] ELSE Bucket[j + 1]
      BY <1>1, <3>2, RemoveAtSeq
    <3>6. ASSUME NEW i \in DOMAIN Bucket, i >= cur.idx, Bucket[i] = k
          PROVE  \E j \in DOMAIN RemoveAt(Bucket, cur.idx) :
                   j >= cur.idx /\ RemoveAt(Bucket, cur.idx)[j] = k
      <4>1. i # cur.idx
        BY <3>4, <3>6 DEF Here
      <4>2. i - 1 \in 1..Len(Bucket) - 1 /\ i - 1 >= cur.idx /\ i - 1 + 1 = i
        BY <1>1, <1>2, <3>2, <3>6, <4>1
      <4>3. RemoveAt(Bucket, cur.idx)[i - 1] = k
        <5>1. ~(i - 1 < cur.idx)
          BY <1>1, <1>2, <4>2
        <5>2. RemoveAt(Bucket, cur.idx)[i - 1] = Bucket[i - 1 + 1]
          BY <3>5, <4>2, <5>1
        <5> QED
          BY <3>6, <4>2, <5>2
      <4>4. DOMAIN RemoveAt(Bucket, cur.idx) = 1..Len(Bucket) - 1
        BY <3>5
      <4> QED
        BY <4>2, <4>3, <4>4
    <3>7. \/ uoid[k].type > cur.type
          \/ uoid[k].type = cur.type
               /\ \E j \in DOMAIN RemoveAt(Bucket, cur.idx) :
                    j >= cur.idx /\ RemoveAt(Bucket, cur.idx)[j] = k
      BY <2>2, <3>6 DEF Doomed
    <3> QED
      BY <2>1, <2>3, <3>1, <3>3, <3>7 DEF Doomed
  <2>6. CASE DelAllNext
    <3>1. keys' = keys /\ cur.idx > Len(Bucket)
      BY <2>6 DEF DelAllNext, registry
    <3>2. uoid[k].type > cur.type
      <4>1. \A i \in DOMAIN Bucket : ~(i >= cur.idx)
        BY <1>1, <1>2, <3>1
      <4> QED
        BY <2>2, <4>1 DEF Doomed
    <3>3. /\ cur.type < NTypes /\ cur' = [loc |-> cur.loc, type |-> cur.type + 1, idx |-> 1]
          /\ pc' = pc
      <4>1. cur.type # NTypes
        BY <1>1, <2>1, <3>2, LocAssumption DEF Types
      <4> QED
        BY <2>6, <4>1 DEF DelAllNext
    <3>4. cur'.loc = cur.loc /\ cur'.type = cur.type + 1 /\ cur'.idx = 1
      BY <3>3
    <3>5. CASE uoid[k].type = cur.type + 1
      <4>1. k \in Range(keys[<<cur.loc, cur.type + 1>>])
        BY <1>1, <2>1, <2>3, <3>5, RegisteredAtHome DEF IInv, Home
      <4>2. <<cur.loc, cur.type + 1>> \in Buckets
        BY <1>1, <2>1, <3>5 DEF Buckets
      <4>3. keys[<<cur.loc, cur.type + 1>>] \in Seq(Key)
        BY <4>2, PageTypes
      <4>4. Bucket' = keys[<<cur.loc, cur.type + 1>>]
        BY <3>1, <3>4 DEF Bucket
      <4>5. \E i \in DOMAIN Bucket' : i >= 1 /\ Bucket'[i] = k
        BY <4>1, <4>3, <4>4 DEF Range
      <4> QED
        BY <2>1, <2>3, <3>3, <3>4, <3>5, <4>5 DEF Doomed
    <3>6. CASE uoid[k].type # cur.type + 1
      <4>1. uoid[k].type > cur.type + 1
        BY <1>1, <2>1, <3>2, <3>6 DEF Types
      <4> QED
        BY <2>1, <2>3, <3>3, <3>4, <4>1 DEF Doomed
    <3> QED
      BY <3>5, <3>6
  <2> QED
    BY <2>4, <2>5, <2>6
<1>4. \A k \in loaded' : Registered(k)'
  BY DEF Quiet, Keeps
<1> QED
  BY <1>3, <1>4 DEF Homed

\* The loops of the collector and of ReadKeyring.
LEMMA LoopPages ==
  ASSUME PageInv, IInv',
         \/ IndexFlags \/ IndexEntry
         \/ Collector(DelAllKey \/ DelAllNext \/ CleanupKey \/ CleanupNext
                        \/ KeyringSort)
  PROVE  Pages'
<1>1. IInv /\ Linked
  BY PageTypes
<1>2. UNCHANGED <<disk, pages, todo, at, body, reading, undefined>>
  BY DEF IndexFlags, IndexEntry, Collector, files, call
<1>3. CASE IndexFlags \/ Collector(DelAllNext \/ CleanupNext)
  <2>1. UNCHANGED <<keys, uoid, loaded, refs>>
    BY <1>3 DEF IndexFlags, Collector, KeyringFlags, DelAllNext, CleanupNext, data, registry
  <2>2. Quiet
    BY <1>1, <2>1, StillQuiet
  <2>3. /\ pc # "idle"
        /\ pc' \in {"delAll", "cleanup"} => pc \in {"delAll", "cleanup"}
        /\ pc = "delAll" => DelAllNext
    BY <1>3 DEF IndexFlags, Collector, KeyringFlags, DelAllNext, CleanupNext
  <2>4. pc = "delAll" => Homed'
    BY <1>2, <2>2, <2>3, DelAllHomed
  <2> QED
    BY <1>2, <2>1, <2>2, <2>3, <2>4, QuietLoop
<1>4. CASE IndexEntry
  <2>1. PICK e \in index : KnownEntry(e) \/ NewEntry(e)
    BY <1>4 DEF IndexEntry
  <2>2. e.name \in Names
    BY <2>1, PageTypes DEF RMTypes, CallTyped, Entry
  <2>3. Quiet /\ loaded' = loaded /\ pc' = pc
    <3>1. CASE KnownEntry(e)
      <4>1. UNCHANGED <<keys, uoid, loaded, refs, pc>>
        BY <3>1 DEF KnownEntry, vars
      <4> QED
        BY <1>1, <4>1, StillQuiet
    <3>2. CASE NewEntry(e)
      BY <1>1, <2>2, <3>2, EntryQuiet DEF NewEntry, KeyringEntry
    <3> QED
      BY <2>1, <3>1, <3>2
  <2>4. pc = "keyring"
    BY <1>4 DEF IndexEntry
  <2> QED
    BY <1>2, <2>3, <2>4, QuietLoop
<1>5. CASE Collector(KeyringSort)
  <2>1. Quiet /\ loaded' = loaded /\ pc' = "idle" /\ pc = "sort"
    BY <1>1, <1>5, SortQuiet DEF Collector, KeyringSort
  <2> QED
    BY <1>2, <2>1, QuietLoop
<1>6. CASE Collector(DelAllKey \/ CleanupKey)
  <2>1. /\ cur.idx <= Len(Bucket) /\ (EraseHere \/ Advance) /\ pc \in {"delAll", "cleanup"}
        /\ pc = "delAll" => DelAllKey
    BY <1>6 DEF Collector, DelAllKey, CleanupKey
  <2>2. Quiet /\ loaded' \subseteq loaded /\ pc' = pc
    <3>1. CASE EraseHere
      BY <1>1, <2>1, <3>1, EraseQuiet DEF EraseHere
    <3>2. CASE Advance
      <4>1. UNCHANGED <<keys, uoid, loaded, refs, pc>>
        BY <3>2 DEF Advance, registry, data
      <4> QED
        BY <1>1, <4>1, StillQuiet
    <3> QED
      BY <2>1, <3>1, <3>2
  <2>3. pc = "delAll" => Homed'
    BY <1>2, <2>1, <2>2, DelAllHomed
  <2> QED
    BY <1>2, <2>1, <2>2, <2>3, QuietLoop
<1> QED
  BY <1>3, <1>4, <1>5, <1>6 DEF Collector

-----------------------------------------------------------------------------
(* Reading a page.                                                         *)

\* The index of a page is read when no object of the page is there.
LEMMA IndexPages ==
  ASSUME PageInv, BeginIndex
  PROVE  Pages'
<1>1. /\ todo # <<>> /\ todo' = Tail(todo) /\ todo[1][1] = "index" /\ pc = "idle"
      /\ pages' = Append(pages, Target) /\ pc' = "keyring"
      /\ UNCHANGED <<disk, at, body, reading, undefined>>
      /\ UNCHANGED <<keys, uoid, loaded, refs>>
  BY DEF BeginIndex, Doing, ReadKeyring, registry, data
<1>2. /\ TodoTyped /\ Program /\ pages \in Seq(Locs) /\ Target \in Locs
  BY <1>1, FirstTyped, PageTypes DEF PageInv, Pages, Target
<1>3. /\ Range(pages) \subseteq Range(pages') /\ Target \in Range(pages')
  <2>1. /\ \A i \in DOMAIN pages : i \in DOMAIN pages' /\ pages'[i] = pages[i]
        /\ Len(pages) + 1 \in DOMAIN pages' /\ pages'[Len(pages) + 1] = Target
    BY <1>1, <1>2
  <2> QED
    BY <2>1 DEF Range
<1>4. Target \notin Range(pages)
  <2>1. 1 \in 1..Len(todo) /\ Registers(1)
    BY <1>1, <1>2 DEF TodoTyped, Registers
  <2> QED
    BY <2>1 DEF PageInv, OnePage, UnloadsFirst, Target
<1>5. Program' /\ (ReadingObjects' => Target' = Target)
  BY <1>1, <1>2, <1>3, NextFollows
<1>6. at = Start /\ reading = App
  BY <1>1 DEF PageInv, Pages, Progress, ReadingObjects
<1>7. Progress'
  BY <1>1, <1>6 DEF Progress
<1>8. Quiet
  BY <1>1, StillQuiet, PageTypes
<1>9. Homed'
  BY <1>1, <1>3, <1>8, QuietHomed
<1>10. Objects'
  BY <1>1, <1>8, QuietObjects DEF Rest, PageInv, Pages, Objects
<1>11. Unread'
  <2> SUFFICES ASSUME ReadingObjects', NEW k \in loaded' PROVE uoid'[k].loc # Target'
    BY DEF Unread
  <2>1. k \in loaded /\ uoid'[k] = uoid[k] /\ Target' = Target
    BY <1>1, <1>5
  <2>2. uoid[k].loc \in Range(pages)
    BY <1>1, <2>1 DEF PageInv, Pages, Homed, Doomed
  <2> QED
    BY <1>4, <2>1, <2>2
<1>12. NothingReplaced'
  BY <1>1 DEF PageInv, Pages, NothingReplaced
<1> QED
  BY <1>5, <1>7, <1>9, <1>10, <1>11, <1>12 DEF Pages

\* The key that ReadObjects is at is one of its page and its type.
LEMMA CurrentKey ==
  ASSUME PageInv, ReadingObjects
  PROVE  /\ Target \in Locs /\ Target \in Range(pages)
         /\ at.type \in Types /\ at.idx \in Nat \ {0}
         /\ <<Target, at.type>> \in Buckets /\ PageBucket \in Seq(Key)
         /\ InBucket => /\ Current \in Key /\ Registered(Current) /\ at.idx \in DOMAIN PageBucket
                        /\ uoid[Current].loc = Target /\ uoid[Current].type = at.type
<1>1. Target \in Locs /\ at.type \in Types /\ at.idx \in Nat \ {0} /\ TodoTyped
  BY FirstTyped, PageTypes DEF ReadingObjects, Target, Ats
<1>2. Target \in Range(pages)
  <2>1. 1 \in 1..Len(todo)
    BY <1>1 DEF ReadingObjects, TodoTyped
  <2> QED
    BY <2>1 DEF PageInv, Pages, Program, Follows, ReadingObjects, Target
<1>3. <<Target, at.type>> \in Buckets
  BY <1>1 DEF Buckets
<1>4. PageBucket \in Seq(Key)
  BY <1>3, PageTypes DEF PageBucket
<1>5. ASSUME InBucket
      PROVE  /\ Current \in Key /\ Registered(Current) /\ at.idx \in DOMAIN PageBucket
             /\ uoid[Current].loc = Target /\ uoid[Current].type = at.type
  <2>1. at.idx \in DOMAIN PageBucket
    BY <1>1, <1>4, <1>5 DEF InBucket
  <2>2. Current \in Key /\ Current \in Range(keys[<<Target, at.type>>])
    BY <1>4, <2>1 DEF Current, PageBucket, Range
  <2>3. Registered(Current)
    BY <1>3, <2>2 DEF Registered
  <2>4. <<uoid[Current].loc, uoid[Current].type>> = <<Target, at.type>>
    BY <1>3, <2>2, PageTypes DEF IInv, Placed, PlacedIn
  <2> QED
    BY <2>1, <2>2, <2>3, <2>4
<1> QED
  BY <1>1, <1>2, <1>3, <1>4, <1>5

\* ReadObjects goes on to the next key, past one whose object it has read, could
\* not read or has no offset of.
LEMMA PassedCurrent ==
  ASSUME PageInv, ReadingObjects, Quiet, todo' = todo, keys' = keys, reading' = App,
         at' = [at EXCEPT !.idx = @ + 1]
  PROVE  Unread'
<1>1. /\ at'.type = at.type /\ at'.idx = at.idx + 1
      /\ at.idx \in Nat /\ PageBucket \in Seq(Key)
  BY CurrentKey, PageTypes DEF Ats
<1>2. Target' = Target /\ PageBucket' = PageBucket
  BY <1>1 DEF Target, PageBucket
<1>3. ASSUME NEW k \in loaded', uoid'[k].loc = Target'
      PROVE  Behind(k)'
  <2>1. k \in loaded /\ uoid'[k] = uoid[k]
    BY DEF Quiet, Keeps
  <2>2. Behind(k)
    BY <1>2, <1>3, <2>1 DEF PageInv, Pages, Unread
  <2>3. CASE uoid[k].type < at.type
    BY <1>1, <2>1, <2>3 DEF Behind
  <2>4. CASE ~(uoid[k].type < at.type)
    <3>1. PICK i \in DOMAIN PageBucket :
            PageBucket[i] = k /\ (i < at.idx \/ i = at.idx)
      BY <2>2, <2>4 DEF Behind
    <3>2. i < at.idx + 1
      <4>1. i \in Nat
        BY <1>1, <3>1
      <4> QED
        BY <1>1, <3>1, <4>1
    <3>3. uoid[k].type = at.type
      BY <2>2, <2>4 DEF Behind
    <3> QED
      BY <1>1, <1>2, <2>1, <3>1, <3>2, <3>3 DEF Behind
  <2> QED
    BY <2>3, <2>4
<1> QED
  BY <1>3 DEF Unread

\* No object is read twice.
LEMMA CurrentNotLoaded ==
  ASSUME PageInv, ReadingObjects, InBucket, reading = App
  PROVE  Current \notin loaded
<1> SUFFICES ASSUME Current \in loaded PROVE FALSE
  OBVIOUS
<1>1. /\ Current \in Key /\ uoid[Current].loc = Target /\ uoid[Current].type = at.type
      /\ PageBucket \in Seq(Key) /\ at.idx \in DOMAIN PageBucket /\ at.type \in Types
      /\ at.idx \in Nat /\ <<Target, at.type>> \in Buckets /\ App \notin Key
  BY CurrentKey, PageTypes
<1>2. Behind(Current)
  BY <1>1 DEF PageInv, Pages, Unread
<1>3. PICK i \in DOMAIN PageBucket : PageBucket[i] = Current /\ i < at.idx
  <2>1. ~(uoid[Current].type < at.type)
    BY <1>1 DEF Types
  <2>2. reading # Current
    BY <1>1
  <2> QED
    BY <1>2, <2>1, <2>2 DEF Behind
<1>4. IsInjective(PageBucket)
  BY <1>1, PageTypes DEF PageBucket, IInv, Placed, PlacedIn
<1>5. PageBucket[at.idx] = Current
  BY DEF Current
<1>6. i = at.idx
  BY <1>1, <1>3, <1>4, <1>5 DEF IsInjective
<1> QED
  BY <1>1, <1>3, <1>6

\* Keys without offset, the end of an object and of a type, and what is not there.
LEMMA PositionPages ==
  ASSUME PageInv,
         \/ SkipObject \/ EndObject \/ NextObjectType \/ ReadStale \/ ReplaceObject
  PROVE  Pages'
<1>1. /\ UNCHANGED <<keys, uoid, loaded, refs, pc, disk, pages>>
      /\ ReadingObjects /\ pc = "idle"
  <2>1. UNCHANGED <<vars, disk, pages>>
    BY DEF SkipObject, EndObject, NextObjectType, ReadStale, ReplaceObject, files
  <2>2. ReadingObjects /\ pc = "idle"
    <3>1. CASE EndObject
      BY <3>1 DEF EndObject, Busy, PageInv, Pages, Progress
    <3> QED
      BY <3>1 DEF SkipObject, NextObjectType, ReadStale, ReplaceObject, Doing, ReadingObjects
  <2> QED
    BY <2>1, <2>2 DEF vars
<1>2. Quiet /\ IInv /\ TodoTyped /\ loaded \in SUBSET Key /\ App \notin Key
  BY <1>1, StillQuiet, PageTypes
<1>3. Homed'
  BY <1>1, <1>2, QuietHomed
<1>4. \A l \in Locs : disk'[l] \in Versions[l]
  BY <1>1 DEF PageInv, Pages, Objects
<1>5. CASE SkipObject \/ EndObject
  <2>1. /\ todo' = todo /\ undefined' = undefined /\ at' = [at EXCEPT !.idx = @ + 1]
        /\ reading' = App /\ body' = body /\ (reading = App \/ body = {})
    BY <1>1, <1>5 DEF SkipObject, EndObject, Busy, ReadingObjects
  <2>2. Program'
    BY <1>1, <2>1 DEF PageInv, Pages, Program, Follows
  <2>3. Progress'
    BY <1>1, <2>1 DEF Progress, ReadingObjects
  <2>4. Unread'
    BY <1>1, <1>2, <2>1, PassedCurrent
  <2>5. \A k \in loaded' : Rest(k)' = Rest(k)
    BY <1>1, <1>2, <2>1 DEF Rest
  <2>6. Objects'
    BY <1>2, <1>4, <2>5, QuietObjects
  <2>7. NothingReplaced'
    BY <2>1 DEF PageInv, Pages, NothingReplaced
  <2> QED
    BY <1>3, <2>2, <2>3, <2>4, <2>6, <2>7 DEF Pages
<1>6. CASE NextObjectType
  <2>1. reading = App /\ UNCHANGED <<body, reading, undefined>> /\ ~InBucket
    BY <1>6 DEF NextObjectType, Busy
  <2>2. Objects'
    BY <1>2, <1>4, <2>1, QuietObjects DEF Rest
  <2>3. NothingReplaced'
    BY <2>1 DEF PageInv, Pages, NothingReplaced
  <2>4. CASE todo' = todo /\ at.type < NTypes /\ at' = [type |-> at.type + 1, idx |-> 1]
    <3>1. Program'
      BY <1>1, <2>4 DEF PageInv, Pages, Program, Follows
    <3>2. Progress'
      BY <1>1, <2>1, <2>4 DEF Progress, ReadingObjects
    <3>3. ASSUME NEW k \in loaded', uoid'[k].loc = Target' PROVE Behind(k)'
      <4>1. k \in loaded /\ uoid[k].loc = Target /\ uoid'[k] = uoid[k]
        BY <1>1, <2>4, <3>3 DEF Target
      <4>2. Behind(k)
        BY <1>1, <4>1 DEF PageInv, Pages, Unread
      <4>3. uoid[k].type \in Types /\ at.type \in Types /\ at'.type = at.type + 1
        BY <1>1, <1>2, <2>4, <4>1, CurrentKey, PageTypes DEF Uoids
      <4>4. uoid[k].type < at.type + 1
        BY <4>2, <4>3 DEF Behind, Types
      <4> QED
        BY <4>1, <4>3, <4>4 DEF Behind
    <3> QED
      BY <1>3, <2>2, <2>3, <3>1, <3>2, <3>3 DEF Pages, Unread
  <2>5. CASE todo' = Tail(todo) /\ at' = Start
    <3>1. Program' /\ ~ReadingObjects'
      BY <1>1, <1>2, <2>5, NextFollows DEF ReadingObjects, PageInv, Pages
    <3>2. Progress' /\ Unread'
      BY <1>1, <2>1, <2>5, <3>1 DEF Progress, Unread
    <3> QED
      BY <1>3, <2>2, <2>3, <3>1, <3>2 DEF Pages
  <2> QED
    BY <1>6, <2>4, <2>5 DEF NextObjectType
<1>7. CASE ReadStale
  <2>1. UNCHANGED <<todo, at, body, reading>> /\ undefined' = "stale"
    BY <1>7 DEF ReadStale, call
  <2>2. Objects'
    BY <1>2, <1>4, <2>1, QuietObjects DEF Rest
  <2>3. Program' /\ Progress'
    BY <1>1, <2>1 DEF PageInv, Pages, Program, Follows, Progress, ReadingObjects, InBucket,
                      Current, PageBucket, Target
  <2>4. Unread'
    BY <1>1, <2>1 DEF PageInv, Pages, Unread, ReadingObjects, Behind, PageBucket, Target
  <2> QED
    BY <1>3, <2>1, <2>2, <2>3, <2>4 DEF Pages, NothingReplaced
<1>8. ~ReplaceObject
  BY <1>1, CurrentNotLoaded DEF ReplaceObject, Busy
<1> QED
  BY <1>5, <1>6, <1>7, <1>8

\* The object of a key begins with no reference and all of its entry's to read.
LEMMA BeginPages ==
  ASSUME PageInv, BeginObject
  PROVE  Pages'
<1>1. /\ ReadingObjects /\ pc = "idle" /\ reading = App /\ InBucket
      /\ CurrentEntry # {} /\ Current \notin loaded
      /\ body' = UNION {e.uses : e \in CurrentEntry} /\ reading' = Current
      /\ loaded' = loaded \cup {Current}
      /\ UNCHANGED <<disk, pages, todo, at, undefined>>
      /\ UNCHANGED <<keys, uoid, refs, pc>>
  BY DEF BeginObject, Doing, ReadingObjects, Busy, LoadObject, Idle, files, registry
<1>0. PICK c \in Key : c = Current
  BY <1>1, CurrentKey
<1>2. /\ Registered(c) /\ uoid[c].loc = Target /\ uoid[c].type = at.type
      /\ Target \in Locs /\ Target \in Range(pages) /\ at.idx \in DOMAIN PageBucket
      /\ PageBucket[at.idx] = c
  BY <1>0, <1>1, CurrentKey DEF Current
<1>3. /\ Target' = Target /\ PageBucket' = PageBucket /\ Current' = c /\ InBucket'
  BY <1>0, <1>1 DEF Target, PageBucket, Current, InBucket
<1>4. App \notin Key /\ loaded \in SUBSET Key
  BY PageTypes
<1>5. Program'
  BY <1>1 DEF PageInv, Pages, Program, Follows
<1>6. Progress'
  <2>1. reading' \in loaded' /\ reading' = Current'
    BY <1>0, <1>1, <1>3
  <2>2. ReadingObjects' /\ pc' = "idle"
    BY <1>1 DEF ReadingObjects
  <2> QED
    BY <1>3, <2>1, <2>2 DEF Progress
<1>7. Homed'
  <2>1. ASSUME NEW k \in loaded' PROVE Registered(k)' /\ uoid'[k].loc \in Range(pages')
    <3>1. CASE k = c
      BY <1>0, <1>1, <1>2, <3>1 DEF Registered
    <3>2. CASE k \in loaded
      BY <1>0, <1>1, <3>2 DEF PageInv, Pages, Homed, Doomed, Registered
    <3> QED
      BY <1>0, <1>1, <3>1, <3>2
  <2> QED
    BY <2>1 DEF Homed
<1>8. Unread'
  <2> SUFFICES ASSUME NEW k \in loaded', uoid'[k].loc = Target' PROVE Behind(k)'
    BY DEF Unread
  <2>1. CASE k = c
    BY <1>0, <1>1, <1>2, <1>3, <2>1 DEF Behind
  <2>2. CASE k \in loaded
    <3>1. Behind(k) /\ k # App
      BY <1>0, <1>1, <1>3, <1>4, <2>2 DEF PageInv, Pages, Unread
    <3> QED
      BY <1>0, <1>1, <1>3, <3>1 DEF Behind
  <2> QED
    BY <1>0, <1>1, <2>1, <2>2
<1>9. Objects'
  <2>1. ASSUME NEW k \in loaded, k # c PROVE Whole(k)'
    <3>1. Rest(k)' = {} /\ Rest(k) = {}
      BY <1>0, <1>1, <1>4, <2>1 DEF Rest
    <3>2. Whole(k)
      BY DEF PageInv, Pages, Objects
    <3> QED
      BY <1>0, <1>1, <3>1, <3>2 DEF Whole, EntryUoid
  <2>2. Whole(c)'
    <3>1. PICK e \in disk[Target] : EntryUoid(Target, e) = uoid[c]
      BY <1>0, <1>1 DEF CurrentEntry
    <3>2. disk[Target] \in Versions[Target]
      BY <1>0, <1>2 DEF PageInv, Pages, Objects
    <3>3. \A f \in CurrentEntry : f \in disk[Target] /\ f.type = e.type /\ f.name = e.name
      BY <1>0, <3>1 DEF CurrentEntry, EntryUoid
    <3>4. \A f \in CurrentEntry : f = e
      BY <1>0, <1>2, <3>1, <3>2, <3>3, FileAssumption
    <3>5. CurrentEntry = {e}
      BY <1>0, <3>1, <3>4 DEF CurrentEntry
    <3>6. body' = e.uses
      <4>1. {f.uses : f \in CurrentEntry} = {e.uses}
        BY <3>5
      <4>2. UNION {e.uses} = e.uses
        OBVIOUS
      <4> QED
        BY <1>0, <1>1, <4>1, <4>2
    <3>7. refs'[c] = {} /\ Rest(c)' = e.uses
      BY <1>0, <1>1, <1>2, <3>6 DEF PageInv, Pages, Objects, Rest
    <3>8. {uoid'[x] : x \in refs'[c]} \cup Rest(c)' = e.uses
      BY <3>7
    <3>9. uoid'[c] = uoid[c] /\ uoid'[c].loc = Target
      BY <1>0, <1>1, <1>2
    <3>10. EntryUoid(uoid'[c].loc, e) = uoid'[c]
      BY <3>1, <3>9
    <3> QED
      BY <3>1, <3>2, <3>8, <3>9, <3>10 DEF Whole, EntryUoid
  <2>3. \A k \in Key \ loaded' : refs'[k] = {}
    BY <1>0, <1>1 DEF PageInv, Pages, Objects
  <2>4. \A l \in Locs : disk'[l] \in Versions[l]
    BY <1>0, <1>1 DEF PageInv, Pages, Objects
  <2>5. \A k \in loaded' : Whole(k)'
    BY <1>0, <1>1, <2>1, <2>2
  <2> QED
    BY <2>3, <2>4, <2>5 DEF Objects
<1>10. NothingReplaced'
  BY <1>0, <1>1 DEF PageInv, Pages, NothingReplaced
<1> QED
  BY <1>5, <1>6, <1>7, <1>8, <1>9, <1>10 DEF Pages

\* A reference of the object being read: its key is found, or registered at the
\* end of its bucket.
ReadsKey(h, u) ==
  ReadKnownKey(h, u, 0) \/ ParseKnownKey(h, u) \/ ReadNewKey(h, u, 0)
LEMMA ReferenceRead ==
  ASSUME PageInv, NEW u \in Uoid, reading \in loaded,
         ReadsKey(reading, u)
  PROVE  \E x \in Key :
           /\ refs' = [refs EXCEPT ![reading] = @ \cup {x}] /\ uoid'[x] = u
           /\ loaded' = loaded /\ pc' = pc
           /\ \A y \in Key : Owned(y) => uoid'[y] = uoid[y]
           /\ \A y \in Key : Registered(y) => Registered(y)'
           /\ \A b \in Buckets : \A i \in DOMAIN keys[b] :
                i \in DOMAIN keys'[b] /\ keys'[b][i] = keys[b][i]
<1>1. IInv /\ keys \in [Buckets -> Seq(Key)] /\ uoid \in [Key -> Uoids]
  BY PageTypes
<1>2. CASE ReadKnownKey(reading, u, 0) \/ ParseKnownKey(reading, u)
  <2>1. /\ Matches(u) # {} /\ UNCHANGED <<keys, uoid, loaded, pc>>
        /\ refs' = [refs EXCEPT ![reading] = @ \cup {FindKey(u)}]
    BY <1>2 DEF ReadKnownKey, ParseKnownKey, KnownKey, registry, Idle
  <2>2. FindKey(u) \in Key /\ uoid[FindKey(u)] = u
    BY <1>1, <2>1, UoidBucket, FoundKey DEF IInv
  <2> QED
    BY <2>1, <2>2 DEF Registered
<1>3. CASE ReadNewKey(reading, u, 0)
  <2>1. PICK k \in Key :
          /\ ~Allocated(k) /\ keys' = AddedKeys(k, u)
          /\ uoid' = [uoid EXCEPT ![k] = u]
          /\ refs' = [refs EXCEPT ![reading] = @ \cup {k}]
    BY <1>3 DEF ReadNewKey
  <2>2. loaded' = loaded /\ pc' = pc
    BY <1>3 DEF ReadNewKey, Idle
  <2>3. refCnt[k] = 0
    BY <1>1, <2>1 DEF Allocated, IInv, TypeOK
  <2>4. ~Owned(k)
    BY <1>1, <2>3, OwnedIsAllocated DEF OwnedAllocated
  <2>5. \A y \in Key : Owned(y) => uoid'[y] = uoid[y]
    BY <1>1, <2>1, <2>4
  <2>6. \A y \in Key : Registered(y) => Registered(y)'
    BY <1>1, <2>1, AddedStays
  <2>7. ASSUME NEW b \in Buckets, NEW i \in DOMAIN keys[b]
        PROVE  i \in DOMAIN keys'[b] /\ keys'[b][i] = keys[b][i]
    <3>1. keys[b] \in Seq(Key)
      BY <1>1
    <3>2. keys'[b] = keys[b] \/ keys'[b] = Append(keys[b], k)
      BY <1>1, <2>1 DEF AddedKeys
    <3> QED
      BY <3>1, <3>2
  <2>8. uoid'[k] = u
    BY <1>1, <2>1
  <2> QED
    BY <2>1, <2>2, <2>5, <2>6, <2>7, <2>8
<1> QED
  BY <1>2, <1>3 DEF ReadsKey

\* The object takes the key, and the reference is no longer to be read.
LEMMA ReferencePages ==
  ASSUME PageInv, ReadReference
  PROVE  Pages'
<1>1. PICK u \in body :
        /\ ReadsKey(reading, u)
        /\ body' = body \ {u}
  BY DEF ReadReference, ReadsKey
<1>2. UNCHANGED <<disk, pages, todo, at, reading, undefined>> /\ reading # App
  BY DEF ReadReference, Busy, files
<1>3. /\ ReadingObjects /\ pc = "idle" /\ InBucket /\ reading = Current /\ reading \in loaded
  BY <1>2 DEF PageInv, Pages, Progress
<1>4. u \in Uoid
  BY PageTypes DEF RMTypes, CallTyped
<1>5. PICK x \in Key :
        /\ refs' = [refs EXCEPT ![reading] = @ \cup {x}] /\ uoid'[x] = u
        /\ loaded' = loaded /\ pc' = pc
        /\ \A y \in Key : Owned(y) => uoid'[y] = uoid[y]
        /\ \A y \in Key : Registered(y) => Registered(y)'
        /\ \A b \in Buckets : \A i \in DOMAIN keys[b] :
             i \in DOMAIN keys'[b] /\ keys'[b][i] = keys[b][i]
  BY <1>1, <1>3, <1>4, ReferenceRead
<1>6. /\ loaded \in SUBSET Key /\ refs \in [Holders -> SUBSET Key] /\ Key \subseteq Holders
      /\ App \notin Key
  BY PageTypes DEF Holders
<1>7. \A k \in loaded : uoid'[k] = uoid[k] /\ \A y \in refs[k] : uoid'[y] = uoid[y]
  <2> SUFFICES ASSUME NEW k \in loaded
               PROVE  uoid'[k] = uoid[k] /\ \A y \in refs[k] : uoid'[y] = uoid[y]
    OBVIOUS
  <2>1. k \in Key /\ k \in Holders /\ Owned(k)
    BY <1>6 DEF Owned
  <2>2. \A y \in refs[k] : y \in Key /\ Owned(y)
    BY <1>6, <2>1 DEF Owned
  <2> QED
    BY <1>5, <2>1, <2>2
<1>8. /\ Target' = Target
      /\ \A i \in DOMAIN PageBucket : i \in DOMAIN PageBucket' /\ PageBucket'[i] = PageBucket[i]
  BY <1>2, <1>3, <1>5, CurrentKey DEF Target, PageBucket
<1>9. Program'
  BY <1>2 DEF PageInv, Pages, Program, Follows
<1>10. Progress'
  <2>1. at.idx \in DOMAIN PageBucket /\ PageBucket \in Seq(Key) /\ at.idx \in Nat
    BY <1>3, CurrentKey
  <2>2. Current' = Current
    BY <1>2, <1>8, <2>1 DEF Current
  <2>3. InBucket'
    <3>1. <<Target, at.type>> \in Buckets
      BY <1>3, CurrentKey
    <3>2. Len(PageBucket') = Len(PageBucket) \/ Len(PageBucket') = Len(PageBucket) + 1
      <4>1. \A b \in Buckets : keys[b] \in Seq(Key) /\ (keys'[b] = keys[b] \/ \E k \in Key : keys'[b] = Append(keys[b], k))
        <5>1. keys \in [Buckets -> Seq(Key)]
          BY PageTypes
        <5>2. keys' = keys \/ \E k \in Key : keys' = AddedKeys(k, u)
          BY <1>1 DEF ReadsKey, ReadKnownKey, ParseKnownKey, KnownKey, ReadNewKey, registry
        <5>3. ASSUME NEW k \in Key, keys' = AddedKeys(k, u), NEW b \in Buckets
              PROVE  keys'[b] = keys[b] \/ keys'[b] = Append(keys[b], k)
          BY <5>1, <5>3 DEF AddedKeys
        <5> QED
          BY <5>1, <5>2, <5>3
      <4>2. PageBucket' = PageBucket \/ \E k \in Key : PageBucket' = Append(PageBucket, k)
        BY <1>2, <1>8, <3>1, <4>1 DEF PageBucket
      <4> QED
        BY <2>1, <4>2
    <3>3. Len(PageBucket) \in Nat
      BY <2>1
    <3> QED
      BY <1>2, <1>3, <2>1, <3>2, <3>3 DEF InBucket
  <2>4. ReadingObjects' /\ pc' = "idle"
    BY <1>2, <1>3, <1>5 DEF ReadingObjects
  <2> QED
    BY <1>2, <1>3, <1>5, <2>2, <2>3, <2>4 DEF Progress
<1>11. Homed'
  <2>1. ASSUME NEW k \in loaded' PROVE Registered(k)' /\ uoid'[k].loc \in Range(pages')
    BY <1>2, <1>3, <1>5, <1>6, <1>7 DEF PageInv, Pages, Homed, Doomed
  <2> QED
    BY <2>1 DEF Homed
<1>12. Unread'
  <2> SUFFICES ASSUME NEW k \in loaded', uoid'[k].loc = Target' PROVE Behind(k)'
    BY DEF Unread
  <2>1. k \in loaded /\ uoid'[k] = uoid[k] /\ uoid[k].loc = Target
    BY <1>5, <1>7, <1>8
  <2>2. Behind(k)
    BY <1>3, <2>1 DEF PageInv, Pages, Unread
  <2> QED
    BY <1>2, <1>8, <2>1, <2>2 DEF Behind
<1>13. Objects'
  <2>1. ASSUME NEW k \in loaded
        PROVE  {uoid'[y] : y \in refs'[k]} \cup Rest(k)' = {uoid[y] : y \in refs[k]} \cup Rest(k)
    <3>1. CASE k = reading
      <4>1. refs'[k] = refs[k] \cup {x}
        BY <1>5, <1>6, <3>1
      <4>2. {uoid'[y] : y \in refs'[k]} = {uoid[y] : y \in refs[k]} \cup {u}
        BY <1>5, <1>7, <4>1
      <4>3. Rest(k)' = Rest(k) \ {u} /\ u \in Rest(k)
        BY <1>1, <1>2, <3>1 DEF Rest
      <4> QED
        BY <4>2, <4>3
    <3>2. CASE k # reading
      <4>1. refs'[k] = refs[k] /\ Rest(k)' = {} /\ Rest(k) = {}
        BY <1>2, <1>5, <1>6, <3>2 DEF Rest
      <4>2. {uoid'[y] : y \in refs'[k]} = {uoid[y] : y \in refs[k]}
        BY <1>7, <4>1
      <4> QED
        BY <4>1, <4>2
    <3> QED
      BY <3>1, <3>2
  <2>2. ASSUME NEW k \in loaded' PROVE Whole(k)'
    <3>1. k \in loaded /\ uoid'[k] = uoid[k]
      BY <1>5, <1>7
    <3>2. Whole(k)
      BY <3>1 DEF PageInv, Pages, Objects
    <3>3. {uoid'[y] : y \in refs'[k]} \cup Rest(k)' = {uoid[y] : y \in refs[k]} \cup Rest(k)
      BY <2>1, <3>1
    <3> QED
      BY <3>1, <3>2, <3>3 DEF Whole, EntryUoid
  <2>3. \A k \in Key \ loaded' : refs'[k] = {}
    BY <1>3, <1>5, <1>6 DEF PageInv, Pages, Objects
  <2>4. \A l \in Locs : disk'[l] \in Versions[l]
    BY <1>2 DEF PageInv, Pages, Objects
  <2> QED
    BY <2>2, <2>3, <2>4 DEF Objects
<1>14. NothingReplaced'
  BY <1>2 DEF PageInv, Pages, NothingReplaced
<1> QED
  BY <1>9, <1>10, <1>11, <1>12, <1>13, <1>14 DEF Pages

\* An object that fails leaves nothing.
LEMMA FailPages ==
  ASSUME PageInv, IInv', FailObject
  PROVE  Pages'
<1>1. /\ ReadingObjects /\ pc = "idle" /\ reading' = App /\ body' = {}
      /\ at' = [at EXCEPT !.idx = @ + 1] /\ (reading # App \/ InBucket)
      /\ UNCHANGED <<disk, pages, todo, undefined>>
  BY DEF FailObject, Doing, ReadingObjects, Busy, files
<1>2. InBucket /\ (reading # App => reading = Current)
  BY <1>1 DEF PageInv, Pages, Progress
<1>3. Current \in Key /\ IInv /\ Linked /\ App \notin Key /\ loaded \in SUBSET Key
  BY <1>1, <1>2, CurrentKey, PageTypes
<1>4. Quiet /\ loaded' = loaded \ {Current} /\ UNCHANGED <<keys, pc>>
  BY <1>3, FailQuiet
<1>5. Program' /\ Progress'
  BY <1>1, <1>4 DEF PageInv, Pages, Program, Follows, Progress, ReadingObjects
<1>6. Homed'
  BY <1>1, <1>4, QuietHomed
<1>7. Unread'
  BY <1>1, <1>4, PassedCurrent
<1>8. \A k \in loaded' : Rest(k)' = Rest(k)
  BY <1>1, <1>2, <1>3, <1>4 DEF Rest
<1>9. Objects'
  BY <1>1, <1>4, <1>8, QuietObjects DEF PageInv, Pages, Objects
<1>10. NothingReplaced'
  BY <1>1 DEF PageInv, Pages, NothingReplaced
<1> QED
  BY <1>5, <1>6, <1>7, <1>9, <1>10 DEF Pages

-----------------------------------------------------------------------------
(* The results.                                                            *)

\* No page is parsed and no age is read: PageSpec calls neither ReadPagePrc nor
\* ReadAge.
Parsing == ParseObject \/ ParseThrows \/ ParseLoaded \/ EndParse \/ PushPage
AgeStep == OpenObjects \/ UseDeletedPage \/ Doing("open")
LEMMA NoParsing == PageInv => ~Parsing /\ ~AgeStep
<1> SUFFICES ASSUME PageInv, NEW w \in {"parse", "push", "open", "deleted"}, Doing(w)
             PROVE  FALSE
  BY DEF Parsing, AgeStep, ParseObject, ParseThrows, ParseLoaded, EndParse, PushPage,
         OpenObjects, UseDeletedPage
<1>1. todo # <<>> /\ todo[1][1] = w /\ TodoTyped
  BY PageTypes DEF Doing
<1>2. 1 \in 1..Len(todo)
  BY <1>1 DEF TodoTyped
<1> QED
  BY <1>1, <1>2 DEF PageInv, Pages, Program, Follows

\* A call that gives up in a page's header or index has begun no object.
LEMMA ThrowsPages ==
  ASSUME PageInv, FileThrows \/ IndexThrows
  PROVE  Pages'
<1>1. /\ todo' = <<>> /\ pc' = "idle" /\ pc \in {"idle", "keyring"}
      /\ UNCHANGED <<keys, uoid, loaded, refs, disk, pages, at, body, reading, undefined>>
  BY DEF FileThrows, IndexThrows, KeyringThrows, Doing, files, data, registry, vars
<1>2. at = Start /\ reading = App
  <2>1. CASE FileThrows
    <3>1. Doing("unload")
      BY <2>1, NoParsing DEF FileThrows, AgeStep
    <3> QED
      BY <3>1 DEF Doing, PageInv, Pages, Progress, ReadingObjects
  <2>2. CASE IndexThrows
    BY <2>2 DEF IndexThrows, KeyringThrows, PageInv, Pages, Progress
  <2> QED
    BY <2>1, <2>2
<1>3. Program' /\ ~ReadingObjects'
  <2>1. Len(todo') = 0
    BY <1>1
  <2> QED
    BY <1>1, <2>1 DEF Program, ReadingObjects
<1>4. Progress' /\ Unread'
  BY <1>1, <1>2, <1>3 DEF Progress, Unread
<1>5. Quiet
  BY <1>1, StillQuiet, PageTypes
<1>6. Homed'
  BY <1>1, <1>5, QuietHomed
<1>7. Objects'
  BY <1>1, <1>5, QuietObjects DEF Rest, PageInv, Pages, Objects
<1>8. NothingReplaced'
  BY <1>1 DEF PageInv, Pages, NothingReplaced
<1> QED
  BY <1>3, <1>4, <1>6, <1>7, <1>8 DEF Pages

\* Every step of PageSpec.
LEMMA PageStep == PageInv /\ [PageCalls \/ Work]_allVars => PageInv'
<1> SUFFICES ASSUME PageInv, [PageCalls \/ Work]_allVars PROVE PageInv'
  OBVIOUS
<1>1. OnePage'
  BY OnePageStep DEF PageInv
<1>2. IInv'
  BY <1>1 DEF OnePage, RMInv
<1>3. Pages'
  <2>1. CASE UNCHANGED allVars
    <3>1. /\ UNCHANGED <<keys, uoid, loaded, refs, pc, cur>>
          /\ UNCHANGED <<disk, pages, todo, at, body, reading, undefined>>
      BY <2>1 DEF allVars, rmVars, vars
    <3>2. Program' /\ Progress'
      BY <3>1 DEF PageInv, Pages, Program, Follows, Progress, ReadingObjects, InBucket,
                  Current, PageBucket, Target
    <3>3. Homed'
      BY <3>1 DEF PageInv, Pages, Homed, Doomed, Registered, Bucket
    <3>4. Unread'
      <4> SUFFICES ASSUME ReadingObjects', NEW k \in loaded', uoid'[k].loc = Target'
                   PROVE  Behind(k)'
        BY DEF Unread
      <4>1. PageBucket' = PageBucket /\ Target' = Target /\ ReadingObjects
        BY <3>1 DEF ReadingObjects, PageBucket, Target
      <4>2. k \in loaded /\ uoid[k].loc = Target
        BY <3>1, <4>1
      <4>3. Behind(k)
        BY <4>1, <4>2 DEF PageInv, Pages, Unread
      <4>4. at' = at /\ uoid' = uoid /\ reading' = reading
        BY <3>1
      <4> QED
        BY <4>1, <4>3, <4>4 DEF Behind
    <3>5. Quiet
      BY <3>1, StillQuiet, PageTypes
    <3>6. Objects'
      BY <3>1, <3>5, QuietObjects DEF Rest, PageInv, Pages, Objects
    <3> QED
      BY <3>1, <3>2, <3>3, <3>4, <3>6 DEF PageInv, Pages, NothingReplaced
  <2>2. CASE PageCalls
    BY <1>2, <2>2, CallsPages
  <2>3. CASE Work
    BY <1>2, <2>3, UnloadPages, LoopPages, IndexPages, PositionPages, BeginPages,
       ReferencePages, FailPages, ThrowsPages, NoParsing DEF Work, Parsing, AgeStep
  <2> QED
    BY <2>1, <2>2, <2>3
<1> QED
  BY <1>1, <1>3 DEF PageInv

\* Nothing is loaded yet.
LEMMA PageInit == RMInit => PageInv
<1> SUFFICES ASSUME RMInit PROVE PageInv
  OBVIOUS
<1>1. OnePage
  BY OnePageInit
<1>2. todo = <<>> /\ loaded = {} /\ refs = [h \in Holders |-> {}] /\ pc = "idle"
      /\ at = Start /\ reading = App /\ undefined = "no"
      /\ \A l \in Locs : disk[l] \in Versions[l]
  BY DEF RMInit, Init
<1>3. \A k \in Key : refs[k] = {}
  BY <1>2 DEF Holders
<1>4. Program /\ Progress /\ Homed /\ Unread /\ NothingReplaced
  BY <1>2 DEF Program, Progress, Homed, Unread, NothingReplaced, ReadingObjects
<1>5. Objects
  BY <1>2, <1>3 DEF Objects
<1> QED
  BY <1>1, <1>4, <1>5 DEF PageInv, Pages

\* The invariant of the pages and of the position in them.
THEOREM PageInvariance == PageSpec => []PageInv
<1>1. RMInit => PageInv
  BY PageInit
<1>2. PageInv /\ [PageCalls \/ Work]_allVars => PageInv'
  BY PageStep
<1> QED
  BY <1>1, <1>2, PTL DEF PageSpec

\* Between calls a loaded object belongs to a registered page: UnloadPage and
\* ReadPage over a registered page leave no object behind
\* (plResManager::UnloadPage, plKeyCollector::delAll).
THEOREM ObjectsHavePages == PageSpec => []LoadedHasPage
<1>1. PageInv => LoadedHasPage
  BY DEF PageInv, Pages, Homed, Doomed, LoadedHasPage, Free
<1> QED
  BY <1>1, PageInvariance, PTL

\* ReadObjects never comes to a key that is loaded already, whose object it would
\* delete and then ask whether it is a stub (plResManager::ReadObjects,
\* plKeyData::setObj).
THEOREM NoObjectReplaced == PageSpec => []NothingReplaced
<1>1. PageInv => NothingReplaced
  BY DEF PageInv, Pages
<1> QED
  BY <1>1, PageInvariance, PTL

\* Between calls a registered object has all references of one version of its
\* page file, whichever objects have failed (plResManager::ReadObjects).
THEOREM ObjectsAreWhole == PageSpec => []NoHalfReadObject
<1>1. PageInv => NoHalfReadObject
  <2> SUFFICES ASSUME PageInv, Free, NEW k \in loaded
               PROVE  \E v \in Versions[uoid[k].loc] : \E e \in v :
                        /\ EntryUoid(uoid[k].loc, e) = uoid[k]
                        /\ {uoid[x] : x \in refs[k]} = e.uses
    BY DEF NoHalfReadObject
  <2>1. reading = App
    BY DEF Free, PageInv, Pages, Progress, ReadingObjects
  <2>2. Rest(k) = {}
    BY <2>1, PageTypes DEF Rest
  <2>3. Whole(k)
    BY DEF PageInv, Pages, Objects
  <2> QED
    BY <2>2, <2>3 DEF Whole
<1> QED
  BY <1>1, PageInvariance, PTL

-----------------------------------------------------------------------------
(* What ReadObjects has left behind it.                                    *)

\* A key with a file offset is on the heap.
OffsAllocated == \A k \in offs : Allocated(k)

\* The index has given the key of e its offset.
Indexed(e) == \E k \in offs : Registered(k) /\ uoid[k] = EntryUoid(Target, e)

\* The index of the page whose objects come next: its entries are read by type,
\* and those that have been read have keys.
IndexRead ==
  /\ pc = "keyring" => cur.loc = Target /\ \A e \in index : e.type >= cur.type
  /\ pc # "keyring" => index = {}
  /\ \A e \in disk[Target] \ index : Indexed(e)

\* Every key with an offset that ReadObjects has been at has its object, as long
\* as no object has failed.
ObjectsRead ==
  pc = "idle" /\ ~failed =>
    \A k \in offs : Registered(k) /\ uoid[k].loc = Target /\ Behind(k) => k \in loaded

PageRead == OffsAllocated /\ (ReadingObjects => IndexRead /\ ObjectsRead)
ReadInv == PageInv /\ PageRead

\* The registered keys with offsets stay, and stay what they are.
OffsKept ==
  \A k \in offs : Registered(k) => k \in offs' /\ Registered(k)' /\ uoid'[k] = uoid[k]

\* The entries that have been read keep their keys.
LEMMA StaysIndexed ==
  ASSUME OffsKept, Target' = Target, NEW e, Indexed(e)
  PROVE  Indexed(e)'
BY DEF OffsKept, Indexed, EntryUoid

\* Steps of the registry that free keys keep the registered ones.
LEMMA CollectorKeeps ==
  ASSUME IInv', KeepOffs, offs \in SUBSET Key,
         \A k \in Key : Registered(k) => Registered(k)' /\ uoid'[k] = uoid[k]
  PROVE  OffsKept
<1> SUFFICES ASSUME NEW k \in offs, Registered(k)
             PROVE  k \in offs' /\ Registered(k)' /\ uoid'[k] = uoid[k]
  BY DEF OffsKept
<1>1. k \in Key /\ Registered(k)' /\ uoid'[k] = uoid[k]
  OBVIOUS
<1>2. OwnedAllocated'
  BY OwnedStaysAllocated
<1>3. Owned(k)'
  BY <1>1 DEF Owned
<1>4. refCnt'[k] # 0
  BY <1>1, <1>2, <1>3 DEF OwnedAllocated
<1>5. refCnt'[k] > 0
  <2>1. refCnt'[k] \in Nat
    BY <1>1 DEF IInv, TypeOK
  <2> QED
    BY <1>4, <2>1
<1>6. k \in offs'
  BY <1>5 DEF KeepOffs, Allocated
<1> QED
  BY <1>1, <1>6

\* Where nothing is registered or freed.
LEMMA StillKept ==
  ASSUME UNCHANGED <<keys, uoid, offs>>
  PROVE  OffsKept
BY DEF OffsKept, Registered

\* Counts that do not fall keep keys on the heap.
LEMMA GrowingAllocated ==
  ASSUME OffsAllocated, IInv, IInv', offs \in SUBSET Key, offs' = offs,
         \A k \in Key : refCnt[k] > 0 => refCnt'[k] > 0
  PROVE  OffsAllocated'
BY DEF OffsAllocated, Allocated

\* A reference that is read.
LEMMA ReadGrows ==
  ASSUME IInv, NEW h, NEW u \in Uoid, ReadsKey(h, u)
  PROVE  \A k \in Key : refCnt[k] > 0 => refCnt'[k] > 0
<1>1. refCnt \in [Key -> Nat]
  BY DEF IInv, TypeOK
<1>2. CASE ReadKnownKey(h, u, 0) \/ ParseKnownKey(h, u)
  <2>1. PICK x : refCnt' = [refCnt EXCEPT ![x] = @ + 1]
    BY <1>2 DEF ReadKnownKey, ParseKnownKey, KnownKey
  <2> QED
    BY <1>1, <2>1
<1>3. CASE ReadNewKey(h, u, 0)
  <2>1. PICK x \in Key : refCnt' = [refCnt EXCEPT ![x] = 2]
    BY <1>3 DEF ReadNewKey
  <2> QED
    BY <1>1, <2>1
<1> QED
  BY <1>2, <1>3 DEF ReadsKey

-----------------------------------------------------------------------------
(* File offsets.                                                           *)

\* A key with an offset is on the heap after every step: one that is deleted
\* loses it, the keys of an index that get one are registered or new.
LEMMA OffsStep ==
  ASSUME ReadInv, IInv', (PageCalls \/ Work) \/ UNCHANGED allVars
  PROVE  OffsAllocated'
<1>1. IInv /\ offs \in SUBSET Key /\ OffsAllocated /\ refCnt \in [Key -> Nat]
  BY PageTypes DEF ReadInv, PageRead, RMTypes, OffsTyped, IInv, TypeOK
<1>2. KeepOffs => OffsAllocated'
  BY DEF KeepOffs, OffsAllocated
<1>3. UNCHANGED <<offs, refCnt>> => OffsAllocated'
  BY <1>1 DEF OffsAllocated, Allocated
<1>4. CASE UNCHANGED allVars
  BY <1>3, <1>4 DEF allVars, vars, rmVars
<1>5. CASE PageCalls
  <2>1. CASE EditKeys
    BY <1>2, <2>1 DEF EditKeys, Collector
  <2>2. CASE UnloadAge \/ \E l \in Locs : ReadPage(l) \/ UnloadPage(l)
    <3>1. \E program : Begin(program)
      BY <2>2 DEF ReadPage, UnloadPage, UnloadAge
    <3> QED
      BY <1>3, <3>1 DEF Begin, vars
  <2>3. CASE \E l \in Locs : AddPage(l) \/ ReplaceFile(l)
    BY <1>3, <2>3 DEF AddPage, ReplaceFile, vars
  <2> QED
    BY <1>5, <2>1, <2>2, <2>3 DEF PageCalls
<1>6. CASE Work
  <2>1. ~Parsing /\ ~AgeStep
    BY NoParsing DEF ReadInv
  <2>2. CASE UnloadRegistered \/ UnloadUnknown \/ BeginIndex
    BY <1>3, <2>2 DEF UnloadRegistered, UnloadUnknown, BeginIndex, DelAll, ReadKeyring,
                      data, vars
  <2>3. CASE SkipObject \/ ReplaceObject \/ ReadStale \/ EndObject \/ NextObjectType
    BY <1>3, <2>3 DEF SkipObject, ReplaceObject, ReadStale, EndObject, NextObjectType, vars
  <2>4. CASE IndexFlags \/ FailObject
             \/ Collector(DelAllKey \/ DelAllNext \/ CleanupKey \/ CleanupNext \/ KeyringSort)
    BY <1>2, <2>4 DEF IndexFlags, FailObject, Collector
  <2>5. CASE BeginObject
    <3>1. /\ refCnt' = [refCnt EXCEPT ![Current] = @ + 1] /\ offs' = offs
      BY <2>5 DEF BeginObject, LoadObject
    <3>2. \A k \in Key : refCnt[k] > 0 => refCnt'[k] > 0
      BY <1>1, <3>1
    <3> QED
      BY <1>1, <3>1, <3>2, GrowingAllocated
  <2>6. CASE ReadReference
    <3>1. PICK u \in body : ReadsKey(reading, u)
      BY <2>6 DEF ReadReference, ReadsKey
    <3>2. u \in Uoid /\ offs' = offs
      BY <2>6, PageTypes DEF ReadReference, RMTypes, CallTyped, ReadInv
    <3>3. \A k \in Key : refCnt[k] > 0 => refCnt'[k] > 0
      BY <1>1, <3>1, <3>2, ReadGrows
    <3> QED
      BY <1>1, <3>2, <3>3, GrowingAllocated
  <2>7. CASE IndexEntry
    <3>1. PICK e \in index : e.type = cur.type /\ (KnownEntry(e) \/ NewEntry(e))
      BY <2>7 DEF IndexEntry
    <3>2. CASE KnownEntry(e)
      <4> DEFINE u == EntryUoid(cur.loc, e)
      <4>1. Matches(u) # {} /\ offs' = offs \cup {FindKey(u)} /\ refCnt' = refCnt
        BY <3>2 DEF KnownEntry, vars
      <4>2. <<u.loc, u.type>> \in Buckets
        BY <1>1, <3>1 DEF EntryUoid, IInv, TypeOK, Buckets
      <4>3. FindKey(u) \in Key /\ Registered(FindKey(u))
        BY <1>1, <4>1, <4>2, FoundKey DEF IInv
      <4>4. refCnt[FindKey(u)] # 0
        BY <1>1, <4>3, OwnedIsAllocated DEF OwnedAllocated, Owned
      <4>5. Allocated(FindKey(u))
        BY <1>1, <4>3, <4>4 DEF Allocated
      <4> QED
        BY <1>1, <4>1, <4>5 DEF OffsAllocated, Allocated
    <3>3. CASE NewEntry(e)
      <4>1. PICK k \in Key : refCnt' = [refCnt EXCEPT ![k] = 1]
        BY <3>3 DEF NewEntry, KeyringEntry
      <4>2. offs' = offs \cup {x \in Key : ~Allocated(x) /\ Allocated(x)'}
        BY <3>3 DEF NewEntry
      <4>3. \A x \in Key : refCnt[x] > 0 => refCnt'[x] > 0
        BY <1>1, <4>1
      <4> QED
        BY <1>1, <4>2, <4>3 DEF OffsAllocated, Allocated
    <3> QED
      BY <3>1, <3>2, <3>3
  <2>8. CASE FileThrows \/ IndexThrows
    BY <1>3, <2>8 DEF FileThrows, IndexThrows, KeyringThrows, data, vars
  <2> QED
    BY <1>6, <2>1, <2>2, <2>3, <2>4, <2>5, <2>6, <2>7, <2>8 DEF Work, Parsing, AgeStep
<1> QED
  BY <1>4, <1>5, <1>6

-----------------------------------------------------------------------------
(* The index.                                                              *)

\* After a call, while a page is unloaded, and when a call gives up, no objects are
\* read next.
LEMMA NotReadingNext ==
  ASSUME PageInv,
         \/ PageCalls \/ UnloadRegistered \/ UnloadUnknown \/ FileThrows \/ IndexThrows
         \/ Collector(DelAllKey \/ DelAllNext \/ CleanupKey \/ CleanupNext)
  PROVE  ~ReadingObjects'
<1>1. CASE PageCalls
  <2>1. CASE EditKeys \/ \E l \in Locs : AddPage(l) \/ ReplaceFile(l)
    BY <2>1 DEF EditKeys, AddPage, ReplaceFile, Collector, Free, ReadingObjects
  <2>2. CASE UnloadAge \/ \E l \in Locs : ReadPage(l) \/ UnloadPage(l)
    <3>1. 1 \in Locs
      BY LocAssumption DEF Locs
    <3> QED
      BY <2>2, <3>1, ProgramsFollow
  <2> QED
    BY <1>1, <2>1, <2>2 DEF PageCalls
<1>2. CASE UnloadRegistered \/ UnloadUnknown
  <2>1. todo # <<>> /\ todo' = Tail(todo) /\ todo[1][1] = "unload"
    BY <1>2 DEF UnloadRegistered, UnloadUnknown, Doing
  <2> QED
    BY <2>1, NextFollows, PageTypes DEF PageInv, Pages
<1>3. CASE Collector(DelAllKey \/ DelAllNext \/ CleanupKey \/ CleanupNext)
  <2>1. todo' = todo /\ pc \in {"delAll", "cleanup"}
    BY <1>3 DEF Collector, DelAllKey, DelAllNext, CleanupKey, CleanupNext
  <2> QED
    BY <2>1 DEF PageInv, Pages, Progress, ReadingObjects
<1>4. CASE FileThrows \/ IndexThrows
  BY <1>4 DEF FileThrows, IndexThrows, ReadingObjects
<1> QED
  BY <1>1, <1>2, <1>3, <1>4

\* The index begins with all its entries to read, of the first type.
LEMMA IndexBegun ==
  ASSUME ReadInv, BeginIndex, ReadingObjects'
  PROVE  IndexRead' /\ ObjectsRead'
<1>1. /\ todo # <<>> /\ todo' = Tail(todo) /\ todo[1][1] = "index"
      /\ pages' = Append(pages, Target) /\ index' = disk[Target] /\ disk' = disk
      /\ pc' = "keyring" /\ cur' = [loc |-> Target, type |-> 1, idx |-> 1]
  BY DEF BeginIndex, Doing, ReadKeyring
<1>2. /\ TodoTyped /\ Program /\ pages \in Seq(Locs) /\ Target \in Locs
      /\ disk \in [Locs -> SUBSET Entry]
  BY <1>1, FirstTyped, PageTypes DEF ReadInv, PageInv, Pages, Target, RMTypes, FilesTyped
<1>3. Target \in Range(pages')
  <2>1. Len(pages) + 1 \in DOMAIN pages' /\ pages'[Len(pages) + 1] = Target
    BY <1>1, <1>2
  <2> QED
    BY <2>1 DEF Range
<1>4. Target' = Target
  BY <1>1, <1>2, <1>3, NextFollows
<1>5. \A e \in index' : e.type >= 1
  BY <1>1, <1>2 DEF Entry, Types
<1>6. cur'.loc = Target /\ cur'.type = 1
  BY <1>1
<1> QED
  BY <1>1, <1>4, <1>5, <1>6 DEF IndexRead, ObjectsRead

\* An entry gets the key of its uoid, which is registered or new.
LEMMA EntryRead ==
  ASSUME ReadInv, IndexEntry, ReadingObjects
  PROVE  IndexRead' /\ ObjectsRead'
<1>1. PICK e \in index : /\ e.type = cur.type
                         /\ KnownEntry(e) \/ NewEntry(e)
                         /\ index' = index \ {e}
  BY DEF IndexEntry
<1>2. pc = "keyring" /\ pc' = pc /\ cur' = cur /\ UNCHANGED <<disk, todo>>
  BY <1>1 DEF IndexEntry, KnownEntry, NewEntry, KeyringEntry, vars, files
<1>3. IInv /\ offs \in SUBSET Key /\ OffsAllocated /\ index \in SUBSET Entry
  BY PageTypes DEF ReadInv, PageRead, RMTypes, OffsTyped, CallTyped
<1>4. cur.loc = Target /\ Target' = Target
  BY <1>2 DEF ReadInv, PageRead, IndexRead, Target
<1>5. EntryUoid(Target, e) \in Uoid /\ EntryUoid(cur.loc, e) = EntryUoid(Target, e)
  <2>1. cur.loc \in Locs /\ e \in Entry
    BY <1>1, <1>2, <1>3 DEF IInv, Anchored
  <2> QED
    BY <1>4, <2>1 DEF Entry, EntryUoid, Uoid
<1>6. OffsKept /\ Indexed(e)'
  <2> DEFINE u == EntryUoid(Target, e)
  <2>0. u \in Uoid
    BY <1>5
  <2>1. CASE KnownEntry(e)
    <3>1. Matches(u) # {} /\ offs' = offs \cup {FindKey(u)} /\ UNCHANGED <<keys, uoid>>
      BY <1>5, <2>1 DEF KnownEntry, vars
    <3>2. FindKey(u) \in Key /\ Registered(FindKey(u)) /\ uoid[FindKey(u)] = u
      BY <1>3, <2>0, <3>1, UoidBucket, FoundKey DEF IInv
    <3>4. PICK k \in Key : k = FindKey(u)
      BY <3>2
    <3>5. k \in offs' /\ Registered(k)' /\ uoid'[k] = EntryUoid(Target, e)
      BY <3>1, <3>2, <3>4 DEF Registered
    <3>6. Indexed(e)'
      BY <1>4, <3>5 DEF Indexed, EntryUoid
    <3>7. OffsKept
      BY <3>1 DEF OffsKept, Registered
    <3> QED
      BY <3>6, <3>7
  <2>2. CASE NewEntry(e)
    <3> HIDE DEF u
    <3>1. PICK k \in Key :
            /\ ~Allocated(k) /\ keys' = AddedKeys(k, u)
            /\ uoid' = [uoid EXCEPT ![k] = u] /\ refCnt' = [refCnt EXCEPT ![k] = 1]
      BY <1>1, <1>4, <2>2 DEF NewEntry, KeyringEntry, u, EntryUoid
    <3>2. offs' = offs \cup {x \in Key : ~Allocated(x) /\ Allocated(x)'}
      BY <2>2 DEF NewEntry
    <3>3. \A x \in Key : Registered(x)' <=> (Registered(x) \/ x = k)
      BY <1>3, <2>0, <3>1, AddedStays
    <3>4. refCnt \in [Key -> Nat] /\ uoid \in [Key -> Uoids]
      BY <1>3 DEF IInv, TypeOK, Uoids
    <3>5. Allocated(k)' /\ uoid'[k] = u
      BY <3>1, <3>4 DEF Allocated
    <3>6. k \in offs' /\ Registered(k)'
      BY <3>1, <3>2, <3>3, <3>5
    <3>7. Indexed(e)'
      BY <1>4, <3>5, <3>6 DEF Indexed, EntryUoid, u
    <3>8. \A x \in offs : x # k
      BY <1>3, <3>1 DEF OffsAllocated
    <3>9. OffsKept
      BY <1>3, <3>1, <3>2, <3>3, <3>4, <3>8 DEF OffsKept
    <3> QED
      BY <3>7, <3>9
  <2> QED
    BY <1>1, <2>1, <2>2
<1>7. \A f \in disk'[Target'] \ index' : Indexed(f)'
  <2> SUFFICES ASSUME NEW f \in disk[Target] \ index' PROVE Indexed(f)'
    BY <1>2, <1>4
  <2>1. CASE f = e
    BY <1>6, <2>1
  <2>2. CASE f # e
    <3>1. Indexed(f)
      BY <1>1, <2>2 DEF ReadInv, PageRead, IndexRead
    <3> QED
      BY <1>4, <1>6, <3>1, StaysIndexed
  <2> QED
    BY <2>1, <2>2
<1>8. \A f \in index' : f.type >= cur'.type
  BY <1>1, <1>2 DEF ReadInv, PageRead, IndexRead
<1> QED
  BY <1>2, <1>4, <1>7, <1>8 DEF IndexRead, ObjectsRead

\* The next type: no entry of this one is left.
LEMMA TypeRead ==
  ASSUME ReadInv, IInv', IndexFlags, ReadingObjects
  PROVE  IndexRead' /\ ObjectsRead'
<1>1. /\ \A e \in index : e.type # cur.type
      /\ pc = "keyring" /\ KeepOffs /\ UNCHANGED <<keys, uoid, disk, todo, index>>
      /\ \/ cur.type < NTypes /\ cur' = [cur EXCEPT !.type = @ + 1] /\ pc' = pc
         \/ cur.type = NTypes /\ pc' = "sort" /\ cur' = cur
  BY DEF IndexFlags, Collector, KeyringFlags, data, files, call
<1>2. IInv /\ offs \in SUBSET Key /\ index \in SUBSET Entry /\ cur.type \in Types
  BY PageTypes DEF ReadInv, RMTypes, OffsTyped, CallTyped, IInv, TypeOK
<1>3. Target' = Target /\ cur.loc = Target /\ \A e \in index : e.type >= cur.type
  BY <1>1 DEF ReadInv, PageRead, IndexRead, Target
<1>4. OffsKept
  BY <1>1, <1>2, CollectorKeeps DEF Registered
<1>5. \A e \in disk'[Target'] \ index' : Indexed(e)'
  BY <1>1, <1>3, <1>4, StaysIndexed DEF ReadInv, PageRead, IndexRead
<1>6. \A e \in index : e.type \in Types /\ e.type > cur.type
  BY <1>1, <1>2, <1>3 DEF Entry, Types
<1>7. CASE cur.type < NTypes /\ cur' = [cur EXCEPT !.type = @ + 1] /\ pc' = pc
  <2>1. cur'.loc = cur.loc /\ cur'.type = cur.type + 1
    BY <1>2, <1>7 DEF IInv, TypeOK
  <2>2. \A e \in index' : e.type >= cur'.type
    BY <1>1, <1>2, <1>6, <2>1 DEF Types
  <2> QED
    BY <1>1, <1>3, <1>5, <1>7, <2>1, <2>2 DEF IndexRead, ObjectsRead
<1>8. CASE cur.type = NTypes /\ pc' = "sort" /\ cur' = cur
  <2>1. index' = {}
    BY <1>1, <1>6, <1>8, LocAssumption DEF Types
  <2> QED
    BY <1>5, <1>8, <2>1 DEF IndexRead, ObjectsRead
<1> QED
  BY <1>1, <1>7, <1>8

\* Where ReadObjects begins.
Starting == IInv /\ at = Start /\ reading = App /\ Target \in Locs
NoneBehind == \A k \in Key : ~Behind(k)
LEMMA StartsBefore == Starting => NoneBehind
<1> SUFFICES ASSUME Starting, NEW k \in Key, Behind(k) PROVE FALSE
  BY DEF NoneBehind
<1>1. /\ uoid[k].type \in Types /\ keys \in [Buckets -> Seq(Key)] /\ reading # k
      /\ at.type = 1 /\ at.idx = 1
  BY KeyAssumption DEF Starting, IInv, TypeOK, Start
<1>2. ~(uoid[k].type < 1)
  BY <1>1 DEF Types
<1>3. PICK i \in DOMAIN PageBucket : i < 1
  BY <1>1, <1>2 DEF Behind
<1>4. PageBucket \in Seq(Key)
  BY <1>1, LocAssumption DEF Starting, PageBucket, Buckets, Types
<1>5. DOMAIN PageBucket \subseteq Nat \ {0}
  BY <1>4
<1> QED
  BY <1>3, <1>5

\* The same after a step.
LEMMA StartsBeforeNext == Starting' => NoneBehind'
BY StartsBefore, PTL

\* The keys of the page are sorted before its objects are read.
LEMMA SortRead ==
  ASSUME ReadInv, IInv', Collector(KeyringSort), ReadingObjects
  PROVE  IndexRead' /\ ObjectsRead'
<1>1. /\ pc = "sort" /\ pc' = "idle" /\ KeyringSort /\ KeepOffs
      /\ UNCHANGED <<uoid, disk, todo, index, at, reading>>
  BY DEF Collector, KeyringSort, files, call
<1>2. IInv /\ offs \in SUBSET Key /\ TodoTyped
  BY PageTypes DEF ReadInv, RMTypes, OffsTyped
<1>3. OffsKept
  BY <1>1, <1>2, SortStays, CollectorKeeps
<1>4. Target' = Target /\ Target \in Locs /\ index = {} /\ at = Start /\ reading = App
  BY <1>1, <1>2, FirstTyped
     DEF ReadInv, PageRead, IndexRead, Target, PageInv, Pages, Progress, ReadingObjects
<1>5. IndexRead'
  <2>1. \A e \in disk'[Target'] \ index' : Indexed(e)'
    BY <1>1, <1>3, <1>4, StaysIndexed DEF ReadInv, PageRead, IndexRead
  <2> QED
    BY <1>1, <1>4, <2>1 DEF IndexRead
<1>6. Starting'
  BY <1>1, <1>4 DEF Starting
<1>7. offs' \subseteq Key
  BY <1>1, <1>2 DEF KeepOffs
<1> QED
  BY <1>5, <1>6, <1>7, StartsBeforeNext DEF NoneBehind, ObjectsRead

-----------------------------------------------------------------------------
(* The objects.                                                            *)

\* ReadObjects goes past a key that has no offset, or has its object.
LEMMA PassedRead ==
  ASSUME ReadInv, ReadingObjects, pc = "idle", Current \in offs => Current \in loaded,
         at' = [at EXCEPT !.idx = @ + 1], reading' = App,
         UNCHANGED <<keys, uoid, loaded, pc, disk, todo, index, offs, failed>>
  PROVE  IndexRead' /\ ObjectsRead'
<1>1. /\ at'.type = at.type /\ at'.idx = at.idx + 1
      /\ at.idx \in Nat /\ PageBucket \in Seq(Key)
  BY CurrentKey, PageTypes DEF ReadInv, Ats
<1>2. Target' = Target /\ PageBucket' = PageBucket
  BY <1>1 DEF Target, PageBucket
<1>3. IndexRead'
  BY <1>2, StillKept, StaysIndexed DEF ReadInv, PageRead, IndexRead
<1>4. ASSUME ~failed, NEW k \in offs, Registered(k), uoid[k].loc = Target, Behind(k)'
      PROVE  k \in loaded
  <2>1. CASE Behind(k)
    BY <1>4, <2>1 DEF ReadInv, PageRead, ObjectsRead
  <2>2. CASE ~Behind(k)
    <3>1. k # App
      BY PageTypes DEF ReadInv, RMTypes, OffsTyped
    <3>2. uoid[k].type = at.type /\ ~(uoid[k].type < at.type)
      BY <1>1, <1>4, <2>2 DEF Behind
    <3>3. PICK i \in DOMAIN PageBucket : PageBucket[i] = k /\ i < at.idx + 1
      BY <1>1, <1>2, <1>4, <3>1, <3>2 DEF Behind
    <3>4. ~(i < at.idx)
      BY <2>2, <3>2, <3>3 DEF Behind
    <3>5. i = at.idx
      <4>1. i \in Nat
        BY <1>1, <3>3
      <4> QED
        BY <1>1, <3>3, <3>4, <4>1
    <3>6. k = Current
      BY <3>3, <3>5 DEF Current
    <3> QED
      BY <3>6
  <2> QED
    BY <2>1, <2>2
<1> QED
  BY <1>2, <1>3, <1>4 DEF ObjectsRead, Registered

\* All keys of a type are behind when its bucket is.
LEMMA TypePassed ==
  ASSUME PageInv, ReadingObjects, ~InBucket, NEW k \in Key, Registered(k),
         uoid[k].loc = Target, uoid[k].type <= at.type
  PROVE  Behind(k)
<1>1. /\ at.type \in Types /\ at.idx \in Nat /\ PageBucket \in Seq(Key)
      /\ IInv /\ uoid[k].type \in Types
  BY CurrentKey, PageTypes DEF Uoids
<1>2. CASE uoid[k].type < at.type
  BY <1>2 DEF Behind
<1>3. CASE ~(uoid[k].type < at.type)
  <2>1. uoid[k].type = at.type
    BY <1>1, <1>3 DEF Types
  <2>2. k \in Range(PageBucket)
    BY <1>1, <2>1, RegisteredAtHome DEF IInv, Home, PageBucket
  <2>3. PICK i \in DOMAIN PageBucket : PageBucket[i] = k
    BY <2>2 DEF Range
  <2>4. i < at.idx
    <3>1. Len(PageBucket) \in Nat /\ i \in 1..Len(PageBucket)
      BY <1>1, <2>3
    <3> QED
      BY <1>1, <3>1 DEF InBucket
  <2> QED
    BY <2>1, <2>3, <2>4 DEF Behind
<1> QED
  BY <1>2, <1>3

\* The steps of ReadObjects that change no key.
LEMMA PositionRead ==
  ASSUME ReadInv, ReadingObjects',
         \/ SkipObject \/ EndObject \/ NextObjectType \/ ReadStale \/ ReplaceObject
  PROVE  IndexRead' /\ ObjectsRead'
<1>1. /\ UNCHANGED <<keys, uoid, loaded, pc, disk, index, offs, failed>>
      /\ ReadingObjects /\ pc = "idle"
  <2>1. UNCHANGED <<vars, disk, index, offs, failed>>
    BY DEF SkipObject, EndObject, NextObjectType, ReadStale, ReplaceObject, files, call
  <2>2. ReadingObjects /\ pc = "idle"
    <3>1. CASE EndObject
      BY <3>1 DEF EndObject, Busy, ReadInv, PageInv, Pages, Progress
    <3> QED
      BY <3>1 DEF SkipObject, NextObjectType, ReadStale, ReplaceObject, Doing, ReadingObjects
  <2> QED
    BY <2>1, <2>2 DEF vars
<1>2. PageInv /\ offs \in SUBSET Key
  BY PageTypes DEF ReadInv, RMTypes, OffsTyped
<1>3. CASE SkipObject \/ EndObject
  <2>1. /\ todo' = todo /\ at' = [at EXCEPT !.idx = @ + 1] /\ reading' = App
        /\ Current \in offs => Busy
    BY <1>1, <1>3 DEF SkipObject, EndObject, Busy, ReadingObjects
  <2>2. Busy => Current \in loaded
    BY <1>2 DEF Busy, PageInv, Pages, Progress
  <2> QED
    BY <1>1, <2>1, <2>2, PassedRead
<1>4. CASE ReadStale \/ ReplaceObject
  <2>1. UNCHANGED <<todo, at, reading>>
    BY <1>4 DEF ReadStale, ReplaceObject, call
  <2>2. Target' = Target /\ PageBucket' = PageBucket
    BY <1>1, <2>1 DEF Target, PageBucket
  <2>3. IndexRead'
    BY <1>1, <2>2, StillKept, StaysIndexed DEF ReadInv, PageRead, IndexRead
  <2>4. \A k : (Behind(k)' <=> Behind(k)) /\ (Registered(k)' <=> Registered(k))
    BY <1>1, <2>1, <2>2 DEF Behind, Registered
  <2> QED
    BY <1>1, <2>2, <2>3, <2>4 DEF ReadInv, PageRead, ObjectsRead
<1>5. CASE NextObjectType
  <2>1. ~InBucket /\ reading' = reading
    BY <1>5 DEF NextObjectType
  <2>2. todo' = todo /\ at.type < NTypes /\ at' = [type |-> at.type + 1, idx |-> 1]
    <3>1. ASSUME todo' = Tail(todo) PROVE FALSE
      <4>1. ReadingObjects' => todo[1][1] = "index"
        BY <1>1, <1>2, <3>1, NextFollows, PageTypes DEF ReadingObjects, PageInv, Pages
      <4> QED
        BY <1>1, <4>1 DEF ReadingObjects
    <3> QED
      BY <1>5, <3>1 DEF NextObjectType
  <2>3. Target' = Target
    BY <2>2 DEF Target
  <2>4. IndexRead'
    BY <1>1, <2>3, StillKept, StaysIndexed DEF ReadInv, PageRead, IndexRead
  <2>5. ASSUME ~failed, NEW k \in offs, Registered(k), uoid[k].loc = Target, Behind(k)'
        PROVE  k \in loaded
    <3>1. /\ at.type \in Types /\ uoid[k].type \in Types /\ k \in Key
          /\ at'.type = at.type + 1 /\ at'.idx = 1 /\ Target \in Locs
      BY <1>1, <1>2, <2>2, CurrentKey, PageTypes DEF Uoids
    <3>2. at'.type \in Types
      BY <2>2, <3>1, LocAssumption DEF Types
    <3>3. PageBucket' \in Seq(Key)
      BY <1>1, <1>2, <2>3, <3>1, <3>2, PageTypes DEF PageBucket, Buckets
    <3>4. \A i \in DOMAIN PageBucket' : ~(i < 1)
      BY <3>3
    <3>5. uoid[k].type <= at.type
      <4>1. CASE uoid[k].type < at.type + 1
        BY <3>1, <4>1 DEF Types
      <4>2. CASE ~(uoid[k].type < at.type + 1)
        <5>1. PICK i \in DOMAIN PageBucket' : PageBucket'[i] = k /\ (i < 1 \/ (i = 1 /\ reading = k))
          BY <1>1, <2>1, <2>5, <3>1, <4>2 DEF Behind
        <5>2. reading # k
          BY <1>5, <1>2, <3>1, PageTypes DEF NextObjectType, Busy
        <5> QED
          BY <3>4, <5>1, <5>2
      <4> QED
        BY <4>1, <4>2
    <3>6. Behind(k)
      BY <1>1, <1>2, <2>1, <2>5, <3>1, <3>5, TypePassed
    <3> QED
      BY <1>1, <2>5, <3>6 DEF ReadInv, PageRead, ObjectsRead
  <2> QED
    BY <1>1, <2>3, <2>4, <2>5 DEF ObjectsRead, Registered
<1> QED
  BY <1>3, <1>4, <1>5

\* The object of a key that ReadObjects is at.
LEMMA BeginRead ==
  ASSUME ReadInv, BeginObject
  PROVE  IndexRead' /\ ObjectsRead'
<1>1. /\ ReadingObjects /\ pc = "idle" /\ InBucket /\ reading' = Current
      /\ loaded' = loaded \cup {Current}
      /\ UNCHANGED <<keys, uoid, pc, disk, todo, at, index, offs, failed>>
  BY DEF BeginObject, Doing, ReadingObjects, LoadObject, Idle, files, registry
<1>2. Target' = Target /\ PageBucket' = PageBucket
  BY <1>1 DEF Target, PageBucket
<1>3. IndexRead'
  BY <1>1, <1>2, StillKept, StaysIndexed DEF ReadInv, PageRead, IndexRead
<1>4. ASSUME ~failed, NEW k \in offs, Registered(k), uoid[k].loc = Target, Behind(k)'
      PROVE  k \in loaded'
  <2>1. CASE k = Current
    BY <1>1, <2>1
  <2>2. CASE k # Current
    <3>1. Behind(k)
      BY <1>1, <1>2, <1>4, <2>2 DEF Behind
    <3>2. k \in loaded
      BY <1>1, <1>4, <3>1 DEF ReadInv, PageRead, ObjectsRead
    <3> QED
      BY <1>1, <3>2
  <2> QED
    BY <2>1, <2>2
<1> QED
  BY <1>1, <1>2, <1>3, <1>4 DEF ObjectsRead, Registered

\* The keys that are there stay what they are when a reference is read.
LEMMA ReferenceKeeps ==
  ASSUME IInv, NEW h, NEW u \in Uoid, ReadsKey(h, u), NEW k \in Key, Allocated(k)
  PROVE  uoid'[k] = uoid[k] /\ (Registered(k)' <=> Registered(k))
<1>1. CASE ReadKnownKey(h, u, 0) \/ ParseKnownKey(h, u)
  BY <1>1 DEF ReadKnownKey, ParseKnownKey, KnownKey, registry, Registered
<1>2. CASE ReadNewKey(h, u, 0)
  <2>1. PICK x \in Key : /\ ~Allocated(x) /\ keys' = AddedKeys(x, u)
                         /\ uoid' = [uoid EXCEPT ![x] = u]
    BY <1>2 DEF ReadNewKey
  <2>2. Registered(k)' <=> (Registered(k) \/ k = x)
    BY <2>1, AddedStays
  <2>3. k # x
    BY <2>1
  <2> QED
    BY <2>1, <2>2, <2>3 DEF IInv, TypeOK
<1> QED
  BY <1>1, <1>2 DEF ReadsKey

\* A reference: the new keys have no offset.
LEMMA ReferenceReadOn ==
  ASSUME ReadInv, IInv', ReadReference
  PROVE  IndexRead' /\ ObjectsRead'
<1>1. PICK u \in body : ReadsKey(reading, u)
  BY DEF ReadReference, ReadsKey
<1>2. UNCHANGED <<disk, todo, at, reading, index, offs, failed>> /\ reading # App
  BY DEF ReadReference, Busy, files
<1>3. /\ PageInv /\ IInv /\ offs \in SUBSET Key /\ u \in Uoid /\ OffsAllocated
  BY <1>1, PageTypes DEF ReadInv, PageRead, RMTypes, OffsTyped, CallTyped
<1>4. ReadingObjects /\ pc = "idle" /\ InBucket /\ reading = Current /\ reading \in loaded
  BY <1>2, <1>3 DEF PageInv, Pages, Progress
<1>5. /\ loaded' = loaded /\ pc' = pc
      /\ \A b \in Buckets : \A i \in DOMAIN keys[b] :
           i \in DOMAIN keys'[b] /\ keys'[b][i] = keys[b][i]
  BY <1>1, <1>3, <1>4, ReferenceRead
<1>6. \A k \in offs : uoid'[k] = uoid[k] /\ (Registered(k)' <=> Registered(k))
  BY <1>1, <1>3, ReferenceKeeps DEF OffsAllocated
<1>7. Target' = Target /\ OffsKept
  BY <1>2, <1>6 DEF Target, OffsKept
<1>8. IndexRead'
  BY <1>2, <1>4, <1>5, <1>7, StaysIndexed DEF ReadInv, PageRead, IndexRead
<1>9. ASSUME ~failed, NEW k \in offs, Registered(k), uoid[k].loc = Target, Behind(k)'
      PROVE  k \in loaded
  <2>1. /\ <<Target, at.type>> \in Buckets /\ PageBucket \in Seq(Key)
        /\ at.idx \in DOMAIN PageBucket /\ at.idx \in Nat
    BY <1>3, <1>4, CurrentKey
  <2>2. uoid'[k] = uoid[k]
    BY <1>6
  <2>3. CASE uoid[k].type < at.type
    <3>1. Behind(k)
      BY <2>3 DEF Behind
    <3> QED
      BY <1>4, <1>9, <3>1 DEF ReadInv, PageRead, ObjectsRead
  <2>4. CASE ~(uoid[k].type < at.type)
    <3>1. uoid[k].type = at.type
      BY <1>2, <1>9, <2>2, <2>4 DEF Behind
    <3>2. PICK i \in DOMAIN keys'[<<Target, at.type>>] :
            /\ keys'[<<Target, at.type>>][i] = k
            /\ i < at.idx \/ (i = at.idx /\ reading = k)
      BY <1>2, <1>7, <1>9, <2>2, <2>4 DEF Behind, PageBucket
    <3>3. CASE reading = k
      BY <1>4, <3>3
    <3>4. CASE i < at.idx
      <4>1. i \in Nat \ {0}
        <5>1. keys'[<<Target, at.type>>] \in Seq(Key)
          BY <2>1 DEF IInv, TypeOK
        <5> QED
          BY <3>2, <5>1
      <4>2. i \in DOMAIN PageBucket
        BY <2>1, <3>4, <4>1
      <4>3. PageBucket[i] = k
        BY <1>5, <2>1, <3>2, <4>2 DEF PageBucket
      <4>4. Behind(k)
        BY <3>1, <3>4, <4>2, <4>3 DEF Behind
      <4> QED
        BY <1>4, <1>9, <4>4 DEF ReadInv, PageRead, ObjectsRead
    <3> QED
      BY <3>2, <3>3, <3>4
  <2> QED
    BY <2>3, <2>4
<1> QED
  BY <1>2, <1>5, <1>6, <1>7, <1>8, <1>9 DEF ObjectsRead

\* An object that fails: its key stays, and the page will not be whole.
LEMMA FailRead ==
  ASSUME ReadInv, IInv', FailObject
  PROVE  IndexRead' /\ ObjectsRead'
<1>1. /\ ReadingObjects /\ pc = "idle" /\ failed' /\ KeepOffs
      /\ UNCHANGED <<keys, pc, disk, todo, index>> /\ (reading # App \/ InBucket)
      /\ \E rc : Settle(uoid, id, rc)
  BY DEF FailObject, Doing, ReadingObjects, Busy, files, registry
<1>2. PageInv /\ IInv /\ offs \in SUBSET Key
  BY PageTypes DEF ReadInv, RMTypes, OffsTyped
<1>3. ASSUME NEW k \in Key, Registered(k) PROVE Registered(k)' /\ uoid'[k] = uoid[k]
  <2>1. Registered(k)'
    BY <1>1, <1>3 DEF Registered
  <2>2. Owned(k)'
    BY <2>1 DEF Owned
  <2>3. refCnt'[k] # 0
    BY <2>2, OwnedStaysAllocated DEF OwnedAllocated
  <2> QED
    BY <1>1, <2>1, <2>3 DEF Settle
<1>4. OffsKept
  BY <1>1, <1>2, <1>3, CollectorKeeps
<1>5. Target' = Target
  BY <1>1 DEF Target
<1>6. IndexRead'
  BY <1>1, <1>4, <1>5, StaysIndexed DEF ReadInv, PageRead, IndexRead
<1> QED
  BY <1>1, <1>6 DEF ObjectsRead

-----------------------------------------------------------------------------
(* The result.                                                             *)

\* Every step of PageSpec.
LEMMA ReadStep == ReadInv /\ [PageCalls \/ Work]_allVars => ReadInv'
<1> SUFFICES ASSUME ReadInv, (PageCalls \/ Work) \/ UNCHANGED allVars PROVE ReadInv'
  OBVIOUS
<1>1. PageInv'
  BY PageStep DEF ReadInv
<1>2. IInv' /\ OffsAllocated'
  BY <1>1, OffsStep DEF PageInv, OnePage, RMInv
<1>3. ASSUME ReadingObjects' PROVE IndexRead' /\ ObjectsRead'
  <2>1. CASE UNCHANGED allVars
    <3>1. UNCHANGED <<keys, uoid, loaded, pc, cur, disk, todo, index, offs, at, reading, failed>>
      BY <2>1 DEF allVars, rmVars, vars
    <3>2. Target' = Target /\ PageBucket' = PageBucket /\ ReadingObjects
      BY <1>3, <3>1 DEF Target, PageBucket, ReadingObjects
    <3>3. IndexRead'
      BY <3>1, <3>2, StillKept, StaysIndexed DEF ReadInv, PageRead, IndexRead
    <3>4. \A k : (Behind(k)' <=> Behind(k)) /\ (Registered(k)' <=> Registered(k))
      BY <3>1, <3>2 DEF Behind, Registered
    <3> QED
      BY <3>1, <3>2, <3>3, <3>4 DEF ReadInv, PageRead, ObjectsRead
  <2>2. CASE PageCalls
    BY <1>3, <2>2, NotReadingNext DEF ReadInv
  <2>3. CASE Work
    <3>1. ~Parsing /\ ~AgeStep
      BY NoParsing DEF ReadInv
    <3>2. ~(\/ UnloadRegistered \/ UnloadUnknown \/ FileThrows \/ IndexThrows
            \/ Collector(DelAllKey \/ DelAllNext \/ CleanupKey \/ CleanupNext))
      BY <1>3, NotReadingNext DEF ReadInv
    <3>3. CASE BeginIndex
      BY <1>3, <3>3, IndexBegun
    <3>4. CASE IndexEntry \/ IndexFlags \/ Collector(KeyringSort)
      <4>1. ReadingObjects
        BY <1>3, <3>4 DEF IndexEntry, IndexFlags, Collector, ReadingObjects
      <4> QED
        BY <1>2, <3>4, <4>1, EntryRead, TypeRead, SortRead
    <3>5. CASE \/ SkipObject \/ EndObject \/ NextObjectType \/ ReadStale \/ ReplaceObject
               \/ BeginObject \/ ReadReference \/ FailObject
      BY <1>2, <1>3, <3>5, PositionRead, BeginRead, ReferenceReadOn, FailRead
    <3> QED
      BY <2>3, <3>1, <3>2, <3>3, <3>4, <3>5 DEF Work, Collector, Parsing, AgeStep
  <2> QED
    BY <2>1, <2>2, <2>3
<1> QED
  BY <1>1, <1>2, <1>3 DEF ReadInv, PageRead

\* No page is being read yet.
LEMMA ReadInit == RMInit => ReadInv
BY PageInit DEF RMInit, ReadInv, PageRead, OffsAllocated, ReadingObjects

\* ReadObjects leaves a page when it has been at all of its types, and then every
\* entry of the file has its key, and the key its object.
LEMMA PageDone ==
  ASSUME ReadInv, (PageCalls \/ Work) \/ UNCHANGED allVars,
         Doing("objects"), todo' = Tail(todo), todo' # todo, ~failed,
         NEW e \in disk[Target]
  PROVE  Parsed(e)
<1>1. ReadingObjects /\ pc = "idle" /\ todo # <<>> /\ PageInv
  BY DEF Doing, ReadingObjects, ReadInv
<1>2. NextObjectType
  <2>1. ~UNCHANGED allVars
    BY DEF allVars, rmVars
  <2>2. ~PageCalls
    <3>1. CASE EditKeys \/ \E l \in Locs : AddPage(l) \/ ReplaceFile(l)
      BY <1>1, <3>1 DEF EditKeys, AddPage, ReplaceFile, Free
    <3>2. CASE UnloadAge \/ \E l \in Locs : ReadPage(l) \/ UnloadPage(l)
      BY <1>1, <3>2 DEF ReadPage, UnloadPage, UnloadAge, Begin, Free
    <3> QED
      BY <3>1, <3>2 DEF PageCalls
  <2>3. ~Parsing /\ ~AgeStep
    BY <1>1, NoParsing
  <2>4. ~(UnloadRegistered \/ UnloadUnknown \/ BeginIndex \/ FileThrows \/ IndexThrows)
    BY DEF UnloadRegistered, UnloadUnknown, BeginIndex, FileThrows, IndexThrows,
           KeyringThrows, Doing
  <2>5. ~(\/ IndexEntry \/ IndexFlags \/ SkipObject \/ BeginObject \/ ReplaceObject
          \/ ReadStale \/ ReadReference \/ EndObject \/ FailObject
          \/ Collector(DelAllKey \/ DelAllNext \/ CleanupKey \/ CleanupNext \/ KeyringSort))
    BY DEF IndexEntry, IndexFlags, SkipObject, BeginObject, ReplaceObject, ReadStale,
           ReadReference, EndObject, FailObject, Collector
  <2> QED
    BY <2>1, <2>2, <2>3, <2>4, <2>5 DEF Work, Parsing, AgeStep
<1>3. ~InBucket /\ at.type = NTypes
  <2>1. ~InBucket /\ (todo' = todo \/ at.type = NTypes)
    BY <1>2 DEF NextObjectType
  <2> QED
    BY <2>1
<1>4. PICK k \in offs : Registered(k) /\ uoid[k] = EntryUoid(Target, e)
  BY <1>1 DEF ReadInv, PageRead, IndexRead, Indexed
<1>5. k \in Key /\ uoid[k].loc = Target /\ uoid[k].type \in Types
  BY <1>1, <1>4, PageTypes DEF RMTypes, OffsTyped, EntryUoid, Uoids
<1>6. uoid[k].type <= at.type
  BY <1>3, <1>5 DEF Types
<1>7. Behind(k)
  BY <1>1, <1>3, <1>4, <1>5, <1>6, TypePassed
<1>8. k \in loaded
  BY <1>1, <1>4, <1>5, <1>7 DEF ReadInv, PageRead, ObjectsRead
<1> QED
  BY <1>4, <1>8 DEF Parsed

\* When ReadObjects is done with a page and none of its objects has failed, every
\* object of the page file is registered and loaded: the index gives each of them
\* a key, and the loop passes every key with an offset, although the references
\* that it reads add keys to the vectors it is in (plResManager::ReadKeyring,
\* ReadObjects).
THEOREM PagesAreLoaded == PageSpec => PageIsLoaded
<1> DEFINE Done == (Doing("objects") /\ todo' = Tail(todo) /\ todo' # todo /\ ~failed) =>
                     \A e \in disk[Target] : Parsed(e)
<1>1. RMInit => ReadInv
  BY ReadInit
<1>2. ReadInv /\ [PageCalls \/ Work]_allVars => ReadInv'
  BY ReadStep
<1>3. ReadInv /\ [PageCalls \/ Work]_allVars => [Done]_allVars
  BY PageDone
<1> QED
  BY <1>1, <1>2, <1>3, PTL DEF PageSpec, PageIsLoaded
=============================================================================
