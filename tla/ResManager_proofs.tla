--------------------------- MODULE ResManager_proofs ---------------------------
(***************************************************************************)
(* What holds of the manager for every number of keys, pages, objects and  *)
(* for every contents of the page files: its types, the counts of the keys *)
(* under all its calls, one page for a location, and all that holds of the *)
(* registry by itself (KeyCollector_proofs).                               *)
(***************************************************************************)
EXTENDS ResManager, KeyCollector_proofs

Ats == [type : Types, idx : Nat \ {0}]
Whats == {"unload", "index", "open", "deleted", "objects", "parse", "push"}

FilesTyped == disk \in [Locs -> SUBSET Entry] /\ pages \in Seq(Locs)
TodoTyped == todo \in Seq(Instruction)
OffsTyped == offs \in SUBSET Key
CallTyped ==
  /\ index \in SUBSET Entry /\ at \in Ats /\ body \in SUBSET Uoid
  /\ reading \in Key \cup {App} /\ failed \in BOOLEAN
UndefinedTyped == undefined \in {"no", "replaced", "stale", "deleted"}

RMTypes == FilesTyped /\ TodoTyped /\ OffsTyped /\ CallTyped /\ UndefinedTyped

\* The invariant of the collector holds under the manager's calls as well.
RMInv == IInv /\ RMTypes

\* A page is registered by an instruction that comes right behind the unload of
\* its location, or that finds it unloaded.
Registers(i) == todo[i][1] \in {"index", "push"}
UnloadsFirst ==
  \A i \in 1..Len(todo) : Registers(i) =>
    IF i = 1 THEN todo[1][2] \notin Range(pages)
    ELSE todo[i - 1] = <<"unload", todo[i][2]>>

-----------------------------------------------------------------------------
(* Programs and pages.                                                     *)

\* The first instruction.
LEMMA FirstTyped ==
  ASSUME TodoTyped, todo # <<>>
  PROVE  /\ todo[1] \in Instruction /\ todo[1][1] \in Whats /\ todo[1][2] \in Locs
         /\ Tail(todo) \in Seq(Instruction)
<1>1. todo \in Seq(Instruction) /\ Len(todo) \in Nat /\ Len(todo) # 0
  BY DEF TodoTyped
<1>2. todo[1] \in Instruction
  BY <1>1
<1>3. Tail(todo) \in Seq(Instruction)
  BY <1>1
<1> QED
  BY <1>2, <1>3 DEF Instruction, Whats

\* The first page with a location goes out of the list.
LEMMA RemovedPage ==
  ASSUME NEW s \in Seq(Locs), NEW l \in Range(s)
  PROVE  /\ RemoveFirst(s, l) \in Seq(Locs)
         /\ IsInjective(s) => /\ IsInjective(RemoveFirst(s, l))
                              /\ Range(RemoveFirst(s, l)) = Range(s) \ {l}
<1> DEFINE I == {i \in 1..Len(s) : s[i] = l}
<1>1. Len(s) \in Nat /\ DOMAIN s = 1..Len(s)
  OBVIOUS
<1>2. I # {} /\ I \subseteq 1..Len(s) /\ I \in SUBSET Nat
  BY <1>1 DEF Range
<1>3. Min(I) \in I
  <2>1. \E n \in I : \A m \in I : n <= m
    BY <1>2, LeastNumber
  <2> HIDE DEF I
  <2> QED
    BY <2>1, ZenonT(20) DEF Min
<1>4. RemoveFirst(s, l) = RemoveAt(s, Min(I))
  <2>1. \E i \in 1..Len(s) : s[i] = l
    BY <1>2
  <2>2. SelectInSeq(s, LAMBDA v : v = l) = Min(I)
    BY <1>2 DEF SelectInSeq
  <2> QED
    BY <2>1, <2>2 DEF RemoveFirst
<1>5. Min(I) \in 1..Len(s) /\ s[Min(I)] = l
  BY <1>3
<1> HIDE DEF I
<1>6. RemoveAt(s, Min(I)) \in Seq(Locs)
  BY <1>5, RemoveAtSeq
<1>7. IsInjective(s) => /\ IsInjective(RemoveAt(s, Min(I)))
                        /\ Range(RemoveAt(s, Min(I))) = Range(s) \ {l}
  BY <1>5, RemoveAtRange
<1> QED
  BY <1>4, <1>6, <1>7

\* The uoid of an entry.
LEMMA EntryHasUoid ==
  ASSUME NEW l \in Locs, NEW e \in Entry
  PROVE  /\ EntryUoid(l, e) \in Uoid /\ e.uses \in SUBSET Uoid
         /\ e.type \in Types /\ e.name \in Names
BY DEF Entry, EntryUoid, Uoid

\* A function on 1..k is a sequence.
LEMMA FunctionIsSeq ==
  ASSUME NEW S, NEW k \in Nat, NEW f \in [1..k -> S]
  PROVE  f \in Seq(S) /\ Len(f) = k
OBVIOUS

\* The program of ReadAge: the pages are registered in its first half.
LEMMA ReadAgeTyped ==
  ASSUME NEW age \in Ages
  PROVE  /\ Len(age) \in Nat
         /\ ReadAgeProgram(age) \in Seq(Instruction)
         /\ Len(ReadAgeProgram(age)) = 4 * Len(age)
         /\ \A i \in 1..2 * Len(age) : ReadAgeProgram(age)[i] =
              <<IF i % 2 = 1 THEN "unload" ELSE "index", age[(i + 1) \div 2]>>
         /\ \A i \in 2 * Len(age) + 1..4 * Len(age) :
              ReadAgeProgram(age)[i][1] \in {"objects", "open", "deleted"}
<1> DEFINE n == Len(age)
           P == [i \in 1..2 * n |->
                   <<IF i % 2 = 1 THEN "unload" ELSE "index", age[(i + 1) \div 2]>>]
           Q == [i \in 1..2 * n |->
                   <<IF i % 2 = 0 THEN "objects"
                     ELSE IF ListedAgain(age, (i + 1) \div 2) THEN "deleted" ELSE "open",
                     age[(i + 1) \div 2]>>]
<1>1. n \in Nat /\ age \in Seq(Locs) /\ DOMAIN age = 1..n
  BY PageAssumption
<1>2. ASSUME NEW i \in 1..2 * n PROVE P[i] \in Instruction /\ Q[i] \in Instruction
  <2>1. (i + 1) \div 2 \in 1..n
    BY <1>1
  <2>2. age[(i + 1) \div 2] \in Locs
    BY <1>1, <2>1
  <2> QED
    BY <2>2 DEF Instruction
<1>4. /\ P \in Seq(Instruction) /\ Len(P) = 2 * n
      /\ Q \in Seq(Instruction) /\ Len(Q) = 2 * n
  <2>1. P \in [1..2 * n -> Instruction] /\ Q \in [1..2 * n -> Instruction]
    BY <1>2
  <2>2. 2 * n \in Nat
    BY <1>1
  <2> HIDE DEF P, Q
  <2> QED
    BY <2>1, <2>2, FunctionIsSeq
<1>5. /\ \A i \in 1..2 * n : P[i] = <<IF i % 2 = 1 THEN "unload" ELSE "index",
                                     age[(i + 1) \div 2]>>
      /\ \A i \in 1..2 * n : Q[i][1] \in {"objects", "open", "deleted"}
  OBVIOUS
<1>6. ReadAgeProgram(age) = P \o Q
  BY <1>1 DEF ReadAgeProgram
<1> HIDE DEF P, Q
<1>7. /\ P \o Q \in Seq(Instruction) /\ Len(P \o Q) = 4 * n
      /\ \A i \in 1..2 * n : (P \o Q)[i] = P[i]
      /\ \A i \in 2 * n + 1..4 * n : (P \o Q)[i] = Q[i - 2 * n]
  <2>1. /\ P \o Q \in Seq(Instruction) /\ Len(P \o Q) = Len(P) + Len(Q)
        /\ \A i \in 1..Len(P) + Len(Q) :
             (P \o Q)[i] = IF i <= Len(P) THEN P[i] ELSE Q[i - Len(P)]
    BY <1>4, ConcatProperties
  <2>2. Len(P) = 2 * n /\ Len(Q) = 2 * n /\ Len(P) + Len(Q) = 4 * n
    BY <1>1, <1>4
  <2> QED
    BY <1>1, <2>1, <2>2
<1>8. ASSUME NEW i \in 2 * n + 1..4 * n
      PROVE  (P \o Q)[i][1] \in {"objects", "open", "deleted"}
  <2>1. i - 2 * n \in 1..2 * n
    BY <1>1
  <2> QED
    BY <1>5, <1>7, <2>1
<1> QED
  BY <1>1, <1>5, <1>6, <1>7, <1>8

-----------------------------------------------------------------------------
(* What the manager does to keys beside the collector's own actions.       *)

\* Nothing.
LEMMA StillInv == ASSUME IInv, UNCHANGED vars PROVE IInv'
<1>1. UNCHANGED <<keys, notOpt, uoid, id, refCnt, loaded, refs, pc, cur>>
  BY DEF vars
<1> QED
  BY <1>1, QuietStepInv DEF IInv, TypeOK, Anchored, data

\* A parsed object has a new key: the registry and the object own it.
LEMMA ParseNewInv ==
  ASSUME IInv, NEW u \in Uoid, ParseNew(u)
  PROVE  IInv' /\ reading' \in Key
<1>1. PICK k \in Key :
        /\ ~Allocated(k)
        /\ keys' = AddedKeys(k, u)
        /\ notOpt' = notOpt \cup {<<u.loc, u.type>>}
        /\ uoid' = [uoid EXCEPT ![k] = u]
        /\ id' = [id EXCEPT ![k] = AddedID(u, 0)]
        /\ refCnt' = [refCnt EXCEPT ![k] = 2]
        /\ loaded' = loaded \cup {k}
        /\ reading' = k
  BY DEF ParseNew
<1>2. UNCHANGED <<refs, pc, cur>>
  BY DEF ParseNew
<1>3. refCnt[k] = 0
  BY <1>1 DEF Allocated, IInv, TypeOK
<1>4. /\ ~Registered(k) /\ k \notin loaded /\ HeldCount(refs, k) = 0
  BY <1>3, FreeHasNoOwner DEF IInv, HeldCount
<1>5. u \in Uoids /\ <<u.loc, u.type>> \in Buckets /\ 0 \in IDs /\ u.loc # NoLoc
  BY UoidBucket, IDAssumption DEF IDs, Uoid, Locs, NoLoc
<1>6. /\ keys' \in [Buckets -> Seq(Key)] /\ uoid' \in [Key -> Uoids] /\ Placed'
      /\ \A x \in Key : Registered(x)' <=> (Registered(x) \/ x = k)
      /\ Anchored'
  BY <1>1, <1>2, <1>4, <1>5, AddedKey DEF IInv, Anchored
<1>7. TypeOK'
  <2>1. AddedID(u, 0) \in IDs
    BY <1>5, AddedIDType DEF IInv
  <2> QED
    BY <1>1, <1>2, <1>5, <1>6, <2>1 DEF IInv, TypeOK, Uoids, IDs
<1>8. ASSUME NEW x \in Key PROVE Owners(x)' <= refCnt'[x]
  <2>1. Owners(x) <= refCnt[x] /\ refCnt[x] \in Nat
    BY DEF IInv, CountCoversOwners, TypeOK
  <2>2. HeldCount(refs', x) = HeldCount(refs, x)
    BY <1>2
  <2>3. CASE x = k
    <3>1. HeldCount(refs', x) = 0 /\ refCnt'[x] = 2
      BY <1>1, <1>4, <2>2, <2>3 DEF IInv, TypeOK
    <3> QED
      BY <3>1, OwnersSum, CountBit
  <2>4. CASE x # k
    <3>1. Count(Registered(x)') = Count(Registered(x))
      BY <1>6, <2>4 DEF Count
    <3>2. Count(x \in loaded') = Count(x \in loaded)
      BY <1>1, <2>4 DEF Count
    <3>3. refCnt'[x] = refCnt[x]
      BY <1>1, <2>4 DEF IInv, TypeOK
    <3> QED
      BY <2>1, <2>2, <3>1, <3>2, <3>3, OwnersSum, CountBit
  <2> QED
    BY <2>3, <2>4
<1> QED
  BY <1>1, <1>6, <1>7, <1>8 DEF IInv, CountCoversOwners

\* A parsed object whose key is loaded takes a reference that nobody gives back.
LEMMA ParseLoadedInv ==
  ASSUME IInv, NEW k \in Key, refCnt' = [refCnt EXCEPT ![k] = @ + 1],
         UNCHANGED <<registry, uoid, id, loaded, refs, pc, cur>>
  PROVE  IInv'
<1>1. UNCHANGED <<keys, notOpt, uoid, id, loaded, refs, pc, cur>>
  BY DEF registry
<1>2. refCnt \in [Key -> Nat] /\ refCnt' \in [Key -> Nat]
  BY DEF IInv, TypeOK
<1>3. TypeOK' /\ Placed' /\ Anchored'
  BY <1>1, <1>2 DEF IInv, TypeOK, Placed, PlacedIn, Anchored
<1>4. ASSUME NEW x \in Key PROVE Owners(x)' <= refCnt'[x]
  <2>1. Owners(x)' = Owners(x)
    BY <1>1 DEF Owners, Registered
  <2>2. Owners(x) <= refCnt[x]
    BY DEF IInv, CountCoversOwners
  <2>3. refCnt'[x] \in {refCnt[x], refCnt[x] + 1}
    BY <1>2
  <2>4. Owners(x) \in Int
    BY OwnersSum, CountBit
  <2> QED
    BY <1>2, <2>1, <2>2, <2>3, <2>4
<1> QED
  BY <1>3, <1>4 DEF IInv, CountCoversOwners

\* An object that fails is deleted with the plKeys it has read so far.
LEMMA FailObjectInv ==
  ASSUME IInv, FailObject
  PROVE  IInv'
<1> DEFINE d == Current
           rc == [x \in Key |-> refCnt[x] - DeleteObjDrop(d, x)]
<1>1. /\ Settle(uoid, id, rc) /\ DeleteObj(d)
      /\ UNCHANGED <<keys, notOpt, pc, cur>>
  BY DEF FailObject, registry
<1>2. /\ keys \in [Buckets -> Seq(Key)] /\ uoid \in [Key -> Uoids]
      /\ id \in [Key -> IDs] /\ refCnt \in [Key -> Nat]
      /\ loaded \in SUBSET Key /\ refs \in [Holders -> SUBSET Key]
  BY DEF IInv, TypeOK, Uoids, IDs
<1> HIDE DEF d
<1>3. loaded' \in SUBSET Key /\ refs' \in [Holders -> SUBSET Key]
  <2>1. CASE d \in Key
    BY <1>1, <2>1, DeletedTypes DEF IInv
  <2>2. CASE d \notin Key
    BY <1>1, <1>2, <2>2 DEF DeleteObj
  <2> QED
    BY <2>1, <2>2
<1>4. ASSUME NEW x \in Key PROVE rc[x] \in Int /\ Owners(x)' <= rc[x]
  <2>1. Owners(x) <= refCnt[x] /\ refCnt[x] \in Nat
    BY <1>2 DEF IInv, CountCoversOwners
  <2>2. Count(x \in loaded') + HeldCount(refs', x)
          = Count(x \in loaded) + HeldCount(refs, x) - DeleteObjDrop(d, x)
    <3>1. CASE d \in Key
      BY <1>1, <3>1, DeletedOwners DEF IInv
    <3>2. CASE d \notin Key
      <4>1. loaded' = loaded /\ refs' = refs /\ DeleteObjDrop(d, x) = 0
        BY <1>1, <1>2, <3>2 DEF DeleteObj, DeleteObjDrop
      <4> QED
        BY <4>1, OwnersSum, CountBit
    <3> QED
      BY <3>1, <3>2
  <2>3. DeleteObjDrop(d, x) \in Int
    BY DEF DeleteObjDrop, Dropped, Count
  <2>4. rc[x] = refCnt[x] - DeleteObjDrop(d, x)
    OBVIOUS
  <2>5. Count(Registered(x)') = Count(Registered(x))
    BY <1>1 DEF Registered
  <2> HIDE DEF rc
  <2> QED
    BY <2>1, <2>2, <2>3, <2>4, <2>5, OwnersSum, CountBit
<1>5. rc \in [Key -> Int]
  BY <1>4
<1> HIDE DEF rc
<1>6. keys' \in [Buckets -> Seq(Key)] /\ PlacedIn(keys', uoid)
  BY <1>1, <1>2 DEF IInv, Placed
<1>7. /\ uoid' \in [Key -> Uoids] /\ id' \in [Key -> IDs]
      /\ refCnt' \in [Key -> Nat] /\ Placed' /\ CountCoversOwners'
  BY <1>1, <1>2, <1>4, <1>5, <1>6, SettledCounts
<1>8. TypeOK'
  BY <1>1, <1>3, <1>6, <1>7 DEF IInv, TypeOK, Uoids, IDs
<1>9. Anchored'
  BY <1>1 DEF IInv, Anchored
<1> QED
  BY <1>7, <1>8, <1>9 DEF IInv

-----------------------------------------------------------------------------
(* The calls.                                                              *)

\* A call that starts leaves the keys and the pages alone.
LEMMA BeginInv ==
  ASSUME RMInv, NEW program \in Seq(Instruction), Begin(program)
  PROVE  RMInv'
<1>1. UNCHANGED <<vars, disk, pages, index, offs, at, body, reading, undefined>>
  BY DEF Begin, files
<1>2. IInv'
  BY <1>1, StillInv DEF RMInv
<1>3. todo' = program /\ failed' = FALSE
  BY DEF Begin
<1>4. FilesTyped' /\ TodoTyped' /\ OffsTyped' /\ UndefinedTyped'
  BY <1>1, <1>3 DEF RMInv, RMTypes, FilesTyped, TodoTyped, OffsTyped, UndefinedTyped
<1>5. CallTyped'
  BY <1>1, <1>3 DEF RMInv, RMTypes, CallTyped
<1> QED
  BY <1>2, <1>4, <1>5 DEF RMInv, RMTypes

\* Two instructions, and three.
LEMMA ShortPrograms ==
  ASSUME NEW a \in Instruction, NEW b \in Instruction, NEW c \in Instruction
  PROVE  /\ <<a>> \in Seq(Instruction) /\ <<a, b, c>> \in Seq(Instruction)
OBVIOUS

\* The programs of ReadPage, UnloadPage, UnloadAge, ReadAge and ReadPagePrc.
LEMMA ProgramsInv ==
  ASSUME RMInv, NEW l \in Locs,
         ReadPage(l) \/ UnloadPage(l) \/ UnloadAge \/ ReadAge \/ ReadPagePrc(l)
  PROVE  RMInv'
<1>1. \A w \in Whats : <<w, l>> \in Instruction
  BY DEF Whats, Instruction
<1>2. CASE ReadPage(l) \/ UnloadPage(l) \/ ReadPagePrc(l)
  <2>1. /\ << <<"unload", l>>, <<"index", l>>, <<"objects", l>> >> \in Seq(Instruction)
        /\ << <<"unload", l>> >> \in Seq(Instruction)
        /\ << <<"parse", l>>, <<"unload", l>>, <<"push", l>> >> \in Seq(Instruction)
    <3>1. /\ <<"unload", l>> \in Instruction /\ <<"index", l>> \in Instruction
          /\ <<"objects", l>> \in Instruction /\ <<"parse", l>> \in Instruction
          /\ <<"push", l>> \in Instruction
      BY <1>1 DEF Whats
    <3> QED
      BY <3>1, ShortPrograms
  <2> QED
    BY <1>2, <2>1, BeginInv DEF ReadPage, UnloadPage, ReadPagePrc
<1>3. CASE UnloadAge
  <2> DEFINE program == [i \in DOMAIN pages |-> <<"unload", pages[i]>>]
  <2>1. pages \in Seq(Locs)
    BY DEF RMInv, RMTypes, FilesTyped
  <2>2. Len(pages) \in Nat /\ DOMAIN pages = 1..Len(pages)
        /\ \A i \in 1..Len(pages) : pages[i] \in Locs
    BY <2>1
  <2>3. program \in [1..Len(pages) -> Instruction]
    BY <2>2 DEF Instruction
  <2>4. Begin(program)
    BY <1>3 DEF UnloadAge
  <2> HIDE DEF program
  <2>5. program \in Seq(Instruction)
    BY <2>2, <2>3, FunctionIsSeq
  <2> QED
    BY <2>4, <2>5, BeginInv
<1>4. CASE ReadAge
  <2>1. PICK age \in Ages : Begin(ReadAgeProgram(age))
    BY <1>4 DEF ReadAge
  <2> QED
    BY <2>1, ReadAgeTyped, BeginInv
<1> QED
  BY <1>2, <1>3, <1>4

\* The pages that DelPage leaves.
LEMMA RemainingPages ==
  ASSUME FilesTyped, NEW l \in Locs, DelPage(l)
  PROVE  /\ pages' \in Seq(Locs)
         /\ IsInjective(pages) => IsInjective(pages')
<1> DEFINE others == {i \in DOMAIN pages : pages[i] # l}
           n == Cardinality(others)
<1>1. PICK f \in [1..n -> others] :
        /\ \A i, j \in DOMAIN f : i < j => f[i] < f[j]
        /\ pages' = [i \in DOMAIN f |-> pages[f[i]]]
  BY DEF DelPage
<1>2. Len(pages) \in Nat /\ DOMAIN pages = 1..Len(pages)
      /\ \A i \in 1..Len(pages) : pages[i] \in Locs
  BY DEF FilesTyped
<1>3. n \in Nat
  <2>1. IsFiniteSet(1..Len(pages))
    BY <1>2, FS_Interval
  <2>2. IsFiniteSet(others)
    BY <1>2, <2>1, FS_Subset
  <2> QED
    BY <2>2, FS_CardinalityType
<1>4. others \subseteq 1..Len(pages)
  BY <1>2
<1> HIDE DEF others, n
<1>5. pages' \in [1..n -> Locs]
  BY <1>1, <1>2, <1>4
<1>6. pages' \in Seq(Locs)
  BY <1>3, <1>5, FunctionIsSeq
<1>7. ASSUME IsInjective(pages) PROVE IsInjective(pages')
  <2>1. DOMAIN pages' = 1..n /\ DOMAIN f = 1..n /\ \A i \in 1..n : pages'[i] = pages[f[i]]
    BY <1>1
  <2>2. ASSUME NEW i \in 1..n, NEW j \in 1..n, pages'[i] = pages'[j]
        PROVE  i = j
    <3>1. f[i] \in 1..Len(pages) /\ f[j] \in 1..Len(pages)
      BY <1>1, <1>4
    <3>2. pages[f[i]] = pages[f[j]]
      BY <2>1, <2>2
    <3>3. f[i] = f[j]
      BY <1>2, <1>7, <3>1, <3>2 DEF IsInjective
    <3>4. ~(i < j) /\ ~(j < i)
      BY <1>1, <2>1, <3>1, <3>3
    <3> QED
      BY <1>3, <3>4
  <2> QED
    BY <2>1, <2>2 DEF IsInjective
<1> QED
  BY <1>6, <1>7

\* The calls that work on the list of pages and on the page files.
LEMMA PageListInv ==
  ASSUME RMInv, NEW l \in Locs, NEW m \in Locs,
         \/ AddPage(l) \/ ReplaceFile(l) \/ DelPage(l) \/ ChangePageLocation(l, m)
  PROVE  RMInv'
<1>1. /\ UNCHANGED <<todo, index, at, body, reading, failed, undefined>>
      /\ offs' \subseteq offs
  BY DEF AddPage, ReplaceFile, DelPage, ChangePageLocation, call, KeepOffs
<1>2. TodoTyped' /\ OffsTyped' /\ UndefinedTyped'
  BY <1>1 DEF RMInv, RMTypes, TodoTyped, OffsTyped, UndefinedTyped
<1>3. CallTyped'
  BY <1>1 DEF RMInv, RMTypes, CallTyped
<1>4. /\ disk \in [Locs -> SUBSET Entry] /\ pages \in Seq(Locs)
      /\ Len(pages) \in Nat /\ DOMAIN pages = 1..Len(pages)
      /\ \A i \in 1..Len(pages) : pages[i] \in Locs
  BY DEF RMInv, RMTypes, FilesTyped
<1>5. IInv' /\ FilesTyped'
  <2>1. CASE AddPage(l)
    <3>1. UNCHANGED vars /\ disk' = disk /\ pages' = Append(pages, l)
      BY <2>1 DEF AddPage
    <3>2. FilesTyped'
      BY <1>4, <3>1 DEF FilesTyped
    <3> QED
      BY <3>1, <3>2, StillInv DEF RMInv
  <2>2. CASE ReplaceFile(l)
    <3>1. UNCHANGED vars /\ pages' = pages
      BY <2>2 DEF ReplaceFile
    <3>2. PICK v \in Versions[l] : disk' = [disk EXCEPT ![l] = v]
      BY <2>2 DEF ReplaceFile
    <3>3. v \in SUBSET Entry
      BY PageAssumption
    <3>4. FilesTyped'
      BY <1>4, <3>1, <3>2, <3>3 DEF FilesTyped
    <3> QED
      BY <3>1, <3>4, StillInv DEF RMInv
  <2>3. CASE DelPage(l)
    <3>1. UNCHANGED vars /\ disk' = disk
      BY <2>3 DEF DelPage
    <3>2. pages' \in Seq(Locs)
      BY <2>3, RemainingPages DEF RMInv, RMTypes
    <3> QED
      BY <1>4, <3>1, <3>2, StillInv DEF RMInv, FilesTyped
  <2>4. CASE ChangePageLocation(l, m)
    <3>1. /\ disk' = disk
          /\ pages' = [i \in DOMAIN pages |-> IF pages[i] = l THEN m ELSE pages[i]]
          /\ ChangeLocationFlags(l) \/ ChangeLocation(l, m)
      BY <2>4 DEF ChangePageLocation
    <3>2. pages' \in [1..Len(pages) -> Locs]
      BY <1>4, <3>1
    <3>3. pages' \in Seq(Locs)
      BY <1>4, <3>2, FunctionIsSeq
    <3>4. IInv'
      BY <3>1, ChangeLocationInv, ChangeLocationFlagsInv DEF RMInv
    <3> QED
      BY <1>4, <3>1, <3>3, <3>4 DEF FilesTyped
  <2> QED
    BY <2>1, <2>2, <2>3, <2>4
<1> QED
  BY <1>2, <1>3, <1>5 DEF RMInv, RMTypes

\* Keys that go take their offsets with them, and the manager keeps the rest.
LEMMA CollectorTypes ==
  ASSUME RMTypes, KeepOffs, UNCHANGED <<files, todo, call, undefined>>
  PROVE  RMTypes'
<1>1. UNCHANGED <<disk, pages, todo, index, at, body, reading, failed, undefined>>
  BY DEF files, call
<1>2. OffsTyped'
  BY DEF KeepOffs, RMTypes, OffsTyped
<1>3. FilesTyped' /\ TodoTyped' /\ UndefinedTyped'
  BY <1>1 DEF RMTypes, FilesTyped, TodoTyped, UndefinedTyped
<1>4. CallTyped'
  BY <1>1 DEF RMTypes, CallTyped
<1> QED
  BY <1>2, <1>3, <1>4 DEF RMTypes

\* The application's work on keys and objects.
LEMMA EditInv ==
  ASSUME RMInv, EditKeys \/ EditObjects
  PROVE  RMInv'
<1>1. RMTypes'
  BY CollectorTypes DEF EditKeys, EditObjects, Collector, RMInv
<1>2. App \in Holders /\ 0 \in StreamIDs /\ IInv
  BY PageAssumption DEF Holders, RMInv
<1>3. IInv'
  <2>1. CASE EditKeys
    <3>1. CASE \E k \in Key : AcquireHandle(k) \/ ReleaseHandle(k) \/ DelKey(k)
      BY <1>2, <3>1, AcquireHandleInv, ReleaseHandleInv, DelKeyInv
    <3>2. CASE \E u \in Uoid : ReadKnownKey(App, u, 0) \/ ReadNewKey(App, u, 0)
      BY <1>2, <3>2, ReadKnownKeyInv, ReadNewKeyInv
    <3> QED
      BY <2>1, <3>1, <3>2 DEF EditKeys, Collector
  <2>2. CASE EditObjects
    <3>1. CASE \E k \in Key, t \in Types, n \in Names : InitObject(k, t, n)
      BY <1>2, <3>1, InitObjectInv
    <3>2. CASE \E k \in Key, l \in Locs : AddObject(l, k) \/ MoveKey(k, l)
      BY <1>2, <3>2, AddObjectInv, MoveKeyInv
    <3>3. CASE \E k \in Key, n \in Names : SetName(k, n)
      BY <1>2, <3>3, SetNameInv
    <3> QED
      BY <2>2, <3>1, <3>2, <3>3 DEF EditObjects, Collector
  <2> QED
    BY <2>1, <2>2
<1> QED
  BY <1>1, <1>3 DEF RMInv

\* Every call of the application keeps the invariant.
LEMMA CallsInv ==
  ASSUME RMInv, PageCalls \/ OtherCalls
  PROVE  RMInv'
<1>1. 1 \in Locs
  BY LocAssumption DEF Locs
<1>2. CASE PageCalls
  <2>1. CASE \E l \in Locs : ReadPage(l) \/ UnloadPage(l)
    BY <2>1, ProgramsInv
  <2>2. CASE \E l \in Locs : AddPage(l) \/ ReplaceFile(l)
    BY <2>2, PageListInv
  <2>3. CASE UnloadAge
    BY <1>1, <2>3, ProgramsInv
  <2>4. CASE EditKeys
    BY <2>4, EditInv
  <2> QED
    BY <1>2, <2>1, <2>2, <2>3, <2>4 DEF PageCalls
<1>3. CASE OtherCalls
  <2>1. CASE \E l \in Locs : DelPage(l)
    BY <2>1, PageListInv
  <2>2. CASE \E l \in Locs : ReadPagePrc(l)
    BY <2>2, ProgramsInv
  <2>3. CASE \E l, m \in Locs : ChangePageLocation(l, m)
    BY <2>3, PageListInv
  <2>4. CASE ReadAge
    BY <1>1, <2>4, ProgramsInv
  <2>5. CASE EditObjects
    BY <2>5, EditInv
  <2> QED
    BY <1>3, <2>1, <2>2, <2>3, <2>4, <2>5 DEF OtherCalls
<1> QED
  BY <1>2, <1>3

-----------------------------------------------------------------------------
(* The work of a call.                                                     *)

\* One instruction is done and nothing happens to the keys' offsets.
LEMMA NextInstruction ==
  ASSUME RMTypes, todo # <<>>, todo' = Tail(todo) \/ todo' = <<>>
  PROVE  TodoTyped' /\ Target \in Locs
<1>1. /\ Tail(todo) \in Seq(Instruction) /\ <<>> \in Seq(Instruction)
      /\ todo[1][2] \in Locs
  BY FirstTyped DEF RMTypes
<1> QED
  BY <1>1 DEF TodoTyped, Target

\* UnloadPage.
LEMMA UnloadInv ==
  ASSUME RMInv, UnloadRegistered \/ UnloadUnknown
  PROVE  RMInv'
<1>1. /\ UNCHANGED <<disk, index, at, body, reading, failed, offs, undefined>>
      /\ todo # <<>> /\ todo' = Tail(todo)
  BY DEF UnloadRegistered, UnloadUnknown, files, call, Doing
<1>2. TodoTyped' /\ Target \in Locs
  BY <1>1, NextInstruction DEF RMInv
<1>3. pages' \in Seq(Locs)
  <2>1. pages \in Seq(Locs)
    BY DEF RMInv, RMTypes, FilesTyped
  <2>2. \/ Target \in Range(pages) /\ pages' = RemoveFirst(pages, Target)
        \/ pages' = pages
    BY DEF UnloadRegistered, UnloadUnknown, files
  <2> QED
    BY <2>1, <2>2, RemovedPage
<1>4. FilesTyped' /\ OffsTyped' /\ UndefinedTyped'
  BY <1>1, <1>3 DEF RMInv, RMTypes, FilesTyped, OffsTyped, UndefinedTyped
<1>5. CallTyped'
  BY <1>1 DEF RMInv, RMTypes, CallTyped
<1>6. IInv'
  <2>1. DelAll(Target) \/ UNCHANGED vars
    BY DEF UnloadRegistered, UnloadUnknown
  <2> QED
    BY <1>2, <2>1, IteratorInv, StillInv DEF RMInv
<1> QED
  BY <1>2, <1>4, <1>5, <1>6 DEF RMInv, RMTypes

\* The start of ReadPage behind the unload, and the end of ReadPagePrc.
LEMMA RegisterInv ==
  ASSUME RMInv, BeginIndex \/ PushPage
  PROVE  RMInv'
<1>1. /\ UNCHANGED <<disk, at, body, reading, failed, offs, undefined>>
      /\ todo # <<>> /\ todo' = Tail(todo)
      /\ pages' = Append(pages, Target)
      /\ index' = index \/ index' = disk[Target]
  BY DEF BeginIndex, PushPage, call, Doing
<1>2. TodoTyped' /\ Target \in Locs
  BY <1>1, NextInstruction DEF RMInv
<1>3. FilesTyped' /\ OffsTyped' /\ UndefinedTyped'
  BY <1>1, <1>2 DEF RMInv, RMTypes, FilesTyped, OffsTyped, UndefinedTyped
<1>4. CallTyped'
  <2>1. index' \in SUBSET Entry
    BY <1>1, <1>2 DEF RMInv, RMTypes, FilesTyped, CallTyped
  <2> QED
    BY <1>1, <2>1 DEF RMInv, RMTypes, CallTyped
<1>5. IInv'
  <2>1. ReadKeyring(Target) \/ UNCHANGED vars
    BY DEF BeginIndex, PushPage
  <2> QED
    BY <1>2, <2>1, IteratorInv, StillInv DEF RMInv
<1> QED
  BY <1>2, <1>3, <1>4, <1>5 DEF RMInv, RMTypes

\* A key of the index.
LEMMA IndexEntryInv ==
  ASSUME RMInv, IndexEntry
  PROVE  RMInv'
<1>1. PICK e \in index :
        /\ e.type = cur.type
        /\ KnownEntry(e) \/ NewEntry(e)
        /\ index' = index \ {e}
  BY DEF IndexEntry
<1>2. /\ UNCHANGED <<disk, pages, todo, at, body, reading, failed, undefined>>
      /\ pc = "keyring"
  BY DEF IndexEntry, files
<1>3. e \in Entry
  BY <1>1 DEF RMInv, RMTypes, CallTyped
<1>4. cur.loc \in Locs
  BY <1>2 DEF RMInv, IInv, Anchored
<1> DEFINE u == EntryUoid(cur.loc, e)
<1>5. u \in Uoid
  BY <1>3, <1>4, EntryHasUoid
<1> HIDE DEF u
<1>6. IInv' /\ OffsTyped'
  <2>1. CASE KnownEntry(e)
    <3>1. UNCHANGED vars /\ Matches(u) # {} /\ offs' = offs \cup {FindKey(u)}
      BY <2>1 DEF KnownEntry, u
    <3>2. FindKey(u) \in Key
      BY <1>5, <3>1, UoidBucket, FoundKey DEF RMInv, IInv
    <3>3. IInv'
      BY <3>1, StillInv DEF RMInv
    <3>4. OffsTyped'
      BY <3>1, <3>2 DEF RMInv, RMTypes, OffsTyped
    <3> QED
      BY <3>3, <3>4
  <2>2. CASE NewEntry(e)
    <3>1. KeyringEntry(e.name, 0) /\ offs' \subseteq offs \cup Key
      BY <2>2 DEF NewEntry
    <3>2. IInv'
      BY <1>3, <3>1, EntryHasUoid, <1>4, KeyringEntryInv, PageAssumption DEF RMInv
    <3>3. OffsTyped'
      BY <3>1 DEF RMInv, RMTypes, OffsTyped
    <3> QED
      BY <3>2, <3>3
  <2> QED
    BY <1>1, <2>1, <2>2
<1>7. FilesTyped' /\ TodoTyped' /\ UndefinedTyped'
  BY <1>2 DEF RMInv, RMTypes, FilesTyped, TodoTyped, UndefinedTyped
<1>8. CallTyped'
  BY <1>1, <1>2 DEF RMInv, RMTypes, CallTyped
<1> QED
  BY <1>6, <1>7, <1>8 DEF RMInv, RMTypes

\* ReadObjects and the parser move their position and nothing of the keys.
LEMMA PositionInv ==
  ASSUME RMInv,
         \/ SkipObject \/ ReplaceObject \/ ReadStale \/ EndObject \/ NextObjectType
         \/ ParseThrows \/ EndParse \/ FileThrows \/ OpenObjects \/ UseDeletedPage
  PROVE  RMInv'
<1>1. UNCHANGED <<vars, disk, pages, offs>>
  BY DEF SkipObject, ReplaceObject, ReadStale, EndObject, NextObjectType, ParseThrows,
         EndParse, FileThrows, OpenObjects, UseDeletedPage, files, call
<1>2. IInv'
  BY <1>1, StillInv DEF RMInv
<1>3. FilesTyped' /\ OffsTyped'
  BY <1>1 DEF RMInv, RMTypes, FilesTyped, OffsTyped
<1>4. UndefinedTyped'
  <2>1. undefined' = undefined \/ undefined' \in {"replaced", "stale", "deleted"}
    BY DEF SkipObject, ReplaceObject, ReadStale, EndObject, NextObjectType, ParseThrows,
           EndParse, FileThrows, OpenObjects, UseDeletedPage
  <2> QED
    BY <2>1 DEF RMInv, RMTypes, UndefinedTyped
<1>5. TodoTyped'
  <2>1. todo' = todo \/ (todo # <<>> /\ (todo' = Tail(todo) \/ todo' = <<>>))
    BY DEF SkipObject, ReplaceObject, ReadStale, EndObject, NextObjectType, ParseThrows,
           EndParse, FileThrows, OpenObjects, UseDeletedPage, Doing
  <2>2. CASE todo' = todo
    BY <2>2 DEF RMInv, RMTypes, TodoTyped
  <2>3. CASE todo # <<>> /\ (todo' = Tail(todo) \/ todo' = <<>>)
    BY <2>3, NextInstruction DEF RMInv
  <2> QED
    BY <2>1, <2>2, <2>3
<1>6. CallTyped'
  <2>1. /\ index' \in {index, {}} /\ body' \in {body, {}}
        /\ reading' \in {reading, App} /\ failed' \in {failed, TRUE}
    BY DEF SkipObject, ReplaceObject, ReadStale, EndObject, NextObjectType, ParseThrows,
           EndParse, FileThrows, OpenObjects, UseDeletedPage, call
  <2>2. at \in Ats
    BY DEF RMInv, RMTypes, CallTyped
  <2>3. /\ [at EXCEPT !.idx = @ + 1] \in Ats /\ Start \in Ats
        /\ at.type < NTypes => [type |-> at.type + 1, idx |-> 1] \in Ats
    BY <2>2, LocAssumption DEF Ats, Types, Start
  <2>4. \/ at' = at \/ at' = [at EXCEPT !.idx = @ + 1] \/ at' = Start
        \/ at.type < NTypes /\ at' = [type |-> at.type + 1, idx |-> 1]
    BY DEF SkipObject, ReplaceObject, ReadStale, EndObject, NextObjectType, ParseThrows,
           EndParse, FileThrows, OpenObjects, UseDeletedPage, call
  <2>5. at' \in Ats
    BY <2>2, <2>3, <2>4
  <2>6. failed' \in BOOLEAN
    BY <2>1 DEF RMInv, RMTypes, CallTyped
  <2>7. index' \in SUBSET Entry /\ body' \in SUBSET Uoid /\ reading' \in Key \cup {App}
    BY <2>1 DEF RMInv, RMTypes, CallTyped
  <2> QED
    BY <2>5, <2>6, <2>7 DEF CallTyped
<1> QED
  BY <1>2, <1>3, <1>4, <1>5, <1>6 DEF RMInv, RMTypes

\* An object begins, reads a reference, or fails.
LEMMA ObjectInv ==
  ASSUME RMInv, BeginObject \/ ReadReference \/ FailObject
  PROVE  RMInv'
<1>1. /\ UNCHANGED <<disk, pages, todo, index, undefined>>
      /\ offs' \subseteq offs
      /\ at' \in {at, [at EXCEPT !.idx = @ + 1]}
      /\ reading' \in {reading, App} \cup offs
      /\ failed' \in {failed, TRUE}
  BY DEF BeginObject, ReadReference, FailObject, files, KeepOffs
<1>2. FilesTyped' /\ TodoTyped' /\ OffsTyped' /\ UndefinedTyped'
  BY <1>1 DEF RMInv, RMTypes, FilesTyped, TodoTyped, OffsTyped, UndefinedTyped
<1>3. body' \in SUBSET Uoid
  <2>1. body \in SUBSET Uoid
    BY DEF RMInv, RMTypes, CallTyped
  <2>2. CASE BeginObject
    <3>1. Target \in Locs
      BY <2>2, FirstTyped DEF BeginObject, Doing, Target, RMInv, RMTypes
    <3>2. CurrentEntry \subseteq Entry
      BY <3>1 DEF CurrentEntry, RMInv, RMTypes, FilesTyped
    <3>3. \A e \in CurrentEntry : e.uses \in SUBSET Uoid
      BY <3>2 DEF Entry
    <3>4. body' = UNION {e.uses : e \in CurrentEntry}
      BY <2>2 DEF BeginObject
    <3> QED
      BY <3>3, <3>4
  <2>3. CASE ReadReference
    BY <2>1, <2>3 DEF ReadReference
  <2>4. CASE FailObject
    BY <2>4 DEF FailObject
  <2> QED
    BY <2>2, <2>3, <2>4
<1>4. CallTyped'
  <2>1. at \in Ats
    BY DEF RMInv, RMTypes, CallTyped
  <2>2. at' \in Ats
    BY <1>1, <2>1 DEF Ats
  <2>3. failed' \in BOOLEAN
    BY <1>1 DEF RMInv, RMTypes, CallTyped
  <2>4. index' \in SUBSET Entry /\ reading' \in Key \cup {App}
    BY <1>1 DEF RMInv, RMTypes, CallTyped, OffsTyped
  <2> QED
    BY <1>3, <2>2, <2>3, <2>4 DEF CallTyped
<1>5. IInv'
  <2>1. CASE BeginObject
    <3>1. LoadObject(Current) /\ Current \in Key
      BY <2>1 DEF BeginObject, RMInv, RMTypes, OffsTyped
    <3> QED
      BY <3>1, LoadObjectInv DEF RMInv
  <2>2. CASE ReadReference
    <3>1. PICK u \in body : \/ ReadKnownKey(reading, u, 0) \/ ParseKnownKey(reading, u)
                             \/ ReadNewKey(reading, u, 0)
      BY <2>2 DEF ReadReference
    <3>2. u \in Uoid /\ reading \in Holders /\ 0 \in StreamIDs
      BY PageAssumption DEF RMInv, RMTypes, CallTyped, Holders
    <3> QED
      BY <3>1, <3>2, ReadKnownKeyInv, ReadNewKeyInv DEF RMInv
  <2>3. CASE FailObject
    BY <2>3, FailObjectInv DEF RMInv
  <2> QED
    BY <2>1, <2>2, <2>3
<1> QED
  BY <1>2, <1>4, <1>5 DEF RMInv, RMTypes

\* ReadPagePrc's objects.
LEMMA ParseInv ==
  ASSUME RMInv, ParseObject \/ ParseLoaded
  PROVE  RMInv'
<1>1. /\ UNCHANGED <<disk, pages, offs, at, undefined>>
      /\ Doing("parse") /\ (todo' = todo \/ todo' = <<>>)
  BY DEF ParseObject, ParseLoaded, files, ParseKnown, ParseNew
<1>2. TodoTyped' /\ Target \in Locs
  <2>1. todo # <<>>
    BY <1>1 DEF Doing
  <2>2. CASE todo' = todo
    BY <2>1, <2>2, FirstTyped DEF RMInv, RMTypes, TodoTyped, Target
  <2>3. CASE todo' = <<>>
    BY <2>1, <2>3, NextInstruction DEF RMInv
  <2> QED
    BY <1>1, <2>2, <2>3
<1>3. FilesTyped' /\ OffsTyped' /\ UndefinedTyped'
  BY <1>1 DEF RMInv, RMTypes, FilesTyped, OffsTyped, UndefinedTyped
<1>4. PICK e \in disk[Target] \ index :
        LET u == EntryUoid(Target, e) IN
        \/ /\ ParseKnown(u) \/ ParseNew(u)
           /\ index' = index \cup {e} /\ body' = e.uses /\ failed' = failed
        \/ /\ Matches(u) # {} /\ FindKey(u) \in loaded
           /\ refCnt' = [refCnt EXCEPT ![FindKey(u)] = @ + 1]
           /\ UNCHANGED <<registry, uoid, id, loaded, refs, pc, cur>>
           /\ index' = {} /\ failed' = TRUE /\ UNCHANGED <<body, reading>>
  BY DEF ParseObject, ParseLoaded
<1> DEFINE u == EntryUoid(Target, e)
<1>5. e \in Entry
  BY <1>2, <1>4 DEF RMInv, RMTypes, FilesTyped
<1>6. u \in Uoid /\ e.uses \in SUBSET Uoid
  BY <1>2, <1>5, EntryHasUoid
<1>7. Matches(u) # {} => FindKey(u) \in Key
  BY <1>6, UoidBucket, FoundKey DEF RMInv, IInv
<1>8. /\ index \in SUBSET Entry /\ body \in SUBSET Uoid
      /\ reading \in Key \cup {App} /\ at' \in Ats
  BY <1>1 DEF RMInv, RMTypes, CallTyped
<1>9. failed' \in BOOLEAN
  BY <1>4 DEF RMInv, RMTypes, CallTyped
<1> HIDE DEF u
<1>10. CASE /\ ParseKnown(u) \/ ParseNew(u)
            /\ index' = index \cup {e} /\ body' = e.uses
  <2>1. IInv' /\ reading' \in Key
    <3>1. CASE ParseKnown(u)
      <4>1. Matches(u) # {} /\ LoadObject(FindKey(u)) /\ reading' = FindKey(u)
        BY <3>1 DEF ParseKnown
      <4> QED
        BY <1>7, <4>1, LoadObjectInv DEF RMInv
    <3>2. CASE ParseNew(u)
      BY <1>6, <3>2, ParseNewInv DEF RMInv
    <3> QED
      BY <1>10, <3>1, <3>2
  <2>2. CallTyped'
    <3>1. index' \in SUBSET Entry /\ body' \in SUBSET Uoid
      BY <1>5, <1>6, <1>8, <1>10
    <3> QED
      BY <1>8, <1>9, <2>1, <3>1 DEF CallTyped
  <2> QED
    BY <1>2, <1>3, <2>1, <2>2 DEF RMInv, RMTypes
<1>11. CASE /\ Matches(u) # {} /\ FindKey(u) \in loaded
            /\ refCnt' = [refCnt EXCEPT ![FindKey(u)] = @ + 1]
            /\ UNCHANGED <<registry, uoid, id, loaded, refs, pc, cur>>
            /\ index' = {} /\ UNCHANGED <<body, reading>>
  <2>1. IInv'
    BY <1>7, <1>11, ParseLoadedInv DEF RMInv
  <2>2. CallTyped'
    <3>1. index' \in SUBSET Entry /\ body' \in SUBSET Uoid /\ reading' \in Key \cup {App}
      BY <1>8, <1>11
    <3> QED
      BY <1>8, <1>9, <3>1 DEF CallTyped
  <2> QED
    BY <1>2, <1>3, <2>1, <2>2 DEF RMInv, RMTypes
<1> QED
  BY <1>4, <1>10, <1>11 DEF u

\* The collector's loops and the flags of the index.
LEMMA LoopInv ==
  ASSUME RMInv,
         \/ IndexFlags \/ IndexThrows
         \/ Collector(DelAllKey \/ DelAllNext \/ CleanupKey \/ CleanupNext
                        \/ KeyringSort)
  PROVE  RMInv'
<1>1. RMTypes'
  <2>1. CASE IndexThrows
    <3>1. /\ UNCHANGED <<disk, pages, offs, at, body, reading, undefined>>
          /\ todo' = <<>> /\ index' = {} /\ failed' = TRUE
      BY <2>1 DEF IndexThrows, files
    <3>2. FilesTyped' /\ TodoTyped' /\ OffsTyped' /\ UndefinedTyped'
      BY <3>1 DEF RMInv, RMTypes, FilesTyped, TodoTyped, OffsTyped, UndefinedTyped
    <3>3. CallTyped'
      BY <3>1 DEF RMInv, RMTypes, CallTyped
    <3> QED
      BY <3>2, <3>3 DEF RMTypes
  <2>2. CASE ~IndexThrows
    BY <2>2, CollectorTypes DEF IndexFlags, Collector, RMInv
  <2> QED
    BY <2>1, <2>2
<1>2. IInv'
  <2>1. CASE IndexFlags
    <3>1. (\E e \in disk[cur.loc] : e.type = cur.type) \in BOOLEAN
      OBVIOUS
    <3>2. PICK opt \in BOOLEAN : KeyringFlags(\E e \in disk[cur.loc] : e.type = cur.type, opt)
      BY <2>1, PageAssumption DEF IndexFlags, Collector
    <3> QED
      BY <3>1, <3>2, IteratorInv DEF RMInv
  <2>2. CASE DelAllKey \/ CleanupKey
    <3>1. cur.idx <= Len(Bucket) /\ (EraseHere \/ Advance)
      BY <2>2 DEF DelAllKey, CleanupKey
    <3> QED
      BY <3>1, EraseHereInv, IteratorInv DEF RMInv
  <2>3. CASE DelAllNext \/ CleanupNext \/ IndexThrows
    BY <2>3, IteratorInv DEF IndexThrows, RMInv
  <2>4. CASE KeyringSort
    BY <2>4, KeyringSortInv DEF RMInv
  <2> QED
    BY <2>1, <2>2, <2>3, <2>4 DEF Collector
<1> QED
  BY <1>1, <1>2 DEF RMInv

\* Every step of a running call keeps the invariant.
LEMMA WorkInv ==
  ASSUME RMInv, Work
  PROVE  RMInv'
BY UnloadInv, RegisterInv, IndexEntryInv, PositionInv, ObjectInv, ParseInv, LoopInv
   DEF Work

-----------------------------------------------------------------------------
(* The results.                                                            *)

\* Whatever the page files hold.
LEMMA RMInitInv == RMInit => RMInv
<1> SUFFICES ASSUME RMInit PROVE RMInv
  OBVIOUS
<1>1. IInv
  BY InitInv DEF RMInit
<1>2. disk \in [Locs -> SUBSET Entry]
  <2>1. /\ disk \in [Locs -> UNION {Versions[l] : l \in Locs}]
        /\ \A l \in Locs : disk[l] \in Versions[l]
    BY DEF RMInit
  <2>2. \A l \in Locs : Versions[l] \subseteq SUBSET Entry
    BY PageAssumption
  <2> QED
    BY <2>1, <2>2
<1>3. Start \in Ats
  BY LocAssumption DEF Start, Ats, Types
<1>4. FilesTyped /\ TodoTyped /\ OffsTyped /\ UndefinedTyped
  BY <1>2 DEF RMInit, FilesTyped, TodoTyped, OffsTyped, UndefinedTyped
<1>5. CallTyped
  BY <1>3 DEF RMInit, CallTyped
<1> QED
  BY <1>1, <1>4, <1>5 DEF RMInv, RMTypes

\* Every call, every step of its work, and doing nothing.
LEMMA RMNextInv == RMInv /\ [PageCalls \/ OtherCalls \/ Work]_allVars => RMInv'
<1> SUFFICES ASSUME RMInv, [PageCalls \/ OtherCalls \/ Work]_allVars PROVE RMInv'
  OBVIOUS
<1>1. CASE UNCHANGED allVars
  <2>1. UNCHANGED <<vars, disk, pages, todo, index, offs, at, body, reading, failed, undefined>>
    BY <1>1 DEF allVars, rmVars
  <2>2. IInv'
    BY <2>1, StillInv DEF RMInv
  <2>3. FilesTyped' /\ TodoTyped' /\ OffsTyped' /\ UndefinedTyped'
    BY <2>1 DEF RMInv, RMTypes, FilesTyped, TodoTyped, OffsTyped, UndefinedTyped
  <2>4. CallTyped'
    BY <2>1 DEF RMInv, RMTypes, CallTyped
  <2> QED
    BY <2>2, <2>3, <2>4 DEF RMInv, RMTypes
<1>2. CASE PageCalls \/ OtherCalls \/ Work
  BY <1>2, CallsInv, WorkInv
<1> QED
  BY <1>1, <1>2

\* The collector's invariant and the manager's types hold under every sequence
\* of the manager's calls (plResManager.cpp).
THEOREM ManagerInvariance == RMSpec => []RMInv
<1>1. RMInit => RMInv
  BY RMInitInv
<1>2. RMInv /\ [PageCalls \/ OtherCalls \/ Work]_allVars => RMInv'
  BY RMNextInv
<1> QED
  BY <1>1, <1>2, PTL DEF RMSpec

\* Every variable of the manager keeps its type: no call runs past the end of
\* its program, no position leaves the class types, and what is being read is a
\* key (plResManager::ReadObjects, ReadKeyring, ReadPagePrc).
THEOREM ManagerTypeCorrect == RMSpec => []RMTypeOK
<1>1. RMInv => RMTypeOK
  <2> SUFFICES ASSUME RMInv PROVE RMTypeOK
    OBVIOUS
  <2>1. TypeOK /\ FilesTyped /\ TodoTyped /\ OffsTyped /\ UndefinedTyped
    BY DEF RMInv, RMTypes, IInv
  <2>2. CallTyped
    BY DEF RMInv, RMTypes
  <2> QED
    BY <2>1, <2>2 DEF RMTypeOK, FilesTyped, TodoTyped, OffsTyped, UndefinedTyped,
                      CallTyped, Ats
<1> QED
  BY <1>1, ManagerInvariance, PTL

\* No plKeyData is freed while a plKey points to it, under all calls of the
\* manager, failing objects and parsed pages included (plResManager.cpp).
THEOREM ManagerCountsCorrect == RMSpec => []CountCoversOwners
<1>1. RMInv => CountCoversOwners
  BY DEF RMInv, IInv
<1> QED
  BY <1>1, ManagerInvariance, PTL

\* The programs register behind an unload.
LEMMA ProgramsUnload ==
  ASSUME RMInv, NEW l \in Locs,
         ReadPage(l) \/ UnloadPage(l) \/ UnloadAge \/ ReadAge \/ ReadPagePrc(l)
  PROVE  UnloadsFirst' /\ pages' = pages
<1>1. pages' = pages
  BY DEF ReadPage, UnloadPage, UnloadAge, ReadAge, ReadPagePrc, Begin, files
<1>2. CASE ReadPage(l)
  <2>1. todo' = << <<"unload", l>>, <<"index", l>>, <<"objects", l>> >>
    BY <1>2 DEF ReadPage, Begin
  <2>2. /\ Len(todo') = 3 /\ todo'[1] = <<"unload", l>>
        /\ todo'[2] = <<"index", l>> /\ todo'[3] = <<"objects", l>>
    BY <2>1
  <2>3. ASSUME NEW i \in 1..Len(todo'), Registers(i)'
        PROVE  i = 2
    <3>1. i \in {1, 2, 3}
      BY <2>2
    <3> QED
      BY <2>2, <2>3, <3>1 DEF Registers
  <2> QED
    BY <1>1, <2>2, <2>3 DEF UnloadsFirst
<1>3. CASE UnloadPage(l)
  <2>1. todo' = << <<"unload", l>> >>
    BY <1>3 DEF UnloadPage, Begin
  <2>2. \A i \in 1..Len(todo') : ~Registers(i)'
    BY <2>1 DEF Registers
  <2> QED
    BY <1>1, <2>2 DEF UnloadsFirst
<1>4. CASE UnloadAge
  <2>1. todo' = [i \in DOMAIN pages |-> <<"unload", pages[i]>>]
    BY <1>4 DEF UnloadAge, Begin
  <2>2. pages \in Seq(Locs)
    BY DEF RMInv, RMTypes, FilesTyped
  <2>3. Len(todo') = Len(pages) /\ \A i \in 1..Len(pages) : todo'[i][1] = "unload"
    BY <2>1, <2>2
  <2>4. \A i \in 1..Len(todo') : ~Registers(i)'
    BY <2>3 DEF Registers
  <2> QED
    BY <1>1, <2>4 DEF UnloadsFirst
<1>5. CASE ReadAge
  <2>1. PICK age \in Ages : todo' = ReadAgeProgram(age)
    BY <1>5 DEF ReadAge, Begin
  <2> DEFINE n == Len(age)
  <2>2. n \in Nat
    BY ReadAgeTyped
  <2>3. ASSUME NEW i \in 1..Len(todo'), Registers(i)'
        PROVE  i # 1 /\ todo'[i - 1] = <<"unload", todo'[i][2]>>
    <3>1. i \in 1..4 * n /\ todo'[i][1] \in {"index", "push"}
      BY <2>1, <2>3, ReadAgeTyped DEF Registers
    <3>2. i \in 1..2 * n
      <4>1. i \in 2 * n + 1..4 * n => todo'[i][1] \in {"objects", "open", "deleted"}
        BY <2>1, ReadAgeTyped
      <4> QED
        BY <2>2, <3>1, <4>1
    <3>3. todo'[i] = <<IF i % 2 = 1 THEN "unload" ELSE "index", age[(i + 1) \div 2]>>
      BY <2>1, <3>2, ReadAgeTyped
    <3>4. i % 2 # 1
      BY <3>1, <3>3
    <3>5. i - 1 \in 1..2 * n /\ (i - 1) % 2 = 1 /\ (i - 1 + 1) \div 2 = (i + 1) \div 2
      BY <2>2, <3>2, <3>4
    <3>6. todo'[i - 1] = <<"unload", age[(i - 1 + 1) \div 2]>>
      BY <2>1, <3>5, ReadAgeTyped
    <3> QED
      BY <3>2, <3>3, <3>4, <3>5, <3>6
  <2> QED
    BY <1>1, <2>3 DEF UnloadsFirst
<1>6. CASE ReadPagePrc(l)
  <2>1. todo' = << <<"parse", l>>, <<"unload", l>>, <<"push", l>> >>
    BY <1>6 DEF ReadPagePrc, Begin
  <2>2. /\ Len(todo') = 3 /\ todo'[1] = <<"parse", l>>
        /\ todo'[2] = <<"unload", l>> /\ todo'[3] = <<"push", l>>
    BY <2>1
  <2>3. ASSUME NEW i \in 1..Len(todo'), Registers(i)'
        PROVE  i = 3
    <3>1. i \in {1, 2, 3}
      BY <2>2
    <3> QED
      BY <2>2, <2>3, <3>1 DEF Registers
  <2> QED
    BY <1>1, <2>2, <2>3 DEF UnloadsFirst
<1> QED
  BY <1>1, <1>2, <1>3, <1>4, <1>5, <1>6

\* An instruction is done; an unload leaves no page of its location behind.
LEMMA InstructionDone ==
  ASSUME TodoTyped, UnloadsFirst, todo # <<>>, todo' = Tail(todo),
         todo[1][1] = "unload" => Target \notin Range(pages')
  PROVE  UnloadsFirst'
<1>1. /\ todo \in Seq(Instruction) /\ Len(todo) \in Nat /\ Len(todo') = Len(todo) - 1
      /\ \A i \in 1..Len(todo) - 1 : todo'[i] = todo[i + 1]
  BY DEF TodoTyped
<1>2. ASSUME NEW i \in 1..Len(todo'), Registers(i)'
      PROVE  IF i = 1 THEN todo'[1][2] \notin Range(pages')
             ELSE todo'[i - 1] = <<"unload", todo'[i][2]>>
  <2>1. i + 1 \in 1..Len(todo) /\ i + 1 # 1 /\ i + 1 - 1 = i /\ todo'[i] = todo[i + 1]
    BY <1>1
  <2>2. Registers(i + 1)
    BY <1>2, <2>1 DEF Registers
  <2>3. todo[i] = <<"unload", todo[i + 1][2]>>
    BY <2>1, <2>2 DEF UnloadsFirst
  <2>4. CASE i = 1
    <3>1. Target = todo'[1][2] /\ todo[1][1] = "unload"
      BY <2>1, <2>3, <2>4 DEF Target
    <3> QED
      BY <2>4, <3>1
  <2>5. CASE i # 1
    <3>1. i - 1 \in 1..Len(todo) - 1 /\ i - 1 + 1 = i
      BY <1>1, <2>5
    <3>2. todo'[i - 1] = todo[i]
      BY <1>1, <3>1
    <3> QED
      BY <2>1, <2>3, <2>5, <3>2
  <2> QED
    BY <2>4, <2>5
<1> QED
  BY <1>2 DEF UnloadsFirst

\* One page for a location, as long as no page takes another one's location.
OnePage == RMInv /\ IsInjective(pages) /\ UnloadsFirst

\* A page is appended.
LEMMA AppendedPage ==
  ASSUME NEW s \in Seq(Locs), IsInjective(s), NEW l \in Locs, l \notin Range(s)
  PROVE  IsInjective(Append(s, l))
<1>1. /\ Len(s) \in Nat /\ Len(Append(s, l)) = Len(s) + 1
      /\ DOMAIN Append(s, l) = 1..Len(s) + 1 /\ DOMAIN s = 1..Len(s)
      /\ \A i \in 1..Len(s) + 1 : Append(s, l)[i] = IF i = Len(s) + 1 THEN l ELSE s[i]
  OBVIOUS
<1>2. \A i \in 1..Len(s) : s[i] # l
  BY <1>1 DEF Range
<1>3. \A i, j \in 1..Len(s) : s[i] = s[j] => i = j
  BY <1>1 DEF IsInjective
<1>4. \A i \in 1..Len(s) + 1 : i = Len(s) + 1 \/ i \in 1..Len(s)
  BY <1>1
<1>5. \A i, j \in 1..Len(s) + 1 : Append(s, l)[i] = Append(s, l)[j] => i = j
  BY <1>1, <1>2, <1>3, <1>4
<1> QED
  BY <1>1, <1>5 DEF IsInjective

\* The work of a call keeps the pages apart.
LEMMA WorkOnePage ==
  ASSUME OnePage, Work
  PROVE  IsInjective(pages') /\ UnloadsFirst'
<1>1. pages \in Seq(Locs) /\ TodoTyped
  BY DEF OnePage, RMInv, RMTypes, FilesTyped
<1>2. CASE UnloadRegistered \/ UnloadUnknown
  <2>1. /\ todo # <<>> /\ todo' = Tail(todo)
        /\ \/ Target \in Range(pages) /\ pages' = RemoveFirst(pages, Target)
           \/ Target \notin Range(pages) /\ pages' = pages
    BY <1>2 DEF UnloadRegistered, UnloadUnknown, Doing, files
  <2>2. IsInjective(pages') /\ Target \notin Range(pages')
    BY <1>1, <2>1, RemovedPage DEF OnePage
  <2> QED
    BY <1>1, <2>1, <2>2, InstructionDone DEF OnePage
<1>3. CASE BeginIndex \/ PushPage
  <2>1. /\ todo # <<>> /\ todo' = Tail(todo) /\ todo[1][1] \in {"index", "push"}
        /\ pages' = Append(pages, Target)
    BY <1>3 DEF BeginIndex, PushPage, Doing
  <2>2. Target \in Locs
    BY <1>1, <2>1, FirstTyped DEF Target
  <2>3. Target \notin Range(pages)
    <3>1. 1 \in 1..Len(todo) /\ Registers(1)
      BY <1>1, <2>1 DEF TodoTyped, Registers
    <3> QED
      BY <3>1 DEF OnePage, UnloadsFirst, Target
  <2>4. IsInjective(pages')
    BY <1>1, <2>1, <2>2, <2>3, AppendedPage DEF OnePage
  <2> QED
    BY <1>1, <2>1, <2>4, InstructionDone DEF OnePage
<1>6. CASE FileThrows \/ IndexThrows
  <2>1. pages' = pages /\ todo' = <<>>
    BY <1>6 DEF FileThrows, IndexThrows, files
  <2> QED
    BY <2>1 DEF OnePage, UnloadsFirst
<1>4. CASE NextObjectType \/ ParseThrows \/ ParseLoaded \/ EndParse \/ OpenObjects
  <2>1. /\ pages' = pages /\ todo # <<>> /\ todo[1][1] # "unload"
        /\ todo' \in {todo, <<>>, Tail(todo)}
    BY <1>4 DEF NextObjectType, ParseThrows, ParseLoaded, EndParse, OpenObjects, Doing, files
  <2>2. UnloadsFirst'
    <3>1. CASE todo' = todo
      BY <2>1, <3>1 DEF OnePage, UnloadsFirst, Registers
    <3>2. CASE todo' = <<>>
      BY <3>2 DEF UnloadsFirst
    <3>3. CASE todo' = Tail(todo)
      BY <1>1, <2>1, <3>3, InstructionDone DEF OnePage
    <3> QED
      BY <2>1, <3>1, <3>2, <3>3
  <2> QED
    BY <2>1, <2>2 DEF OnePage
<1>5. CASE \/ IndexEntry \/ IndexFlags \/ SkipObject \/ BeginObject \/ ReplaceObject
           \/ ReadStale \/ ReadReference \/ EndObject \/ FailObject \/ ParseObject
           \/ UseDeletedPage
           \/ Collector(DelAllKey \/ DelAllNext \/ CleanupKey \/ CleanupNext
                          \/ KeyringSort)
  <2>1. pages' = pages /\ todo' = todo
    BY <1>5 DEF IndexEntry, IndexFlags, SkipObject, BeginObject, ReplaceObject, ReadStale,
                ReadReference, EndObject, FailObject, ParseObject, UseDeletedPage, Collector,
                files
  <2> QED
    BY <2>1 DEF OnePage, UnloadsFirst, Registers
<1> QED
  BY <1>2, <1>3, <1>4, <1>5, <1>6 DEF Work

\* The calls other than ChangeLocation keep them apart.
LEMMA CallsOnePage ==
  ASSUME OnePage,
         \/ PageCalls \/ ReadAge \/ EditObjects
         \/ \E l \in Locs : DelPage(l) \/ ReadPage(l) \/ UnloadPage(l) \/ ReadPagePrc(l)
  PROVE  IsInjective(pages') /\ UnloadsFirst'
<1>1. pages \in Seq(Locs) /\ 1 \in Locs
  BY LocAssumption DEF OnePage, RMInv, RMTypes, FilesTyped, Locs
<1>2. CASE UnloadAge \/ ReadAge
           \/ \E l \in Locs : ReadPage(l) \/ UnloadPage(l) \/ ReadPagePrc(l)
  BY <1>1, <1>2, ProgramsUnload DEF OnePage
<1>3. CASE EditKeys \/ EditObjects
  <2>1. pages' = pages /\ todo' = todo
    BY <1>3 DEF EditKeys, EditObjects, Collector, files
  <2> QED
    BY <2>1 DEF OnePage, UnloadsFirst, Registers
<1>4. CASE \E l \in Locs : AddPage(l) \/ ReplaceFile(l) \/ DelPage(l)
  <2>1. PICK l \in Locs : AddPage(l) \/ ReplaceFile(l) \/ DelPage(l)
    BY <1>4
  <2>2. todo = <<>> /\ todo' = todo
    BY <2>1 DEF AddPage, ReplaceFile, DelPage, Free
  <2>3. UnloadsFirst'
    BY <2>2 DEF UnloadsFirst
  <2>4. CASE AddPage(l)
    BY <1>1, <2>3, <2>4, AppendedPage DEF AddPage, OnePage
  <2>5. CASE ReplaceFile(l)
    BY <2>3, <2>5 DEF ReplaceFile, OnePage
  <2>6. CASE DelPage(l)
    BY <2>3, <2>6, RemainingPages DEF OnePage, RMInv, RMTypes
  <2> QED
    BY <2>1, <2>4, <2>5, <2>6
<1> QED
  BY <1>2, <1>3, <1>4 DEF PageCalls

\* One step of any specification without ChangeLocation.
LEMMA OnePageStep ==
  OnePage /\ [\/ PageCalls \/ ReadAge \/ EditObjects \/ Work
             \/ \E l \in Locs : DelPage(l) \/ ReadPage(l) \/ UnloadPage(l)
                                \/ ReadPagePrc(l)]_allVars
    => OnePage'
<1> SUFFICES ASSUME OnePage,
                    \/ PageCalls \/ ReadAge \/ EditObjects \/ Work
                    \/ \E l \in Locs : DelPage(l) \/ ReadPage(l) \/ UnloadPage(l)
                                       \/ ReadPagePrc(l)
                    \/ UNCHANGED allVars
             PROVE  OnePage'
  OBVIOUS
<1>1. RMInv'
  BY RMNextInv DEF OnePage, PageCalls, OtherCalls
<1>2. CASE UNCHANGED allVars
  <2>1. pages' = pages /\ todo' = todo
    BY <1>2 DEF allVars, rmVars
  <2> QED
    BY <1>1, <2>1 DEF OnePage, UnloadsFirst, Registers
<1> QED
  BY <1>1, <1>2, CallsOnePage, WorkOnePage DEF OnePage

\* No page is registered yet.
LEMMA OnePageInit == RMInit => OnePage
BY RMInitInv DEF RMInit, OnePage, UnloadsFirst, IsInjective

\* However ReadPage, UnloadPage, UnloadAge and AddPage follow each other and
\* throw, at the file, in the index or at an object, at most one page is
\* registered for a location (plResManager::ReadPage, UnloadPage, FindPage).
THEOREM OnePageEach == PageSpec => []OnePagePerLocation
<1>1. RMInit => OnePage
  BY OnePageInit
<1>2. OnePage /\ [PageCalls \/ Work]_allVars => OnePage'
  BY OnePageStep
<1>3. OnePage => OnePagePerLocation
  BY DEF OnePage, OnePagePerLocation, IsInjective
<1> QED
  BY <1>1, <1>2, <1>3, PTL DEF PageSpec

\* Nor does ReadAge register a location twice at any time, whatever pages are
\* loaded before and wherever it throws.  For an age that lists a location
\* twice this ends when ReadAge, after all indices are read, uses the plPageInfo
\* that it deleted (plResManager.cpp:379): the model stops there.
THEOREM OnePageOfAge == ReadAgeSpec => []OnePagePerLocation
<1>1. RMInit => OnePage
  BY OnePageInit
<1>2. OnePage /\ [ReadAge \/ Work]_allVars => OnePage'
  BY OnePageStep
<1>3. OnePage => OnePagePerLocation
  BY DEF OnePage, OnePagePerLocation, IsInjective
<1> QED
  BY <1>1, <1>2, <1>3, PTL DEF ReadAgeSpec
-----------------------------------------------------------------------------
(* The registry under the manager's calls.                                 *)

\* The registered keys keep their IDs, and no key without a location gets one.
IDsStay ==
  \A x \in Key : /\ Registered(x) /\ Registered(x)' => id'[x] = id[x]
                 /\ StillBlank(x)

\* k is a new key with uoid u.
NewKey(k, u) ==
  /\ ~Registered(k) /\ Matches(u) = {}
  /\ keys' = AddedKeys(k, u) /\ uoid' = [uoid EXCEPT ![k] = u]
  /\ notOpt' = notOpt \cup {<<u.loc, u.type>>}
  /\ refCnt' = [refCnt EXCEPT ![k] = 2]
  /\ id' = [id EXCEPT ![k] = AddedID(u, 0)]

\* The steps of the manager that are none of the collector's: an object is
\* read, fails or is parsed.  The registry stays, or one new key comes to it.
ObjectStep ==
  /\ pc = "idle" /\ UNCHANGED <<pc, cur>>
  /\ \/ UNCHANGED registry /\ NoneAdded /\ (~PreserveIDs => IDsStay)
     \/ \E k \in Key, u \in Uoid : NewKey(k, u)

\* Neither the registry nor a uoid changes, and no count falls to 0.
LEMMA QuietObjectStep ==
  ASSUME pc = "idle", UNCHANGED <<pc, cur, registry, uoid>>, ~PreserveIDs => id' = id,
         \A x \in Key : refCnt'[x] = 0 => refCnt[x] = 0
  PROVE  ObjectStep
<1>1. NoneAdded
  BY DEF NoneAdded, Stays, Registered, registry
<1>2. ~PreserveIDs => IDsStay
  BY DEF IDsStay, StillBlank
<1> QED
  BY <1>1, <1>2 DEF ObjectStep

\* One more plKey points to k.
LEMMA OneMore ==
  ASSUME IInv, NEW k, refCnt' = [refCnt EXCEPT ![k] = @ + 1]
  PROVE  \A x \in Key : refCnt'[x] = 0 => refCnt[x] = 0
BY DEF IInv, TypeOK

\* A key that is not allocated is not registered.
LEMMA FreeIsUnregistered ==
  ASSUME IInv, NEW k \in Key, ~Allocated(k)
  PROVE  ~Registered(k)
<1>1. refCnt[k] = 0
  BY DEF Allocated, IInv, TypeOK
<1> QED
  BY <1>1, FreeHasNoOwner DEF IInv

\* A reference is read.
LEMMA ReadKeySteps ==
  ASSUME IInv, NEW h, NEW u \in Uoid,
         ReadKnownKey(h, u, 0) \/ ParseKnownKey(h, u) \/ ReadNewKey(h, u, 0)
  PROVE  ObjectStep
<1>1. CASE ReadKnownKey(h, u, 0) \/ ParseKnownKey(h, u)
  <2>1. /\ pc = "idle" /\ UNCHANGED <<pc, cur, registry, uoid>>
        /\ refCnt' = [refCnt EXCEPT ![FindKey(u)] = @ + 1]
        /\ ~PreserveIDs => id' = id
    BY <1>1 DEF ReadKnownKey, ParseKnownKey, KnownKey, Idle
  <2> QED
    BY <2>1, OneMore, QuietObjectStep
<1>2. CASE ReadNewKey(h, u, 0)
  <2>1. PICK k \in Key :
          /\ ~Allocated(k) /\ keys' = AddedKeys(k, u) /\ uoid' = [uoid EXCEPT ![k] = u]
          /\ notOpt' = notOpt \cup {<<u.loc, u.type>>}
          /\ refCnt' = [refCnt EXCEPT ![k] = 2]
          /\ id' = [id EXCEPT ![k] = AddedID(u, 0)]
    BY <1>2 DEF ReadNewKey
  <2>2. pc = "idle" /\ UNCHANGED <<pc, cur>> /\ Matches(u) = {}
    BY <1>2 DEF ReadNewKey, Idle
  <2>3. ~Registered(k)
    BY <2>1, FreeIsUnregistered
  <2>5. NewKey(k, u)
    BY <2>1, <2>2, <2>3 DEF NewKey
  <2> QED
    BY <2>2, <2>3, <2>5 DEF ObjectStep
<1> QED
  BY <1>1, <1>2

\* An object is linked to its key.
LEMMA LoadSteps ==
  ASSUME IInv, NEW k, LoadObject(k)
  PROVE  ObjectStep
<1>1. /\ pc = "idle" /\ UNCHANGED <<pc, cur, registry, uoid, id>>
      /\ refCnt' = [refCnt EXCEPT ![k] = @ + 1]
  BY DEF LoadObject, Idle
<1> QED
  BY <1>1, OneMore, QuietObjectStep

\* An object is parsed.
LEMMA ParseSteps ==
  ASSUME RMInv, ParseObject \/ ParseLoaded
  PROVE  ObjectStep
<1>0. IInv
  BY DEF RMInv
<1>1. CASE ParseLoaded
  <2>1. /\ pc = "idle" /\ UNCHANGED <<pc, cur, registry, uoid, id>>
        /\ \E k : refCnt' = [refCnt EXCEPT ![k] = @ + 1]
    BY <1>1 DEF ParseLoaded, Doing
  <2> QED
    BY <1>0, <2>1, OneMore, QuietObjectStep
<1>2. CASE ParseObject
  <2>1. PICK e \in disk[Target] :
          ParseKnown(EntryUoid(Target, e)) \/ ParseNew(EntryUoid(Target, e))
    BY <1>2 DEF ParseObject
  <2>2. pc = "idle" /\ todo # <<>>
    BY <1>2 DEF ParseObject, Doing
  <2>3. Target \in Locs /\ e \in Entry
    BY <2>1, <2>2, FirstTyped DEF RMInv, RMTypes, FilesTyped, Target
  <2> DEFINE u == EntryUoid(Target, e)
  <2>4. u \in Uoid
    BY <2>3, EntryHasUoid
  <2> HIDE DEF u
  <2>5. CASE ParseKnown(u)
    BY <1>0, <2>5, LoadSteps DEF ParseKnown
  <2>6. CASE ParseNew(u)
    <3>1. PICK k \in Key :
            /\ ~Allocated(k) /\ keys' = AddedKeys(k, u) /\ uoid' = [uoid EXCEPT ![k] = u]
            /\ notOpt' = notOpt \cup {<<u.loc, u.type>>}
            /\ refCnt' = [refCnt EXCEPT ![k] = 2]
            /\ id' = [id EXCEPT ![k] = AddedID(u, 0)]
      BY <2>6 DEF ParseNew
    <3>2. UNCHANGED <<pc, cur>> /\ Matches(u) = {}
      BY <2>6 DEF ParseNew
    <3>3. ~Registered(k)
      BY <1>0, <3>1, FreeIsUnregistered
    <3>4. NewKey(k, u)
      BY <3>1, <3>2, <3>3 DEF NewKey
    <3> QED
      BY <2>2, <2>4, <3>2, <3>4 DEF ObjectStep
  <2> QED
    BY <2>1, <2>5, <2>6 DEF u
<1> QED
  BY <1>1, <1>2

\* An object fails.
LEMMA FailSteps ==
  ASSUME RMInv, RMInv', FailObject
  PROVE  ObjectStep
<1>1. pc = "idle" /\ UNCHANGED <<pc, cur>> /\ UNCHANGED registry
  BY DEF FailObject, Doing
<1>5. PICK rc : Settle(uoid, id, rc)
  BY DEF FailObject
<1>2. \A x \in Key : Registered(x)' => Registered(x)
  BY <1>1 DEF Registered, registry
<1>3. RegisteredLives'
  <2>1. IInv' => RegisteredLives'
    BY RegisteredIsLive, PTL
  <2> QED
    BY <2>1 DEF RMInv
<1>4. NoneAdded
  BY <1>2, <1>3, <1>5, SettledStays
<1>6. IDsStay
  BY <1>3, <1>5, SettledBlank, SettledID DEF IDsStay
<1> QED
  BY <1>1, <1>4, <1>6 DEF ObjectStep

\* Every step of the manager is a step of the collector, none to the collector,
\* or one with an object.
LEMMA ManagerSteps ==
  ASSUME RMInv, [PageCalls \/ OtherCalls \/ Work]_allVars
  PROVE  [Next]_vars \/ ObjectStep
<1>0. RMInv'
  BY RMNextInv
<1>1. CASE UNCHANGED allVars
  BY <1>1 DEF allVars
<1>2. CASE EditKeys
  <2>1. CASE \E k \in Key : AcquireHandle(k) \/ ReleaseHandle(k) \/ DelKey(k)
    BY <2>1 DEF Next, Call
  <2>2. CASE \E u \in Uoid : ReadKnownKey(App, u, 0) \/ ReadNewKey(App, u, 0)
    BY <2>2, ReadKeySteps DEF RMInv
  <2> QED
    BY <1>2, <2>1, <2>2 DEF EditKeys, Collector
<1>3. CASE EditObjects
  BY <1>3 DEF EditObjects, Collector, Next, Call
<1>4. CASE PageCalls
  <2>1. ASSUME NEW l \in Locs, ReadPage(l) \/ UnloadPage(l) \/ AddPage(l) \/ ReplaceFile(l)
        PROVE  UNCHANGED vars
    BY <2>1 DEF ReadPage, UnloadPage, AddPage, ReplaceFile, Begin
  <2>2. CASE UnloadAge
    BY <2>2 DEF UnloadAge, Begin
  <2> QED
    BY <1>2, <1>4, <2>1, <2>2 DEF PageCalls
<1>5. CASE OtherCalls
  <2>1. ASSUME NEW l \in Locs, DelPage(l) \/ ReadPagePrc(l) PROVE UNCHANGED vars
    BY <2>1 DEF DelPage, ReadPagePrc, Begin
  <2>2. ASSUME NEW l \in Locs, NEW m \in Locs, ChangePageLocation(l, m) PROVE Next
    BY <2>2 DEF ChangePageLocation, Next, Call
  <2>3. CASE ReadAge
    BY <2>3 DEF ReadAge, Begin
  <2> QED
    BY <1>3, <1>5, <2>1, <2>2, <2>3 DEF OtherCalls
<1>6. CASE Work
  <2>1. CASE UnloadRegistered \/ BeginIndex
    <3>1. Target \in Locs
      BY <2>1, FirstTyped DEF UnloadRegistered, BeginIndex, Doing, Target, RMInv, RMTypes
    <3> QED
      BY <2>1, <3>1 DEF UnloadRegistered, BeginIndex, Next, Call
  <2>2. CASE \/ UnloadUnknown \/ SkipObject \/ ReplaceObject \/ ReadStale \/ EndObject
             \/ NextObjectType \/ ParseThrows \/ EndParse \/ PushPage
             \/ FileThrows \/ OpenObjects \/ UseDeletedPage
    BY <2>2 DEF UnloadUnknown, SkipObject, ReplaceObject, ReadStale, EndObject,
                NextObjectType, ParseThrows, EndParse, PushPage, FileThrows, OpenObjects,
                UseDeletedPage
  <2>3. CASE IndexEntry
    <3>1. PICK e \in index : KnownEntry(e) \/ NewEntry(e)
      BY <2>3 DEF IndexEntry
    <3>2. e.name \in Names /\ 0 \in StreamIDs
      BY <3>1, PageAssumption DEF RMInv, RMTypes, CallTyped, Entry
    <3>3. CASE KnownEntry(e)
      BY <3>3 DEF KnownEntry
    <3>4. CASE NewEntry(e)
      BY <3>2, <3>4 DEF NewEntry, Next, Call
    <3> QED
      BY <3>1, <3>3, <3>4
  <2>4. CASE IndexFlags
    <3>1. (\E e \in disk[cur.loc] : e.type = cur.type) \in BOOLEAN
      OBVIOUS
    <3>2. PICK opt \in BOOLEAN : KeyringFlags(\E e \in disk[cur.loc] : e.type = cur.type, opt)
      BY <2>4, PageAssumption DEF IndexFlags, Collector
    <3> QED
      BY <3>1, <3>2 DEF Next, Loop
  <2>10. CASE IndexThrows
    BY <2>10 DEF IndexThrows, Next, Loop
  <2>5. CASE BeginObject
    BY <2>5, LoadSteps DEF BeginObject, RMInv
  <2>6. CASE ReadReference
    <3>1. PICK u \in body : \/ ReadKnownKey(reading, u, 0) \/ ParseKnownKey(reading, u)
                             \/ ReadNewKey(reading, u, 0)
      BY <2>6 DEF ReadReference
    <3>2. u \in Uoid
      BY <3>1 DEF RMInv, RMTypes, CallTyped
    <3> QED
      BY <3>1, <3>2, ReadKeySteps DEF RMInv
  <2>7. CASE FailObject
    BY <1>0, <2>7, FailSteps
  <2>8. CASE ParseObject \/ ParseLoaded
    BY <2>8, ParseSteps
  <2>9. CASE Collector(DelAllKey \/ DelAllNext \/ CleanupKey \/ CleanupNext \/ KeyringSort)
    BY <2>9 DEF Collector, Next, Loop
  <2> QED
    BY <1>6, <2>1, <2>2, <2>3, <2>4, <2>5, <2>6, <2>7, <2>8, <2>9, <2>10 DEF Work
<1> QED
  BY <1>1, <1>4, <1>5, <1>6

\* Every key the manager ever registers is in the bucket of its own location and
\* type, once: what the index, the references and the parser add, and what is
\* left when objects fail (plKeyCollector.cpp).
THEOREM ManagerRegistryCorrect == RMSpec => []RegisteredOnce
<1>1. RMInv => RegisteredOnce
  BY PlacedIsRegisteredOnce DEF RMInv, IInv
<1> QED
  BY <1>1, ManagerInvariance, PTL

\* The clean-up after every unload drops no key that the application, an object
\* or an object that is half read holds (plKeyCollector::cleanupKeys).
THEOREM ManagerCleanupCorrect == RMSpec => CleanupSparesOwned
<1>1. RMInv /\ [PageCalls \/ OtherCalls \/ Work]_allVars
        => [\A k \in Key : (pc = "cleanup" /\ Registered(k) /\ ~Registered(k)') =>
              {h \in Holders : k \in refs[h]} = {}]_vars
  <2> SUFFICES ASSUME RMInv, [PageCalls \/ OtherCalls \/ Work]_allVars, NEW k \in Key,
                      pc = "cleanup", Registered(k), ~Registered(k)'
               PROVE  {h \in Holders : k \in refs[h]} = {}
    OBVIOUS
  <2>1. IInv /\ [Next]_vars
    BY ManagerSteps DEF RMInv, ObjectStep
  <2> QED
    BY <2>1, CleanupStep
<1> QED
  BY <1>1, ManagerInvariance, PTL DEF RMSpec, CleanupSparesOwned

\* UnloadPage, and every call that begins with it, leaves no loaded key of the
\* location registered, whatever was read, parsed or failed before
\* (plKeyCollector::delAll).
THEOREM ManagerUnloads == RMSpec => DelAllUnloads
<1>1. RMInit => Unloaded
  BY DEF RMInit, Init, Unloaded
<1>2. RMInv /\ Unloaded /\ [PageCalls \/ OtherCalls \/ Work]_allVars => Unloaded'
  <2> SUFFICES ASSUME RMInv, Unloaded, [PageCalls \/ OtherCalls \/ Work]_allVars
               PROVE  Unloaded'
    OBVIOUS
  <2>1. CASE [Next]_vars
    BY <2>1, UnloadedStep DEF RMInv
  <2>2. CASE ObjectStep
    BY <2>2 DEF ObjectStep, Unloaded
  <2> QED
    BY <2>1, <2>2, ManagerSteps
<1>3. RMInv /\ Unloaded /\ [PageCalls \/ OtherCalls \/ Work]_allVars
        => [(pc = "delAll" /\ pc' = "cleanup") =>
              \A k \in loaded : Registered(k) => uoid[k].loc # cur.loc]_vars
  <2> SUFFICES ASSUME RMInv, Unloaded, [PageCalls \/ OtherCalls \/ Work]_allVars,
                      pc = "delAll", pc' = "cleanup", NEW k \in loaded, Registered(k)
               PROVE  uoid[k].loc # cur.loc
    OBVIOUS
  <2>1. IInv /\ [Next]_vars
    BY ManagerSteps DEF RMInv, ObjectStep
  <2> QED
    BY <2>1, HandOverStep
<1> QED
  BY <1>1, <1>2, <1>3, ManagerInvariance, PTL DEF RMSpec, DelAllUnloads

\* Looking up before adding, in the index, for every reference and in the parser:
\* only a relocation or setName makes two registered keys of one uoid
\* (plResManager::AddKey, ReadKeyring).
THEOREM ManagerAddsNoDuplicate == RMSpec => NoDuplicateAdded
<1>1. RMInv /\ [PageCalls \/ OtherCalls \/ Work]_allVars
        => [~SameUoid /\ SameUoid' => Relocation \/ Renaming]_vars
  <2> SUFFICES ASSUME RMInv, [PageCalls \/ OtherCalls \/ Work]_allVars,
                      ~SameUoid, SameUoid'
               PROVE  Relocation \/ Renaming
    OBVIOUS
  <2>1. CASE [Next]_vars
    BY <2>1, NoDuplicateStep DEF RMInv
  <2>2. CASE ObjectStep
    <3>1. NoneAdded \/ OneAdded
      <4>1. ASSUME NEW k \in Key, NEW u \in Uoid, NewKey(k, u) PROVE OneAdded
        BY <4>1, UoidBucket, AddedAlone DEF RMInv, NewKey
      <4> QED
        BY <2>2, <4>1 DEF ObjectStep
    <3> QED
      BY <3>1, NoSecondKey DEF RMInv
  <2> QED
    BY <2>1, <2>2, ManagerSteps
<1> QED
  BY <1>1, ManagerInvariance, PTL DEF RMSpec, NoDuplicateAdded

\* The steps with objects flag the bucket they add to and leave the others.
LEMMA ObjectStepTruthful ==
  ASSUME IInv, ObjectStep, NEW b \in Buckets, Truthful(b)
  PROVE  Truthful(b)'
<1>0. Membership /\ keys \in [Buckets -> Seq(Key)] /\ uoid \in [Key -> Uoids]
  BY MembersRegistered DEF IInv, TypeOK, Uoids
<1> SUFFICES ASSUME b \notin notOpt' PROVE InNameOrder(b)'
  BY DEF Truthful
<1>1. ASSUME keys'[b] = keys[b], b \notin notOpt,
             \A i \in DOMAIN keys[b] : uoid'[keys[b][i]] = uoid[keys[b][i]]
      PROVE  InNameOrder(b)'
  BY <1>1 DEF Truthful, InNameOrder
<1>2. CASE UNCHANGED registry /\ NoneAdded
  <2>1. keys' = keys /\ notOpt' = notOpt
    BY <1>2 DEF registry
  <2>2. \A x \in Key : Registered(x) => uoid'[x] = uoid[x]
    BY <1>2, <2>1 DEF NoneAdded, Stays, Registered
  <2> QED
    BY <1>0, <1>1, <2>1, <2>2 DEF Membership
<1>3. ASSUME NEW k \in Key, NEW u \in Uoid, NewKey(k, u) PROVE InNameOrder(b)'
  <2>1. b # <<u.loc, u.type>> /\ b \notin notOpt
    BY <1>3 DEF NewKey
  <2>2. keys'[b] = keys[b]
    BY <1>0, <1>3, <2>1 DEF NewKey, AddedKeys
  <2>3. \A x \in Key : Registered(x) => uoid'[x] = uoid[x]
    BY <1>0, <1>3 DEF NewKey
  <2> QED
    BY <1>0, <1>1, <2>1, <2>2, <2>3 DEF Membership
<1> QED
  BY <1>2, <1>3 DEF ObjectStep

\* kNotOptimized under all calls of the manager, without preserveIDs: objects that
\* fail, pages that are parsed, unloaded or read and indices that end early make no
\* bucket lie; setName does, and the flags of the type whose index is being read,
\* until sortKeys puts the page right (plKeyCollector::add, sortKeys,
\* optimizeKeys, plResManager::ReadKeyring).
THEOREM ManagerFlagsCorrect == RMSpec => FlagStaysTruthful
<1>1. RMInv /\ [PageCalls \/ OtherCalls \/ Work]_allVars
        => [~PreserveIDs /\ ~Renaming =>
              \A b \in Buckets :
                \/ Truthful(b)'
                \/ pc = "keyring" /\ b = <<cur.loc, cur.type>>
                \/ ~Truthful(b) /\ ~(pc = "sort" /\ b[1] = cur.loc)]_vars
  <2> SUFFICES ASSUME RMInv, [PageCalls \/ OtherCalls \/ Work]_allVars, vars' # vars,
                      ~PreserveIDs, ~Renaming, NEW b \in Buckets
               PROVE  \/ Truthful(b)'
                      \/ pc = "keyring" /\ b = <<cur.loc, cur.type>>
                      \/ ~Truthful(b) /\ ~(pc = "sort" /\ b[1] = cur.loc)
    OBVIOUS
  <2>1. CASE [Next]_vars
    BY <2>1, TruthfulStep DEF RMInv
  <2>2. CASE ObjectStep
    <3>1. pc = "idle" /\ IInv
      BY <2>2 DEF ObjectStep, RMInv
    <3> QED
      BY <2>2, <3>1, ObjectStepTruthful
  <2> QED
    BY <2>1, <2>2, ManagerSteps
<1> QED
  BY <1>1, ManagerInvariance, PTL DEF RMSpec, FlagStaysTruthful

\* Every page that the manager reads has contiguous IDs when its index is read,
\* whatever IDs references to its keys brought along before
\* (plResManager::ReadKeyring, plKeyCollector::sortKeys).
THEOREM ManagerRenumbers == ASSUME FewKeys PROVE RMSpec => KeyringLeavesContiguous
<1>1. RMInv /\ [PageCalls \/ OtherCalls \/ Work]_allVars
        => [\A l \in Locs :
              (pc = "sort" /\ pc' = "idle" /\ cur.loc = l /\ ~PreserveIDs) =>
                \A t \in Types : Contiguous(<<l, t>>)']_vars
  <2> SUFFICES ASSUME RMInv, [PageCalls \/ OtherCalls \/ Work]_allVars, NEW l \in Locs,
                      pc = "sort", pc' = "idle", cur.loc = l, ~PreserveIDs, NEW t \in Types
               PROVE  Contiguous(<<l, t>>)'
    OBVIOUS
  <2>1. IInv /\ [Next]_vars
    BY ManagerSteps DEF RMInv, ObjectStep
  <2> QED
    BY <2>1, KeyringSortIDs
<1> QED
  BY <1>1, ManagerInvariance, PTL DEF RMSpec, KeyringLeavesContiguous
\* The steps with objects give IDs to keys with a location only.
LEMMA ObjectStepBlank ==
  ASSUME IInv, Blank, ObjectStep, ~PreserveIDs
  PROVE  Blank'
<1>0. /\ uoid \in [Key -> Uoids] /\ id \in [Key -> IDs] /\ refCnt \in [Key -> Nat]
      /\ NoLoc \notin Locs
  BY DEF IInv, TypeOK, Uoids, IDs, NoLoc, Locs
<1> SUFFICES ASSUME NEW x \in Key PROVE StillBlank(x)
  BY DEF Blank, StillBlank
<1>1. CASE IDsStay
  BY <1>1 DEF IDsStay
<1>2. ASSUME NEW k \in Key, NEW u \in Uoid, NewKey(k, u) PROVE StillBlank(x)
  <2>1. u.loc # NoLoc
    BY <1>0 DEF Uoid
  <2>2. /\ u \in Uoids /\ uoid' = [uoid EXCEPT ![k] = u] /\ refCnt' = [refCnt EXCEPT ![k] = 2]
        /\ id' = [id EXCEPT ![k] = AddedID(u, 0)]
    BY <1>2, UoidBucket DEF NewKey
  <2> QED
    BY <1>0, <2>1, <2>2 DEF StillBlank
<1> QED
  BY <1>1, <1>2 DEF ObjectStep

\* They add a key at the end of its bucket, with the next ID.
LEMMA ObjectStepIDs ==
  ASSUME FewKeys, ~PreserveIDs, IInv, IInv', ObjectStep, NEW b \in Buckets, Contiguous(b)
  PROVE  Contiguous(b)'
<1>1. CASE UNCHANGED registry /\ IDsStay
  <2>1. keys' = keys
    BY <1>1 DEF registry
  <2>2. \A x \in Key : Registered(x) => id'[x] = id[x]
    BY <1>1, <2>1 DEF IDsStay, Registered
  <2> QED
    BY <2>1, <2>2, UntouchedBucket
<1>2. ASSUME NEW k \in Key, NEW u \in Uoid, NewKey(k, u) PROVE Contiguous(b)'
  <2>1. /\ ~Registered(k) /\ <<u.loc, u.type>> \in Buckets /\ keys' = AddedKeys(k, u)
        /\ id' = [id EXCEPT ![k] = AddedID(u, 0)]
    BY <1>2, UoidBucket DEF NewKey
  <2> QED
    BY <2>1, AddedIDs
<1> QED
  BY <1>1, <1>2 DEF ObjectStep

\* Reading references, failing objects and parsed pages leave no gap in the IDs of a
\* bucket either: whatever the manager does between two loops of the collector
\* (plResManager.cpp, plKeyCollector::add, del, MoveKey, ChangeLocation).
THEOREM ManagerEditsRenumber == ASSUME FewKeys, ~PreserveIDs PROVE RMSpec => EditsKeepIDs
<1>1. RMInit => Blank
  BY DEF RMInit, Init, Blank, NoUoid
<1>2. RMInv /\ Blank /\ [PageCalls \/ OtherCalls \/ Work]_allVars => Blank'
  BY ManagerSteps, BlankStep, ObjectStepBlank DEF RMInv
<1>3. RMInv /\ Blank /\ [PageCalls \/ OtherCalls \/ Work]_allVars
        => [(StreamIDs = {0} /\ pc = "idle") =>
              \A b \in Buckets : Contiguous(b) => Contiguous(b)']_vars
  <2> SUFFICES ASSUME RMInv, Blank, [PageCalls \/ OtherCalls \/ Work]_allVars,
                      StreamIDs = {0}, pc = "idle", NEW b \in Buckets, Contiguous(b)
               PROVE  Contiguous(b)'
    OBVIOUS
  <2>1. IInv /\ IInv'
    BY RMNextInv DEF RMInv
  <2>2. CASE [Next]_vars
    BY <2>1, <2>2, EditStep
  <2>3. CASE ObjectStep
    BY <2>1, <2>3, ObjectStepIDs
  <2> QED
    BY <2>2, <2>3, ManagerSteps
<1> QED
  BY <1>1, <1>2, <1>3, ManagerInvariance, PTL DEF RMSpec, EditsKeepIDs
=============================================================================
