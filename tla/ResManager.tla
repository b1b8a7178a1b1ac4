----------------------------- MODULE ResManager -----------------------------
(***************************************************************************)
(* plResManager's pages on top of the key registry: ReadPage, ReadAge,     *)
(* ReadPagePrc, UnloadPage, UnloadAge, DelPage, AddPage, ChangeLocation.   *)
(*                                                                         *)
(* A call is a program todo of instructions <<what, location>> that run    *)
(* one after the other; "unload" and "index" start loops of KeyCollector,  *)
(* and the application gets the next call when todo is empty.              *)
(*                                                                         *)
(* disk is what the page files hold: for each location the objects, each   *)
(* with the uoids its body refers to.                                      *)
(***************************************************************************)
EXTENDS KeyCollector

CONSTANTS
  Versions,     \* for each location the contents its page file may have
  Ages,         \* the pages an age file may list, sequences of locations
  Optimized,    \* whether page files may call a type optimized: {FALSE} before 2.0.70
  MaxPages      \* BOUND on the registered pages

Entry == [type : Types, name : Names, uses : SUBSET Uoid]

ASSUME PageAssumption ==
  /\ Versions \in [Locs -> SUBSET SUBSET Entry]
  /\ \A l \in Locs : Versions[l] # {}
  /\ Ages \subseteq Seq(Locs)
  /\ Optimized \subseteq BOOLEAN /\ Optimized # {}
  /\ MaxPages \in Nat
  /\ 0 \in StreamIDs

\* The index of a page file lists a uoid once.
ASSUME FileAssumption ==
  \A l \in Locs : \A v \in Versions[l] : \A e, f \in v :
    e.type = f.type /\ e.name = f.name => e = f

VARIABLES
  disk,     \* the page file of each location
  pages,    \* plResManager::pages, the locations of the registered plPageInfos
  todo,     \* what is left of the running call
  index,    \* the entries of the page's index that ReadKeyring has not read
  offs,     \* the keys with fFileOff > 0
  at,       \* ReadObjects' position in the page: type and index
  body,     \* the references the object being read has not read yet
  reading,  \* the key of the object that is being read, App if none is
  failed,   \* some object of the running call could not be read
  undefined \* how the program has left what C++ defines, if it has

files == <<disk, pages>>
call  == <<index, at, body, reading, failed>>
rmVars == <<disk, pages, todo, index, offs, at, body, reading, failed, undefined>>
allVars == <<vars, rmVars>>

Instruction ==
  {"unload", "index", "open", "deleted", "objects", "parse", "push"} \X Locs

RMTypeOK ==
  /\ TypeOK
  /\ disk \in [Locs -> SUBSET Entry]
  /\ pages \in Seq(Locs)
  /\ todo \in Seq(Instruction)
  /\ index \in SUBSET Entry
  /\ offs \in SUBSET Key
  /\ at \in [type : Types, idx : Nat \ {0}]
  /\ body \in SUBSET Uoid
  /\ reading \in Key \cup {App}
  /\ failed \in BOOLEAN
  /\ undefined \in {"no", "replaced", "stale", "deleted"}

\* Mutant: the class types counted from 0.
StartFromZero == [type |-> 0, idx |-> 1]

Start == [type |-> 1, idx |-> 1]

RMInit ==
  /\ Init
  /\ disk \in {d \in [Locs -> UNION {Versions[l] : l \in Locs}] :
                 \A l \in Locs : d[l] \in Versions[l]}
  /\ pages = <<>> /\ todo = <<>> /\ index = {} /\ offs = {}
  /\ at = Start /\ body = {} /\ reading = App /\ failed = FALSE
  /\ undefined = "no"

\* A datum that is deleted takes its file offset with it.
KeepOffs == offs' = {k \in offs : Allocated(k)'}

\* A step of the collector that leaves the page level alone.
Collector(A) == A /\ KeepOffs /\ UNCHANGED <<files, todo, call, undefined>>

Free == todo = <<>> /\ pc = "idle" /\ undefined = "no"
Doing(what) == todo # <<>> /\ todo[1][1] = what /\ pc = "idle" /\ undefined = "no"
Target == todo[1][2]

-----------------------------------------------------------------------------
(* The calls.                                                              *)

Begin(program) ==
  /\ Free
  /\ todo' = program
  /\ failed' = FALSE
  /\ UNCHANGED <<vars, files, index, offs, at, body, reading, undefined>>

MayAdd(n) == Len(pages) + n <= MaxPages

\* Mutant: the page is read over the registered one.
ReadPageOver(l) ==
  MayAdd(1) /\ Begin(<< <<"index", l>>, <<"objects", l>> >>)

ReadPage(l) ==
  MayAdd(1) /\ Begin(<< <<"unload", l>>, <<"index", l>>, <<"objects", l>> >>)

UnloadPage(l) == Begin(<< <<"unload", l>> >>)

\* Every page of the age that is registered.
UnloadAge ==
  pages # <<>> /\ Begin([i \in DOMAIN pages |-> <<"unload", pages[i]>>])

\* All indices first, so that references across pages find their keys, and
\* then the objects of all pages.  agepages keeps the plPageInfo of every page
\* read; the next page of the same location deletes it (UnloadPage).
ListedAgain(age, i) == \E j \in DOMAIN age : i < j /\ age[i] = age[j]
ReadAgeProgram(age) ==
  [i \in 1..2 * Len(age) |->
     <<IF i % 2 = 1 THEN "unload" ELSE "index", age[(i + 1) \div 2]>>]
  \o [i \in 1..2 * Len(age) |->
        <<IF i % 2 = 0 THEN "objects"
          ELSE IF ListedAgain(age, (i + 1) \div 2) THEN "deleted" ELSE "open",
          age[(i + 1) \div 2]>>]
ReadAge ==
  \E age \in Ages : MayAdd(Cardinality(Range(age))) /\ Begin(ReadAgeProgram(age))

ReadPagePrc(l) ==
  MayAdd(1) /\ Begin(<< <<"parse", l>>, <<"unload", l>>, <<"push", l>> >>)

\* "You should only use this for NEW pages".
AddPage(l) ==
  /\ Free
  /\ l \notin Range(pages) /\ MayAdd(1)
  /\ pages' = Append(pages, l)
  /\ UNCHANGED <<vars, disk, todo, call, offs, undefined>>

\* The page only, not its keys; the others keep their order.
DelPage(l) ==
  LET others == {i \in DOMAIN pages : pages[i] # l} IN
  /\ Free
  /\ l \in Range(pages)
  /\ \E f \in [1..Cardinality(others) -> others] :
       /\ \A i, j \in DOMAIN f : i < j => f[i] < f[j]
       /\ pages' = [i \in DOMAIN f |-> pages[f[i]]]
  /\ UNCHANGED <<vars, disk, todo, call, offs, undefined>>

\* plResManager::ChangeLocation: the pages and then the keys.
ChangePageLocation(from, to) ==
  /\ Free
  /\ pages' = [i \in DOMAIN pages |-> IF pages[i] = from THEN to ELSE pages[i]]
  /\ IF from = to THEN ChangeLocationFlags(from) ELSE ChangeLocation(from, to)
  /\ KeepOffs
  /\ UNCHANGED <<disk, todo, call, undefined>>

\* The application works on keys between the calls.
EditKeys ==
  /\ Free
  /\ \/ \E k \in Key : Collector(AcquireHandle(k) \/ ReleaseHandle(k) \/ DelKey(k))
     \/ /\ MayHold
        /\ \E u \in Uoid : Collector(ReadKnownKey(App, u, 0) \/ ReadNewKey(App, u, 0))

EditObjects ==
  /\ Free
  /\ \/ \E k \in Key, t \in Types, n \in Names : Collector(InitObject(k, t, n))
     \/ \E k \in Key, l \in Locs : Collector(AddObject(l, k) \/ MoveKey(k, l))
     \/ \E k \in Key, n \in Names : Collector(SetName(k, n))

\* Another program writes a page file.
ReplaceFile(l) ==
  /\ Free
  /\ \E v \in Versions[l] : v # disk[l] /\ disk' = [disk EXCEPT ![l] = v]
  /\ UNCHANGED <<vars, pages, todo, call, offs, undefined>>

-----------------------------------------------------------------------------
(* UnloadPage and ReadKeyring.                                             *)

\* Mutant: the keys of the page are left alone.
UnloadNoKeys ==
  /\ Doing("unload") /\ Target \in Range(pages)
  /\ pages' = RemoveFirst(pages, Target)
  /\ todo' = Tail(todo)
  /\ UNCHANGED <<vars, disk, call, offs, undefined>>

\* Mutant: the page stays in the list.
UnloadKeepingPage ==
  /\ Doing("unload") /\ Target \in Range(pages)
  /\ DelAll(Target)
  /\ todo' = Tail(todo)
  /\ UNCHANGED <<files, call, offs, undefined>>

\* The first page with this location goes, and delAll runs.
UnloadRegistered ==
  /\ Doing("unload") /\ Target \in Range(pages)
  /\ pages' = RemoveFirst(pages, Target)
  /\ DelAll(Target)
  /\ todo' = Tail(todo)
  /\ UNCHANGED <<disk, call, offs, undefined>>

UnloadUnknown ==
  /\ Doing("unload") /\ Target \notin Range(pages)
  /\ todo' = Tail(todo)
  /\ UNCHANGED <<vars, files, call, offs, undefined>>

\* The header of a page to be read, or the file of a page of the age whose
\* objects are to be read, fails to open or to read: the exception leaves what
\* the call has done so far.
FileThrows ==
  /\ Doing("open") \/ (Doing("unload") /\ Len(todo) > 1 /\ todo[2][1] = "index")
  /\ todo' = <<>> /\ failed' = TRUE
  /\ UNCHANGED <<vars, files, index, offs, at, body, reading, undefined>>

\* pages.push_back, then the index is read.
BeginIndex ==
  /\ Doing("index")
  /\ pages' = Append(pages, Target)
  /\ index' = disk[Target]
  /\ ReadKeyring(Target)
  /\ todo' = Tail(todo)
  /\ UNCHANGED <<disk, offs, at, body, reading, failed, undefined>>

EntryUoid(l, e) == [loc |-> l, type |-> e.type, name |-> e.name]

\* Mutant: a known key keeps the offset it had.
KnownEntryOldOffset(e) ==
  /\ Matches(EntryUoid(cur.loc, e)) # {}
  /\ UNCHANGED <<vars, offs>>

\* A key of the index that is registered takes the offset of the file.
KnownEntry(e) ==
  LET u == EntryUoid(cur.loc, e) IN
  /\ Matches(u) # {}
  /\ offs' = offs \cup {FindKey(u)}
  /\ UNCHANGED vars

NewEntry(e) ==
  /\ KeyringEntry(e.name, 0)
  /\ offs' = offs \cup {k \in Key : ~Allocated(k) /\ Allocated(k)'}

IndexEntry ==
  /\ pc = "keyring"
  /\ \E e \in index :
       /\ e.type = cur.type
       /\ KnownEntry(e) \/ NewEntry(e)
       /\ index' = index \ {e}
  /\ UNCHANGED <<files, todo, at, body, reading, failed, undefined>>

IndexFlags ==
  /\ \A e \in index : e.type # cur.type
  /\ \E opt \in Optimized :
       Collector(KeyringFlags(\E e \in disk[cur.loc] : e.type = cur.type, opt))

\* The index ends early: the page stays registered, with the keys read so far
\* and none of its objects.
IndexThrows ==
  /\ KeyringThrows
  /\ todo' = <<>> /\ index' = {} /\ failed' = TRUE
  /\ UNCHANGED <<files, offs, at, body, reading, undefined>>

-----------------------------------------------------------------------------
(* ReadObjects.                                                            *)

\* ReadAge opens the file of a page again,
OpenObjects ==
  /\ Doing("open")
  /\ todo' = Tail(todo)
  /\ UNCHANGED <<vars, files, call, offs, undefined>>

\* ... whose name it takes from a plPageInfo that is deleted, if the age lists
\* the location again.
UseDeletedPage ==
  /\ Doing("deleted")
  /\ undefined' = "deleted"
  /\ UNCHANGED <<vars, files, todo, call, offs>>

PageBucket == keys[<<Target, at.type>>]
Current == PageBucket[at.idx]
CurrentEntry == {e \in disk[Target] : EntryUoid(Target, e) = uoid[Current]}
Busy == reading # App

InBucket == at.idx <= Len(PageBucket)

\* Mutant: the skipped key is looked at again.
SkipNowhere ==
  /\ Doing("objects") /\ ~Busy /\ InBucket /\ Current \notin offs
  /\ UNCHANGED allVars

\* A key that the index gave no offset.
SkipObject ==
  /\ Doing("objects") /\ ~Busy /\ InBucket /\ Current \notin offs
  /\ at' = [at EXCEPT !.idx = @ + 1]
  /\ UNCHANGED <<vars, files, todo, offs, index, body, reading, failed, undefined>>

\* hsKeyedObject::read links the new object to its key.
BeginObject ==
  /\ Doing("objects") /\ ~Busy /\ InBucket /\ Current \in offs
  /\ CurrentEntry # {}
  /\ LoadObject(Current)
  /\ reading' = Current
  /\ body' = UNION {e.uses : e \in CurrentEntry}
  /\ UNCHANGED <<files, todo, offs, index, at, failed, undefined>>

\* It is there already: hsKeyedObject::read deletes the old object, and setObj
\* then asks the deleted object whether it is a stub.
ReplaceObject ==
  /\ Doing("objects") /\ ~Busy /\ InBucket /\ Current \in offs
  /\ Current \in loaded
  /\ undefined' = "replaced"
  /\ UNCHANGED <<vars, files, todo, call, offs>>

\* The offset is from an earlier page file: the bytes there can be anything,
\* and are read as an object if they do not fail to be one.
ReadStale ==
  /\ Doing("objects") /\ ~Busy /\ InBucket /\ Current \in offs
  /\ CurrentEntry = {}
  /\ undefined' = "stale"
  /\ UNCHANGED <<vars, files, todo, call, offs>>

ReadReference ==
  /\ Busy /\ undefined = "no"
  /\ \E u \in body :
       /\ \/ todo[1][1] = "objects" /\ ReadKnownKey(reading, u, 0)
          \/ todo[1][1] = "parse" /\ ParseKnownKey(reading, u)
          \/ ReadNewKey(reading, u, 0)
       /\ body' = body \ {u}
  /\ UNCHANGED <<files, todo, offs, index, at, reading, failed, undefined>>

EndObject ==
  /\ Busy /\ body = {}
  /\ reading' = App
  /\ at' = IF todo[1][1] = "objects" THEN [at EXCEPT !.idx = @ + 1] ELSE at
  /\ UNCHANGED <<vars, files, todo, offs, index, body, failed, undefined>>

\* Mutant: the object that failed stays.
FailObjectKept ==
  /\ Doing("objects") /\ (Busy \/ (InBucket /\ Current \in offs))
  /\ reading' = App /\ body' = {} /\ failed' = TRUE
  /\ at' = [at EXCEPT !.idx = @ + 1]
  /\ UNCHANGED <<vars, offs, files, todo, index, undefined>>

\* An exception in the object's body, or before: deleteObj, and on to the next
\* key.
FailObject ==
  /\ Doing("objects") /\ (Busy \/ (InBucket /\ Current \in offs))
  /\ Settle(uoid, id, [x \in Key |-> refCnt[x] - DeleteObjDrop(Current, x)])
  /\ DeleteObj(Current)
  /\ KeepOffs
  /\ reading' = App /\ body' = {} /\ failed' = TRUE
  /\ at' = [at EXCEPT !.idx = @ + 1]
  /\ UNCHANGED <<registry, pc, cur, files, todo, index, undefined>>

NextObjectType ==
  /\ Doing("objects") /\ ~Busy /\ ~InBucket
  /\ \/ at.type < NTypes /\ at' = [type |-> at.type + 1, idx |-> 1] /\ todo' = todo
     \/ at.type = NTypes /\ at' = Start /\ todo' = Tail(todo)
  /\ UNCHANGED <<vars, files, offs, index, body, reading, failed, undefined>>

-----------------------------------------------------------------------------
(* ReadPagePrc: the objects are parsed before the page is unloaded.        *)

Parsed(e) == \E k \in loaded : uoid[k] = EntryUoid(Target, e) /\ Registered(k)

\* IPrcParse of the key: prcParseKey (AddKey) and setObj.
ParseKnown(u) ==
  /\ Matches(u) # {}
  /\ FindKey(u) \notin loaded
  /\ LoadObject(FindKey(u))
  /\ reading' = FindKey(u)
  /\ UNCHANGED offs

\* Mutant: the parsed key counts its registration only.
ParseNewUncounted(u) ==
  /\ Matches(u) = {}
  /\ \E k \in Key :
       /\ ~Allocated(k)
       /\ keys' = AddedKeys(k, u)
       /\ notOpt' = notOpt \cup {<<u.loc, u.type>>}
       /\ uoid' = [uoid EXCEPT ![k] = u]
       /\ id' = [id EXCEPT ![k] = AddedID(u, 0)]
       /\ refCnt' = [refCnt EXCEPT ![k] = 1]
       /\ loaded' = loaded \cup {k}
       /\ reading' = k
  /\ UNCHANGED <<refs, pc, cur, offs>>

ParseNew(u) ==
  /\ Matches(u) = {}
  /\ \E k \in Key :
       /\ ~Allocated(k)
       /\ keys' = AddedKeys(k, u)
       /\ notOpt' = notOpt \cup {<<u.loc, u.type>>}
       /\ uoid' = [uoid EXCEPT ![k] = u]
       /\ id' = [id EXCEPT ![k] = AddedID(u, 0)]
       /\ refCnt' = [refCnt EXCEPT ![k] = 2]
       /\ loaded' = loaded \cup {k}
       /\ reading' = k
  /\ UNCHANGED <<refs, pc, cur, offs>>

ParseObject ==
  /\ Doing("parse") /\ ~Busy
  /\ \E e \in disk[Target] \ index :
       /\ ParseKnown(EntryUoid(Target, e)) \/ ParseNew(EntryUoid(Target, e))
       /\ index' = index \cup {e}
       /\ body' = e.uses
  /\ UNCHANGED <<files, todo, at, failed, undefined>>

\* An exception leaves ReadPagePrc with what has been parsed so far.
ParseThrows ==
  /\ Doing("parse")
  /\ todo' = <<>> /\ index' = {} /\ body' = {} /\ reading' = App
  /\ failed' = TRUE
  /\ UNCHANGED <<vars, files, offs, at, undefined>>

\* setObj: "Trying to change already loaded object".  The new object is never
\* deleted, and keeps its reference to the key.
ParseLoaded ==
  /\ Doing("parse") /\ ~Busy
  /\ \E e \in disk[Target] \ index :
       LET u == EntryUoid(Target, e) IN
       /\ Matches(u) # {} /\ FindKey(u) \in loaded
       /\ refCnt[FindKey(u)] < MaxRef
       /\ refCnt' = [refCnt EXCEPT ![FindKey(u)] = @ + 1]
  /\ todo' = <<>> /\ index' = {} /\ failed' = TRUE
  /\ UNCHANGED <<registry, uoid, id, loaded, refs, pc, cur,
                 files, offs, at, body, reading, undefined>>

EndParse ==
  /\ Doing("parse") /\ ~Busy /\ index = disk[Target]
  /\ todo' = Tail(todo) /\ index' = {}
  /\ UNCHANGED <<vars, files, offs, at, body, reading, failed, undefined>>

PushPage ==
  /\ Doing("push")
  /\ pages' = Append(pages, Target)
  /\ todo' = Tail(todo)
  /\ UNCHANGED <<vars, disk, call, offs, undefined>>

-----------------------------------------------------------------------------
(* Specification.                                                          *)

Work ==
  \/ UnloadRegistered \/ UnloadUnknown \/ FileThrows
  \/ BeginIndex \/ IndexEntry \/ IndexFlags \/ IndexThrows
  \/ OpenObjects \/ UseDeletedPage
  \/ SkipObject \/ BeginObject \/ ReplaceObject \/ ReadStale \/ ReadReference
  \/ EndObject \/ FailObject \/ NextObjectType
  \/ ParseObject \/ ParseThrows \/ ParseLoaded \/ EndParse \/ PushPage
  \/ Collector(DelAllKey \/ DelAllNext \/ CleanupKey \/ CleanupNext
                 \/ KeyringSort)

\* Pages come from page files and go, and the application looks at their keys.
PageCalls ==
  \/ \E l \in Locs : \/ ReadPage(l) \/ UnloadPage(l) \/ AddPage(l) \/ ReplaceFile(l)
  \/ UnloadAge
  \/ EditKeys

\* Everything else an application may call.
OtherCalls ==
  \/ \E l \in Locs : DelPage(l) \/ ReadPagePrc(l)
  \/ \E l, m \in Locs : ChangePageLocation(l, m)
  \/ ReadAge
  \/ EditObjects

PageSpec == RMInit /\ [][PageCalls \/ Work]_allVars
RMSpec == RMInit /\ [][PageCalls \/ OtherCalls \/ Work]_allVars
ReadAgeSpec == RMInit /\ [][ReadAge \/ Work]_allVars
PrcSpec == RMInit /\ [][Work \/ \E l \in Locs :
                            ReadPage(l) \/ UnloadPage(l) \/ ReadPagePrc(l)]_allVars
FairPageSpec == PageSpec /\ WF_allVars(Work)

-----------------------------------------------------------------------------
(* Safety.                                                                 *)

\* As long as pages only come and go as page files, an object that the
\* registry has loaded belongs to a registered page: neither UnloadPage nor
\* ReadPage over a registered page leaves an object behind.
LoadedHasPage ==
  Free => \A k \in loaded : Registered(k) => uoid[k].loc \in Range(pages)

\* ... and so ReadObjects never meets a key that is loaded already, whose
\* object it would delete and use.
NothingReplaced == undefined # "replaced"

\* At most one page is registered for a location: ReadPage and ReadPagePrc
\* unload before they push, UnloadPage takes the first match only.
OnePagePerLocation == \A i, j \in DOMAIN pages : pages[i] = pages[j] => i = j

\* When ReadObjects is done with a page and none of its objects failed, every
\* object of the page file is registered and loaded.
PageIsLoaded ==
  [][(Doing("objects") /\ todo' = Tail(todo) /\ todo' # todo /\ ~failed) =>
       \A e \in disk[Target] : Parsed(e)]_allVars

\* Between calls no registered object is half read: it has all the references
\* of one version of its page file, whatever happened to the objects and the
\* page before.
NoHalfReadObject ==
  Free => \A k \in loaded : Registered(k) =>
    \E v \in Versions[uoid[k].loc] : \E e \in v :
      /\ EntryUoid(uoid[k].loc, e) = uoid[k]
      /\ {uoid[x] : x \in refs[k]} = e.uses

\* Every call returns, with any mixture of readable and unreadable objects.
CallEnds == (todo # <<>>) ~> (todo = <<>> \/ undefined # "no")

=============================================================================
