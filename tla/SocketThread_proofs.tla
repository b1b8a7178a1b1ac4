------------------------ MODULE SocketThread_proofs ------------------------
(***************************************************************************)
(* What the dispatch threads of SocketThread may rely on, for any number   *)
(* of connections.                                                         *)
(***************************************************************************)
EXTENDS SocketThread, TLAPS

\* While a connection is up or being taken down.
Connected == app \in {"up", "stop", "clear", "join", "delete"}

\* The dispatch thread at work is the one of the last connection, and can be
\* joined.
WorkingJoinable ==
  \A c \in Conns : thr[c] \in Working =>
    Connected /\ c = conn /\ handle[c] = "joinable"

\* The objects of a connection exist while it is up.
ConnectedHasObjects ==
  Connected =>
    /\ conn \in Conns
    /\ sock[conn] \in {"open", "closed"}
    /\ dispatch[conn] = "live" /\ helper[conn] = "live"

\* No helper is deleted that can still be joined.
DeletedJoined == NoJoinableDestroyed

\* A connection in the making has no thread yet, nor have those to come.
FreshConnections ==
  /\ app = "handshake" =>
       /\ conn \in Conns /\ sock[conn] = "open"
       /\ handle[conn] = "empty" /\ thr[conn] = "none"
  /\ \A c \in Conns : c > conn => handle[c] = "empty" /\ thr[c] = "none"

IInv ==
  TypeOK /\ WorkingJoinable /\ ConnectedHasObjects /\ DeletedJoined /\ FreshConnections

\* Every state of a client before its first connect satisfies the invariant.
LEMMA InitInv == Init => IInv
BY ConnsAssumption
   DEF Init, IInv, TypeOK, WorkingJoinable, ConnectedHasObjects, DeletedJoined,
       NoJoinableDestroyed, FreshConnections, Connected, Working, Conns

\* The key exchange leaves everything in its type.
LEMMA HandshakeTypes == ASSUME TypeOK, HandshakeDone PROVE TypeOK'
<1>1. /\ net' \in [Conns -> {"quiet", "partial", "message", "reset", "broken", "eof"}]
      /\ sock' \in [Conns -> {"none", "open", "closed", "deleted"}]
  <2>1. CASE net' = [net EXCEPT ![conn] = "quiet"] /\ sock' = sock
    BY <2>1 DEF TypeOK
  <2>2. CASE net' = [net EXCEPT ![conn] = "eof"] /\ sock' = sock
    BY <2>2 DEF TypeOK
  <2>3. CASE net' = [net EXCEPT ![conn] = "eof"] /\ sock' = [sock EXCEPT ![conn] = "closed"]
    BY <2>3 DEF TypeOK
  <2> QED
    BY <2>1, <2>2, <2>3 DEF HandshakeDone, RecvError
<1>2. fState' \in [Conns -> {"pending", "running", "finished"}]
  <2>1. CASE fState' = [fState EXCEPT ![conn] = "running"]
    BY <2>1 DEF TypeOK
  <2>2. CASE fState' = [fState EXCEPT ![conn] = "finished"]
    BY <2>2 DEF TypeOK
  <2> QED
    BY <2>1, <2>2 DEF HandshakeDone
<1>3. handle' \in [Conns -> {"empty", "joinable", "joined"}]
  <2>1. CASE handle' = [handle EXCEPT ![conn] = "joinable"]
    BY <2>1 DEF TypeOK
  <2>2. CASE handle' = handle
    BY <2>2 DEF TypeOK
  <2> QED
    BY <2>1, <2>2 DEF HandshakeDone
<1>4. thr' \in [Conns -> Working \cup {"none", "ended"}]
  <2>1. CASE thr' = [thr EXCEPT ![conn] = "entry"]
    BY <2>1 DEF TypeOK, Working
  <2>2. CASE thr' = thr
    BY <2>2 DEF TypeOK
  <2> QED
    BY <2>1, <2>2 DEF HandshakeDone
<1>5. /\ app' \in {"none", "handshake", "up", "stop", "clear", "join", "delete"}
      /\ conn' \in 0..MaxConns
      /\ fRunning' \in [Conns -> BOOLEAN]
  BY DEF TypeOK, HandshakeDone
<1>6. /\ dispatch' \in [Conns -> {"none", "live", "deleted"}]
      /\ helper' \in [Conns -> {"none", "live", "deleted"}]
  BY DEF TypeOK, HandshakeDone
<1> QED
  BY <1>1, <1>2, <1>3, <1>4, <1>5, <1>6 DEF TypeOK

\* The steps of the application: connect, disconnect, send.
LEMMA AppInv == ASSUME IInv, App PROVE IInv'
<1> USE ConnsAssumption
    DEF IInv, TypeOK, WorkingJoinable, ConnectedHasObjects, DeletedJoined,
        NoJoinableDestroyed, FreshConnections, Connected, Working, Conns, objects
<1>1. CASE Connect
  BY <1>1 DEF Connect
<1>2. CASE HandshakeFails
  BY <1>2 DEF HandshakeFails
<1>3. CASE HandshakeDone
  <2>1. CASE thr' = [thr EXCEPT ![conn] = "entry"]
    <3>1. TypeOK'
      BY <1>3, HandshakeTypes
    <3>2. WorkingJoinable' /\ ConnectedHasObjects'
      BY <1>3, <2>1 DEF HandshakeDone, RecvError
    <3>3. DeletedJoined' /\ FreshConnections'
      BY <1>3, <2>1 DEF HandshakeDone, RecvError
    <3> QED
      BY <3>1, <3>2, <3>3
  <2>2. CASE UNCHANGED <<handle, thr>>
    <3>1. TypeOK'
      BY <1>3, HandshakeTypes
    <3>2. WorkingJoinable' /\ ConnectedHasObjects'
      BY <1>3, <2>2 DEF HandshakeDone, RecvError
    <3>3. DeletedJoined' /\ FreshConnections'
      BY <1>3, <2>2 DEF HandshakeDone, RecvError
    <3> QED
      BY <3>1, <3>2, <3>3
  <2> QED
    BY <1>3, <2>1, <2>2 DEF HandshakeDone, RecvError
<1>4. CASE SendFails
  BY <1>4 DEF SendFails
<1>5. CASE Disconnect
  BY <1>5 DEF Disconnect
<1>6. CASE StopTest
  BY <1>6 DEF StopTest
<1>7. CASE StopClear
  BY <1>7 DEF StopClear
<1>8. CASE StopJoin
  <2>1. CASE handle' = handle
    BY <1>8, <2>1 DEF StopJoin
  <2>2. CASE handle' = [handle EXCEPT ![conn] = "joined"] /\ thr[conn] = "ended"
    BY <1>8, <2>2 DEF StopJoin
  <2> QED
    BY <1>8, <2>1, <2>2 DEF StopJoin, Wait
<1>9. CASE Delete
  <2>1. CASE handle' = handle /\ handle[conn] # "joinable"
    BY <1>9, <2>1 DEF Delete
  <2>2. CASE handle' = [handle EXCEPT ![conn] = "joined"] /\ thr[conn] = "ended"
    BY <1>9, <2>2 DEF Delete
  <2> QED
    BY <1>9, <2>1, <2>2 DEF Delete, Wait
<1> QED
  BY <1>1, <1>2, <1>3, <1>4, <1>5, <1>6, <1>7, <1>8, <1>9 DEF App

\* The steps of a dispatch thread and of its peer.
LEMMA ThreadInv ==
  ASSUME IInv, NEW c \in Conns, Thread(c) \/ PeerSends(c) \/ PeerGone(c)
  PROVE  IInv'
<1> USE ConnsAssumption
    DEF IInv, TypeOK, WorkingJoinable, ConnectedHasObjects, DeletedJoined,
        NoJoinableDestroyed, FreshConnections, Connected, Working, Conns, objects, Goto
<1>1. CASE Enter(c)
  BY <1>1 DEF Enter
<1>2. CASE Test(c)
  <2>1. CASE thr' = [thr EXCEPT ![c] = "select"]
    BY <1>2, <2>1 DEF Test
  <2>2. CASE thr' = [thr EXCEPT ![c] = "finish"]
    BY <1>2, <2>2 DEF Test
  <2> QED
    BY <1>2, <2>1, <2>2 DEF Test
<1>3. CASE Select(c)
  <2>1. CASE thr' = [thr EXCEPT ![c] = "recv"] /\ sock' = sock
    BY <1>3, <2>1 DEF Select
  <2>2. CASE thr' = [thr EXCEPT ![c] = "test"] /\ sock' = sock
    BY <1>3, <2>2 DEF Select
  <2>3. CASE /\ thr' = [thr EXCEPT ![c] = "test"]
             /\ sock' = [sock EXCEPT ![c] = "closed"]
    BY <1>3, <2>3 DEF Select
  <2> QED
    BY <1>3, <2>1, <2>2, <2>3 DEF Select
<1>4. CASE Receive(c)
  BY <1>4 DEF Receive
<1>5. CASE ReceiveError(c)
  BY <1>5 DEF ReceiveError, RecvError
<1>6. CASE ReceiveClosed(c)
  BY <1>6 DEF ReceiveClosed
<1>7. CASE Handled(c)
  BY <1>7 DEF Handled
<1>8. CASE Finish(c)
  BY <1>8 DEF Finish
<1>9. CASE PeerSends(c)
  BY <1>9 DEF PeerSends
<1>10. CASE PeerGone(c)
  BY <1>10 DEF PeerGone
<1> QED
  BY <1>1, <1>2, <1>3, <1>4, <1>5, <1>6, <1>7, <1>8, <1>9, <1>10 DEF Thread

\* Every step of the system preserves the invariant.
LEMMA NextInv == IInv /\ [Next]_vars => IInv'
<1> SUFFICES ASSUME IInv, [Next]_vars PROVE IInv'
  OBVIOUS
<1>1. CASE App
  BY <1>1, AppInv
<1>2. CASE \E c \in Conns : Thread(c) \/ PeerSends(c) \/ PeerGone(c)
  BY <1>2, ThreadInv
<1>3. CASE UNCHANGED vars
  BY <1>3
     DEF vars, objects, IInv, TypeOK, WorkingJoinable, ConnectedHasObjects,
         DeletedJoined, NoJoinableDestroyed, FreshConnections, Connected, Working
<1> QED
  BY <1>1, <1>2, <1>3 DEF Next

\* A thread that works belongs to the connection that is up, whose objects
\* exist.
LEMMA InvObjects == IInv => ThreadHasObjects
BY DEF IInv, WorkingJoinable, ConnectedHasObjects, ThreadHasObjects

\* The inductive invariant of connect, disconnect and the dispatch thread.
THEOREM Invariance == Spec => []IInv
<1> QED
  BY InitInv, NextInv, PTL DEF Spec

\* No dispatch thread runs on a deleted helper, dispatcher or socket, for any
\* number of connections (pnThreadedSocket::~pnThreadedSocket, disconnect).
THEOREM ObjectsOutliveThread == Spec => []ThreadHasObjects
<1> QED
  BY Invariance, InvObjects, PTL

\* No joinable std::thread is destroyed (hsThread::~hsThread).
THEOREM ThreadsAreJoined == Spec => []NoJoinableDestroyed
<1>1. IInv => NoJoinableDestroyed
  BY DEF IInv, DeletedJoined
<1> QED
  BY Invariance, <1>1, PTL
=============================================================================
