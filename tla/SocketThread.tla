---------------------------- MODULE SocketThread ----------------------------
(***************************************************************************)
(* A threaded client of HSPlasmaNet over its connections: connect and      *)
(* disconnect of a client (net/game, with the RC4 socket that the auth,    *)
(* game and gate clients use), pnThreadedSocket and pnThreadHelper         *)
(* (net/pnSocketInterface), hsThread (core/Sys) and what they need of      *)
(* pnSocket.                                                               *)
(*                                                                         *)
(* The application runs in one thread (app is its program counter) and     *)
(* every connection c has a dispatch thread (thr[c]).  The objects of a    *)
(* connection are new with every connect, so everything is indexed by c;   *)
(* net[c] is what the next recv on the connection will find.               *)
(***************************************************************************)
EXTENDS Naturals

CONSTANT MaxConns     \* BOUND on the connections a client makes

ASSUME ConnsAssumption == MaxConns \in Nat

Conns == 1..MaxConns

VARIABLES
  app,       \* the application
  conn,      \* the number of its last connection
  sock,      \* pnSocket; "open" is fConnected
  dispatch,  \* pnDispatcher
  helper,    \* pnThreadHelper
  fRunning,  \* pnThreadHelper::fRunning
  fState,    \* hsThread::fState
  handle,    \* hsThread::fThreadHandle
  thr,       \* the dispatch thread
  net        \* the connection as recv sees it

objects == <<sock, dispatch, helper>>
vars == <<app, conn, objects, fRunning, fState, handle, thr, net>>

\* Where a dispatch thread uses its helper, dispatcher and socket.
Working == {"entry", "test", "select", "recv", "handler", "finish"}

TypeOK ==
  /\ app \in {"none", "handshake", "up", "stop", "clear", "join", "delete"}
  /\ conn \in 0..MaxConns
  /\ sock \in [Conns -> {"none", "open", "closed", "deleted"}]
  /\ dispatch \in [Conns -> {"none", "live", "deleted"}]
  /\ helper \in [Conns -> {"none", "live", "deleted"}]
  /\ fRunning \in [Conns -> BOOLEAN]
  /\ fState \in [Conns -> {"pending", "running", "finished"}]
  /\ handle \in [Conns -> {"empty", "joinable", "joined"}]
  /\ thr \in [Conns -> Working \cup {"none", "ended"}]
  /\ net \in [Conns -> {"quiet", "partial", "message", "reset", "broken", "eof"}]

\* fRunning has no initial value.
Init ==
  /\ app = "none" /\ conn = 0
  /\ sock = [c \in Conns |-> "none"]
  /\ dispatch = [c \in Conns |-> "none"]
  /\ helper = [c \in Conns |-> "none"]
  /\ fRunning \in [Conns -> BOOLEAN]
  /\ fState = [c \in Conns |-> "pending"]
  /\ handle = [c \in Conns |-> "empty"]
  /\ thr = [c \in Conns |-> "none"]
  /\ net = [c \in Conns |-> "quiet"]

-----------------------------------------------------------------------------
(* The peer.  A message may arrive in two parts, or never as a whole.       *)

PeerSends(c) ==
  /\ sock[c] = "open"
  /\ \/ net[c] = "quiet" /\ net' = [net EXCEPT ![c] = "partial"]
     \/ net[c] = "partial" /\ net' = [net EXCEPT ![c] = "message"]
  /\ UNCHANGED <<app, conn, objects, fRunning, fState, handle, thr>>

PeerGone(c) ==
  /\ sock[c] = "open" /\ net[c] \in {"quiet", "partial"}
  /\ \E n \in {"reset", "broken", "eof"} : net' = [net EXCEPT ![c] = n]
  /\ UNCHANGED <<app, conn, objects, fRunning, fState, handle, thr>>

-----------------------------------------------------------------------------
(* The application.                                                        *)

\* connect, up to the key exchange.  A client retries a connect that failed.
Connect ==
  /\ app = "none" /\ conn < MaxConns
  /\ conn' = conn + 1
  /\ \/ app' = "handshake" /\ sock' = [sock EXCEPT ![conn'] = "open"]
     \/ app' = "none" /\ sock' = [sock EXCEPT ![conn'] = "deleted"]
  /\ UNCHANGED <<dispatch, helper, fRunning, fState, handle, thr, net>>

\* A send or recv fails or the answer is not the one hoped for: the socket is
\* deleted.
HandshakeFails ==
  /\ app = "handshake"
  /\ app' = "none"
  /\ sock' = [sock EXCEPT ![conn] = "deleted"]
  /\ UNCHANGED <<conn, dispatch, helper, fRunning, fState, handle, thr, net>>

\* recv returns -1: the socket is closed unless the connection was reset.  The
\* error is reported once.
RecvError(c) ==
  /\ net[c] \in {"reset", "broken"}
  /\ net' = [net EXCEPT ![c] = "eof"]
  /\ sock' = IF net[c] = "broken" THEN [sock EXCEPT ![c] = "closed"] ELSE sock

\* performConnect to its end, also if receiving the server's seed fails:
\* dispatcher, pnThreadedSocket, its helper, and hsThread::start, which may find
\* no thread to start and throw.
HandshakeDone ==
  /\ app = "handshake"
  /\ app' = "up"
  /\ \/ net[conn] = "message" /\ net' = [net EXCEPT ![conn] = "quiet"] /\ sock' = sock
     \/ RecvError(conn)
  /\ dispatch' = [dispatch EXCEPT ![conn] = "live"]
  /\ helper' = [helper EXCEPT ![conn] = "live"]
  /\ \/ /\ fState' = [fState EXCEPT ![conn] = "running"]
        /\ handle' = [handle EXCEPT ![conn] = "joinable"]
        /\ thr' = [thr EXCEPT ![conn] = "entry"]
     \/ /\ fState' = [fState EXCEPT ![conn] = "finished"]
        /\ UNCHANGED <<handle, thr>>
  /\ UNCHANGED <<conn, fRunning>>

\* A send that fails closes the socket under the dispatch thread.
SendFails ==
  /\ app = "up" /\ sock[conn] = "open"
  /\ sock' = [sock EXCEPT ![conn] = "closed"]
  /\ UNCHANGED <<app, conn, dispatch, helper, fRunning, fState, handle, thr, net>>

Disconnect ==
  /\ app = "up"
  /\ app' = "stop"
  /\ UNCHANGED <<conn, objects, fRunning, fState, handle, thr, net>>

\* pnThreadHelper::stop: `if (!isFinished())`,
StopTest ==
  /\ app = "stop"
  /\ app' = IF fState[conn] = "finished" THEN "delete" ELSE "clear"
  /\ UNCHANGED <<conn, objects, fRunning, fState, handle, thr, net>>

\* `fRunning = false`,
StopClear ==
  /\ app = "clear"
  /\ app' = "join"
  /\ fRunning' = [fRunning EXCEPT ![conn] = FALSE]
  /\ UNCHANGED <<conn, objects, fState, handle, thr, net>>

\* Mutant: join returns at once.
WaitNot(c) == handle' = handle

\* and hsThread::wait, which returns when the thread has ended.
Wait(c) ==
  \/ handle[c] # "joinable" /\ handle' = handle
  \/ /\ handle[c] = "joinable" /\ thr[c] = "ended"
     /\ handle' = [handle EXCEPT ![c] = "joined"]

StopJoin ==
  /\ app = "join"
  /\ Wait(conn)
  /\ app' = "delete"
  /\ UNCHANGED <<conn, objects, fRunning, fState, thr, net>>

\* Mutant: stop has waited, so the destructor of hsThread does not.
DeleteUnwaited ==
  /\ app = "delete"
  /\ app' = "none"
  /\ helper' = [helper EXCEPT ![conn] = "deleted"]
  /\ dispatch' = [dispatch EXCEPT ![conn] = "deleted"]
  /\ sock' = [sock EXCEPT ![conn] = "deleted"]
  /\ UNCHANGED <<conn, fRunning, fState, handle, thr, net>>

\* The rest of disconnect: delete fHelper, whose base class waits once more,
\* delete fDispatch and delete fSock.
Delete ==
  /\ app = "delete"
  /\ Wait(conn)
  /\ app' = "none"
  /\ helper' = [helper EXCEPT ![conn] = "deleted"]
  /\ dispatch' = [dispatch EXCEPT ![conn] = "deleted"]
  /\ sock' = [sock EXCEPT ![conn] = "deleted"]
  /\ UNCHANGED <<conn, fRunning, fState, thr, net>>

App == \/ Connect \/ HandshakeFails \/ HandshakeDone \/ SendFails \/ Disconnect
       \/ StopTest \/ StopClear \/ StopJoin \/ Delete

-----------------------------------------------------------------------------
(* The dispatch thread.                                                    *)

Goto(c, from, to) == thr[c] = from /\ thr' = [thr EXCEPT ![c] = to]

\* run(): `fRunning = true`, also if stop has come before.
Enter(c) ==
  /\ Goto(c, "entry", "test")
  /\ fRunning' = [fRunning EXCEPT ![c] = TRUE]
  /\ UNCHANGED <<app, conn, objects, fState, handle, net>>

\* Mutant: only the socket ends the loop.
TestSocket(c) ==
  /\ IF sock[c] = "open"
     THEN Goto(c, "test", "select") ELSE Goto(c, "test", "finish")
  /\ UNCHANGED <<app, conn, objects, fRunning, fState, handle, net>>

\* The condition of the loop.
Test(c) ==
  /\ IF fRunning[c] /\ sock[c] = "open"
     THEN Goto(c, "test", "select") ELSE Goto(c, "test", "finish")
  /\ UNCHANGED <<app, conn, objects, fRunning, fState, handle, net>>

\* waitForData: something to read, which the end of the connection is as well,
\* a time-out, or an error, which closes the socket.
Select(c) ==
  /\ \/ /\ sock[c] = "open" /\ net[c] # "quiet"
        /\ Goto(c, "select", "recv") /\ sock' = sock
     \/ /\ sock[c] = "open" => net[c] = "quiet"
        /\ Goto(c, "select", "test") /\ sock' = sock
     \/ Goto(c, "select", "test") /\ sock' = [sock EXCEPT ![c] = "closed"]
  /\ UNCHANGED <<app, conn, dispatch, helper, fRunning, fState, handle, net>>

\* recv has the whole message.
Receive(c) ==
  /\ sock[c] = "open" /\ net[c] = "message" /\ Goto(c, "recv", "handler")
  /\ net' = [net EXCEPT ![c] = "quiet"]
  /\ UNCHANGED <<app, conn, objects, fRunning, fState, handle>>

\* recv fails, and dispatch goes on with what was in its buffer.
ReceiveError(c) ==
  /\ sock[c] = "open" /\ Goto(c, "recv", "handler")
  /\ RecvError(c)
  /\ UNCHANGED <<app, conn, dispatch, helper, fRunning, fState, handle>>

\* So does it when a failed send has closed the socket.
ReceiveClosed(c) ==
  /\ sock[c] = "closed" /\ Goto(c, "recv", "handler")
  /\ UNCHANGED <<app, conn, objects, fRunning, fState, handle, net>>

\* The handler has run, or there is none for this message: dispatch returns
\* false and the socket is closed.
Handled(c) ==
  /\ Goto(c, "handler", "test")
  /\ sock' \in {sock, [sock EXCEPT ![c] = "closed"]}
  /\ UNCHANGED <<app, conn, dispatch, helper, fRunning, fState, handle, net>>

\* threadEntry, after run().
Finish(c) ==
  /\ Goto(c, "finish", "ended")
  /\ fState' = [fState EXCEPT ![c] = "finished"]
  /\ UNCHANGED <<app, conn, objects, fRunning, handle, net>>

Thread(c) == \/ Enter(c) \/ Test(c) \/ Select(c) \/ Receive(c) \/ ReceiveError(c)
             \/ ReceiveClosed(c) \/ Handled(c) \/ Finish(c)

Next == App \/ \E c \in Conns : Thread(c) \/ PeerSends(c) \/ PeerGone(c)

Spec == Init /\ [][Next]_vars

\* Threads are scheduled, handlers return, disconnect is driven to its end,
\* and a peer that has begun a message completes it or goes.
FairSpec ==
  /\ Spec
  /\ WF_vars(StopTest \/ StopClear \/ StopJoin \/ Delete)
  /\ \A c \in Conns : /\ WF_vars(Thread(c))
                      /\ WF_vars(net[c] = "partial" /\ (PeerSends(c) \/ PeerGone(c)))

-----------------------------------------------------------------------------
(* Properties.                                                             *)

\* A dispatch thread never runs on a helper, dispatcher or socket that
\* disconnect has deleted, whenever it is stopped and whatever closed the
\* socket (pnThreadedSocket::~pnThreadedSocket before the two other deletes).
ThreadHasObjects ==
  \A c \in Conns : thr[c] \in Working =>
    sock[c] \in {"open", "closed"} /\ dispatch[c] = "live" /\ helper[c] = "live"

\* No std::thread is destroyed while it is joinable, which would terminate the
\* program: stop does not wait for a thread that has finished by itself.
NoJoinableDestroyed ==
  \A c \in Conns : helper[c] = "deleted" => handle[c] # "joinable"

\* disconnect returns, in whatever state the message being received is, once
\* the thread has begun and unless the peer has closed the connection.
DisconnectReturns ==
  \A c \in Conns :
    (app = "join" /\ conn = c /\ thr[c] # "entry" /\ ~fRunning[c])
      ~> (app = "none" \/ net[c] = "eof")

\* pnThreadHelper::run: "close the socket if anything fails": a connection that
\* the peer has ended does not stay open.
FailureClosesSocket ==
  \A c \in Conns : (thr[c] = "recv" /\ net[c] = "eof") ~> sock[c] # "open"
=============================================================================
