---------------------------- MODULE ServiceWorker ----------------------------
(***************************************************************************)
(* The network thread of the daemon: class ServiceWorker with its          *)
(* QTcpServer, the connections clients open, and the two queues between    *)
(* this thread and the main thread, which is reduced to what it sends.     *)
(*                                                                         *)
(* Every slot runs to completion, so every slot is one action.  Socket     *)
(* notifications (Connect, Receive, RemoteClose) may come between any two  *)
(* posted events; posted events, deferred deletions among them, are taken  *)
(* in the order they were posted.                                          *)
(*                                                                         *)
(* Of Qt the model keeps three things the code depends on: abort() emits   *)
(* disconnected, at once, only if the socket was still connected; a socket *)
(* whose peer is gone stays open; and an accepted connection lives, reads  *)
(* and dies on its own before nextPendingConnection hands it out.          *)
(***************************************************************************)
EXTENDS Integers, Sequences

CONSTANTS
  Conns,            \* the connections clients open, each at most once
  NoConn,           \* no connection: a null socket, an event without a client
  MaxPosted,        \* bound: posted events and commands under way
  MaxUnread         \* bound: messages waiting in a socket's buffer

ASSUME ConnsAssumption == NoConn \notin Conns
ASSUME BoundsAssumption == MaxPosted \in Nat /\ MaxUnread \in Nat

VARIABLES
  listening,        \* the server listens, newConnection is connected
  link,             \* per connection: not there yet, connected, unconnected
  open,             \* the sockets that are open as a device
  pending,          \* accepted by the server, not handed out
  sock,             \* ServiceWorker::sock
  unread,           \* per connection that is up: messages in its buffer
  posted,           \* events posted to this thread
  toService,        \* cmdReceived signals posted to the main thread
  ownAnswer,        \* history: connections that got an answer of their own
  wrote             \* history: the answer the last step wrote, if any

netVars == <<listening, link, open, pending, sock>>
vars == <<listening, link, open, pending, sock, unread, posted, toService,
          ownAnswer, wrote>>

-----------------------------------------------------------------------------
(* Messages a client can send: a command, a list without a command, bytes  *)
(* that are no list.                                                       *)
Messages == {"cmd", "empty", "garbage"}

(* Posted events.  `conn` is the socket to delete or, as a history only    *)
(* (no signal of the code carries it), the client whose command is         *)
(* answered; notifications and errors answer nobody.                       *)
Events ==
  [sig : {"startServer", "restartServer", "stopServer", "deferredDelete",
          "answer", "notify"},
   conn : Conns \cup {NoConn}]

Event(sig, conn) == [sig |-> sig, conn |-> conn]

NoWrite == [to |-> NoConn, from |-> NoConn]

SetOf(s) == {s[i] : i \in DOMAIN s}

IsSockOpen == sock # NoConn /\ sock \in open

IsSockIdle ==                                                \* faulty variant
  sock # NoConn /\ sock \in open /\ unread[sock] = <<>>

-----------------------------------------------------------------------------
(* Connections.                                                            *)

TakeFirst(queue) ==                                          \* faulty variant
  /\ pending' = queue
  /\ IF queue = <<>> THEN UNCHANGED sock ELSE sock' = Head(queue)

(* getNextPendingConnection, when the server holds `queue`.                *)
TakeNext(queue) ==
  IF queue = <<>>
  THEN pending' = queue /\ UNCHANGED sock
  ELSE pending' = Tail(queue) /\ sock' = Head(queue)

ConnectKeepingOld(c) ==                                      \* faulty variant
  /\ listening /\ link[c] = "none"
  /\ link' = [link EXCEPT ![c] = "up"]
  /\ open' = open \cup {c}
  /\ TakeNext(Append(pending, c))
  /\ wrote' = NoWrite
  /\ UNCHANGED <<listening, unread, posted, toService, ownAnswer>>

(* onNewConnection.  An open socket is aborted; only if it was connected   *)
(* does that run onDisconnected, which takes the next connection.          *)
Connect(c) ==
  /\ listening /\ link[c] = "none"
  /\ LET queue == Append(pending, c) IN
     IF ~IsSockOpen
     THEN /\ link' = [link EXCEPT ![c] = "up"]
          /\ open' = open \cup {c}
          /\ TakeNext(queue)
          /\ UNCHANGED <<posted, unread>>
     ELSE /\ open' = (open \cup {c}) \ {sock}
          /\ IF link[sock] = "up"
             THEN /\ link' = [link EXCEPT ![c] = "up", ![sock] = "down"]
                  /\ unread' = [unread EXCEPT ![sock] = <<>>]
                  /\ posted' = Append(posted, Event("deferredDelete", sock))
                  /\ TakeNext(queue)
             ELSE /\ link' = [link EXCEPT ![c] = "up"]
                  /\ pending' = queue
                  /\ UNCHANGED <<sock, posted, unread>>
  /\ wrote' = NoWrite
  /\ UNCHANGED <<listening, toService, ownAnswer>>

(* The peer closes: onDisconnected for the served connection, nothing for  *)
(* one that is still pending.                                              *)
RemoteClose(c) ==
  /\ link[c] = "up"
  /\ link' = [link EXCEPT ![c] = "down"]
  /\ unread' = [unread EXCEPT ![c] = <<>>]
  /\ IF c = sock
     THEN /\ posted' = Append(posted, Event("deferredDelete", c))
          /\ TakeNext(pending)
     ELSE UNCHANGED <<posted, pending, sock>>
  /\ wrote' = NoWrite
  /\ UNCHANGED <<listening, open, toService, ownAnswer>>

DeferredDelete ==
  /\ posted # <<>>
  /\ LET e == Head(posted) IN
     /\ e.sig = "deferredDelete"
     /\ open' = open \ {e.conn}
     /\ sock' = IF sock = e.conn THEN NoConn ELSE sock
  /\ posted' = Tail(posted)
  /\ wrote' = NoWrite
  /\ UNCHANGED <<listening, link, pending, unread, toService, ownAnswer>>

-----------------------------------------------------------------------------
(* Reading.                                                                *)

(* The first n messages are commands, and the next one, if any, is not.    *)
IsLeading(msgs, n) ==
  /\ \A i \in 1..n : msgs[i] = "cmd"
  /\ n < Len(msgs) => msgs[n + 1] # "cmd"

ReadsAnyone(c) == TRUE                                       \* faulty variant

Reads(c) == c = sock

(* onReadyRead: commands are passed on up to the first message that is     *)
(* none, which is consumed; what follows it waits for the next arrival.  A *)
(* connection that is pending has no slot to read it.                      *)
Receive(c, msgs) ==
  LET all == unread[c] \o msgs IN
  /\ link[c] = "up"
  /\ Len(all) <= MaxUnread
  /\ IF Reads(c)
     THEN \E n \in 0..Len(all) :
            /\ IsLeading(all, n)
            /\ Len(toService) + Len(posted) + n <= MaxPosted
            /\ unread' = [unread EXCEPT ![c] = SubSeq(all, n + 2, Len(all))]
            /\ toService' = toService \o [i \in 1..n |-> c]
     ELSE /\ unread' = [unread EXCEPT ![c] = all]
          /\ UNCHANGED toService
  /\ wrote' = NoWrite
  /\ UNCHANGED <<netVars, posted, ownAnswer>>

-----------------------------------------------------------------------------
(* Slots the main thread calls.                                            *)

CanWrite == IsSockOpen

(* send...: dropped without an open socket, lost on an unconnected one.    *)
Send ==
  /\ posted # <<>>
  /\ LET e == Head(posted)
         written == CanWrite /\ link[sock] = "up" /\ e.sig = "answer"
     IN
     /\ e.sig \in {"answer", "notify"}
     /\ wrote' = IF written THEN [to |-> sock, from |-> e.conn] ELSE NoWrite
     /\ ownAnswer' = IF written /\ e.conn = sock THEN ownAnswer \cup {sock}
                                                 ELSE ownAnswer
  /\ posted' = Tail(posted)
  /\ UNCHANGED <<netVars, unread, toService>>

StartServer ==
  /\ posted # <<>> /\ Head(posted).sig = "startServer"
  /\ listening' \in IF listening THEN {TRUE} ELSE BOOLEAN
  /\ posted' = Tail(posted)
  /\ wrote' = NoWrite
  /\ UNCHANGED <<link, open, pending, sock, unread, toService, ownAnswer>>

(* The server closes, which deletes what is pending, and the served        *)
(* connection is aborted and will be deleted.                              *)
CloseAll ==
  LET closed == SetOf(pending) \cup {sock} IN
  /\ pending' = <<>>
  /\ link' = [c \in Conns |-> IF c \in closed THEN "down" ELSE link[c]]
  /\ open' = open \ closed
  /\ posted' = IF sock = NoConn THEN Tail(posted)
               ELSE Append(Tail(posted), Event("deferredDelete", sock))
  /\ wrote' = NoWrite
  /\ unread' = [c \in Conns |-> IF c \in closed THEN <<>> ELSE unread[c]]
  /\ UNCHANGED <<sock, toService, ownAnswer>>

StopServer ==
  /\ posted # <<>> /\ Head(posted).sig = "stopServer"
  /\ CloseAll
  /\ listening' = FALSE

RestartServer ==
  /\ posted # <<>> /\ Head(posted).sig = "restartServer"
  /\ CloseAll
  /\ listening' \in BOOLEAN

-----------------------------------------------------------------------------
(* The main thread, as far as this one can see it.                         *)

Post(events) ==
  /\ posted' = posted \o events
  /\ wrote' = NoWrite
  /\ UNCHANGED <<netVars, unread, ownAnswer>>

(* What onCmdReceived can emit: an answer, an error before the answer, new *)
(* settings that move the endpoint before their answer, an error alone     *)
(* (missing arguments), nothing (an import that cannot be unpacked).       *)
Replies(c) ==
  {<<Event("answer", c)>>,
   <<Event("notify", NoConn), Event("answer", c)>>,
   <<Event("restartServer", NoConn), Event("answer", c)>>,
   <<Event("notify", NoConn)>>,
   <<>>}

Serve ==
  /\ toService # <<>>
  /\ toService' = Tail(toService)
  /\ \E events \in Replies(Head(toService)) : Post(events)

(* A result of the apply timer, of the battery or of a wake, or a profile  *)
(* list after a change on disk.                                            *)
Notify ==
  /\ Len(posted) < MaxPosted
  /\ Post(<<Event("notify", NoConn)>>)
  /\ UNCHANGED toService

ReloadStartFirst ==                                          \* faulty variant
  /\ Len(posted) + 2 <= MaxPosted
  /\ Post(<<Event("startServer", NoConn), Event("stopServer", NoConn)>>)
  /\ UNCHANGED toService

(* DaemonService::reload.                                                  *)
Reload ==
  /\ Len(posted) + 2 <= MaxPosted
  /\ Post(<<Event("stopServer", NoConn), Event("startServer", NoConn)>>)
  /\ UNCHANGED toService

-----------------------------------------------------------------------------
Init ==
  /\ listening = FALSE
  /\ link = [c \in Conns |-> "none"]
  /\ open = {}
  /\ pending = <<>>
  /\ sock = NoConn
  /\ unread = [c \in Conns |-> <<>>]
  /\ posted = <<Event("startServer", NoConn)>>
  /\ toService = <<>>
  /\ ownAnswer = {}
  /\ wrote = NoWrite

Posted == DeferredDelete \/ Send \/ StartServer \/ StopServer \/ RestartServer

Arrivals == {<<m>> : m \in Messages} \cup {<<m, "cmd">> : m \in Messages}

Next ==
  \/ \E c \in Conns : Connect(c) \/ RemoteClose(c)
  \/ \E c \in Conns, msgs \in Arrivals : Receive(c, msgs)
  \/ Posted
  \/ Serve \/ Notify \/ Reload

Spec == Init /\ [][Next]_vars

(* Both event loops run.                                                   *)
FairSpec == Spec /\ WF_vars(Posted) /\ WF_vars(Serve)

-----------------------------------------------------------------------------
(* The values of the variables; a connection waits at most once, and not   *)
(* while it is served.                                                     *)
TypeOK ==
  /\ listening \in BOOLEAN
  /\ link \in [Conns -> {"none", "up", "down"}]
  /\ open \in SUBSET Conns
  /\ pending \in Seq(Conns)
  /\ \A i, j \in DOMAIN pending : pending[i] = pending[j] => i = j
  /\ sock \in Conns \cup {NoConn}
  /\ sock \notin SetOf(pending)
  /\ unread \in [Conns -> Seq(Messages)]
  /\ posted \in Seq(Events)
  /\ toService \in Seq(Conns)
  /\ ownAnswer \in SUBSET Conns
  /\ wrote \in [to : Conns \cup {NoConn}, from : Conns \cup {NoConn}]

(* No client is left connected to a socket nobody holds any more: whatever *)
(* the order of closes, arrivals, restarts and deletions, a connection     *)
(* that is up is the served one or still waits in the server.              *)
NoConnectionForgotten ==
  \A c \in Conns : link[c] = "up" => c = sock \/ c \in SetOf(pending)

(* Answers carry no client: they go to whatever connection is served when  *)
(* they are sent.  Still, while a client that asked something stays        *)
(* connected, it is the one that is served and can be written to.          *)
AskerIsServed ==
  \A c \in Conns :
    /\ link[c] = "up"
    /\ c \in SetOf(toService) \/ Event("answer", c) \in SetOf(posted)
    => sock = c /\ CanWrite

(* A client that takes over may get answers meant for its predecessor, but *)
(* only before the first one of its own: from then on every answer it gets *)
(* is to a command it sent.                                                *)
ForeignAnswersFirst == wrote.to # wrote.from => wrote.to \notin ownAnswer

(* A server is never asked to listen while it listens, which would fail    *)
(* and leave it at its old place.                                          *)
NeverListensTwice ==
  posted # <<>> /\ Head(posted).sig = "startServer" => ~listening

(* An answer that is under way to a client is written to it, unless it     *)
(* loses the connection.                                                   *)
AnswersArrive ==
  \A c \in Conns :
    Event("answer", c) \in SetOf(posted) /\ link[c] = "up"
      ~> wrote = [to |-> c, from |-> c] \/ link[c] = "down"

(* What the README says of a second client: the previous one is            *)
(* disconnected when a new connection is requested.                        *)
PreviousClientDisconnected ==
  ~ \E i \in DOMAIN pending :
      sock # NoConn /\ link[sock] = "up" /\ link[pending[i]] = "up"
=============================================================================
