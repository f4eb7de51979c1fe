------------------------- MODULE ServiceWorkerProofs -------------------------
(***************************************************************************)
(* Proofs about ServiceWorker, for any set of connections and any bounds.  *)
(***************************************************************************)
EXTENDS ServiceWorker, SequenceTheorems, TLAPS

-----------------------------------------------------------------------------
(* What the queues hold after an operation on them.                        *)

LEMMA EmptyHolds == SetOf(<<>>) = {}
  BY DEF SetOf

LEMMA OneHolds ==
  ASSUME NEW S, NEW x \in S
  PROVE  <<x>> \in Seq(S) /\ SetOf(<<x>>) = {x}
  <1>1. DOMAIN <<x>> = {1} /\ <<x>>[1] = x
    OBVIOUS
  <1>. QED
    BY <1>1 DEF SetOf

LEMMA TwoHold ==
  ASSUME NEW S, NEW x \in S, NEW y \in S
  PROVE  <<x, y>> \in Seq(S) /\ SetOf(<<x, y>>) = {x, y}
  <1>1. DOMAIN <<x, y>> = {1, 2} /\ <<x, y>>[1] = x /\ <<x, y>>[2] = y
    OBVIOUS
  <1>. QED
    BY <1>1 DEF SetOf

LEMMA AppendHolds ==
  ASSUME NEW S, NEW s \in Seq(S), NEW x \in S
  PROVE  /\ Append(s, x) \in Seq(S)
         /\ SetOf(Append(s, x)) = SetOf(s) \cup {x}
  <1>1. Append(s, x) \in Seq(S) /\ Len(Append(s, x)) = Len(s) + 1
        /\ \A i \in 1..Len(s) : Append(s, x)[i] = s[i]
        /\ Append(s, x)[Len(s) + 1] = x
    OBVIOUS
  <1>2. DOMAIN s = 1..Len(s) /\ DOMAIN Append(s, x) = 1..(Len(s) + 1)
        /\ Len(s) \in Nat
    BY <1>1
  <1>3. SetOf(Append(s, x)) \subseteq SetOf(s) \cup {x}
    BY <1>1, <1>2 DEF SetOf
  <1>4. SetOf(s) \subseteq SetOf(Append(s, x))
    BY <1>1, <1>2 DEF SetOf
  <1>5. x \in SetOf(Append(s, x))
    BY <1>1, <1>2 DEF SetOf
  <1>. QED
    BY <1>1, <1>3, <1>4, <1>5

LEMMA TailHolds ==
  ASSUME NEW S, NEW s \in Seq(S), s # <<>>
  PROVE  /\ Tail(s) \in Seq(S) /\ Head(s) \in S
         /\ SetOf(s) = {Head(s)} \cup SetOf(Tail(s))
  <1>1. /\ Tail(s) \in Seq(S) /\ Head(s) \in S /\ Head(s) = s[1]
        /\ Len(s) \in Nat \ {0} /\ Len(Tail(s)) = Len(s) - 1
        /\ \A i \in 1..(Len(s) - 1) : Tail(s)[i] = s[i + 1]
    OBVIOUS
  <1>2. DOMAIN s = 1..Len(s) /\ DOMAIN Tail(s) = 1..(Len(s) - 1)
    BY <1>1
  <1>3. SetOf(Tail(s)) \subseteq SetOf(s) /\ Head(s) \in SetOf(s)
    BY <1>1, <1>2 DEF SetOf
  <1>4. ASSUME NEW i \in DOMAIN s, i # 1
        PROVE  s[i] \in SetOf(Tail(s))
    <2>1. i - 1 \in DOMAIN Tail(s) /\ Tail(s)[i - 1] = s[i]
      BY <1>1, <1>2, <1>4
    <2>. QED
      BY <2>1 DEF SetOf
  <1>5. SetOf(s) \subseteq {Head(s)} \cup SetOf(Tail(s))
    BY <1>1, <1>4 DEF SetOf
  <1>. QED
    BY <1>1, <1>3, <1>5

LEMMA ConcatHolds ==
  ASSUME NEW S, NEW s \in Seq(S), NEW t \in Seq(S)
  PROVE  /\ s \o t \in Seq(S)
         /\ SetOf(s \o t) = SetOf(s) \cup SetOf(t)
  <1>1. /\ s \o t \in Seq(S) /\ Len(s) \in Nat /\ Len(t) \in Nat
        /\ Len(s \o t) = Len(s) + Len(t)
        /\ \A i \in 1..Len(s) : (s \o t)[i] = s[i]
        /\ \A i \in 1..Len(t) : (s \o t)[Len(s) + i] = t[i]
    OBVIOUS
  <1>2. /\ DOMAIN s = 1..Len(s) /\ DOMAIN t = 1..Len(t)
        /\ DOMAIN (s \o t) = 1..(Len(s) + Len(t))
    BY <1>1
  <1>3. SetOf(s) \subseteq SetOf(s \o t)
    BY <1>1, <1>2 DEF SetOf
  <1>4. SetOf(t) \subseteq SetOf(s \o t)
    <2>1. \A i \in 1..Len(t) : Len(s) + i \in DOMAIN (s \o t)
      BY <1>1, <1>2
    <2>. QED
      BY <1>1, <1>2, <2>1 DEF SetOf
  <1>5. SetOf(s \o t) \subseteq SetOf(s) \cup SetOf(t)
    <2>1. ASSUME NEW i \in DOMAIN (s \o t)
          PROVE  (s \o t)[i] \in SetOf(s) \cup SetOf(t)
      <3>1. CASE i \in 1..Len(s)
        BY <1>1, <1>2, <3>1 DEF SetOf
      <3>2. CASE i \notin 1..Len(s)
        <4>1. i - Len(s) \in 1..Len(t) /\ i = Len(s) + (i - Len(s))
          BY <1>1, <1>2, <3>2
        <4>2. (s \o t)[i] = t[i - Len(s)]
          BY <1>1, <4>1
        <4>. QED
          BY <1>2, <4>1, <4>2 DEF SetOf
      <3>. QED
        BY <3>1, <3>2
    <2>. QED
      BY <2>1 DEF SetOf
  <1>. QED
    BY <1>1, <1>3, <1>4, <1>5

(* Sequences without repetition.                                           *)
Distinct(s) == \A i, j \in DOMAIN s : s[i] = s[j] => i = j

LEMMA AppendDistinct ==
  ASSUME NEW S, NEW s \in Seq(S), NEW x \in S, Distinct(s), x \notin SetOf(s)
  PROVE  Distinct(Append(s, x))
  <1>1. /\ Len(s) \in Nat /\ DOMAIN s = 1..Len(s)
        /\ DOMAIN Append(s, x) = 1..(Len(s) + 1)
        /\ \A i \in 1..Len(s) : Append(s, x)[i] = s[i]
        /\ Append(s, x)[Len(s) + 1] = x
    OBVIOUS
  <1>2. \A i \in 1..Len(s) : s[i] # x
    BY <1>1 DEF SetOf
  <1>. QED
    BY <1>1, <1>2 DEF Distinct

LEMMA TailDistinct ==
  ASSUME NEW S, NEW s \in Seq(S), s # <<>>, Distinct(s)
  PROVE  Distinct(Tail(s)) /\ Head(s) \notin SetOf(Tail(s))
  <1>1. /\ Head(s) = s[1]
        /\ Len(s) \in Nat \ {0} /\ DOMAIN s = 1..Len(s)
        /\ DOMAIN Tail(s) = 1..(Len(s) - 1)
        /\ \A i \in 1..(Len(s) - 1) : Tail(s)[i] = s[i + 1]
    OBVIOUS
  <1>2. Distinct(Tail(s))
    BY <1>1 DEF Distinct
  <1>3. \A i \in DOMAIN Tail(s) : Tail(s)[i] # Head(s)
    BY <1>1 DEF Distinct
  <1>. QED
    BY <1>2, <1>3 DEF SetOf

-----------------------------------------------------------------------------
(* The inductive invariant: what is proved, and why it lasts: a connected  *)
(* socket is open, so onNewConnection aborts it rather than dropping it;   *)
(* what is to be deleted is no longer connected; a connection that is      *)
(* served, waits or has asked something has been there before, so a        *)
(* connection that arrives is none of these.                               *)
UpIsOpen == \A c \in Conns : link[c] = "up" => c \in open

DeletedIsDown ==
  \A e \in SetOf(posted) :
    e.sig = "deferredDelete" => e.conn \in Conns /\ link[e.conn] = "down"

Asked(c) == c \in SetOf(toService) \/ Event("answer", c) \in SetOf(posted)

KnownIsThere ==
  \A c \in Conns :
    c = sock \/ c \in SetOf(pending) \/ Asked(c) => link[c] # "none"

Inv ==
  /\ TypeOK
  /\ NoConnectionForgotten
  /\ AskerIsServed
  /\ UpIsOpen
  /\ DeletedIsDown
  /\ KnownIsThere

LEMMA EventTypes ==
  \A sig \in {"startServer", "restartServer", "stopServer", "deferredDelete",
              "answer", "notify"}, conn \in Conns \cup {NoConn} :
    /\ Event(sig, conn) \in Events
    /\ Event(sig, conn).sig = sig /\ Event(sig, conn).conn = conn
  BY DEF Event, Events

LEMMA NoWriteType ==
  NoWrite \in [to : Conns \cup {NoConn}, from : Conns \cup {NoConn}]
  BY DEF NoWrite

(* The plain types, and the shape of what waits.                           *)
Types ==
  /\ listening \in BOOLEAN
  /\ link \in [Conns -> {"none", "up", "down"}]
  /\ open \in SUBSET Conns
  /\ pending \in Seq(Conns)
  /\ sock \in Conns \cup {NoConn}
  /\ unread \in [Conns -> Seq(Messages)]
  /\ posted \in Seq(Events)
  /\ toService \in Seq(Conns)
  /\ ownAnswer \in SUBSET Conns
  /\ wrote \in [to : Conns \cup {NoConn}, from : Conns \cup {NoConn}]

Shape == Distinct(pending) /\ sock \notin SetOf(pending)

LEMMA TypeSplit == TypeOK <=> Types /\ Shape
  BY DEF TypeOK, Types, Shape, Distinct

LEMMA InitInv == Init => Inv
  <1> SUFFICES ASSUME Init PROVE Inv
    OBVIOUS
  <1>1. posted \in Seq(Events) /\ SetOf(posted) = {Event("startServer", NoConn)}
    <2>1. Event("startServer", NoConn) \in Events
      BY EventTypes
    <2>. QED
      BY <2>1 DEF Init, SetOf
  <1>2. Types
    <2>1. /\ pending \in Seq(Conns) /\ toService \in Seq(Conns)
          /\ unread \in [Conns -> Seq(Messages)]
      BY EmptySeq DEF Init
    <2>2. /\ wrote \in [to : Conns \cup {NoConn}, from : Conns \cup {NoConn}]
          /\ listening \in BOOLEAN /\ sock \in Conns \cup {NoConn}
          /\ open \in SUBSET Conns /\ ownAnswer \in SUBSET Conns
          /\ link \in [Conns -> {"none", "up", "down"}]
      BY NoWriteType DEF Init
    <2>. QED
      BY <1>1, <2>1, <2>2 DEF Types
  <1>3. Shape
    BY EmptyHolds DEF Init, Shape, Distinct
  <1>4. NoConnectionForgotten /\ UpIsOpen
    BY DEF Init, NoConnectionForgotten, UpIsOpen
  <1>5. DeletedIsDown
    BY <1>1, EventTypes DEF DeletedIsDown
  <1>6. \A c \in Conns : ~Asked(c)
    BY <1>1, EmptyHolds DEF Asked, Init, Event
  <1>7. AskerIsServed /\ KnownIsThere
    BY <1>6, EmptyHolds, ConnsAssumption
    DEF Init, AskerIsServed, KnownIsThere, Asked
  <1>. QED
    BY <1>2, <1>3, <1>4, <1>5, <1>7, TypeSplit DEF Inv

(* What getNextPendingConnection leaves: nothing waits and the connection  *)
(* served is the old one, or it is the one that waited longest.            *)
LEMMA NextTaken ==
  ASSUME sock \in Conns \cup {NoConn}, NEW queue \in Seq(Conns),
         Distinct(queue), TakeNext(queue)
  PROVE  /\ pending' \in Seq(Conns) /\ sock' \in Conns \cup {NoConn}
         /\ Shape'
         /\ \/ queue = <<>> /\ SetOf(pending') = {} /\ sock' = sock
            \/ /\ sock' \in Conns
               /\ SetOf(queue) = {sock'} \cup SetOf(pending')
  <1>1. CASE queue = <<>>
    BY <1>1, EmptyHolds DEF TakeNext, Shape, Distinct
  <1>2. CASE queue # <<>>
    <2>1. pending' = Tail(queue) /\ sock' = Head(queue)
      BY <1>2 DEF TakeNext
    <2>2. /\ Tail(queue) \in Seq(Conns) /\ Head(queue) \in Conns
          /\ SetOf(queue) = {Head(queue)} \cup SetOf(Tail(queue))
      BY <1>2, TailHolds
    <2>3. Distinct(Tail(queue)) /\ Head(queue) \notin SetOf(Tail(queue))
      BY <1>2, TailDistinct
    <2>. QED
      BY <2>1, <2>2, <2>3 DEF Shape
  <1>. QED
    BY <1>1, <1>2

(* The part of the invariant that relates connections to queues, from what *)
(* a step may do to both.                                                  *)
LEMMA LinkedInv ==
  ASSUME Inv, Types', Shape',
         UpIsOpen', NoConnectionForgotten', DeletedIsDown',
         \A c \in Conns : Asked(c)' => Asked(c) \/ (c = sock /\ link[c] = "up"),
         \A c \in Conns : link[c] # "none" => link'[c] # "none",
         \A c \in Conns : link[c] # "none" /\ link'[c] = "up" => link[c] = "up",
         \A c \in Conns : c = sock' \/ c \in SetOf(pending') => link'[c] # "none",
         \A c \in Conns : link'[c] = "up" /\ c = sock => sock' = sock
  PROVE  Inv'
  <1> USE DEF Inv
  <1>1. KnownIsThere'
    BY DEF KnownIsThere, Asked
  <1>2. ASSUME NEW c \in Conns, link'[c] = "up", Asked(c)'
        PROVE  sock' = c
    <2>1. link[c] # "none"
      BY <1>2 DEF KnownIsThere
    <2>2. link[c] = "up"
      BY <1>2, <2>1
    <2>3. sock = c
      BY <1>2, <2>2 DEF AskerIsServed, Asked
    <2>. QED
      BY <1>2, <2>3
  <1>3. AskerIsServed'
    <2> SUFFICES ASSUME NEW c \in Conns, link'[c] = "up", Asked(c)'
                 PROVE  sock' = c /\ CanWrite'
      BY DEF AskerIsServed, Asked
    <2>1. sock' = c
      BY <1>2
    <2>2. c \in open' /\ c # NoConn
      BY ConnsAssumption DEF UpIsOpen
    <2>. QED
      BY <2>1, <2>2 DEF CanWrite, IsSockOpen
  <1>4. TypeOK'
    BY DEF TypeOK, Types, Shape, Distinct
  <1>. QED
    BY <1>1, <1>3, <1>4

-----------------------------------------------------------------------------
(* Every action keeps the invariant.                                       *)

LEMMA ConnectKeepsInv ==
  ASSUME Inv, NEW c \in Conns, Connect(c)
  PROVE  Inv'
  <1> USE DEF Inv
  <1> DEFINE queue == Append(pending, c)
  <1>1. Types /\ Shape
    BY TypeSplit
  <1>2. link[c] = "none" /\ c \notin SetOf(pending) /\ c # sock
    BY DEF Connect, KnownIsThere
  <1>3. queue \in Seq(Conns) /\ SetOf(queue) = SetOf(pending) \cup {c}
    BY <1>1, AppendHolds DEF Types
  <1>4. Distinct(queue) /\ sock \notin SetOf(queue)
    BY <1>1, <1>2, <1>3, AppendDistinct DEF Shape, Types
  <1>5. toService' = toService /\ wrote' = NoWrite
        /\ UNCHANGED <<listening, ownAnswer>>
    BY DEF Connect
  <1>6. unread' \in [Conns -> Seq(Messages)] /\ open' \in SUBSET Conns
    <2>1. unread' = unread \/ unread' = [unread EXCEPT ![sock] = <<>>]
      BY DEF Connect
    <2>2. <<>> \in Seq(Messages)
      BY EmptySeq
    <2>3. unread' \in [Conns -> Seq(Messages)]
      BY <1>1, <2>1, <2>2 DEF Types
    <2>. QED
      BY <1>1, <2>3 DEF Connect, Types
  <1>7. CASE ~IsSockOpen \/ link[sock] # "up"
    <2>1. \A x \in Conns : x = sock => link[x] # "up"
      BY <1>1, <1>7, ConnsAssumption DEF IsSockOpen, UpIsOpen, Types
    <2>2. link' = [link EXCEPT ![c] = "up"] /\ posted' = posted
      BY <1>7 DEF Connect
    <2>3. open' \in {open \cup {c}, (open \cup {c}) \ {sock}}
      BY <1>7 DEF Connect
    <2>4. /\ pending' \in Seq(Conns) /\ sock' \in Conns \cup {NoConn} /\ Shape'
          /\ {sock'} \cup SetOf(pending') \subseteq {sock} \cup SetOf(queue)
          /\ SetOf(queue) \subseteq {sock'} \cup SetOf(pending')
      <3>1. CASE ~IsSockOpen
        <4>1. TakeNext(queue)
          BY <3>1 DEF Connect
        <4>. QED
          BY <1>1, <1>3, <1>4, <4>1, NextTaken, EmptyHolds DEF Types
      <3>2. CASE IsSockOpen
        <4>1. pending' = queue /\ sock' = sock
          BY <1>7, <3>2 DEF Connect
        <4>. QED
          BY <1>1, <1>3, <1>4, <4>1 DEF Shape, Types
      <3>. QED
        BY <3>1, <3>2
    <2>5. Types'
      BY <1>1, <1>5, <1>6, <2>2, <2>4, NoWriteType DEF Types
    <2>6. UpIsOpen'
      BY <1>1, <1>2, <2>1, <2>2, <2>3 DEF UpIsOpen, Types
    <2>7. NoConnectionForgotten'
      BY <1>1, <1>3, <2>1, <2>2, <2>4 DEF NoConnectionForgotten, Types
    <2>8. DeletedIsDown'
      BY <1>1, <1>2, <2>2 DEF DeletedIsDown, Types
    <2>9. \A x \in Conns : x = sock' \/ x \in SetOf(pending') => link'[x] # "none"
      BY <1>1, <1>3, <2>2, <2>4 DEF KnownIsThere, Types
    <2>. QED
      BY <1>1, <1>2, <1>5, <2>1, <2>2, <2>4, <2>5, <2>6, <2>7, <2>8, <2>9, LinkedInv
      DEF Asked, Types
  <1>8. CASE IsSockOpen /\ link[sock] = "up"
    <2>1. sock \in Conns
      BY <1>1, <1>8 DEF IsSockOpen, Types
    <2>2. /\ link' = [link EXCEPT ![c] = "up", ![sock] = "down"]
          /\ open' = (open \cup {c}) \ {sock}
          /\ posted' = Append(posted, Event("deferredDelete", sock))
          /\ TakeNext(queue)
      BY <1>8 DEF Connect
    <2>3. /\ posted' \in Seq(Events)
          /\ SetOf(posted') = SetOf(posted) \cup {Event("deferredDelete", sock)}
      BY <1>1, <2>1, <2>2, AppendHolds, EventTypes DEF Types
    <2>4. /\ pending' \in Seq(Conns) /\ sock' \in Conns \cup {NoConn} /\ Shape'
          /\ sock' \in Conns /\ SetOf(queue) = {sock'} \cup SetOf(pending')
      BY <1>1, <1>3, <1>4, <2>2, NextTaken, EmptyHolds DEF Types
    <2>5. Types'
      BY <1>1, <1>5, <1>6, <2>2, <2>3, <2>4, NoWriteType DEF Types
    <2>6. UpIsOpen'
      BY <1>1, <1>2, <2>2 DEF UpIsOpen, Types
    <2>7. NoConnectionForgotten'
      BY <1>1, <1>2, <1>3, <2>2, <2>4 DEF NoConnectionForgotten, Types
    <2>8. DeletedIsDown'
      BY <1>1, <1>2, <2>1, <2>2, <2>3, EventTypes DEF DeletedIsDown, Types
    <2>9. \A x \in Conns : x = sock' \/ x \in SetOf(pending') => link'[x] # "none"
      BY <1>1, <1>3, <2>2, <2>4 DEF KnownIsThere, Types
    <2>10. \A x \in Conns : Asked(x)' => Asked(x)
      BY <1>5, <2>3 DEF Asked, Event
    <2>. QED
      BY <1>1, <1>2, <2>1, <2>2, <2>4, <2>5, <2>6, <2>7, <2>8, <2>9, <2>10,
         LinkedInv
      DEF Types
  <1>. QED
    BY <1>7, <1>8

LEMMA RemoteCloseKeepsInv ==
  ASSUME Inv, NEW c \in Conns, RemoteClose(c)
  PROVE  Inv'
  <1> USE DEF Inv
  <1>1. Types /\ Shape
    BY TypeSplit
  <1>2. /\ link[c] = "up" /\ link' = [link EXCEPT ![c] = "down"]
        /\ wrote' = NoWrite
        /\ UNCHANGED <<listening, open, toService, ownAnswer>>
    BY DEF RemoteClose
  <1>3. unread' \in [Conns -> Seq(Messages)]
    BY <1>1, EmptySeq DEF RemoteClose, Types
  <1>4. /\ pending' \in Seq(Conns) /\ sock' \in Conns \cup {NoConn} /\ Shape'
        /\ {sock'} \cup SetOf(pending') \subseteq {sock} \cup SetOf(pending)
        /\ SetOf(pending) \subseteq {sock'} \cup SetOf(pending')
        /\ sock # c => sock' = sock
    <2>1. CASE c = sock
      <3>1. TakeNext(pending)
        BY <2>1 DEF RemoteClose
      <3>. QED
        BY <1>1, <2>1, <3>1, NextTaken, EmptyHolds DEF Types, Shape
    <2>2. CASE c # sock
      BY <1>1, <2>2 DEF RemoteClose, Types, Shape
    <2>. QED
      BY <2>1, <2>2
  <1>5. /\ posted' \in Seq(Events)
        /\ SetOf(posted') \subseteq SetOf(posted) \cup {Event("deferredDelete", c)}
    <2>1. Event("deferredDelete", c) \in Events
      BY EventTypes
    <2>2. posted' = posted \/ posted' = Append(posted, Event("deferredDelete", c))
      BY DEF RemoteClose
    <2>3. posted \in Seq(Events)
      BY <1>1 DEF Types
    <2>4. CASE posted' = posted
      BY <2>3, <2>4
    <2>5. CASE posted' = Append(posted, Event("deferredDelete", c))
      BY <2>1, <2>3, <2>5, AppendHolds
    <2>. QED
      BY <2>2, <2>4, <2>5
  <1>6. Types'
    BY <1>1, <1>2, <1>3, <1>4, <1>5, NoWriteType DEF Types
  <1>7. UpIsOpen'
    BY <1>1, <1>2 DEF UpIsOpen, Types
  <1>8. NoConnectionForgotten'
    BY <1>1, <1>2, <1>4 DEF NoConnectionForgotten, Types
  <1>9. DeletedIsDown'
    BY <1>1, <1>2, <1>5, EventTypes DEF DeletedIsDown, Types
  <1>10. \A x \in Conns : x = sock' \/ x \in SetOf(pending') => link'[x] # "none"
    BY <1>1, <1>2, <1>4 DEF KnownIsThere, Types
  <1>11. \A x \in Conns : Asked(x)' => Asked(x)
    BY <1>2, <1>5 DEF Asked, Event
  <1>. QED
    BY <1>1, <1>2, <1>4, <1>6, <1>7, <1>8, <1>9, <1>10, <1>11, LinkedInv
    DEF Types

(* A step that takes the first posted event, changes no connection and at  *)
(* most reads, or listens.                                                 *)
LEMMA QuietStepKeepsInv ==
  ASSUME Inv, UNCHANGED <<link, open, pending, sock>>, Types',
         DeletedIsDown',
         \A c \in Conns : Asked(c)' => Asked(c) \/ (c = sock /\ link[c] = "up")
  PROVE  Inv'
  <1> USE DEF Inv
  <1>1. Types /\ Shape
    BY TypeSplit
  <1>2. Shape' /\ UpIsOpen' /\ NoConnectionForgotten'
    BY <1>1 DEF Shape, UpIsOpen, NoConnectionForgotten, SetOf, Distinct
  <1>3. \A x \in Conns : x = sock' \/ x \in SetOf(pending') => link'[x] # "none"
    BY DEF KnownIsThere
  <1>. QED
    BY <1>2, <1>3, LinkedInv

LEMMA ReceiveKeepsInv ==
  ASSUME Inv, NEW c \in Conns, NEW msgs \in Seq(Messages), Receive(c, msgs)
  PROVE  Inv'
  <1> USE DEF Inv
  <1> DEFINE all == unread[c] \o msgs
  <1>1. Types
    BY TypeSplit
  <1>2. /\ UNCHANGED <<listening, link, open, pending, sock, posted, ownAnswer>>
        /\ wrote' = NoWrite /\ link[c] = "up"
    BY DEF Receive, netVars
  <1>3. all \in Seq(Messages) /\ Len(all) \in Nat
    BY <1>1 DEF Types
  <1>4. CASE c = sock
    <2>1. PICK n \in 0..Len(all) :
            /\ unread' = [unread EXCEPT ![c] = SubSeq(all, n + 2, Len(all))]
            /\ toService' = toService \o [i \in 1..n |-> c]
      BY <1>4 DEF Receive, Reads
    <2>2. SubSeq(all, n + 2, Len(all)) \in Seq(Messages)
      BY <1>3
    <2>3. /\ [i \in 1..n |-> c] \in Seq(Conns)
          /\ SetOf([i \in 1..n |-> c]) \subseteq {c}
      BY <1>3 DEF SetOf
    <2>4. /\ toService' \in Seq(Conns)
          /\ SetOf(toService') \subseteq SetOf(toService) \cup {c}
      <3> DEFINE read == [i \in 1..n |-> c]
      <3>1. toService \in Seq(Conns) /\ read \in Seq(Conns)
        BY <1>1, <2>3 DEF Types
      <3>2. /\ toService \o read \in Seq(Conns)
            /\ SetOf(toService \o read) = SetOf(toService) \cup SetOf(read)
        BY <3>1, ConcatHolds
      <3>3. toService' = toService \o read /\ SetOf(read) \subseteq {c}
        BY <2>1, <2>3
      <3>. HIDE DEF read
      <3>. QED
        BY <3>2, <3>3
    <2>5. Types'
      BY <1>1, <1>2, <2>1, <2>2, <2>4, NoWriteType DEF Types
    <2>6. DeletedIsDown'
      BY <1>2 DEF DeletedIsDown
    <2>7. \A x \in Conns : Asked(x)' => Asked(x) \/ (x = sock /\ link[x] = "up")
      BY <1>2, <1>4, <2>4 DEF Asked
    <2>. QED
      BY <1>2, <2>5, <2>6, <2>7, QuietStepKeepsInv
  <1>5. CASE c # sock
    <2>1. unread' = [unread EXCEPT ![c] = all] /\ toService' = toService
      BY <1>5 DEF Receive, Reads
    <2>2. Types'
      BY <1>1, <1>2, <1>3, <2>1, NoWriteType DEF Types
    <2>3. DeletedIsDown' /\ \A x \in Conns : Asked(x)' => Asked(x)
      BY <1>2, <2>1 DEF DeletedIsDown, Asked
    <2>. QED
      BY <1>2, <2>2, <2>3, QuietStepKeepsInv
  <1>. QED
    BY <1>4, <1>5

LEMMA SendKeepsInv ==
  ASSUME Inv, Send \/ StartServer
  PROVE  Inv'
  <1> USE DEF Inv
  <1>1. Types
    BY TypeSplit
  <1>2. /\ posted # <<>> /\ posted' = Tail(posted)
        /\ UNCHANGED <<link, open, pending, sock, unread, toService>>
    BY DEF Send, StartServer, netVars
  <1>3. posted' \in Seq(Events) /\ SetOf(posted') \subseteq SetOf(posted)
        /\ Head(posted) \in Events
    BY <1>1, <1>2, TailHolds DEF Types
  <1>4. wrote' \in [to : Conns \cup {NoConn}, from : Conns \cup {NoConn}]
    <2>1. Head(posted).conn \in Conns \cup {NoConn}
      BY <1>3 DEF Events
    <2>2. \/ wrote' = NoWrite
          \/ wrote' = [to |-> sock, from |-> Head(posted).conn]
      BY DEF Send, StartServer
    <2>3. sock \in Conns \cup {NoConn}
      BY <1>1 DEF Types
    <2>. QED
      BY <2>1, <2>2, <2>3, NoWriteType
  <1>5. ownAnswer' \in SUBSET Conns
    <2>1. CanWrite => sock \in Conns
      BY <1>1 DEF CanWrite, IsSockOpen, Types
    <2>. QED
      BY <1>1, <2>1 DEF Send, StartServer, Types
  <1>6. Types'
    BY <1>1, <1>2, <1>3, <1>4, <1>5 DEF Types, Send, StartServer, netVars
  <1>7. DeletedIsDown' /\ \A x \in Conns : Asked(x)' => Asked(x)
    BY <1>2, <1>3 DEF DeletedIsDown, Asked
  <1>. QED
    BY <1>2, <1>6, <1>7, QuietStepKeepsInv

LEMMA DeferredDeleteKeepsInv ==
  ASSUME Inv, DeferredDelete
  PROVE  Inv'
  <1> USE DEF Inv
  <1> DEFINE gone == Head(posted).conn
  <1>1. Types /\ Shape
    BY TypeSplit
  <1>2. /\ posted # <<>> /\ posted' = Tail(posted) /\ wrote' = NoWrite
        /\ Head(posted).sig = "deferredDelete"
        /\ open' = open \ {gone}
        /\ sock' = IF sock = gone THEN NoConn ELSE sock
        /\ UNCHANGED <<listening, link, pending, unread, toService, ownAnswer>>
    BY DEF DeferredDelete
  <1>3. /\ posted' \in Seq(Events) /\ SetOf(posted') \subseteq SetOf(posted)
        /\ Head(posted) \in SetOf(posted)
    BY <1>1, <1>2, TailHolds DEF Types
  <1>4. gone \in Conns /\ link[gone] = "down"
    BY <1>2, <1>3 DEF DeletedIsDown
  <1>5. NoConn \notin SetOf(pending)
    BY <1>1, ConnsAssumption DEF Types, SetOf
  <1>6. Shape'
    BY <1>1, <1>2, <1>5 DEF Shape, SetOf, Distinct
  <1>7. Types'
    BY <1>1, <1>2, <1>3, NoWriteType DEF Types
  <1>8. UpIsOpen' /\ NoConnectionForgotten'
    BY <1>1, <1>2, <1>4 DEF UpIsOpen, NoConnectionForgotten, Types
  <1>9. DeletedIsDown' /\ \A x \in Conns : Asked(x)' => Asked(x)
    BY <1>2, <1>3 DEF DeletedIsDown, Asked
  <1>10. \A x \in Conns : x = sock' \/ x \in SetOf(pending') => link'[x] # "none"
    BY <1>1, <1>2, ConnsAssumption DEF KnownIsThere, SetOf
  <1>. QED
    BY <1>2, <1>4, <1>6, <1>7, <1>8, <1>9, <1>10, LinkedInv

LEMMA CloseKeepsInv ==
  ASSUME Inv, StopServer \/ RestartServer
  PROVE  Inv'
  <1> USE DEF Inv
  <1> DEFINE closed == SetOf(pending) \cup {sock}
  <1>1. Types /\ Shape
    BY TypeSplit
  <1>2. /\ posted # <<>> /\ pending' = <<>> /\ wrote' = NoWrite
        /\ link' = [c \in Conns |-> IF c \in closed THEN "down" ELSE link[c]]
        /\ unread' = [c \in Conns |-> IF c \in closed THEN <<>> ELSE unread[c]]
        /\ open' = open \ closed
        /\ posted' = IF sock = NoConn THEN Tail(posted)
                     ELSE Append(Tail(posted), Event("deferredDelete", sock))
        /\ UNCHANGED <<sock, toService, ownAnswer>> /\ listening' \in BOOLEAN
    BY DEF StopServer, RestartServer, CloseAll
  <1>3. Tail(posted) \in Seq(Events) /\ SetOf(Tail(posted)) \subseteq SetOf(posted)
    BY <1>1, <1>2, TailHolds DEF Types
  <1>4. /\ posted' \in Seq(Events)
        /\ \A e \in SetOf(posted') :
             \/ e \in SetOf(posted)
             \/ sock \in Conns /\ e = Event("deferredDelete", sock)
    <2>1. CASE sock = NoConn
      BY <1>2, <1>3, <2>1
    <2>2. CASE sock # NoConn
      <3>1. sock \in Conns /\ Event("deferredDelete", sock) \in Events
        BY <1>1, <2>2, EventTypes DEF Types
      <3>2. posted' = Append(Tail(posted), Event("deferredDelete", sock))
        BY <1>2, <2>2
      <3> DEFINE e == Event("deferredDelete", sock)
      <3> DEFINE queue == Append(Tail(posted), e)
      <3>3. \A t \in Seq(Events) :
              Append(t, e) \in Seq(Events) /\ SetOf(Append(t, e)) = SetOf(t) \cup {e}
        BY <3>1, AppendHolds
      <3>4. /\ queue \in Seq(Events)
            /\ SetOf(queue) = SetOf(Tail(posted)) \cup {e}
        BY <1>3, <3>3, Zenon
      <3>5. posted' = queue
        BY <3>2
      <3>. HIDE DEF queue
      <3>. QED
        BY <1>3, <3>1, <3>4, <3>5
    <2>. QED
      BY <2>1, <2>2
  <1>5. SetOf(pending') = {} /\ pending' \in Seq(Conns) /\ Distinct(pending')
    BY <1>2, EmptyHolds, EmptySeq DEF Distinct
  <1>6. Shape'
    BY <1>5 DEF Shape
  <1>7. unread' \in [Conns -> Seq(Messages)]
    <2>1. <<>> \in Seq(Messages)
      BY EmptySeq
    <2>. QED
      BY <1>1, <1>2, <2>1 DEF Types
  <1>8. Types'
    BY <1>1, <1>2, <1>4, <1>5, <1>7, NoWriteType DEF Types
  <1>9. UpIsOpen' /\ NoConnectionForgotten'
    BY <1>1, <1>2 DEF UpIsOpen, NoConnectionForgotten, Types
  <1>10. DeletedIsDown'
    BY <1>1, <1>2, <1>4, EventTypes DEF DeletedIsDown, Types
  <1>11. \A x \in Conns : Asked(x)' => Asked(x)
    BY <1>2, <1>4 DEF Asked, Event
  <1>12. \A x \in Conns : x = sock' \/ x \in SetOf(pending') => link'[x] # "none"
    BY <1>2, <1>5
  <1>. QED
    BY <1>1, <1>2, <1>6, <1>8, <1>9, <1>10, <1>11, <1>12, LinkedInv DEF Types

LEMMA ServiceKeepsInv ==
  ASSUME Inv, Serve \/ Notify \/ Reload
  PROVE  Inv'
  <1> USE DEF Inv
  <1> DEFINE mine(c) == {Event("answer", c), Event("notify", NoConn),
                         Event("restartServer", NoConn),
                         Event("startServer", NoConn),
                         Event("stopServer", NoConn)}
  <1>1. Types
    BY TypeSplit
  <1>2. UNCHANGED <<listening, link, open, pending, sock, unread, ownAnswer>>
        /\ wrote' = NoWrite
    BY DEF Serve, Notify, Reload, Post, netVars
  <1>3. ASSUME NEW c \in Conns \cup {NoConn}, NEW events, Post(events),
               events \in Seq(Events), SetOf(events) \subseteq mine(c),
               toService' \in Seq(Conns),
               SetOf(toService') \subseteq SetOf(toService),
               Event("answer", c) \in SetOf(events) => c \in SetOf(toService)
        PROVE  Inv'
    <2>1. /\ posted' \in Seq(Events)
          /\ SetOf(posted') = SetOf(posted) \cup SetOf(events)
      BY <1>1, <1>3, ConcatHolds DEF Post, Types
    <2>2. Types'
      BY <1>1, <1>2, <1>3, <2>1, NoWriteType DEF Types
    <2>3. \A e \in mine(c) : e.sig # "deferredDelete"
      BY EventTypes
    <2>4. DeletedIsDown'
      BY <1>2, <1>3, <2>1, <2>3 DEF DeletedIsDown
    <2>5. \A x \in Conns : Asked(x)' => Asked(x)
      BY <1>3, <2>1 DEF Asked, Event
    <2>. QED
      BY <1>2, <2>2, <2>4, <2>5, QuietStepKeepsInv
  <1>4. CASE Serve
    <2> DEFINE c == Head(toService)
    <2>1. /\ c \in Conns /\ c \in SetOf(toService)
          /\ toService' \in Seq(Conns)
          /\ SetOf(toService') \subseteq SetOf(toService)
      BY <1>1, <1>4, TailHolds DEF Serve, Types
    <2>2. PICK events \in Replies(c) : Post(events)
      BY <1>4 DEF Serve
    <2>3. events \in Seq(Events) /\ SetOf(events) \subseteq mine(c)
      <3>1. /\ Event("notify", NoConn) \in Events
            /\ Event("answer", c) \in Events
            /\ Event("restartServer", NoConn) \in Events
        BY <2>1, EventTypes
      <3>2. CASE events = <<>>
        BY <3>2, EmptyHolds, EmptySeq
      <3>3. CASE events = <<Event("answer", c)>>
        BY <3>1, <3>3, OneHolds
      <3>4. CASE events = <<Event("notify", NoConn)>>
        BY <3>1, <3>4, OneHolds
      <3>5. CASE events = <<Event("notify", NoConn), Event("answer", c)>>
        BY <3>1, <3>5, TwoHold
      <3>6. CASE events = <<Event("restartServer", NoConn), Event("answer", c)>>
        BY <3>1, <3>6, TwoHold
      <3>. QED
        BY <2>2, <3>2, <3>3, <3>4, <3>5, <3>6 DEF Replies
    <2>. HIDE DEF c
    <2>. QED
      BY <1>3, <2>1, <2>2, <2>3
  <1>5. CASE Notify
    <2>1. Event("notify", NoConn) \in Events
      BY EventTypes
    <2>2. <<Event("notify", NoConn)>> \in Seq(Events)
          /\ SetOf(<<Event("notify", NoConn)>>) = {Event("notify", NoConn)}
      BY <2>1, OneHolds
    <2>. QED
      BY <1>1, <1>3, <1>5, <2>2 DEF Notify, Types, Event
  <1>6. CASE Reload
    <2> DEFINE events == <<Event("stopServer", NoConn), Event("startServer", NoConn)>>
    <2>1. /\ Event("stopServer", NoConn) \in Events
          /\ Event("startServer", NoConn) \in Events
      BY EventTypes
    <2>2. events \in Seq(Events)
          /\ SetOf(events) = {Event("stopServer", NoConn), Event("startServer", NoConn)}
      BY <2>1, TwoHold
    <2>3. Post(events) /\ toService' = toService /\ toService \in Seq(Conns)
      BY <1>1, <1>6 DEF Reload, Types
    <2>4. Event("answer", NoConn) \notin SetOf(events)
      BY <2>2 DEF Event
    <2>. HIDE DEF events
    <2>. QED
      BY <1>3, <2>2, <2>3, <2>4
  <1>. QED
    BY <1>4, <1>5, <1>6

LEMMA ArrivalTypes == \A msgs \in Arrivals : msgs \in Seq(Messages)
  <1>1. \A m \in Messages : <<m>> \in Seq(Messages)
    BY OneHolds
  <1>2. "cmd" \in Messages
    BY DEF Messages
  <1>3. \A m \in Messages : <<m, "cmd">> \in Seq(Messages)
    BY <1>2, TwoHold
  <1>. QED
    BY <1>1, <1>3 DEF Arrivals

LEMMA NextInv == Inv /\ [Next]_vars => Inv'
  <1> SUFFICES ASSUME Inv, [Next]_vars PROVE Inv'
    OBVIOUS
  <1>1. \A msgs \in Arrivals : msgs \in Seq(Messages)
    BY ArrivalTypes
  <1>2. CASE Next
    BY <1>1, <1>2, ConnectKeepsInv, RemoteCloseKeepsInv, ReceiveKeepsInv,
       SendKeepsInv, DeferredDeleteKeepsInv, CloseKeepsInv, ServiceKeepsInv
    DEF Next, Posted
  <1>3. CASE UNCHANGED vars
    BY <1>3 DEF vars, Inv, TypeOK, NoConnectionForgotten, AskerIsServed,
       UpIsOpen, DeletedIsDown, KnownIsThere, Asked, CanWrite, IsSockOpen
  <1>. QED
    BY <1>2, <1>3

-----------------------------------------------------------------------------
(* The invariant holds in every reachable state.                           *)
THEOREM Invariance == Spec => []Inv
  BY InitInv, NextInv, PTL DEF Spec

(* Every variable keeps its type, and no connection waits twice.           *)
THEOREM TypeCorrect == Spec => []TypeOK
  <1>1. Inv => TypeOK
    BY DEF Inv
  <1>. QED
    BY <1>1, Invariance, PTL

(* No client stays connected to a socket the worker has let go.            *)
THEOREM ConnectionsKept == Spec => []NoConnectionForgotten
  <1>1. Inv => NoConnectionForgotten
    BY DEF Inv
  <1>. QED
    BY <1>1, Invariance, PTL

(* A client still connected is the one its answers will be written to.     *)
THEOREM AskerServed == Spec => []AskerIsServed
  <1>1. Inv => AskerIsServed
    BY DEF Inv
  <1>. QED
    BY <1>1, Invariance, PTL

-----------------------------------------------------------------------------
(* The order in which commands are answered.  `answers` are the posted     *)
(* events and `asks` the commands under way: an answer to c is followed by *)
(* answers to c only, and then by commands of c only.                      *)
Turn(c, answers, asks) ==
  /\ \A i, j \in DOMAIN answers :
       i < j /\ answers[i] = Event("answer", c) /\ answers[j].sig = "answer"
         => answers[j].conn = c
  /\ Event("answer", c) \in SetOf(answers) => SetOf(asks) \subseteq {c}
  /\ \A i, j \in DOMAIN asks : i < j /\ asks[i] = c => asks[j] = c

(* No answer and no command under way is anybody's but c's.                *)
Alone(c, answers, asks) ==
  /\ \A i \in DOMAIN answers : answers[i].sig = "answer" => answers[i].conn = c
  /\ SetOf(asks) \subseteq {c}

(* What makes foreign answers come first: the queues of a client that is   *)
(* connected are in turn, and once it had an answer of its own nothing     *)
(* else is left in them.                                                   *)
AnswersInTurn ==
  \A c \in Conns : link[c] = "up" => Turn(c, posted, toService)

OwnAlone ==
  \A c \in ownAnswer :
    /\ link[c] # "none"
    /\ link[c] = "up" => c = sock /\ Alone(c, posted, toService)

(* What makes the server listen once: a start is posted behind a stop.     *)
Started(events, on) ==
  \A i \in DOMAIN events :
    events[i].sig = "startServer" =>
      IF i = 1 THEN ~on ELSE events[i - 1].sig = "stopServer"

StartFollowsStop == Started(posted, listening)

OrderInv ==
  Inv /\ AnswersInTurn /\ OwnAlone /\ StartFollowsStop /\ ForeignAnswersFirst

LEMMA UnaskedTurn ==
  ASSUME NEW c, NEW p, NEW t, c \notin SetOf(t), Event("answer", c) \notin SetOf(p)
  PROVE  Turn(c, p, t)
  BY DEF Turn, SetOf

LEMMA TailTurn ==
  ASSUME NEW c, NEW p \in Seq(Events), NEW t \in Seq(Conns), p # <<>>
  PROVE  /\ Turn(c, p, t) => Turn(c, Tail(p), t)
         /\ Alone(c, p, t) => Alone(c, Tail(p), t)
         /\ Turn(c, p, t) /\ Head(p) = Event("answer", c) => Alone(c, Tail(p), t)
  <1>1. /\ Len(p) \in Nat \ {0} /\ DOMAIN p = 1..Len(p)
        /\ DOMAIN Tail(p) = 1..(Len(p) - 1) /\ Head(p) = p[1]
        /\ \A i \in 1..(Len(p) - 1) : Tail(p)[i] = p[i + 1]
    OBVIOUS
  <1>2. SetOf(Tail(p)) \subseteq SetOf(p) /\ Head(p) \in SetOf(p)
    BY TailHolds
  <1>3. \A i \in DOMAIN Tail(p) : i + 1 \in DOMAIN p /\ 1 < i + 1
    BY <1>1
  <1>4. 1 \in DOMAIN p
    BY <1>1
  <1>5. ASSUME Turn(c, p, t) PROVE Turn(c, Tail(p), t)
    <2>1. \A i, j \in DOMAIN Tail(p) : i < j => i + 1 < j + 1
      BY <1>1
    <2>2. \A i \in DOMAIN Tail(p) : Tail(p)[i] = p[i + 1]
      BY <1>1
    <2>. QED
      BY <1>2, <1>3, <1>5, <2>1, <2>2 DEF Turn
  <1>6. ASSUME Alone(c, p, t) PROVE Alone(c, Tail(p), t)
    BY <1>1, <1>3, <1>6 DEF Alone
  <1>7. ASSUME Turn(c, p, t), Head(p) = Event("answer", c)
        PROVE  Alone(c, Tail(p), t)
    BY <1>1, <1>2, <1>3, <1>4, <1>7 DEF Turn, Alone
  <1>. QED
    BY <1>5, <1>6, <1>7

LEMMA AppendTurn ==
  ASSUME NEW c, NEW p \in Seq(Events), NEW t \in Seq(Conns), NEW e \in Events,
         e.sig # "answer"
  PROVE  /\ Turn(c, p, t) => Turn(c, Append(p, e), t)
         /\ Alone(c, p, t) => Alone(c, Append(p, e), t)
  <1>1. /\ Len(p) \in Nat /\ DOMAIN p = 1..Len(p)
        /\ DOMAIN Append(p, e) = 1..(Len(p) + 1)
        /\ \A i \in 1..Len(p) : Append(p, e)[i] = p[i]
        /\ Append(p, e)[Len(p) + 1] = e
    OBVIOUS
  <1>2. SetOf(Append(p, e)) = SetOf(p) \cup {e}
    BY AppendHolds
  <1>3. Event("answer", c) # e
    BY DEF Event
  <1>4. \A i \in DOMAIN Append(p, e) :
          \/ i \in DOMAIN p /\ Append(p, e)[i] = p[i]
          \/ Append(p, e)[i] = e
    BY <1>1
  <1>. QED
    BY <1>2, <1>3, <1>4 DEF Turn, Alone

(* The main thread takes a command and answers it, or does not.            *)
LEMMA AnswerTurn ==
  ASSUME NEW c, NEW p \in Seq(Events), NEW t \in Seq(Conns), t # <<>>,
         Head(t) \in Conns
  PROVE  /\ Turn(c, p, t) => Turn(c, p, Tail(t))
         /\ Alone(c, p, t) => Alone(c, p, Tail(t))
         /\ Turn(c, p, t)
              => Turn(c, Append(p, Event("answer", Head(t))), Tail(t))
         /\ Alone(c, p, t)
              => Alone(c, Append(p, Event("answer", Head(t))), Tail(t))
  <1> DEFINE e == Event("answer", Head(t))
  <1>1. /\ Len(t) \in Nat \ {0} /\ DOMAIN t = 1..Len(t)
        /\ DOMAIN Tail(t) = 1..(Len(t) - 1) /\ Head(t) = t[1]
        /\ \A i \in 1..(Len(t) - 1) : Tail(t)[i] = t[i + 1]
    OBVIOUS
  <1>2. /\ SetOf(Tail(t)) \subseteq SetOf(t) /\ Head(t) \in SetOf(t)
        /\ Tail(t) \in Seq(Conns)
    BY TailHolds
  <1>3. \A i \in DOMAIN Tail(t) : i + 1 \in DOMAIN t /\ 1 < i + 1
    BY <1>1
  <1>4. 1 \in DOMAIN t /\ \A i \in DOMAIN Tail(t) : Tail(t)[i] = t[i + 1]
    BY <1>1
  <1>5. \A i, j \in DOMAIN Tail(t) : i < j => i + 1 < j + 1
    BY <1>1
  <1>6. ASSUME Turn(c, p, t) PROVE Turn(c, p, Tail(t))
    BY <1>2, <1>3, <1>4, <1>5, <1>6 DEF Turn
  <1>7. ASSUME Alone(c, p, t) PROVE Alone(c, p, Tail(t))
    BY <1>2, <1>7 DEF Alone
  <1>8. e \in Events /\ e.sig = "answer" /\ e.conn = Head(t)
    BY EventTypes
  <1>9. /\ Len(p) \in Nat /\ DOMAIN p = 1..Len(p)
        /\ DOMAIN Append(p, e) = 1..(Len(p) + 1)
        /\ \A i \in 1..Len(p) : Append(p, e)[i] = p[i]
        /\ Append(p, e)[Len(p) + 1] = e
    BY <1>8
  <1>10. SetOf(Append(p, e)) = SetOf(p) \cup {e}
    BY <1>8, AppendHolds
  <1>11. \A i \in DOMAIN Append(p, e) :
          \/ i \in DOMAIN p /\ Append(p, e)[i] = p[i]
          \/ i = Len(p) + 1 /\ Append(p, e)[i] = e
    BY <1>9
  <1>12. ASSUME Turn(c, p, t) PROVE Turn(c, Append(p, e), Tail(t))
    <2>1. e = Event("answer", c) => Head(t) = c
      BY <1>8 DEF Event
    <2>2. Event("answer", c) \in SetOf(p) => Head(t) = c
      BY <1>2, <1>12 DEF Turn
    <2>3. Head(t) = c => SetOf(Tail(t)) \subseteq {c}
      BY <1>1, <1>3, <1>4, <1>12 DEF Turn, SetOf
    <2>4. Event("answer", c) \in SetOf(Append(p, e)) => SetOf(Tail(t)) \subseteq {c}
      BY <1>10, <2>1, <2>2, <2>3
    <2>5. ASSUME NEW i \in DOMAIN Append(p, e), NEW j \in DOMAIN Append(p, e),
                 i < j, Append(p, e)[i] = Event("answer", c),
                 Append(p, e)[j].sig = "answer"
          PROVE  Append(p, e)[j].conn = c
      <3>1. i \in DOMAIN p /\ p[i] = Event("answer", c)
        BY <1>9, <2>5
      <3>2. Event("answer", c) \in SetOf(p)
        BY <3>1 DEF SetOf
      <3>3. CASE j \in DOMAIN p /\ Append(p, e)[j] = p[j]
        BY <1>12, <2>5, <3>1, <3>3 DEF Turn
      <3>4. CASE Append(p, e)[j] = e
        BY <1>8, <2>2, <3>2, <3>4
      <3>. QED
        BY <1>11, <3>3, <3>4
    <2>. QED
      BY <1>6, <1>12, <2>4, <2>5 DEF Turn
  <1>13. ASSUME Alone(c, p, t) PROVE Alone(c, Append(p, e), Tail(t))
    BY <1>2, <1>8, <1>11, <1>13 DEF Alone
  <1>. QED
    BY <1>6, <1>7, <1>12, <1>13

LEMMA ReadTurn ==
  ASSUME NEW c \in Conns, NEW p, NEW t \in Seq(Conns), NEW read \in Seq(Conns),
         SetOf(read) \subseteq {c}
  PROVE  /\ Turn(c, p, t) => Turn(c, p, t \o read)
         /\ Alone(c, p, t) => Alone(c, p, t \o read)
  <1>1. SetOf(t \o read) = SetOf(t) \cup SetOf(read)
    BY ConcatHolds
  <1>2. /\ Len(t) \in Nat /\ Len(read) \in Nat
        /\ DOMAIN t = 1..Len(t) /\ DOMAIN read = 1..Len(read)
        /\ DOMAIN (t \o read) = 1..(Len(t) + Len(read))
        /\ \A i \in 1..Len(t) : (t \o read)[i] = t[i]
        /\ \A i \in 1..Len(read) : (t \o read)[Len(t) + i] = read[i]
    OBVIOUS
  <1>3. \A i \in DOMAIN read : read[i] = c
    BY DEF SetOf
  <1>4. ASSUME NEW i \in DOMAIN (t \o read)
        PROVE  \/ i \in DOMAIN t /\ (t \o read)[i] = t[i]
               \/ (t \o read)[i] = c
    <2>1. CASE i \in 1..Len(t)
      BY <1>2, <2>1
    <2>2. CASE i \notin 1..Len(t)
      <3>1. i - Len(t) \in 1..Len(read) /\ i = Len(t) + (i - Len(t))
        BY <1>2, <2>2
      <3>. QED
        BY <1>2, <1>3, <3>1
    <2>. QED
      BY <2>1, <2>2
  <1>5. ASSUME Turn(c, p, t), NEW i \in DOMAIN (t \o read),
               NEW j \in DOMAIN (t \o read), i < j, (t \o read)[i] = c
        PROVE  (t \o read)[j] = c
    <2>1. CASE i \in DOMAIN t
      BY <1>2, <1>4, <1>5, <2>1 DEF Turn
    <2>2. CASE i \notin DOMAIN t
      <3>1. j \notin DOMAIN t
        BY <1>2, <1>5, <2>2
      <3>. QED
        BY <1>4, <3>1
    <2>. QED
      BY <2>1, <2>2
  <1>6. Turn(c, p, t) => Turn(c, p, t \o read)
    BY <1>1, <1>5 DEF Turn
  <1>7. Alone(c, p, t) => Alone(c, p, t \o read)
    BY <1>1 DEF Alone
  <1>. QED
    BY <1>6, <1>7


LEMMA TailStarted ==
  ASSUME NEW p \in Seq(Events), p # <<>>, NEW on, NEW off, Started(p, on),
         Head(p).sig = "stopServer" => ~off
  PROVE  Started(Tail(p), off)
  <1>1. /\ Len(p) \in Nat \ {0} /\ DOMAIN p = 1..Len(p)
        /\ DOMAIN Tail(p) = 1..(Len(p) - 1) /\ Head(p) = p[1]
        /\ \A i \in 1..(Len(p) - 1) : Tail(p)[i] = p[i + 1]
    OBVIOUS
  <1>2. SUFFICES ASSUME NEW i \in DOMAIN Tail(p), Tail(p)[i].sig = "startServer"
                 PROVE  IF i = 1 THEN ~off ELSE Tail(p)[i - 1].sig = "stopServer"
    BY DEF Started
  <1>3. i + 1 \in DOMAIN p /\ i + 1 # 1 /\ i + 1 - 1 = i /\ p[i + 1] = Tail(p)[i]
    BY <1>1
  <1>4. p[i].sig = "stopServer"
    BY <1>2, <1>3 DEF Started
  <1>5. i # 1 => Tail(p)[i - 1] = p[i]
    BY <1>1
  <1>. QED
    BY <1>1, <1>4, <1>5

LEMMA AppendStarted ==
  ASSUME NEW p \in Seq(Events), NEW on, NEW e \in Events, Started(p, on),
         e.sig = "startServer" => Len(p) > 0 /\ p[Len(p)].sig = "stopServer"
  PROVE  Started(Append(p, e), on)
  <1>1. /\ Len(p) \in Nat /\ DOMAIN p = 1..Len(p)
        /\ DOMAIN Append(p, e) = 1..(Len(p) + 1)
        /\ \A i \in 1..Len(p) : Append(p, e)[i] = p[i]
        /\ Append(p, e)[Len(p) + 1] = e
    OBVIOUS
  <1>2. SUFFICES ASSUME NEW i \in DOMAIN Append(p, e),
                        Append(p, e)[i].sig = "startServer"
                 PROVE  IF i = 1 THEN ~on
                                 ELSE Append(p, e)[i - 1].sig = "stopServer"
    BY DEF Started
  <1>3. CASE i \in DOMAIN p
    <2>1. Append(p, e)[i] = p[i] /\ (i # 1 => Append(p, e)[i - 1] = p[i - 1])
      BY <1>1, <1>3
    <2>. QED
      BY <1>2, <1>3, <2>1 DEF Started
  <1>4. CASE i = Len(p) + 1
    <2>1. e.sig = "startServer"
      BY <1>1, <1>2, <1>4
    <2>2. Len(p) > 0 /\ p[Len(p)].sig = "stopServer"
      BY <2>1
    <2>3. i # 1 /\ i - 1 = Len(p)
      BY <1>1, <1>4, <2>2
    <2>4. Append(p, e)[i - 1] = p[Len(p)]
      BY <1>1, <2>2, <2>3
    <2>. QED
      BY <2>2, <2>3, <2>4
  <1>. QED
    BY <1>1, <1>3, <1>4

LEMMA Appended ==
  ASSUME NEW S, NEW p \in Seq(S), NEW a \in S, NEW b \in S
  PROVE  /\ p \o <<>> = p
         /\ p \o <<a>> = Append(p, a)
         /\ p \o <<a, b>> = Append(Append(p, a), b)
  OBVIOUS

(* A step that writes nothing keeps the order if it keeps the queues of    *)
(* the connections it leaves up in turn.                                   *)
LEMMA QuietOrder ==
  ASSUME OrderInv, Inv', StartFollowsStop',
         wrote' = NoWrite, ownAnswer' = ownAnswer,
         \A c \in Conns : link[c] # "none" => link'[c] # "none",
         \A c \in Conns : link'[c] = "up" =>
            link[c] = "up" \/ (link[c] = "none" /\ ~Asked(c)'),
         \A c \in Conns : link'[c] = "up" /\ c = sock => sock' = sock,
         \A c \in Conns :
            link[c] = "up" /\ (c = sock \/ ~Asked(c)) /\ Turn(c, posted, toService)
              => Turn(c, posted', toService'),
         \A c \in Conns :
            link[c] = "up" /\ c = sock /\ Alone(c, posted, toService)
              => Alone(c, posted', toService')
  PROVE  OrderInv'
  <1> USE DEF OrderInv
  <1>1. ForeignAnswersFirst'
    BY DEF ForeignAnswersFirst, NoWrite
  <1>2. Inv /\ ownAnswer \in SUBSET Conns
    BY DEF Inv, TypeOK
  <1>3. AnswersInTurn'
    <2> SUFFICES ASSUME NEW c \in Conns, link'[c] = "up"
                 PROVE  Turn(c, posted', toService')
      BY DEF AnswersInTurn
    <2>1. CASE link[c] = "up"
      <3>1. c = sock \/ ~Asked(c)
        BY <1>2, <2>1 DEF Inv, AskerIsServed, Asked
      <3>. QED
        BY <2>1, <3>1 DEF AnswersInTurn
    <2>2. CASE ~Asked(c)'
      BY <2>2, UnaskedTurn DEF Asked
    <2>. QED
      BY <2>1, <2>2
  <1>4. OwnAlone'
    <2> SUFFICES ASSUME NEW c \in ownAnswer
                 PROVE  /\ link'[c] # "none"
                        /\ link'[c] = "up"
                             => c = sock' /\ Alone(c, posted', toService')
      BY DEF OwnAlone
    <2>1. c \in Conns /\ link[c] # "none"
      BY <1>2 DEF OwnAlone
    <2>2. ASSUME link'[c] = "up"
          PROVE  c = sock' /\ Alone(c, posted', toService')
      BY <2>1, <2>2 DEF OwnAlone
    <2>. QED
      BY <2>1, <2>2
  <1>. QED
    BY <1>1, <1>3, <1>4

(* A step that at most puts a deletion behind the posted events.           *)
LEMMA LinkOrder ==
  ASSUME OrderInv, Inv', NEW d \in Conns,
         posted' \in {posted, Append(posted, Event("deferredDelete", d))},
         UNCHANGED <<toService, listening, ownAnswer>>, wrote' = NoWrite,
         \A c \in Conns : link[c] # "none" => link'[c] # "none",
         \A c \in Conns : link'[c] = "up" => link[c] \in {"up", "none"},
         \A c \in Conns : link'[c] = "up" /\ c = sock => sock' = sock
  PROVE  OrderInv'
  <1> DEFINE e == Event("deferredDelete", d)
  <1>1. Inv /\ posted \in Seq(Events) /\ toService \in Seq(Conns)
    BY DEF OrderInv, Inv, TypeOK
  <1>2. e \in Events /\ e.sig = "deferredDelete"
    BY EventTypes
  <1>3. SetOf(posted') \subseteq SetOf(posted) \cup {e}
    <2>1. SetOf(Append(posted, e)) = SetOf(posted) \cup {e}
      BY <1>1, <1>2, AppendHolds
    <2>2. posted' = posted \/ posted' = Append(posted, e)
      OBVIOUS
    <2>. HIDE DEF e
    <2>. QED
      BY <2>1, <2>2
  <1>4. \A c \in Conns : Asked(c)' => Asked(c)
    BY <1>3 DEF Asked, Event
  <1>5. \A c \in Conns : link[c] = "none" => ~Asked(c)'
    BY <1>1, <1>4 DEF Inv, KnownIsThere
  <1>6. StartFollowsStop'
    BY <1>1, <1>2, AppendStarted DEF OrderInv, StartFollowsStop
  <1>7. \A c \in Conns :
          /\ Turn(c, posted, toService) => Turn(c, posted', toService')
          /\ Alone(c, posted, toService) => Alone(c, posted', toService')
    BY <1>1, <1>2, AppendTurn
  <1>8. \A c \in Conns :
          link'[c] = "up" => link[c] = "up" \/ (link[c] = "none" /\ ~Asked(c)')
    BY <1>5
  <1>9. /\ \A c \in Conns :
             link[c] = "up" /\ (c = sock \/ ~Asked(c)) /\ Turn(c, posted, toService)
               => Turn(c, posted', toService')
        /\ \A c \in Conns :
             link[c] = "up" /\ c = sock /\ Alone(c, posted, toService)
               => Alone(c, posted', toService')
    BY <1>7, Zenon
  <1>10. ownAnswer' = ownAnswer
    OBVIOUS
  <1>. QED
    BY <1>6, <1>8, <1>9, <1>10, QuietOrder, Zenon

LEMMA ConnectKeepsOrder ==
  ASSUME OrderInv, NEW c \in Conns, Connect(c)
  PROVE  OrderInv'
  <1>1. Inv /\ Types
    BY TypeSplit DEF OrderInv, Inv
  <1>2. Inv'
    BY <1>1, ConnectKeepsInv
  <1>3. link[c] = "none" /\ sock # c
    BY <1>1 DEF Connect, Inv, KnownIsThere
  <1>4. UNCHANGED <<toService, listening, ownAnswer>> /\ wrote' = NoWrite
    BY DEF Connect
  <1>5. \/ link' = [link EXCEPT ![c] = "up"]
        \/ link' = [link EXCEPT ![c] = "up", ![sock] = "down"]
    BY DEF Connect
  <1>6. \/ posted' = posted
        \/ sock \in Conns /\ posted' = Append(posted, Event("deferredDelete", sock))
    BY <1>1 DEF Connect, IsSockOpen, Types
  <1>7. link \in [Conns -> {"none", "up", "down"}]
    BY <1>1 DEF Types
  <1>8. /\ \A x \in Conns : link[x] # "none" => link'[x] # "none"
        /\ \A x \in Conns : link'[x] = "up" => link[x] \in {"up", "none"}
    BY <1>3, <1>5, <1>7
  <1>9. ASSUME sock \in Conns, link'[sock] = "up"
        PROVE  sock' = sock
    <2>1. link[sock] = "up"
      BY <1>3, <1>5, <1>7, <1>9
    <2>2. IsSockOpen
      BY <1>1, <1>9, <2>1, ConnsAssumption DEF Inv, UpIsOpen, IsSockOpen
    <2>3. link' = [link EXCEPT ![c] = "up", ![sock] = "down"]
      BY <2>1, <2>2 DEF Connect
    <2>. QED
      BY <1>3, <1>7, <1>9, <2>3
  <1>10. PICK d \in Conns :
           posted' \in {posted, Append(posted, Event("deferredDelete", d))}
    BY <1>6
  <1>. QED
    BY <1>2, <1>4, <1>8, <1>9, <1>10, LinkOrder

LEMMA RemoteCloseKeepsOrder ==
  ASSUME OrderInv, NEW c \in Conns, RemoteClose(c)
  PROVE  OrderInv'
  <1>1. Inv /\ link \in [Conns -> {"none", "up", "down"}]
    BY DEF OrderInv, Inv, TypeOK
  <1>2. Inv'
    BY <1>1, RemoteCloseKeepsInv
  <1>3. /\ link[c] = "up" /\ link' = [link EXCEPT ![c] = "down"]
        /\ UNCHANGED <<toService, listening, ownAnswer>> /\ wrote' = NoWrite
        /\ posted' \in {posted, Append(posted, Event("deferredDelete", c))}
        /\ c # sock => sock' = sock
    BY DEF RemoteClose
  <1>4. /\ \A x \in Conns : link[x] # "none" => link'[x] # "none"
        /\ \A x \in Conns : link'[x] = "up" => link[x] \in {"up", "none"} /\ x # c
    BY <1>1, <1>3
  <1>. QED
    BY <1>2, <1>3, <1>4, LinkOrder


(* A step that takes the first posted event and writes nothing, a deletion *)
(* or a start.                                                             *)
LEMMA TakenOrder ==
  ASSUME OrderInv, DeferredDelete \/ StartServer
  PROVE  OrderInv'
  <1>1. /\ Inv /\ posted \in Seq(Events) /\ toService \in Seq(Conns)
        /\ link \in [Conns -> {"none", "up", "down"}]
    BY DEF OrderInv, Inv, TypeOK
  <1>2. Inv'
    BY <1>1, DeferredDeleteKeepsInv, SendKeepsInv
  <1>3. /\ posted # <<>> /\ posted' = Tail(posted) /\ wrote' = NoWrite
        /\ link' = link /\ toService' = toService /\ ownAnswer' = ownAnswer
        /\ Head(posted).sig # "stopServer"
    BY DEF DeferredDelete, StartServer
  <1>4. SetOf(posted') \subseteq SetOf(posted) /\ Head(posted) \in SetOf(posted)
    BY <1>1, <1>3, TailHolds
  <1>5. StartFollowsStop'
    BY <1>1, <1>3, TailStarted DEF OrderInv, StartFollowsStop
  <1>6. \A c \in Conns : link'[c] = "up" /\ c = sock => sock' = sock
    <2>1. CASE DeferredDelete
      BY <1>1, <1>3, <1>4, <2>1 DEF DeferredDelete, Inv, DeletedIsDown
    <2>2. CASE StartServer
      BY <2>2 DEF StartServer
    <2>. QED
      BY <2>1, <2>2
  <1>7. \A c \in Conns :
          /\ Turn(c, posted, toService) => Turn(c, posted', toService')
          /\ Alone(c, posted, toService) => Alone(c, posted', toService')
    BY <1>1, <1>3, TailTurn
  <1>8. \A c \in Conns :
          link'[c] = "up"
            => link[c] = "up" \/ (link[c] = "none" /\ ~Asked(c)')
    BY <1>3
  <1>. QED
    BY <1>2, <1>3, <1>5, <1>6, <1>7, <1>8, QuietOrder

LEMMA CloseKeepsOrder ==
  ASSUME OrderInv, StopServer \/ RestartServer
  PROVE  OrderInv'
  <1> DEFINE closed == SetOf(pending) \cup {sock}
  <1> DEFINE e == Event("deferredDelete", sock)
  <1>1. /\ Inv /\ posted \in Seq(Events) /\ toService \in Seq(Conns)
        /\ link \in [Conns -> {"none", "up", "down"}]
        /\ sock \in Conns \cup {NoConn}
    BY DEF OrderInv, Inv, TypeOK
  <1>2. Inv'
    BY <1>1, CloseKeepsInv
  <1>3. /\ posted # <<>> /\ wrote' = NoWrite
        /\ link' = [c \in Conns |-> IF c \in closed THEN "down" ELSE link[c]]
        /\ posted' = IF sock = NoConn THEN Tail(posted)
                                      ELSE Append(Tail(posted), e)
        /\ sock' = sock /\ toService' = toService /\ ownAnswer' = ownAnswer
        /\ Head(posted).sig = "stopServer" => ~listening'
    BY DEF StopServer, RestartServer, CloseAll
  <1>4. Tail(posted) \in Seq(Events)
    BY <1>1, <1>3, TailHolds
  <1>5. sock # NoConn => e \in Events /\ e.sig = "deferredDelete"
    BY <1>1, EventTypes
  <1>6. StartFollowsStop'
    <2>1. Started(Tail(posted), listening')
      BY <1>1, <1>3, TailStarted DEF OrderInv, StartFollowsStop
    <2>2. sock # NoConn => Started(Append(Tail(posted), e), listening')
      BY <1>4, <1>5, <2>1, AppendStarted
    <2>. HIDE DEF e
    <2>. QED
      BY <1>3, <2>1, <2>2 DEF StartFollowsStop
  <1>7. ASSUME NEW c \in Conns
        PROVE  /\ Turn(c, posted, toService) => Turn(c, posted', toService')
               /\ Alone(c, posted, toService) => Alone(c, posted', toService')
    <2>1. /\ Turn(c, posted, toService) => Turn(c, Tail(posted), toService)
          /\ Alone(c, posted, toService) => Alone(c, Tail(posted), toService)
      BY <1>1, <1>3, TailTurn
    <2>2. sock # NoConn =>
            /\ Turn(c, Tail(posted), toService)
                 => Turn(c, Append(Tail(posted), e), toService)
            /\ Alone(c, Tail(posted), toService)
                 => Alone(c, Append(Tail(posted), e), toService)
      BY <1>1, <1>4, <1>5, AppendTurn
    <2>. HIDE DEF e
    <2>. QED
      BY <1>3, <2>1, <2>2
  <1>8. /\ \A c \in Conns : link[c] # "none" => link'[c] # "none"
        /\ \A c \in Conns : link'[c] = "up" => link[c] = "up"
    BY <1>1, <1>3
  <1>9. \A c \in Conns :
          link'[c] = "up"
            => link[c] = "up" \/ (link[c] = "none" /\ ~Asked(c)')
    BY <1>8
  <1>10. wrote' = NoWrite /\ ownAnswer' = ownAnswer /\ sock' = sock
    BY <1>3
  <1>. QED
    BY <1>2, <1>6, <1>7, <1>8, <1>9, <1>10, QuietOrder

LEMMA ReceiveKeepsOrder ==
  ASSUME OrderInv, NEW c \in Conns, NEW msgs \in Seq(Messages), Receive(c, msgs)
  PROVE  OrderInv'
  <1>1. /\ Inv /\ posted \in Seq(Events) /\ toService \in Seq(Conns)
        /\ unread \in [Conns -> Seq(Messages)]
    BY DEF OrderInv, Inv, TypeOK
  <1>2. Inv'
    BY <1>1, ReceiveKeepsInv
  <1>3. /\ link' = link /\ sock' = sock /\ posted' = posted
        /\ listening' = listening
        /\ ownAnswer' = ownAnswer /\ wrote' = NoWrite
    BY DEF Receive, netVars
  <1>4. PICK read \in Seq(Conns) :
          /\ SetOf(read) \subseteq {sock}
          /\ toService' = toService \o read
    <2>1. CASE c = sock
      <3>1. PICK n \in 0..Len(unread[c] \o msgs) :
              toService' = toService \o [i \in 1..n |-> c]
        BY <2>1 DEF Receive, Reads
      <3>2. n \in Nat
        BY <1>1, <3>1
      <3>3. [i \in 1..n |-> c] \in Seq(Conns)
            /\ SetOf([i \in 1..n |-> c]) \subseteq {sock}
        BY <2>1, <3>2 DEF SetOf
      <3>. QED
        BY <3>1, <3>3
    <2>2. CASE c # sock
      <3>1. toService' = toService
        BY <2>2 DEF Receive, Reads
      <3>2. toService = toService \o <<>> /\ <<>> \in Seq(Conns)
        BY <1>1
      <3>. QED
        BY <3>1, <3>2, EmptyHolds
    <2>. QED
      BY <2>1, <2>2
  <1>5. SetOf(toService') = SetOf(toService) \cup SetOf(read)
    BY <1>1, <1>4, ConcatHolds
  <1>6. ASSUME NEW x \in Conns
        PROVE  /\ (x = sock \/ ~Asked(x)) /\ Turn(x, posted, toService)
                    => Turn(x, posted', toService')
               /\ x = sock /\ Alone(x, posted, toService)
                    => Alone(x, posted', toService')
    <2>1. CASE x = sock
      BY <1>1, <1>3, <1>4, <2>1, ReadTurn
    <2>2. CASE x # sock /\ ~Asked(x)
      BY <1>3, <1>4, <1>5, <2>2, UnaskedTurn DEF Asked
    <2>. QED
      BY <2>1, <2>2
  <1>7. StartFollowsStop'
    BY <1>3 DEF OrderInv, StartFollowsStop
  <1>8. \A x \in Conns :
          link'[x] = "up"
            => link[x] = "up" \/ (link[x] = "none" /\ ~Asked(x)')
    BY <1>3
  <1>. QED
    BY <1>2, <1>3, <1>6, <1>7, <1>8, QuietOrder

(* An answer is written.  That it is the first of its own that a client    *)
(* gets is the one way into ownAnswer: what follows is then its own.       *)
LEMMA SendKeepsOrder ==
  ASSUME OrderInv, Send
  PROVE  OrderInv'
  <1> DEFINE e == Head(posted)
  <1>1. /\ Inv /\ posted \in Seq(Events) /\ toService \in Seq(Conns)
        /\ sock \in Conns \cup {NoConn} /\ ownAnswer \in SUBSET Conns
    BY DEF OrderInv, Inv, TypeOK
  <1>2. Inv'
    BY <1>1, SendKeepsInv
  <1>3. /\ posted # <<>> /\ posted' = Tail(posted)
        /\ link' = link /\ toService' = toService /\ sock' = sock
        /\ listening' = listening
        /\ e.sig \in {"answer", "notify"}
    BY DEF Send, netVars
  <1>4. /\ e \in Events /\ e \in SetOf(posted)
        /\ 1 \in DOMAIN posted /\ e = posted[1]
    BY <1>1, <1>3, TailHolds
  <1>5. StartFollowsStop'
    BY <1>1, <1>3, TailStarted DEF OrderInv, StartFollowsStop
  <1>6. \A c \in Conns :
          /\ Turn(c, posted, toService) => Turn(c, posted', toService')
          /\ Alone(c, posted, toService) => Alone(c, posted', toService')
          /\ Turn(c, posted, toService) /\ e = Event("answer", c)
               => Alone(c, posted', toService')
    BY <1>1, <1>3, TailTurn
  <1>7. AnswersInTurn'
    BY <1>3, <1>6 DEF OrderInv, AnswersInTurn
  <1>8. \/ wrote' = NoWrite /\ ownAnswer' = ownAnswer
        \/ /\ CanWrite /\ link[sock] = "up" /\ e.sig = "answer"
           /\ wrote' = [to |-> sock, from |-> e.conn]
           /\ ownAnswer' = IF e.conn = sock THEN ownAnswer \cup {sock}
                                            ELSE ownAnswer
    BY DEF Send
  <1>9. \A c \in ownAnswer :
          /\ c \in Conns /\ link'[c] # "none"
          /\ link'[c] = "up" => c = sock' /\ Alone(c, posted', toService')
    BY <1>1, <1>3, <1>6 DEF OrderInv, OwnAlone
  <1>10. CASE wrote' = NoWrite /\ ownAnswer' = ownAnswer
    <2>1. OwnAlone'
      BY <1>9, <1>10 DEF OwnAlone
    <2>2. ForeignAnswersFirst'
      BY <1>10 DEF ForeignAnswersFirst, NoWrite
    <2>. QED
      BY <1>2, <1>5, <1>7, <2>1, <2>2 DEF OrderInv
  <1>11. CASE /\ CanWrite /\ link[sock] = "up" /\ e.sig = "answer"
              /\ wrote' = [to |-> sock, from |-> e.conn]
              /\ ownAnswer' = IF e.conn = sock THEN ownAnswer \cup {sock}
                                               ELSE ownAnswer
    <2>1. sock \in Conns
      BY <1>1, <1>11 DEF CanWrite, IsSockOpen
    <2>2. CASE e.conn = sock
      <3>1. e = Event("answer", sock)
        BY <1>4, <1>11, <2>2 DEF Event, Events
      <3>2. Alone(sock, posted', toService')
        BY <1>6, <1>11, <2>1, <3>1 DEF OrderInv, AnswersInTurn
      <3>3. OwnAlone'
        BY <1>3, <1>9, <1>11, <2>2, <3>2 DEF OwnAlone
      <3>4. ForeignAnswersFirst'
        BY <1>11, <2>2 DEF ForeignAnswersFirst
      <3>. QED
        BY <1>2, <1>5, <1>7, <3>3, <3>4 DEF OrderInv
    <2>3. CASE e.conn # sock
      <3>1. sock \notin ownAnswer
        BY <1>4, <1>11, <2>3 DEF OrderInv, OwnAlone, Alone
      <3>2. OwnAlone'
        BY <1>9, <1>11, <2>3 DEF OwnAlone
      <3>3. ForeignAnswersFirst'
        BY <1>11, <2>3, <3>1 DEF ForeignAnswersFirst
      <3>. QED
        BY <1>2, <1>5, <1>7, <3>2, <3>3 DEF OrderInv
    <2>. QED
      BY <2>2, <2>3
  <1>. QED
    BY <1>8, <1>10, <1>11


(* The main thread posts notifications and moves of the endpoint, and an   *)
(* answer only to the command it takes.                                    *)
LEMMA ServiceKeepsOrder ==
  ASSUME OrderInv, Serve \/ Notify \/ Reload
  PROVE  OrderInv'
  <1> DEFINE note == Event("notify", NoConn)
  <1> DEFINE move == Event("restartServer", NoConn)
  <1> DEFINE halt == Event("stopServer", NoConn)
  <1> DEFINE start == Event("startServer", NoConn)
  <1>1. Inv /\ posted \in Seq(Events) /\ toService \in Seq(Conns)
    BY DEF OrderInv, Inv, TypeOK
  <1>2. Inv'
    BY <1>1, ServiceKeepsInv
  <1>3. /\ link' = link /\ sock' = sock /\ listening' = listening
        /\ ownAnswer' = ownAnswer /\ wrote' = NoWrite
    BY DEF Serve, Notify, Reload, Post, netVars
  <1>4. /\ note \in Events /\ note.sig = "notify"
        /\ move \in Events /\ move.sig = "restartServer"
        /\ halt \in Events /\ halt.sig = "stopServer"
        /\ start \in Events /\ start.sig = "startServer"
    BY EventTypes
  <1>5. SUFFICES /\ Started(posted', listening)
                 /\ \A c \in Conns :
                      /\ Turn(c, posted, toService)
                           => Turn(c, posted', toService')
                      /\ Alone(c, posted, toService)
                           => Alone(c, posted', toService')
    <2>1. \A c \in Conns :
            link'[c] = "up"
              => link[c] = "up" \/ (link[c] = "none" /\ ~Asked(c)')
      <3>1. \A c \in Conns : Asked(c)' => link'[c] # "none"
        BY <1>2 DEF Inv, KnownIsThere
      <3>. QED
        BY <1>1, <1>3, <3>1 DEF Inv, TypeOK
    <2>2. StartFollowsStop'
      BY <1>3 DEF StartFollowsStop
    <2>. QED
      BY <1>2, <1>3, <2>1, <2>2, QuietOrder
  <1>6. Started(posted, listening)
    BY DEF OrderInv, StartFollowsStop
  <1>7. ASSUME NEW events \in Seq(Events), NEW e \in Events,
               e.sig \notin {"startServer", "answer"}
        PROVE  /\ Append(events, e) \in Seq(Events)
               /\ Started(events, listening)
                    => Started(Append(events, e), listening)
               /\ \A c \in Conns, asks \in Seq(Conns) :
                    /\ Turn(c, events, asks) => Turn(c, Append(events, e), asks)
                    /\ Alone(c, events, asks) => Alone(c, Append(events, e), asks)
    BY <1>7, AppendStarted, AppendTurn
  <1>8. CASE Notify
    <2>1. posted' = Append(posted, note) /\ toService' = toService
      BY <1>1, <1>4, <1>8 DEF Notify, Post
    <2>. QED
      BY <1>1, <1>4, <1>6, <1>7, <2>1
  <1>9. CASE Reload
    <2>1. posted' = Append(Append(posted, halt), start) /\ toService' = toService
      BY <1>1, <1>4, <1>9, Appended DEF Reload, Post
    <2> DEFINE stopped == Append(posted, halt)
    <2>2. /\ stopped \in Seq(Events) /\ Started(stopped, listening)
          /\ Len(stopped) > 0 /\ stopped[Len(stopped)] = halt
      BY <1>1, <1>4, <1>6, <1>7
    <2>3. \A c \in Conns :
            /\ Turn(c, posted, toService) => Turn(c, stopped, toService)
            /\ Alone(c, posted, toService) => Alone(c, stopped, toService)
      BY <1>1, <1>4, <1>7
    <2>4. posted' = Append(stopped, start)
      BY <2>1
    <2>. HIDE DEF stopped
    <2>5. Started(posted', listening)
      BY <1>4, <2>2, <2>4, AppendStarted
    <2>6. \A c \in Conns :
            /\ Turn(c, stopped, toService) => Turn(c, posted', toService)
            /\ Alone(c, stopped, toService) => Alone(c, posted', toService)
      BY <1>1, <1>4, <2>2, <2>4, AppendTurn
    <2>. QED
      BY <2>1, <2>3, <2>5, <2>6
  <1>10. CASE Serve
    <2> DEFINE asker == Head(toService)
    <2> DEFINE answer == Event("answer", asker)
    <2>1. /\ toService # <<>> /\ toService' = Tail(toService)
          /\ asker \in Conns /\ toService' \in Seq(Conns)
      BY <1>1, <1>10, TailHolds DEF Serve
    <2>2. answer \in Events /\ answer.sig = "answer"
      BY <2>1, EventTypes
    <2>3. PICK first \in {posted, Append(posted, note), Append(posted, move)} :
            posted' \in {first, Append(first, answer)}
      <3>1. PICK events \in Replies(asker) : posted' = posted \o events
        BY <1>10 DEF Serve, Post
      <3>2. /\ posted \o <<>> = posted
            /\ posted \o <<answer>> = Append(posted, answer)
            /\ posted \o <<note>> = Append(posted, note)
            /\ posted \o <<note, answer>> = Append(Append(posted, note), answer)
            /\ posted \o <<move, answer>> = Append(Append(posted, move), answer)
        BY <1>1, <1>4, <2>2, Appended
      <3>. QED
        BY <3>1, <3>2 DEF Replies
    <2>4. /\ first \in Seq(Events) /\ Started(first, listening)
          /\ \A c \in Conns :
               /\ Turn(c, posted, toService) => Turn(c, first, toService)
               /\ Alone(c, posted, toService) => Alone(c, first, toService)
      BY <1>1, <1>4, <1>6, <1>7
    <2>5. Started(posted', listening)
      BY <2>2, <2>3, <2>4, AppendStarted
    <2>6. \A c \in Conns :
            /\ Turn(c, first, toService) => Turn(c, posted', toService')
            /\ Alone(c, first, toService) => Alone(c, posted', toService')
      BY <1>1, <2>1, <2>3, <2>4, AnswerTurn
    <2>. QED
      BY <2>4, <2>5, <2>6
  <1>. QED
    BY <1>8, <1>9, <1>10

LEMMA InitOrder == Init => OrderInv
  <1> SUFFICES ASSUME Init PROVE OrderInv
    OBVIOUS
  <1>1. Inv
    BY InitInv
  <1>2. StartFollowsStop
    <2>1. DOMAIN posted = {1} /\ ~listening
      BY DEF Init
    <2>. QED
      BY <2>1 DEF StartFollowsStop, Started
  <1>3. AnswersInTurn /\ OwnAlone
    BY DEF Init, AnswersInTurn, OwnAlone
  <1>4. ForeignAnswersFirst
    BY DEF Init, ForeignAnswersFirst
  <1>. QED
    BY <1>1, <1>2, <1>3, <1>4 DEF OrderInv

LEMMA NextOrder == OrderInv /\ [Next]_vars => OrderInv'
  <1> SUFFICES ASSUME OrderInv, [Next]_vars PROVE OrderInv'
    OBVIOUS
  <1>1. \A msgs \in Arrivals : msgs \in Seq(Messages)
    BY ArrivalTypes
  <1>2. CASE Next
    BY <1>1, <1>2, ConnectKeepsOrder, RemoteCloseKeepsOrder, ReceiveKeepsOrder,
       SendKeepsOrder, TakenOrder, CloseKeepsOrder, ServiceKeepsOrder
    DEF Next, Posted
  <1>3. CASE UNCHANGED vars
    <2>1. Inv'
      BY <1>3, NextInv DEF OrderInv
    <2>2. AnswersInTurn' /\ OwnAlone' /\ StartFollowsStop' /\ ForeignAnswersFirst'
      BY <1>3 DEF vars, OrderInv, AnswersInTurn, OwnAlone, StartFollowsStop,
         ForeignAnswersFirst
    <2>. QED
      BY <2>1, <2>2 DEF OrderInv
  <1>. QED
    BY <1>2, <1>3

THEOREM OrderKept == Spec => []OrderInv
  BY InitOrder, NextOrder, PTL DEF Spec

(* From the first answer of its own, a client gets no other client's.      *)
THEOREM ForeignFirst == Spec => []ForeignAnswersFirst
  <1>1. OrderInv => ForeignAnswersFirst
    BY DEF OrderInv
  <1>. QED
    BY <1>1, OrderKept, PTL

(* The server is asked to listen only when it does not.                    *)
THEOREM ListensOnce == Spec => []NeverListensTwice
  <1>1. OrderInv => NeverListensTwice
    <2> SUFFICES ASSUME OrderInv, posted # <<>>, Head(posted).sig = "startServer"
                 PROVE  ~listening
      BY DEF NeverListensTwice
    <2>1. posted \in Seq(Events)
      BY DEF OrderInv, Inv, TypeOK
    <2>2. 1 \in DOMAIN posted /\ Head(posted) = posted[1]
      BY <2>1
    <2>. QED
      BY <2>2 DEF OrderInv, StartFollowsStop, Started
  <1>. QED
    BY <1>1, OrderKept, PTL

=============================================================================
