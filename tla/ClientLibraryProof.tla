------------------------- MODULE ClientLibraryProof -------------------------
(***************************************************************************)
(* Theorems about ClientLibrary: what the broker and the connections keep  *)
(* about subscriptions, and whose replies a call returns with, for any     *)
(* number of clients, connections, channels and patterns, and whatever the *)
(* clients send.                                                           *)
(***************************************************************************)
EXTENDS ClientLibrary, SequenceTheorems, FiniteSetTheorems, TLAPS

(***************************************************************************)
(* The tables of the broker and the sets of the connections, which mirror  *)
(* each other.                                                             *)
(***************************************************************************)
BrokerOK ==
    /\ subscribers \in [Channel -> SUBSET Conn]
    /\ psubscribers \in [Pattern -> SUBSET Conn]
    /\ channels \in [Conn -> SUBSET Channel]
    /\ patterns \in [Conn -> SUBSET Pattern]
    /\ \A k \in Conn : channels[k] = {ch \in Channel : k \in subscribers[ch]}
    /\ \A k \in Conn : patterns[k] = {p \in Pattern : k \in psubscribers[p]}

(***************************************************************************)
(* A handler and a transaction as far as subscriptions depend on them: the *)
(* chunk that is run belongs to a connection that is being read, and while *)
(* EXEC runs the transaction is closed, so that what it runs may subscribe.*)
(***************************************************************************)
HandlersOK ==
    /\ phase \in [Conn -> {"free", "new", "reading", "flushing", "ended"}]
    /\ turn \in Conn \cup {Nobody}
    /\ DOMAIN tx = Conn
    /\ \A k \in Conn : /\ tx[k] = [open |-> tx[k].open, queue |-> tx[k].queue]
                       /\ tx[k].open \in BOOLEAN
    /\ turn # Nobody => phase[turn] = "reading"
    /\ run # NoRun => turn # Nobody /\ ~tx[turn].open

IInv ==
    /\ BrokerOK
    /\ HandlersOK
    /\ \A k \in Conn : InPubSub(k) => phase[k] \in {"reading", "flushing"}
    /\ NotBothModes

\* No connection but k has more or other subscriptions than before.
OnlyBy(k) == \A j \in Conn : j # k => channels'[j] = channels[j] /\ patterns'[j] = patterns[j]
-----------------------------------------------------------------------------
(***************************************************************************)
(* The operations of the broker keep the two sides alike.                  *)
(***************************************************************************)
LEMMA SubscribeSound ==
    ASSUME BrokerOK, NEW k \in Conn, NEW names \in SUBSET Channel, Subscribe(k, names)
    PROVE  BrokerOK' /\ OnlyBy(k)
  BY DEF BrokerOK, OnlyBy, Subscribe, With

LEMMA PSubscribeSound ==
    ASSUME BrokerOK, NEW k \in Conn, NEW names \in SUBSET Pattern, PSubscribe(k, names)
    PROVE  BrokerOK' /\ OnlyBy(k)
  BY DEF BrokerOK, OnlyBy, PSubscribe, With

LEMMA UnsubscribeSound ==
    ASSUME BrokerOK, NEW k \in Conn, NEW names \in SUBSET Channel, Unsubscribe(k, names)
    PROVE  BrokerOK' /\ OnlyBy(k)
  BY DEF BrokerOK, OnlyBy, Unsubscribe, Without

LEMMA PUnsubscribeSound ==
    ASSUME BrokerOK, NEW k \in Conn, NEW names \in SUBSET Pattern, PUnsubscribe(k, names)
    PROVE  BrokerOK' /\ OnlyBy(k)
  BY DEF BrokerOK, OnlyBy, PUnsubscribe, Without

LEMMA RemoveConnectionSound ==
    ASSUME BrokerOK, NEW k \in Conn, RemoveConnection(k)
    PROVE  BrokerOK' /\ OnlyBy(k) /\ channels'[k] = {} /\ patterns'[k] = {}
  BY DEF BrokerOK, OnlyBy, RemoveConnection, Without

LEMMA BrokerUnchanged ==
    ASSUME BrokerOK, UNCHANGED broker
    PROVE  BrokerOK' /\ \A k \in Conn : OnlyBy(k) /\ InPubSub(k)' = InPubSub(k)
  BY DEF BrokerOK, OnlyBy, broker, InPubSub
-----------------------------------------------------------------------------
(***************************************************************************)
(* A step that touches connection k alone keeps the invariant if k is fit  *)
(* to have the subscriptions it has afterwards.                            *)
(***************************************************************************)
Untouched(k) == \A j \in Conn : j # k => phase'[j] = phase[j] /\ tx'[j] = tx[j]

Fit(k) == InPubSub(k) => phase[k] \in {"reading", "flushing"} /\ ~tx[k].open

LEMMA OneConnection ==
    ASSUME IInv, NEW k \in Conn, BrokerOK', HandlersOK', OnlyBy(k), Untouched(k), Fit(k)'
    PROVE  IInv'
<1>1. \A j \in Conn : InPubSub(j)' => phase'[j] \in {"reading", "flushing"} /\ ~tx'[j].open
  <2>1. SUFFICES ASSUME NEW j \in Conn, j # k, InPubSub(j)'
                 PROVE  phase'[j] \in {"reading", "flushing"} /\ ~tx'[j].open
    BY DEF Fit, InPubSub
  <2>2. InPubSub(j) BY <2>1 DEF OnlyBy, InPubSub
  <2>3. phase'[j] = phase[j] /\ tx'[j] = tx[j] BY <2>1 DEF Untouched
  <2> QED BY <2>2, <2>3 DEF IInv, NotBothModes
<1> QED BY <1>1 DEF IInv, NotBothModes

(***************************************************************************)
(* What a command does that runs by itself or inside EXEC.                 *)
(***************************************************************************)
LEMMA ExecuteSound ==
    ASSUME BrokerOK, NEW k \in Conn, NEW op, NEW id, Execute(k, op, id)
    PROVE  BrokerOK' /\ OnlyBy(k) /\ tx' = tx
<1>1. CASE Plain(k, id) BY <1>1, BrokerUnchanged DEF Plain
<1>2. CASE Shutdown(k, id) BY <1>2, BrokerUnchanged DEF Shutdown
<1>3. CASE Publish(k, id) BY <1>3, BrokerUnchanged DEF Publish
<1>4. CASE SubscribeCommand(k, id) /\ UNCHANGED tx
  <2>1. PICK names \in SUBSET Channel : Subscribe(k, names) BY <1>4 DEF SubscribeCommand
  <2> QED BY <1>4, <2>1, SubscribeSound
<1>5. CASE PSubscribeCommand(k, id) /\ UNCHANGED tx
  <2>1. PICK names \in SUBSET Pattern : PSubscribe(k, names) BY <1>5 DEF PSubscribeCommand
  <2> QED BY <1>5, <2>1, PSubscribeSound
<1>6. CASE UnsubscribeCommand(k, id) /\ UNCHANGED tx
  <2>1. channels[k] \in SUBSET Channel /\ Named(Channel) \subseteq SUBSET Channel
    BY DEF BrokerOK, Named
  <2>2. PICK names \in SUBSET Channel : Unsubscribe(k, names)
    BY <1>6, <2>1 DEF UnsubscribeCommand
  <2> QED BY <1>6, <2>2, UnsubscribeSound
<1>7. CASE PUnsubscribeCommand(k, id) /\ UNCHANGED tx
  <2>1. patterns[k] \in SUBSET Pattern /\ Named(Pattern) \subseteq SUBSET Pattern
    BY DEF BrokerOK, Named
  <2>2. PICK names \in SUBSET Pattern : PUnsubscribe(k, names)
    BY <1>7, <2>1 DEF PUnsubscribeCommand
  <2> QED BY <1>7, <2>2, PUnsubscribeSound
<1> QED BY <1>1, <1>2, <1>3, <1>4, <1>5, <1>6, <1>7 DEF Execute

(***************************************************************************)
(* What a request does to the subscriptions and the transaction of its own *)
(* connection: the gates keep the two apart.                               *)
(***************************************************************************)
LEMMA DispatchSound ==
    ASSUME IInv, NEW k \in Conn, NEW op, NEW id, turn = k, run = NoRun,
           Dispatch(k, op, id), UNCHANGED <<turn, phase>>
    PROVE  IInv'
<1> USE DEF IInv
<1>0. phase[k] = "reading" BY SessionsAssumption DEF HandlersOK
<1>1. CASE UNCHANGED <<broker, run, tx>>
  <2>1. BrokerOK' /\ OnlyBy(k) /\ InPubSub(k)' = InPubSub(k) BY <1>1, BrokerUnchanged
  <2>2. HandlersOK' /\ Untouched(k) BY <1>1 DEF HandlersOK, Untouched
  <2>3. Fit(k)' BY <1>0, <1>1, <2>1 DEF Fit, NotBothModes
  <2> QED BY <2>1, <2>2, <2>3, OneConnection
<1>2. CASE Queue(k, <<op, id>>) /\ UNCHANGED run
  <2>1. BrokerOK' /\ OnlyBy(k) /\ InPubSub(k)' = InPubSub(k)
    BY <1>2, BrokerUnchanged DEF Queue
  <2>2. tx' = [tx EXCEPT ![k].queue = Append(@, <<op, id>>)] BY <1>2 DEF Queue
  <2>3. tx'[k].open = tx[k].open BY <2>2 DEF HandlersOK
  <2>4. HandlersOK' /\ Untouched(k) BY <1>2, <2>2, <2>3 DEF HandlersOK, Untouched
  <2>5. Fit(k)' BY <1>0, <2>1, <2>3 DEF Fit, NotBothModes
  <2> QED BY <2>1, <2>4, <2>5, OneConnection
<1>3. CASE ~InPubSub(k) /\ Multi(k, id) /\ UNCHANGED run
  <2>1. BrokerOK' /\ OnlyBy(k) /\ ~InPubSub(k)'
    BY <1>3, BrokerUnchanged DEF Multi
  <2>2. HandlersOK' /\ Untouched(k) BY <1>3 DEF Multi, HandlersOK, Untouched
  <2> QED BY <2>1, <2>2, OneConnection DEF Fit
<1>4. CASE Exec(k, id)
  <2>1. BrokerOK' /\ OnlyBy(k) /\ InPubSub(k)' = InPubSub(k)
    BY <1>4, BrokerUnchanged DEF Exec
  <2>2. tx' = [tx EXCEPT ![k] = NoTx] BY <1>4 DEF Exec
  <2>3. HandlersOK' /\ Untouched(k)
    BY <1>0, <2>2, SessionsAssumption DEF HandlersOK, Untouched, NoTx
  <2>4. Fit(k)' BY <1>0, <2>2 DEF Fit, NoTx, HandlersOK
  <2> QED BY <2>1, <2>3, <2>4, OneConnection
<1>5. CASE Execute(k, op, id) /\ ~tx[k].open /\ UNCHANGED run
  <2>1. BrokerOK' /\ OnlyBy(k) /\ tx' = tx BY <1>5, ExecuteSound
  <2>2. HandlersOK' /\ Untouched(k) BY <1>5, <2>1 DEF HandlersOK, Untouched
  <2>3. Fit(k)' BY <1>0, <1>5, <2>1 DEF Fit
  <2> QED BY <2>1, <2>2, <2>3, OneConnection
<1>6. CASE Plain(k, id) /\ UNCHANGED run BY <1>1, <1>6 DEF Plain
<1>7. CASE Quit(k, id) /\ UNCHANGED run BY <1>1, <1>7 DEF Quit
<1>8. CASE ~Refuses(k, op) /\ op = "MULTI" /\ Multi(k, id) /\ UNCHANGED run
  BY <1>3, <1>8 DEF Refuses, InPubSubAllowed
<1>9. CASE /\ ~(tx[k].open /\ op \notin NotQueued)
           /\ Execute(k, op, id)
           /\ UNCHANGED run
  <2>1. op \notin NotQueued BY <1>9 DEF Execute, NotQueued
  <2> QED BY <1>5, <1>9, <2>1
<1> QED BY <1>2, <1>4, <1>6, <1>7, <1>8, <1>9 DEF Dispatch
-----------------------------------------------------------------------------
LEMMA InitSound == Init => IInv
<1> SUFFICES ASSUME Init PROVE IInv
  OBVIOUS
<1>1. BrokerOK BY DEF Init, SessionsInit, PubSubInit, BrokerOK
<1>2. HandlersOK BY DEF Init, SessionsInit, HandlersOK, NoTx
<1>3. \A k \in Conn : ~InPubSub(k) BY DEF Init, SessionsInit, PubSubInit, InPubSub
<1> QED BY <1>1, <1>2, <1>3 DEF IInv, NotBothModes

(***************************************************************************)
(* Steps that leave subscriptions and transactions alone.                  *)
(***************************************************************************)
LEMMA PhaseSound ==
    ASSUME IInv, NEW k \in Conn, UNCHANGED <<broker, tx, run, turn>>, turn = Nobody,
           NEW new \in {"free", "new", "reading", "flushing", "ended"},
           phase' = [phase EXCEPT ![k] = new],
           InPubSub(k) => new \in {"reading", "flushing"}
    PROVE  IInv'
<1> USE DEF IInv
<1>1. BrokerOK' /\ OnlyBy(k) /\ InPubSub(k)' = InPubSub(k) BY BrokerUnchanged
<1>2. HandlersOK' /\ Untouched(k) BY DEF HandlersOK, Untouched
<1>3. Fit(k)' BY <1>1 DEF Fit, NotBothModes, HandlersOK
<1> QED BY <1>1, <1>2, <1>3, OneConnection

LEMMA FinishSound ==
    ASSUME IInv, NEW k \in Conn, turn = Nobody, Finish(k)
    PROVE  IInv'
<1> USE DEF IInv
<1>1. BrokerOK' /\ OnlyBy(k) /\ ~InPubSub(k)'
  BY RemoveConnectionSound DEF Finish, InPubSub
<1>2. HandlersOK' /\ Untouched(k) BY DEF Finish, HandlersOK, Untouched, NoTx
<1> QED BY <1>1, <1>2, OneConnection DEF Fit

(***************************************************************************)
(* Every step of a handler keeps the invariant.                            *)
(***************************************************************************)
LEMMA HandlerSound ==
    ASSUME IInv, NEW k \in Conn, Handler(k)
    PROVE  IInv'
<1>1. CASE Begin(k)
  <2>1. ~InPubSub(k) BY <1>1 DEF Begin, IInv
  <2>2. PICK new \in {"reading", "ended"} : phase' = [phase EXCEPT ![k] = new]
    BY <1>1 DEF Begin
  <2> QED BY <1>1, <2>1, <2>2, PhaseSound DEF Begin
<1>2. CASE Read(k)
  <2>1. BrokerOK' /\ OnlyBy(k) /\ InPubSub(k)' = InPubSub(k)
    BY <1>2, BrokerUnchanged DEF Read, IInv
  <2>2. HandlersOK' /\ Untouched(k) BY <1>2 DEF Read, IInv, HandlersOK, Untouched
  <2>3. Fit(k)' BY <1>2, <2>1 DEF Read, Fit, IInv, NotBothModes
  <2> QED BY <2>1, <2>2, <2>3, OneConnection
<1>3. CASE ReadEnd(k) BY <1>3, FinishSound DEF ReadEnd
<1>4. CASE Loop(k)
  <2>1. CASE phase' = [phase EXCEPT ![k] = "reading"] /\ UNCHANGED <<broker, tx, run, turn>>
    BY <1>4, <2>1, PhaseSound DEF Loop
  <2>2. CASE Finish(k) BY <1>4, <2>2, FinishSound DEF Loop
  <2> QED BY <1>4, <2>1, <2>2 DEF Loop
<1>5. CASE RunNext(k)
  <2>1. PICK op, id : Dispatch(k, op, id) BY <1>5 DEF RunNext
  <2> QED BY <1>5, <2>1, DispatchSound DEF RunNext
<1>6. CASE RunQueued(k)
  <2>1. phase[k] = "reading" /\ ~tx[k].open
    BY <1>6, SessionsAssumption DEF RunQueued, IInv, HandlersOK, NoRun
  <2>2. PICK op, id : Plain(k, id) \/ Execute(k, op, id) BY <1>6 DEF RunQueued
  <2>3. BrokerOK' /\ OnlyBy(k) /\ tx' = tx
    BY <2>2, ExecuteSound, BrokerUnchanged DEF IInv, Plain
  <2>4. HandlersOK' /\ Untouched(k)
    BY <1>6, <2>1, <2>3, SessionsAssumption DEF RunQueued, IInv, HandlersOK, Untouched
  <2>5. Fit(k)' BY <1>6, <2>1, <2>3 DEF RunQueued, Fit
  <2> QED BY <2>3, <2>4, <2>5, OneConnection
<1>7. CASE ExecDone(k)
  <2>1. UNCHANGED broker BY <1>7 DEF ExecDone
  <2>2. BrokerOK' /\ OnlyBy(k) /\ InPubSub(k)' = InPubSub(k)
    BY <2>1, BrokerUnchanged DEF IInv
  <2>3. HandlersOK' /\ Untouched(k) BY <1>7 DEF ExecDone, IInv, HandlersOK, Untouched
  <2>4. Fit(k)' BY <1>7, <2>2 DEF ExecDone, Fit, IInv, NotBothModes
  <2> QED BY <2>2, <2>3, <2>4, OneConnection
<1>8. CASE ChunkDone(k)
  <2>1. BrokerOK' /\ OnlyBy(k) /\ InPubSub(k)' = InPubSub(k)
    BY <1>8, BrokerUnchanged DEF ChunkDone, IInv
  <2>2. HandlersOK' /\ Untouched(k) BY <1>8 DEF ChunkDone, IInv, HandlersOK, Untouched
  <2>3. Fit(k)' BY <1>8, <2>1 DEF ChunkDone, Fit, IInv, NotBothModes, HandlersOK
  <2> QED BY <2>1, <2>2, <2>3, OneConnection
<1> QED BY <1>1, <1>2, <1>3, <1>4, <1>5, <1>6, <1>7, <1>8 DEF Handler

LEMMA NothingSubscribes ==
    ASSUME IInv, UNCHANGED <<broker, phase, turn, tx, run>>
    PROVE  IInv'
<1>1. BrokerOK' /\ \A k \in Conn : InPubSub(k)' = InPubSub(k) BY BrokerUnchanged DEF IInv
<1>2. HandlersOK' BY DEF IInv, HandlersOK
<1> QED BY <1>1, <1>2 DEF IInv, NotBothModes

(***************************************************************************)
(* What clients do changes no subscription: the worst is a new connection. *)
(***************************************************************************)
LEMMA UseSound ==
    ASSUME IInv, NEW c \in Client, Use(c)
    PROVE  IInv'
<1>1. CASE ConnectAndCall(c)
  <2>1. PICK k \in Conn : phase[k] = "free" /\ phase' = [phase EXCEPT ![k] = "new"]
    BY <1>1 DEF ConnectAndCall
  <2>2. ~InPubSub(k) BY <2>1 DEF IInv
  <2>3. turn = Nobody /\ UNCHANGED <<broker, tx, run, turn>>
    BY <1>1 DEF ConnectAndCall, CanCall, Send
  <2> QED BY <2>1, <2>2, <2>3, PhaseSound
<1>2. CASE Call(c) BY <1>2, NothingSubscribes DEF Call, Send
<1>3. CASE Receive(c) \/ Misread(c) BY <1>3, NothingSubscribes DEF Receive, Misread, Takes
<1>4. CASE EndOfStream(c) BY <1>4, NothingSubscribes DEF EndOfStream
<1>5. CASE Timeout(c) BY <1>5, NothingSubscribes DEF Timeout, server
<1>6. CASE Close(c) BY <1>6, NothingSubscribes DEF Close
<1>7. CASE Transmit(c) BY <1>7, NothingSubscribes DEF Transmit
<1> QED BY <1>1, <1>2, <1>3, <1>4, <1>5, <1>6, <1>7 DEF Use

LEMMA StepSound == IInv /\ [Next]_vars => IInv'
<1> SUFFICES ASSUME IInv, [Next]_vars PROVE IInv'
  OBVIOUS
<1>1. CASE UNCHANGED vars BY <1>1, NothingSubscribes DEF vars, server
<1>2. CASE \E k \in Conn : Handler(k) BY <1>2, HandlerSound
<1>3. CASE BeginShutdown \/ EndShutdown
  BY <1>3, NothingSubscribes DEF BeginShutdown, EndShutdown
<1>4. CASE \E c \in Client : Use(c) BY <1>4, UseSound
<1> QED BY <1>1, <1>2, <1>3, <1>4 DEF Next, Serve, ServerStep

LEMMA Invariant == Spec => []IInv
BY InitSound, StepSound, PTL DEF Spec
-----------------------------------------------------------------------------
(***************************************************************************)
(* However connections come and go, subscribe inside and outside of        *)
(* transactions, quit in the middle of a chunk or hang up, the broker's    *)
(* tables and the connections' sets (pubsub/broker.py) say the same, and   *)
(* nothing is left of a connection that has ended.                         *)
(***************************************************************************)
THEOREM SubscriptionsAreSound == Spec => []SubscriptionsSound
<1>1. IInv => SubscriptionsSound BY DEF IInv, BrokerOK, SubscriptionsSound
<1> QED BY <1>1, Invariant, PTL

(***************************************************************************)
(* The order of the dispatcher's gates (server/dispatcher.py) keeps Pub/Sub*)
(* mode and open transactions apart, also when SUBSCRIBE was queued: EXEC  *)
(* has closed the transaction before it runs what was queued.              *)
(***************************************************************************)
THEOREM ModesAreExclusive == Spec => []NotBothModes
<1>1. IInv => NotBothModes BY DEF IInv
<1> QED BY <1>1, Invariant, PTL
-----------------------------------------------------------------------------
(***************************************************************************)
(* Whose reply is whose.  The requests of a connection are numbered as they*)
(* are made, so that those of a call are the last ones: what the client    *)
(* has received of its replies, what is on the way back, what EXEC is      *)
(* running, what the handler has read, what it has not read yet and what   *)
(* is not sent yet follow on each other, and together are the call.  It is *)
(* so on a quiet connection: no call on it timed out, no earlier one left  *)
(* the beginning of a reply in the parser, and it never sent a command of  *)
(* Pub/Sub.                                                                *)
(***************************************************************************)
Pushing == InPubSubAllowed \ {"QUIT"}
Mild == (STRING \ Pushing) \X (Nat \ {0})

Quiet(c) == sock[c] # NoConn /\ ~late[c] /\ ~pushed[c]

\* EXEC is running a transaction of the connection, and has not answered.
Ongoing(k) == IF turn = k /\ run # NoRun THEN 1 ELSE 0

Replies(some, from) == some \in Seq(Int) /\ \A i \in 1..Len(some) : some[i] = from + i
Asked(some, from) == some \in Seq(Mild) /\ \A i \in 1..Len(some) : some[i][2] = from + i

Before(c) == sent[c] - Len(waiting[c])
Received(c) == Before(c) + Len(got[c])
OnTheWay(c, k) == Received(c) + Len(replies[k])
Taken(c, k) == OnTheWay(c, k) + Ongoing(k)
Unread(c, k) == Taken(c, k) + Len(chunk[k])
Handed(c, k) == Unread(c, k) + Len(requests[k])

Flows(c, k) ==
    /\ Replies(got[c], Before(c))
    /\ Replies(replies[k], Received(c))
    /\ Ongoing(k) = 1 => run.id = OnTheWay(c, k) + 1
    /\ Asked(chunk[k], Taken(c, k))
    /\ Asked(requests[k], Unread(c, k))
    /\ Asked(unsent[c], Handed(c, k))
    /\ Handed(c, k) + Len(unsent[c]) = sent[c]
    /\ phase[k] = "new" => got[c] = <<>> /\ replies[k] = <<>>
    /\ tx[k].queue \in Seq(Mild)
    /\ turn = k => run = [id |-> run.id, rest |-> run.rest] /\ run.rest \in Seq(Mild)
    /\ turn # k => chunk[k] = <<>>

\* The connection has ended: of its replies there are the first at most, or a refusal.
Cut(c, k) ==
    \/ /\ Replies(got[c], Before(c))
       /\ Replies(replies[k], Received(c))
       /\ OnTheWay(c, k) <= sent[c]
    \/ got[c] = <<>> /\ replies[k] = <<Rejected>>
    \/ got[c] = <<Rejected>> /\ replies[k] = <<>>

Untroubled(c, k) ==
    /\ ~hungup[k] /\ ~InPubSub(k)
    /\ own[c]
    /\ IF phase[k] = "ended" THEN Cut(c, k) ELSE Flows(c, k)

Fresh(k) ==
    /\ ~hungup[k] /\ tx[k] = NoTx
    /\ requests[k] = <<>> /\ replies[k] = <<>> /\ chunk[k] = <<>>

TablesOK ==
    /\ sock \in [Client -> Conn \cup {NoConn}]
    /\ sent \in [Client -> Nat]
    /\ DOMAIN waiting = Client /\ DOMAIN got = Client /\ DOMAIN own = Client
    /\ DOMAIN unsent = Client /\ DOMAIN parser = Client
    /\ DOMAIN late = Client /\ DOMAIN pushed = Client
    /\ DOMAIN chunk = Conn /\ DOMAIN requests = Conn
    /\ DOMAIN replies = Conn /\ DOMAIN hungup = Conn

SocketsOK ==
    /\ TablesOK
    /\ \A c \in Client : Replies(waiting[c], Before(c)) /\ Before(c) \in Nat
    /\ \A c \in Client : sock[c] # NoConn => phase[sock[c]] # "free"
    /\ \A c \in Client : Waits(c) => sock[c] # NoConn
    /\ \A c, d \in Client : sock[c] = sock[d] => sock[c] = NoConn \/ c = d

\* A parser that is out of step is known of.
ParsersOK == \A c \in Client : late[c] \/ parser[c] # "adrift"

CallsOK ==
    /\ SocketsOK /\ ParsersOK
    /\ \A k \in Conn : phase[k] = "free" => Fresh(k)
    /\ \A c \in Client : Quiet(c) => Untroubled(c, sock[c])
-----------------------------------------------------------------------------
(***************************************************************************)
(* Sequences of numbered replies and requests, joined and cut.             *)
(***************************************************************************)
LEMMA RepliesLen ==
    ASSUME NEW from, NEW s, Replies(s, from)
    PROVE  s \in Seq(Int) /\ Len(s) \in Nat
BY LenProperties DEF Replies

LEMMA RepliesNone == ASSUME NEW from PROVE Replies(<<>>, from)
BY DEF Replies

LEMMA RepliesJoin ==
    ASSUME NEW from \in Int, NEW s, NEW t, Replies(s, from), Replies(t, from + Len(s))
    PROVE  Replies(s \o t, from) /\ Len(s \o t) = Len(s) + Len(t)
<1>1. s \in Seq(Int) /\ t \in Seq(Int) /\ s \o t \in Seq(Int) /\ Len(s \o t) = Len(s) + Len(t)
  BY ConcatProperties DEF Replies
<1>2. ASSUME NEW i \in 1..Len(s \o t) PROVE (s \o t)[i] = from + i
  <2>1. CASE i <= Len(s) BY <1>1, <2>1 DEF Replies
  <2>2. CASE i > Len(s)
    <3>1. (s \o t)[i] = t[i - Len(s)] /\ i - Len(s) \in 1..Len(t) BY <1>1, <2>2
    <3> QED BY <1>1, <3>1 DEF Replies
  <2> QED BY <1>1, <2>1, <2>2
<1> QED BY <1>1, <1>2 DEF Replies

\* The two pieces of a sequence.
LEMMA Pieces ==
    ASSUME NEW T, NEW s \in Seq(T), NEW n \in 0..Len(s)
    PROVE  /\ SubSeq(s, 1, n) \in Seq(T) /\ Len(SubSeq(s, 1, n)) = n
           /\ \A i \in 1..n : SubSeq(s, 1, n)[i] = s[i]
           /\ SubSeq(s, n + 1, Len(s)) \in Seq(T)
           /\ Len(SubSeq(s, n + 1, Len(s))) = Len(s) - n
           /\ \A i \in 1..(Len(s) - n) : SubSeq(s, n + 1, Len(s))[i] = s[n + i]
<1>1. PICK m \in Nat : m = Len(s) /\ n \in 0..m OBVIOUS
<1>2. PICK t : t = SubSeq(s, 1, n) OBVIOUS
<1>3. t \in Seq(T) /\ Len(t) = n /\ \A i \in 1..n : t[i] = s[i]
  BY <1>1, <1>2
<1>4. PICK u : u = SubSeq(s, n + 1, m) OBVIOUS
<1>5. u \in Seq(T) /\ Len(u) = m - n /\ \A i \in 1..(m - n) : u[i] = s[n + i]
  BY <1>1, <1>4
<1> QED BY <1>1, <1>2, <1>3, <1>4, <1>5

LEMMA RepliesCut ==
    ASSUME NEW from \in Int, NEW s, Replies(s, from), NEW n \in 0..Len(s)
    PROVE  /\ Replies(SubSeq(s, 1, n), from) /\ Len(SubSeq(s, 1, n)) = n
           /\ Replies(SubSeq(s, n + 1, Len(s)), from + n)
           /\ Len(SubSeq(s, n + 1, Len(s))) = Len(s) - n
<1>1. PICK m \in Nat : m = Len(s) /\ n \in 0..m BY DEF Replies
<1>2. PICK t, u : t = SubSeq(s, 1, n) /\ u = SubSeq(s, n + 1, Len(s)) OBVIOUS
<1>3. /\ t \in Seq(Int) /\ Len(t) = n /\ \A i \in 1..n : t[i] = s[i]
      /\ u \in Seq(Int) /\ Len(u) = m - n /\ \A i \in 1..(m - n) : u[i] = s[n + i]
  BY <1>1, <1>2, Pieces DEF Replies
<1>4. \A i \in 1..n : s[i] = from + i BY <1>1 DEF Replies
<1>5. Replies(t, from) BY <1>3, <1>4 DEF Replies
<1>6. \A i \in 1..(m - n) : s[n + i] = (from + n) + i BY <1>1 DEF Replies
<1>7. Replies(u, from + n) BY <1>3, <1>6 DEF Replies
<1> QED BY <1>1, <1>2, <1>3, <1>5, <1>7

LEMMA AskedCut ==
    ASSUME NEW from \in Int, NEW s, Asked(s, from), NEW n \in 0..Len(s)
    PROVE  /\ Asked(SubSeq(s, 1, n), from) /\ Len(SubSeq(s, 1, n)) = n
           /\ Asked(SubSeq(s, n + 1, Len(s)), from + n)
           /\ Len(SubSeq(s, n + 1, Len(s))) = Len(s) - n
<1>1. PICK m \in Nat : m = Len(s) /\ n \in 0..m BY DEF Asked
<1>2. PICK t, u : t = SubSeq(s, 1, n) /\ u = SubSeq(s, n + 1, Len(s)) OBVIOUS
<1>3. /\ t \in Seq(Mild) /\ Len(t) = n /\ \A i \in 1..n : t[i] = s[i]
      /\ u \in Seq(Mild) /\ Len(u) = m - n /\ \A i \in 1..(m - n) : u[i] = s[n + i]
  BY <1>1, <1>2, Pieces DEF Asked
<1>4. \A i \in 1..n : s[i][2] = from + i BY <1>1 DEF Asked
<1>5. Asked(t, from) BY <1>3, <1>4 DEF Asked
<1>6. \A i \in 1..(m - n) : s[n + i][2] = (from + n) + i BY <1>1 DEF Asked
<1>7. Asked(u, from + n) BY <1>3, <1>6 DEF Asked
<1> QED BY <1>1, <1>2, <1>3, <1>5, <1>7

LEMMA AskedNext ==
    ASSUME NEW from \in Int, NEW s, Asked(s, from), s # <<>>
    PROVE  /\ Head(s) \in Mild /\ Head(s)[2] = from + 1
           /\ Asked(Tail(s), from + 1) /\ Len(Tail(s)) = Len(s) - 1
BY DEF Asked
-----------------------------------------------------------------------------
(***************************************************************************)
(* What a step of the handler of k leaves alone.  Publish writes to other  *)
(* connections, but nothing to one without subscriptions.                  *)
(***************************************************************************)
QuietReplies(k) ==
    \A j \in Conn : j # k /\ ~InPubSub(j) /\ replies[j] \in Seq(Int) => replies'[j] = replies[j]

WritesHere(k) == QuietReplies(k) /\ DOMAIN replies' = Conn

Elsewhere(k) ==
    /\ \A j \in Conn : j # k =>
          /\ phase'[j] = phase[j] /\ tx'[j] = tx[j]
          /\ chunk'[j] = chunk[j] /\ requests'[j] = requests[j]
    /\ OnlyBy(k) /\ WritesHere(k)
    /\ turn \in {k, Nobody} /\ turn' \in {k, Nobody}
    /\ DOMAIN chunk' = Conn /\ DOMAIN requests' = Conn
    /\ hungup' = hungup

LEMMA ReplyWrites ==
    ASSUME SocketsOK, NEW k \in Conn, NEW some, replies' = [replies EXCEPT ![k] = Written(k, some)]
    PROVE  /\ WritesHere(k)
           /\ ~hungup[k] => replies'[k] = replies[k] \o some
BY DEF SocketsOK, TablesOK, WritesHere, QuietReplies, Written

LEMMA NoCopies ==
    ASSUME BrokerOK, NEW j \in Conn, ~InPubSub(j), NEW ch \in Channel
    PROVE  Copies(j, ch) = 0
<1>1. j \notin subscribers[ch] BY DEF BrokerOK, InPubSub
<1>2. \A p \in Pattern : j \notin psubscribers[p] BY DEF BrokerOK, InPubSub
<1>3. {p \in Pattern : <<p, ch>> \in Matches /\ j \in psubscribers[p]} = {} BY <1>2
<1>4. Cardinality({p \in Pattern : <<p, ch>> \in Matches /\ j \in psubscribers[p]}) = 0
  BY <1>3, FS_EmptySet
<1> QED BY <1>1, <1>4 DEF Copies

\* What a command writes to its own connection.
Answered(k, id) ==
    replies'[k] = IF run = NoRun THEN replies[k] \o <<id>> ELSE replies[k]

LEMMA AnswerSound ==
    ASSUME SocketsOK, NEW k \in Conn, ~hungup[k], NEW id, Answer(k, id)
    PROVE  Answered(k, id)
<1>1. CASE run = NoRun BY <1>1, ReplyWrites DEF Answer, Reply, Answered
<1>2. CASE run # NoRun BY <1>2 DEF Answer, Answered
<1> QED BY <1>1, <1>2

LEMMA PublishSound ==
    ASSUME SocketsOK, BrokerOK, NEW k \in Conn, NEW id, Publish(k, id)
    PROVE  /\ WritesHere(k)
           /\ ~hungup[k] /\ ~InPubSub(k) /\ replies[k] \in Seq(Int) => Answered(k, id)
<1>1. PICK ch \in Channel : replies' = [c \in Conn |->
              IF c = k /\ run = NoRun THEN Written(c, <<id>>)
              ELSE IF c \in Clients THEN Written(c, [i \in 1..Copies(c, ch) |-> Message])
              ELSE replies[c]]
  BY DEF Publish
<1>2. ASSUME NEW j \in Conn, ~InPubSub(j), replies[j] \in Seq(Int)
      PROVE  Written(j, [i \in 1..Copies(j, ch) |-> Message]) = replies[j]
  <2>1. [i \in 1..Copies(j, ch) |-> Message] = <<>> BY <1>2, NoCopies
  <2>2. replies[j] \o <<>> = replies[j] BY <1>2, ConcatEmptySeq
  <2> QED BY <2>1, <2>2 DEF Written
<1>3. WritesHere(k) BY <1>1, <1>2 DEF WritesHere, QuietReplies
<1>4. ASSUME ~hungup[k], ~InPubSub(k), replies[k] \in Seq(Int) PROVE Answered(k, id)
  BY <1>1, <1>2, <1>4 DEF Answered, Written
<1> QED BY <1>3, <1>4

LEMMA MildExecuteSound ==
    ASSUME SocketsOK, BrokerOK, NEW k \in Conn, ~hungup[k], ~InPubSub(k), replies[k] \in Seq(Int),
           NEW op, op \notin Pushing, NEW id, Execute(k, op, id)
    PROVE  Answered(k, id) /\ UNCHANGED <<broker, tx>>
<1>1. CASE Plain(k, id) BY <1>1, AnswerSound DEF Plain
<1>2. CASE Shutdown(k, id) BY <1>2, AnswerSound DEF Shutdown
<1>3. CASE Publish(k, id) BY <1>3, PublishSound DEF Publish
<1> QED BY <1>1, <1>2, <1>3 DEF Execute, Pushing, InPubSubAllowed

\* EXEC starts what was queued, and answers later.
Started(k, id) ==
    /\ run' = [id |-> id, rest |-> tx[k].queue]
    /\ tx' = [tx EXCEPT ![k] = NoTx]
    /\ UNCHANGED replies

LEMMA MildDispatchSound ==
    ASSUME SocketsOK, BrokerOK, HandlersOK, NEW k \in Conn, ~hungup[k], ~InPubSub(k),
           replies[k] \in Seq(Int), tx[k].queue \in Seq(Mild), run = NoRun,
           NEW req \in Mild, Dispatch(k, req[1], req[2])
    PROVE  /\ UNCHANGED broker
           /\ \A j \in Conn : j # k => tx'[j] = tx[j]
           /\ tx'[k].queue \in Seq(Mild)
           /\ \/ Answered(k, req[2]) /\ run' = NoRun
              \/ Started(k, req[2])
<1> DEFINE op == req[1]  id == req[2]
<1>0. op \notin Pushing /\ req = <<op, id>> BY DEF Mild
<1>1. CASE Queue(k, <<op, id>>) /\ UNCHANGED run
  <2>1. Answered(k, id) BY <1>1, AnswerSound DEF Queue
  <2>2. tx' = [tx EXCEPT ![k].queue = Append(@, req)] BY <1>0, <1>1 DEF Queue
  <2>3. tx'[k].queue = Append(tx[k].queue, req) BY <2>2 DEF HandlersOK
  <2>4. tx'[k].queue \in Seq(Mild) BY <2>3, AppendProperties
  <2> QED BY <1>1, <2>1, <2>2, <2>4 DEF Queue
<1>2. CASE Multi(k, id) /\ UNCHANGED run
  <2>1. Answered(k, id) BY <1>2, AnswerSound DEF Multi
  <2>2. tx'[k].queue = tx[k].queue BY <1>2 DEF Multi, HandlersOK
  <2> QED BY <1>2, <2>1, <2>2 DEF Multi
<1>3. CASE Exec(k, id)
  <2>1. tx'[k].queue = <<>> BY <1>3 DEF Exec, NoTx, HandlersOK
  <2>2. tx'[k].queue \in Seq(Mild) BY <2>1
  <2>3. CASE tx[k].open BY <1>3, <2>2, <2>3 DEF Exec, Started
  <2>4. CASE ~tx[k].open BY <1>3, <2>2, <2>4, AnswerSound DEF Exec
  <2> QED BY <2>3, <2>4
<1>4. CASE Quit(k, id) /\ UNCHANGED run BY <1>4, AnswerSound DEF Quit
<1>5. CASE Execute(k, op, id) /\ UNCHANGED run BY <1>0, <1>5, MildExecuteSound
<1>6. CASE Plain(k, id) /\ UNCHANGED run BY <1>6, AnswerSound DEF Plain
<1> QED BY <1>1, <1>2, <1>3, <1>4, <1>5, <1>6 DEF Dispatch

(***************************************************************************)
(* A step of the handler of k keeps what holds of the other connections.   *)
(***************************************************************************)
LEMMA RepliesTyped ==
    ASSUME NEW c \in Client, NEW k \in Conn, Untroubled(c, k)
    PROVE  replies[k] \in Seq(Int) /\ got[c] \in Seq(Int)
<1>1. <<>> \in Seq(Int) /\ <<Rejected>> \in Seq(Int) BY DEF Rejected
<1> QED BY <1>1 DEF Untroubled, Flows, Cut, Replies

LEMMA ElsewhereSound ==
    ASSUME CallsOK, IInv, NEW k \in Conn, Elsewhere(k), UNCHANGED clients,
           phase[k] # "free", phase'[k] # "free",
           ASSUME NEW c \in Client, Quiet(c), sock[c] = k PROVE Untroubled(c, k)'
    PROVE  CallsOK'
<1>1. SocketsOK'
  <2>1. \A j \in Conn : phase[j] # "free" => phase'[j] # "free" BY DEF Elsewhere
  <2>2. TablesOK' BY DEF Elsewhere, WritesHere, CallsOK, SocketsOK, TablesOK, clients, call
  <2>3. \A c \in Client : Replies(waiting[c], Before(c))' /\ Before(c)' \in Nat
    BY DEF CallsOK, SocketsOK, clients, call, Before, Replies
  <2> QED BY <2>1, <2>2, <2>3, ClientAssumption
      DEF Elsewhere, CallsOK, SocketsOK, TablesOK, clients, call, Waits
<1>2. \A j \in Conn : phase'[j] = "free" => Fresh(j)'
  <2>1. SUFFICES ASSUME NEW j \in Conn, phase'[j] = "free" PROVE Fresh(j)'
    OBVIOUS
  <2>2. j # k /\ phase[j] = "free" /\ Fresh(j) BY <2>1 DEF Elsewhere, CallsOK
  <2>3. ~InPubSub(j) /\ replies[j] = <<>> /\ <<>> \in Seq(Int) BY <2>2 DEF Fresh, IInv
  <2>4. replies'[j] = <<>> BY <2>2, <2>3 DEF Elsewhere, WritesHere, QuietReplies
  <2> QED BY <2>2, <2>4 DEF Elsewhere, Fresh
<1>3. ASSUME NEW c \in Client, Quiet(c)' PROVE Untroubled(c, sock[c])'
  <2>1. Quiet(c) /\ sock[c] \in Conn /\ Untroubled(c, sock[c])
    BY <1>3 DEF Quiet, clients, CallsOK, SocketsOK, TablesOK
  <2>2. CASE sock[c] = k BY <2>1, <2>2 DEF clients
  <2>3. CASE sock[c] # k
    <3>1. PICK j \in Conn : j = sock[c] /\ j # k BY <2>1, <2>3
    <3>2. phase'[j] = phase[j] /\ tx'[j] = tx[j] /\ chunk'[j] = chunk[j]
          /\ requests'[j] = requests[j] /\ hungup'[j] = hungup[j]
          /\ InPubSub(j)' = InPubSub(j)
      BY <3>1 DEF Elsewhere, OnlyBy, InPubSub
    <3>3. turn # j /\ turn' # j BY <3>1, SessionsAssumption DEF Elsewhere
    <3>4. Untroubled(c, j) BY <2>1, <3>1
    <3>5. replies[j] \in Seq(Int) BY <3>4, RepliesTyped
    <3>6. replies'[j] = replies[j] BY <3>1, <3>4, <3>5 DEF Elsewhere, WritesHere, QuietReplies, Untroubled
    <3>7. UNCHANGED <<sent, waiting, unsent, got, own>> BY DEF clients, call
    <3>8. Cut(c, j) => Cut(c, j)'
      BY <3>6, <3>7 DEF Cut, Replies, Received, Before, OnTheWay
    <3>9. Flows(c, j) => Flows(c, j)'
      BY <3>2, <3>3, <3>6, <3>7
      DEF Flows, Replies, Asked, Received, Before, OnTheWay, Taken, Unread, Handed, Ongoing
    <3>10. Untroubled(c, j)' BY <3>2, <3>4, <3>7, <3>8, <3>9 DEF Untroubled
    <3> QED BY <3>1, <3>10 DEF clients
  <2> QED BY <2>2, <2>3
<1>4. ParsersOK' BY DEF CallsOK, ParsersOK, clients
<1> QED BY <1>1, <1>2, <1>3, <1>4 DEF CallsOK, clients
-----------------------------------------------------------------------------
(***************************************************************************)
(* Whatever a command writes, it writes to its own connection and to those *)
(* in Pub/Sub mode.                                                        *)
(***************************************************************************)
LEMMA AnswerWritesHere ==
    ASSUME SocketsOK, NEW k \in Conn, NEW id, Answer(k, id) \/ Reply(k, id) \/ UNCHANGED replies
    PROVE  WritesHere(k)
<1>1. CASE UNCHANGED replies BY <1>1 DEF WritesHere, QuietReplies, SocketsOK, TablesOK
<1>2. CASE Reply(k, id) BY <1>2, ReplyWrites DEF Reply
<1> QED BY <1>1, <1>2 DEF Answer

LEMMA ConfirmWritesHere ==
    ASSUME SocketsOK, NEW k \in Conn, NEW id, NEW names,
           Confirm(k, id, names) \/ ConfirmOneAtLeast(k, id, names)
    PROVE  WritesHere(k)
BY ReplyWrites DEF Confirm, ConfirmOneAtLeast, Reply

LEMMA ExecuteWritesHere ==
    ASSUME SocketsOK, BrokerOK, NEW k \in Conn, NEW op, NEW id, Execute(k, op, id)
    PROVE  WritesHere(k)
<1>1. CASE Plain(k, id) BY <1>1, AnswerWritesHere DEF Plain
<1>2. CASE Shutdown(k, id) BY <1>2, AnswerWritesHere DEF Shutdown
<1>3. CASE Publish(k, id) BY <1>3, PublishSound
<1>4. CASE SubscribeCommand(k, id) \/ PSubscribeCommand(k, id)
  BY <1>4, ConfirmWritesHere DEF SubscribeCommand, PSubscribeCommand
<1>5. CASE UnsubscribeCommand(k, id) \/ PUnsubscribeCommand(k, id)
  BY <1>5, ConfirmWritesHere DEF UnsubscribeCommand, PUnsubscribeCommand
<1> QED BY <1>1, <1>2, <1>3, <1>4, <1>5 DEF Execute

LEMMA DispatchElsewhere ==
    ASSUME SocketsOK, IInv, NEW k \in Conn, NEW op, NEW id, Dispatch(k, op, id)
    PROVE  /\ WritesHere(k) /\ OnlyBy(k)
           /\ \A j \in Conn : j # k => tx'[j] = tx[j]
<1> USE DEF IInv
<1>1. CASE Plain(k, id) BY <1>1, AnswerWritesHere, BrokerUnchanged DEF Plain
<1>2. CASE Queue(k, <<op, id>>)
  BY <1>2, AnswerWritesHere, BrokerUnchanged DEF Queue, HandlersOK
<1>3. CASE Multi(k, id) BY <1>3, AnswerWritesHere, BrokerUnchanged DEF Multi, HandlersOK
<1>4. CASE Exec(k, id) BY <1>4, AnswerWritesHere, BrokerUnchanged DEF Exec, HandlersOK
<1>5. CASE Quit(k, id) BY <1>5, AnswerWritesHere, BrokerUnchanged DEF Quit
<1>6. CASE Execute(k, op, id) BY <1>6, ExecuteWritesHere, ExecuteSound
<1> QED BY <1>1, <1>2, <1>3, <1>4, <1>5, <1>6 DEF Dispatch
-----------------------------------------------------------------------------
(***************************************************************************)
(* The steps of the handler of k on its own connection.                    *)
(***************************************************************************)
LEMMA FlowCounts ==
    ASSUME SocketsOK, NEW c \in Client, NEW k \in Conn, Flows(c, k)
    PROVE  /\ Before(c) \in Nat /\ Received(c) \in Nat /\ OnTheWay(c, k) \in Nat
           /\ Taken(c, k) \in Nat /\ Unread(c, k) \in Nat /\ sent[c] \in Nat
           /\ Len(chunk[k]) \in Nat /\ Len(requests[k]) \in Nat
           /\ Len(got[c]) \in Nat /\ Len(replies[k]) \in Nat
           /\ Handed(c, k) \in Nat /\ Len(unsent[c]) \in Nat
           /\ OnTheWay(c, k) <= sent[c]
<1>1. Before(c) \in Nat /\ sent[c] \in Nat BY DEF SocketsOK, TablesOK
<1>2. Received(c) \in Nat BY <1>1 DEF Flows, Replies, Received
<1>3. OnTheWay(c, k) \in Nat BY <1>2 DEF Flows, Replies, OnTheWay
<1>4. Taken(c, k) \in Nat BY <1>3 DEF Taken, Ongoing
<1>5. Len(chunk[k]) \in Nat /\ Len(requests[k]) \in Nat BY DEF Flows, Asked
<1>6. Unread(c, k) \in Nat BY <1>4, <1>5 DEF Unread
<1>7. Len(got[c]) \in Nat /\ Len(replies[k]) \in Nat BY DEF Flows, Replies
<1>8. OnTheWay(c, k) <= Taken(c, k) BY <1>3 DEF Taken, Ongoing
<1>9. Taken(c, k) <= Unread(c, k) BY <1>4, <1>5 DEF Unread
<1>10. Handed(c, k) \in Nat /\ Len(unsent[c]) \in Nat BY <1>5, <1>6 DEF Handed, Flows, Asked
<1>11. Unread(c, k) <= sent[c]
  <2>1. Unread(c, k) <= Handed(c, k) BY <1>5, <1>6 DEF Handed
  <2>2. Handed(c, k) <= sent[c] BY <1>1, <1>10 DEF Flows
  <2> QED BY <1>1, <1>6, <1>10, <2>1, <2>2
<1>12. OnTheWay(c, k) <= sent[c] BY <1>1, <1>3, <1>4, <1>6, <1>8, <1>9, <1>11
<1> QED BY <1>1, <1>2, <1>3, <1>4, <1>5, <1>6, <1>7, <1>10, <1>12

LEMMA BeginCalls ==
    ASSUME CallsOK, IInv, NEW k \in Conn, Begin(k), UNCHANGED clients
    PROVE  CallsOK'
<1>2. phase[k] = "new" /\ turn = Nobody /\ turn' = Nobody /\ phase'[k] \in {"reading", "ended"}
      /\ \A j \in Conn : j # k => phase'[j] = phase[j]
  BY DEF Begin, IInv, HandlersOK
<1>3. UNCHANGED <<broker, tx, chunk, requests, hungup, run>> BY DEF Begin
<1>4. WritesHere(k) BY AnswerWritesHere DEF Begin, CallsOK
<1>5. OnlyBy(k) /\ InPubSub(k)' = InPubSub(k) BY <1>3, BrokerUnchanged DEF IInv
<1>6. Elsewhere(k) BY <1>2, <1>3, <1>4, <1>5 DEF Elsewhere, CallsOK, SocketsOK, TablesOK
<1>7. ASSUME NEW c \in Client, Quiet(c), sock[c] = k PROVE Untroubled(c, k)'
  <2>1. Untroubled(c, k) /\ Flows(c, k) BY <1>2, <1>7 DEF CallsOK, Untroubled
  <2>2. got[c] = <<>> /\ replies[k] = <<>> BY <1>2, <2>1 DEF Flows
  <2>3. UNCHANGED <<got, sent, waiting, unsent, own>> BY DEF clients, call
  <2>4. CASE Reply(k, Rejected) /\ phase'[k] = "ended"
    <3>1. replies'[k] = <<>> \o <<Rejected>>
      BY <2>1, <2>2, <2>4, ReplyWrites DEF Reply, CallsOK, Untroubled
    <3>2. replies'[k] = <<Rejected>> BY <3>1
    <3>3. got'[c] = <<>> BY <2>2, <2>3
    <3>4. Cut(c, k)' BY <3>2, <3>3, Zenon DEF Cut
    <3> QED BY <1>3, <1>5, <2>1, <2>3, <2>4, <3>4 DEF Untroubled
  <2>5. CASE UNCHANGED replies /\ phase'[k] = "ended"
    <3>1. Received(c) = Before(c) /\ OnTheWay(c, k) = Before(c) /\ Before(c) <= sent[c]
      BY <1>7, <2>2 DEF Received, OnTheWay, Before, CallsOK, SocketsOK, TablesOK, Replies
    <3>2. Cut(c, k)'
      BY <2>1, <2>3, <2>5, <3>1 DEF Cut, Flows, Before, Received, OnTheWay, Replies
    <3> QED BY <1>3, <1>5, <2>1, <2>3, <2>5, <3>2 DEF Untroubled
  <2>6. CASE UNCHANGED replies /\ phase'[k] = "reading"
    <3>1. Flows(c, k)'
      BY <1>2, <1>3, <2>1, <2>3, <2>6
      DEF Flows, Replies, Asked, Received, Before, OnTheWay, Taken, Unread, Handed, Ongoing
    <3> QED BY <1>3, <1>5, <2>1, <2>3, <2>6, <3>1 DEF Untroubled
  <2> QED BY <1>2, <2>4, <2>5, <2>6 DEF Begin, IInv, HandlersOK
<1> QED BY <1>2, <1>6, <1>7, ElsewhereSound

LEMMA ReadCalls ==
    ASSUME CallsOK, IInv, NEW k \in Conn, Read(k), UNCHANGED clients
    PROVE  CallsOK'
<1>1. PICK n \in 1..Len(requests[k]) :
          /\ chunk' = [chunk EXCEPT ![k] = SubSeq(requests[k], 1, n)]
          /\ requests' = [requests EXCEPT ![k] = SubSeq(@, n + 1, Len(@))]
  BY DEF Read
<1>2. phase[k] = "reading" /\ turn = Nobody /\ turn' = k
      /\ UNCHANGED <<phase, broker, tx, run, replies, hungup>>
  BY DEF Read
<1>3. OnlyBy(k) /\ InPubSub(k)' = InPubSub(k) BY <1>2, BrokerUnchanged DEF IInv
<1>4. WritesHere(k) BY <1>2, AnswerWritesHere DEF CallsOK
<1>5. Elsewhere(k) BY <1>1, <1>2, <1>3, <1>4 DEF Elsewhere, CallsOK, SocketsOK, TablesOK
<1>6. run = NoRun BY <1>2 DEF IInv, HandlersOK
<1>7. ASSUME NEW c \in Client, Quiet(c), sock[c] = k PROVE Untroubled(c, k)'
  <2>1. Untroubled(c, k) /\ Flows(c, k) BY <1>2, <1>7 DEF CallsOK, Untroubled
  <2>2. UNCHANGED <<got, sent, waiting, unsent, own>> BY DEF clients, call
  <2>3. Ongoing(k) = 0 /\ Ongoing(k)' = 0 /\ chunk[k] = <<>>
    BY <1>2, <1>6, <2>1, SessionsAssumption DEF Ongoing, Flows
  <2>4. Taken(c, k) \in Int BY <2>1, FlowCounts DEF CallsOK
  <2>5. Unread(c, k) = Taken(c, k) BY <2>3, <2>4 DEF Unread
  <2>6. /\ chunk'[k] = SubSeq(requests[k], 1, n)
        /\ requests'[k] = SubSeq(requests[k], n + 1, Len(requests[k]))
    BY <1>1 DEF CallsOK, SocketsOK, TablesOK
  <2>7. n \in 0..Len(requests[k]) /\ Len(requests[k]) \in Nat BY <2>1 DEF Flows, Asked
  <2>8. /\ Asked(chunk'[k], Taken(c, k)) /\ Len(chunk'[k]) = n
        /\ Asked(requests'[k], Taken(c, k) + n) /\ Len(requests'[k]) = Len(requests[k]) - n
    BY <2>1, <2>4, <2>5, <2>6, <2>7, AskedCut DEF Flows
  <2>9. Taken(c, k)' = Taken(c, k)
    BY <1>2, <2>2, <2>3 DEF Taken, OnTheWay, Received, Before
  <2>10. Unread(c, k)' = Taken(c, k) + n BY <2>8, <2>9 DEF Unread
  <2>11. Flows(c, k)'
    <3>1. Replies(got[c], Before(c))' /\ Replies(replies[k], Received(c))'
      BY <1>2, <2>1, <2>2 DEF Flows, Received, Before, Replies
    <3>2. Handed(c, k)' = Handed(c, k)
      BY <2>4, <2>5, <2>7, <2>8, <2>10 DEF Handed
    <3>3. Asked(chunk[k], Taken(c, k))' /\ Asked(requests[k], Unread(c, k))'
      BY <2>8, <2>9, <2>10 DEF Asked
    <3>4. run = [id |-> run.id, rest |-> run.rest] /\ run.rest \in Seq(Mild)
      BY <1>6 DEF NoRun
    <3>5. Asked(unsent[c], Handed(c, k))' /\ (Handed(c, k) + Len(unsent[c]) = sent[c])'
      BY <2>1, <2>2, <3>2 DEF Flows, Asked
    <3> QED BY <1>2, <2>1, <2>3, <3>1, <3>3, <3>4, <3>5 DEF Flows
  <2> QED BY <1>2, <1>3, <2>1, <2>2, <2>11 DEF Untroubled
<1> QED BY <1>2, <1>5, <1>7, ElsewhereSound

\* A step that leaves replies and requests alone and keeps the handler going.
LEMMA PhaseCalls ==
    ASSUME CallsOK, IInv, NEW k \in Conn, UNCHANGED clients,
           phase[k] \notin {"free", "new"},
           UNCHANGED <<chunk, requests, replies, hungup, run>>,
           turn \in {k, Nobody}, turn' \in {k, Nobody},
           run = NoRun, turn # k \/ turn' = k \/ chunk[k] = <<>>,
           OnlyBy(k), InPubSub(k)' => InPubSub(k),
           \A j \in Conn : j # k => phase'[j] = phase[j] /\ tx'[j] = tx[j],
           phase'[k] \in {"reading", "flushing", "ended"},
           phase[k] = "ended" => phase'[k] = "ended",
           tx'[k] \in {tx[k], NoTx}
    PROVE  CallsOK'
<1>1. WritesHere(k) BY AnswerWritesHere DEF CallsOK
<1>2. Elsewhere(k) BY <1>1 DEF Elsewhere, CallsOK, SocketsOK, TablesOK
<1>3. ASSUME NEW c \in Client, Quiet(c), sock[c] = k PROVE Untroubled(c, k)'
  <2>1. Untroubled(c, k) BY <1>3 DEF CallsOK, Untroubled
  <2>2. UNCHANGED <<got, sent, waiting, unsent, own>> BY DEF clients, call
  <2>3. Cut(c, k) => Cut(c, k)' BY <2>2 DEF Cut, Replies, Before, Received, OnTheWay
  <2>4. CASE phase[k] = "ended" BY <2>1, <2>2, <2>3, <2>4 DEF Untroubled
  <2>5. CASE phase[k] # "ended"
    <3>1. Flows(c, k) BY <2>1, <2>5 DEF Untroubled
    <3>2. OnTheWay(c, k) <= sent[c]
      BY <3>1, FlowCounts DEF CallsOK
    <3>3. Cut(c, k) BY <3>1, <3>2 DEF Cut, Flows
    <3>4. tx'[k].queue \in Seq(Mild)
      <4>1. tx[k].queue \in Seq(Mild) BY <3>1 DEF Flows
      <4>2. NoTx.queue \in Seq(Mild) BY DEF NoTx
      <4> QED BY <4>1, <4>2
    <3>5. Ongoing(k) = 0 /\ Ongoing(k)' = 0 BY DEF Ongoing
    <3>6. run = [id |-> run.id, rest |-> run.rest] /\ run.rest \in Seq(Mild) BY DEF NoRun
    <3>7. phase'[k] # "new" OBVIOUS
    <3>8. Flows(c, k)'
      BY <2>2, <3>1, <3>4, <3>5, <3>6, <3>7, SessionsAssumption
      DEF Flows, Replies, Asked, Received, Before, OnTheWay, Taken, Unread, Handed
    <3> QED BY <2>1, <2>2, <2>3, <3>3, <3>8 DEF Untroubled
  <2> QED BY <2>4, <2>5
<1> QED BY <1>2, <1>3, ElsewhereSound

LEMMA FinishCalls ==
    ASSUME CallsOK, IInv, NEW k \in Conn, turn = Nobody, phase[k] \in {"reading", "flushing"},
           Finish(k), UNCHANGED clients
    PROVE  CallsOK'
<1>1. OnlyBy(k) /\ ~InPubSub(k)' BY RemoveConnectionSound DEF Finish, IInv, InPubSub
<1>2. run = NoRun BY SessionsAssumption DEF IInv, HandlersOK
<1>3. UNCHANGED <<turn, chunk, run, requests, replies, hungup>> BY DEF Finish, wires
<1>4. /\ \A j \in Conn : j # k => phase'[j] = phase[j] /\ tx'[j] = tx[j]
      /\ phase'[k] = "ended" /\ tx'[k] = NoTx
  BY DEF Finish, IInv, HandlersOK
<1> QED BY <1>1, <1>2, <1>3, <1>4, PhaseCalls, SessionsAssumption

LEMMA LoopCalls ==
    ASSUME CallsOK, IInv, NEW k \in Conn, Loop(k) \/ ReadEnd(k) \/ ChunkDone(k), UNCHANGED clients
    PROVE  CallsOK'
<1>1. CASE Finish(k) /\ (Loop(k) \/ ReadEnd(k)) BY <1>1, FinishCalls DEF Loop, ReadEnd
<1>2. CASE Loop(k) /\ phase' = [phase EXCEPT ![k] = "reading"]
                   /\ UNCHANGED <<turn, chunk, tx, run, wires, broker>>
  <2>1. OnlyBy(k) /\ InPubSub(k)' = InPubSub(k) BY <1>2, BrokerUnchanged DEF IInv
  <2>2. run = NoRun /\ phase'[k] = "reading" /\ \A j \in Conn : j # k => phase'[j] = phase[j]
    BY <1>2, SessionsAssumption DEF Loop, IInv, HandlersOK
  <2> QED BY <1>2, <2>1, <2>2, PhaseCalls, SessionsAssumption DEF Loop, wires
<1>3. CASE ChunkDone(k)
  <2>1. OnlyBy(k) /\ InPubSub(k)' = InPubSub(k) BY <1>3, BrokerUnchanged DEF IInv, ChunkDone
  <2>2. /\ phase[k] = "reading" /\ phase'[k] = "flushing"
        /\ \A j \in Conn : j # k => phase'[j] = phase[j]
    BY <1>3, SessionsAssumption DEF ChunkDone, IInv, HandlersOK
  <2> QED BY <1>3, <2>1, <2>2, PhaseCalls DEF ChunkDone, wires
<1> QED BY <1>1, <1>2, <1>3 DEF Loop, ReadEnd

(***************************************************************************)
(* A command's answer follows the replies before it.                       *)
(***************************************************************************)
LEMMA ReplyNext ==
    ASSUME SocketsOK, NEW c \in Client, NEW k \in Conn, Flows(c, k), NEW id,
           id = OnTheWay(c, k) + 1, replies'[k] = replies[k] \o <<id>>,
           UNCHANGED <<got, sent, waiting>>
    PROVE  /\ Replies(got[c], Before(c))' /\ Replies(replies[k], Received(c))'
           /\ OnTheWay(c, k)' = OnTheWay(c, k) + 1
<1>1. Received(c) \in Nat /\ OnTheWay(c, k) \in Nat BY FlowCounts
<1>2. Replies(<<id>>, OnTheWay(c, k)) /\ Len(<<id>>) = 1 BY <1>1 DEF Replies
<1>3. Replies(replies[k] \o <<id>>, Received(c)) /\ Len(replies[k] \o <<id>>) = Len(replies[k]) + 1
  BY <1>1, <1>2, RepliesJoin DEF Flows, OnTheWay
<1>4. Received(c)' = Received(c) /\ Before(c)' = Before(c) BY DEF Received, Before
<1>5. OnTheWay(c, k)' = OnTheWay(c, k) + 1
  <2>1. Len(replies[k]) \in Nat BY DEF Flows, Replies
  <2> QED BY <1>1, <1>3, <1>4, <2>1 DEF OnTheWay
<1> QED BY <1>3, <1>4, <1>5 DEF Flows, Replies

LEMMA ReplySame ==
    ASSUME NEW c \in Client, NEW k \in Conn, Flows(c, k), replies'[k] = replies[k],
           UNCHANGED <<got, sent, waiting>>
    PROVE  /\ Replies(got[c], Before(c))' /\ Replies(replies[k], Received(c))'
           /\ OnTheWay(c, k)' = OnTheWay(c, k)
BY DEF Flows, Replies, Received, Before, OnTheWay

LEMMA RunNextCalls ==
    ASSUME CallsOK, IInv, NEW k \in Conn, RunNext(k), UNCHANGED clients
    PROVE  CallsOK'
<1> DEFINE req == Head(chunk[k])
<1>1. /\ turn = k /\ run = NoRun /\ chunk[k] # <<>>
      /\ Dispatch(k, req[1], req[2])
      /\ chunk' = [chunk EXCEPT ![k] = Tail(@)]
      /\ UNCHANGED <<turn, phase, requests, hungup>>
  BY DEF RunNext
<1>2. phase[k] = "reading" BY <1>1, SessionsAssumption DEF IInv, HandlersOK
<1>3. chunk'[k] = Tail(chunk[k]) BY <1>1 DEF CallsOK, SocketsOK, TablesOK
<1>4. Elsewhere(k) BY <1>1, DispatchElsewhere DEF Elsewhere, CallsOK, SocketsOK, TablesOK
<1>5. ASSUME NEW c \in Client, Quiet(c), sock[c] = k PROVE Untroubled(c, k)'
  <2>1. Untroubled(c, k) /\ Flows(c, k) BY <1>2, <1>5 DEF CallsOK, Untroubled
  <2>2. UNCHANGED <<got, sent, waiting, unsent, own>> BY DEF clients, call
  <2>3. Ongoing(k) = 0 BY <1>1 DEF Ongoing
  <2>4. OnTheWay(c, k) \in Nat /\ Taken(c, k) = OnTheWay(c, k)
    BY <2>1, <2>3, FlowCounts DEF Taken, CallsOK
  <2>5. /\ req \in Mild /\ req[2] = Taken(c, k) + 1
        /\ Asked(Tail(chunk[k]), Taken(c, k) + 1) /\ Len(Tail(chunk[k])) = Len(chunk[k]) - 1
    BY <1>1, <2>1, <2>4, AskedNext DEF Flows
  <2> DEFINE id == req[2]
  <2>6. replies[k] \in Seq(Int) BY <2>1, RepliesTyped
  <2>7. /\ UNCHANGED broker /\ tx'[k].queue \in Seq(Mild)
        /\ (Answered(k, id) /\ run' = NoRun) \/ Started(k, id)
    BY <1>1, <2>1, <2>5, <2>6, MildDispatchSound DEF CallsOK, IInv, Untroubled, Flows
  <2>8. InPubSub(k)' = InPubSub(k) BY <2>7, BrokerUnchanged DEF IInv
  <2> HIDE DEF req
  <2>9. /\ Replies(got[c], Before(c))' /\ Replies(replies[k], Received(c))'
        /\ Taken(c, k)' = Taken(c, k) + 1
        /\ (Ongoing(k) = 1 => run.id = OnTheWay(c, k) + 1)'
        /\ run' = [id |-> run'.id, rest |-> run'.rest] /\ run'.rest \in Seq(Mild)
    <3>1. CASE Answered(k, id) /\ run' = NoRun
      <4>1. replies'[k] = replies[k] \o <<id>> BY <1>1, <3>1 DEF Answered
      <4>2. /\ Replies(got[c], Before(c))' /\ Replies(replies[k], Received(c))'
            /\ OnTheWay(c, k)' = OnTheWay(c, k) + 1
        BY <2>1, <2>2, <2>4, <2>5, <4>1, ReplyNext DEF CallsOK
      <4>3. Ongoing(k)' = 0 BY <3>1 DEF Ongoing
      <4>4. run' = [id |-> run'.id, rest |-> run'.rest] /\ run'.rest \in Seq(Mild)
        BY <3>1 DEF NoRun
      <4> QED BY <2>4, <4>2, <4>3, <4>4 DEF Taken
    <3>2. CASE Started(k, id)
      <4>1. run' = [id |-> id, rest |-> tx[k].queue] /\ replies'[k] = replies[k]
        BY <3>2 DEF Started
      <4>2. /\ Replies(got[c], Before(c))' /\ Replies(replies[k], Received(c))'
            /\ OnTheWay(c, k)' = OnTheWay(c, k)
        BY <2>1, <2>2, <4>1, ReplySame
      <4>3. run'.id = id /\ id > 0 /\ run' # NoRun BY <2>4, <2>5, <4>1 DEF NoRun
      <4>4. Ongoing(k)' = 1 BY <1>1, <4>3 DEF Ongoing
      <4>5. run' = [id |-> run'.id, rest |-> run'.rest] /\ run'.rest \in Seq(Mild)
        BY <2>1, <4>1 DEF Flows
      <4> QED BY <2>4, <2>5, <4>2, <4>3, <4>4, <4>5 DEF Taken
    <3> QED BY <2>7, <3>1, <3>2
  <2>10. Asked(chunk[k], Taken(c, k))' BY <1>3, <2>5, <2>9 DEF Asked
  <2>11. Unread(c, k)' = Unread(c, k)
    BY <1>3, <2>1, <2>4, <2>5, <2>9, FlowCounts DEF Unread, CallsOK
  <2>12. Asked(requests[k], Unread(c, k))' /\ Asked(unsent[c], Handed(c, k))'
         /\ (Handed(c, k) + Len(unsent[c]) = sent[c])'
    BY <1>1, <2>1, <2>2, <2>11 DEF Flows, Asked, Handed
  <2>13. Flows(c, k)' BY <1>1, <1>2, <2>7, <2>9, <2>10, <2>12 DEF Flows
  <2> QED BY <1>1, <1>2, <2>1, <2>2, <2>8, <2>13 DEF Untroubled
<1> QED BY <1>1, <1>2, <1>4, <1>5, ElsewhereSound

LEMMA RunQueuedCalls ==
    ASSUME CallsOK, IInv, NEW k \in Conn, RunQueued(k), UNCHANGED clients
    PROVE  CallsOK'
<1> DEFINE req == Head(run.rest)
<1>1. /\ turn = k /\ run.rest # <<>>
      /\ (Refuses(k, req[1]) /\ Plain(k, req[2])) \/ Execute(k, req[1], req[2])
      /\ run' = [run EXCEPT !.rest = Tail(@)]
      /\ UNCHANGED <<turn, phase, chunk, requests, hungup>>
  BY DEF RunQueued
<1>2. phase[k] = "reading" BY <1>1, SessionsAssumption DEF IInv, HandlersOK
<1>3. run # NoRun BY <1>1 DEF NoRun
<1>4. WritesHere(k) /\ OnlyBy(k) /\ tx' = tx
  BY <1>1, ExecuteSound, ExecuteWritesHere, AnswerWritesHere, BrokerUnchanged
  DEF Plain, IInv, CallsOK
<1>5. Elsewhere(k) BY <1>1, <1>4 DEF Elsewhere, CallsOK, SocketsOK, TablesOK
<1>6. ASSUME NEW c \in Client, Quiet(c), sock[c] = k PROVE Untroubled(c, k)'
  <2>1. Untroubled(c, k) /\ Flows(c, k) BY <1>2, <1>6 DEF CallsOK, Untroubled
  <2>2. UNCHANGED <<got, sent, waiting, unsent, own>> BY DEF clients, call
  <2>3. req \in Mild /\ Tail(run.rest) \in Seq(Mild)
    BY <1>1, <2>1, HeadTailProperties DEF Flows
  <2>4. Answered(k, req[2]) /\ UNCHANGED broker
    BY <1>1, <2>1, <2>3, RepliesTyped, MildExecuteSound, AnswerSound
    DEF Plain, Mild, CallsOK, IInv, Untroubled
  <2>5. replies'[k] = replies[k] BY <1>3, <2>4 DEF Answered
  <2>6. InPubSub(k)' = InPubSub(k) BY <2>4, BrokerUnchanged DEF IInv
  <2>7. run' = [id |-> run.id, rest |-> Tail(run.rest)] BY <1>1, <2>1 DEF Flows
  <2>8. Ongoing(k) = 1 BY <1>1, <1>3 DEF Ongoing
  <2>9. run.id = OnTheWay(c, k) + 1 /\ OnTheWay(c, k) \in Nat
    BY <2>1, <2>8, FlowCounts DEF Flows, CallsOK
  <2>10. run' # NoRun BY <2>7, <2>9 DEF NoRun
  <2>11. Ongoing(k)' = 1 BY <1>1, <2>10 DEF Ongoing
  <2>12. /\ Replies(got[c], Before(c))' /\ Replies(replies[k], Received(c))'
         /\ OnTheWay(c, k)' = OnTheWay(c, k)
    BY <2>1, <2>2, <2>5, ReplySame
  <2>13. Taken(c, k)' = Taken(c, k) /\ Unread(c, k)' = Unread(c, k)
    BY <1>1, <2>8, <2>11, <2>12 DEF Taken, Unread
  <2>14. Flows(c, k)'
    BY <1>1, <1>2, <1>4, <2>1, <2>2, <2>3, <2>7, <2>9, <2>12, <2>13 DEF Flows, Asked, Handed
  <2> QED BY <1>1, <1>2, <2>1, <2>2, <2>6, <2>14 DEF Untroubled
<1> QED BY <1>1, <1>2, <1>5, <1>6, ElsewhereSound

LEMMA ExecDoneCalls ==
    ASSUME CallsOK, IInv, NEW k \in Conn, ExecDone(k), UNCHANGED clients
    PROVE  CallsOK'
<1>1. /\ turn = k /\ run # NoRun /\ run' = NoRun /\ Reply(k, run.id)
      /\ UNCHANGED <<turn, phase, chunk, tx, requests, hungup, broker>>
  BY DEF ExecDone
<1>2. phase[k] = "reading" BY <1>1, SessionsAssumption DEF IInv, HandlersOK
<1>3. OnlyBy(k) /\ InPubSub(k)' = InPubSub(k) BY <1>1, BrokerUnchanged DEF IInv
<1>4. WritesHere(k) BY <1>1, AnswerWritesHere DEF CallsOK
<1>5. Elsewhere(k) BY <1>1, <1>3, <1>4 DEF Elsewhere, CallsOK, SocketsOK, TablesOK
<1>6. ASSUME NEW c \in Client, Quiet(c), sock[c] = k PROVE Untroubled(c, k)'
  <2>1. Untroubled(c, k) /\ Flows(c, k) BY <1>2, <1>6 DEF CallsOK, Untroubled
  <2>2. UNCHANGED <<got, sent, waiting, unsent, own>> BY DEF clients, call
  <2>3. Ongoing(k) = 1 /\ Ongoing(k)' = 0 BY <1>1 DEF Ongoing
  <2>4. run.id = OnTheWay(c, k) + 1 BY <2>1, <2>3 DEF Flows
  <2>5. replies'[k] = replies[k] \o <<run.id>>
    BY <1>1, <2>1, ReplyWrites DEF Reply, CallsOK, Untroubled
  <2>6. /\ Replies(got[c], Before(c))' /\ Replies(replies[k], Received(c))'
        /\ OnTheWay(c, k)' = OnTheWay(c, k) + 1
    BY <2>1, <2>2, <2>4, <2>5, ReplyNext DEF CallsOK
  <2>7. OnTheWay(c, k) \in Nat BY <2>1, FlowCounts DEF CallsOK
  <2>8. Taken(c, k)' = Taken(c, k) /\ Unread(c, k)' = Unread(c, k)
    BY <1>1, <2>3, <2>6, <2>7 DEF Taken, Unread
  <2>9. run' = [id |-> run'.id, rest |-> run'.rest] /\ run'.rest \in Seq(Mild)
    BY <1>1 DEF NoRun
  <2>10. Flows(c, k)' BY <1>1, <1>2, <2>1, <2>2, <2>3, <2>6, <2>8, <2>9 DEF Flows, Asked, Handed
  <2> QED BY <1>1, <1>2, <1>3, <2>1, <2>2, <2>10 DEF Untroubled
<1> QED BY <1>1, <1>2, <1>5, <1>6, ElsewhereSound

LEMMA HandlerCalls ==
    ASSUME CallsOK, IInv, NEW k \in Conn, Handler(k), UNCHANGED clients
    PROVE  CallsOK'
BY BeginCalls, ReadCalls, LoopCalls, RunNextCalls, RunQueuedCalls, ExecDoneCalls DEF Handler
-----------------------------------------------------------------------------
(***************************************************************************)
(* The steps of client c on its connection k.                              *)
(***************************************************************************)
\* What a client leaves alone.
LEMMA OthersSound ==
    ASSUME CallsOK, IInv, NEW c \in Client, NEW k \in Conn, turn = Nobody,
           \A d \in Client : sock[d] # k \/ d = c,
           UNCHANGED <<turn, chunk, run, tx, broker>>,
           \A j \in Conn : j # k =>
              /\ phase'[j] = phase[j] /\ requests'[j] = requests[j]
              /\ replies'[j] = replies[j] /\ hungup'[j] = hungup[j],
           \A d \in Client : d # c =>
              /\ sock'[d] = sock[d] /\ sent'[d] = sent[d] /\ waiting'[d] = waiting[d]
              /\ got'[d] = got[d] /\ own'[d] = own[d]
              /\ unsent'[d] = unsent[d] /\ parser'[d] = parser[d]
              /\ late'[d] = late[d] /\ pushed'[d] = pushed[d],
           phase'[k] # "free", sock'[c] \in {k, NoConn},
           SocketsOK', late'[c] \/ parser'[c] # "adrift", Quiet(c)' => Untroubled(c, k)'
    PROVE  CallsOK'
<1>1. ASSUME NEW j \in Conn, phase'[j] = "free" PROVE Fresh(j)'
  <2>1. j # k /\ phase[j] = "free" /\ Fresh(j) BY <1>1 DEF CallsOK
  <2> QED BY <2>1 DEF Fresh
<1>2. ASSUME NEW d \in Client, d # c, Quiet(d)' PROVE Untroubled(d, sock[d])'
  <2>1. PICK j \in Conn : j = sock[d] /\ j # k
    BY <1>2 DEF Quiet, CallsOK, SocketsOK, TablesOK
  <2>2. Quiet(d) /\ Untroubled(d, j) /\ sock'[d] = j BY <1>2, <2>1 DEF Quiet, CallsOK
  <2>3. InPubSub(j)' = InPubSub(j) BY BrokerUnchanged DEF IInv
  <2>4. /\ phase'[j] = phase[j] /\ requests'[j] = requests[j] /\ replies'[j] = replies[j]
        /\ sent'[d] = sent[d] /\ waiting'[d] = waiting[d] /\ got'[d] = got[d]
        /\ unsent'[d] = unsent[d]
    BY <1>2, <2>1
  <2>5. Cut(d, j) => Cut(d, j)' BY <2>4 DEF Cut, Replies, Received, Before, OnTheWay
  <2>6. tx'[j] = tx[j] /\ chunk'[j] = chunk[j] /\ UNCHANGED <<turn, run>> OBVIOUS
  <2>7. Flows(d, j) => Flows(d, j)'
    BY <2>4, <2>6
    DEF Flows, Replies, Asked, Received, Before, OnTheWay, Taken, Unread, Handed, Ongoing
  <2>8. Untroubled(d, j)' BY <1>2, <2>1, <2>2, <2>3, <2>5, <2>7 DEF Untroubled
  <2> QED BY <2>2, <2>8
<1>3. ASSUME Quiet(c)' PROVE Untroubled(c, sock[c])'
  BY <1>3 DEF Quiet
<1>4. ParsersOK' BY DEF CallsOK, ParsersOK
<1> QED BY <1>1, <1>2, <1>3, <1>4 DEF CallsOK

LEMMA SendNumbers ==
    ASSUME NEW first \in Nat, NEW ops \in Seq(STRING)
    PROVE  LET answers == [i \in DOMAIN ops |-> first + i]
           IN  /\ Replies(answers, first) /\ Len(answers) = Len(ops)
               /\ (\A i \in DOMAIN ops : ops[i] \notin Pushing)
                     => Asked(Numbered(ops, first), first) /\ Len(Numbered(ops, first)) = Len(ops)
<1> DEFINE answers == [i \in DOMAIN ops |-> first + i]  asked == Numbered(ops, first)
<1>1. DOMAIN ops = 1..Len(ops) /\ Len(ops) \in Nat OBVIOUS
<1>2. answers \in Seq(Int) /\ Len(answers) = Len(ops) BY <1>1
<1>3. Replies(answers, first) BY <1>1, <1>2 DEF Replies
<1>4. ASSUME \A i \in DOMAIN ops : ops[i] \notin Pushing PROVE Asked(asked, first) /\ Len(asked) = Len(ops)
  <2>1. asked = [i \in 1..Len(ops) |-> <<ops[i], first + i>>] BY <1>1 DEF Numbered
  <2>2. ASSUME NEW i \in 1..Len(ops) PROVE <<ops[i], first + i>> \in Mild
    BY <1>1, <1>4, <2>2 DEF Mild
  <2> DEFINE M == Mild
  <2> HIDE DEF M, asked
  <2>3. \A i \in 1..Len(ops) : <<ops[i], first + i>> \in M BY <2>2 DEF M
  <2>4. asked \in Seq(M) /\ Len(asked) = Len(ops) BY <1>1, <2>1, <2>3
  <2> QED BY <2>1, <2>4 DEF M, Asked
<1> QED BY <1>2, <1>3, <1>4

\* Nothing is asked, answered or pending.
Silent(c, k) ==
    /\ requests[k] = <<>> /\ chunk[k] = <<>> /\ replies[k] = <<>>
    /\ tx[k].queue \in Seq(Mild)

LEMMA SendSound ==
    ASSUME CallsOK, IInv, NEW c \in Client, NEW k \in Conn, NEW first \in Nat,
           NEW ops \in Calls[c], turn = Nobody,
           Send(c, first, ops),
           \A d \in Client : sock[d] # k \/ d = c,
           sock' = [sock EXCEPT ![c] = k],
           \A j \in Conn : j # k => phase'[j] = phase[j],
           phase'[k] # "free", phase[k] = "ended" => phase'[k] = "ended",
           Quiet(c)' => /\ ~hungup[k] /\ ~InPubSub(k)
                        /\ \/ phase'[k] # "ended" /\ Silent(c, k)
                           \/ phase'[k] = "ended" /\ replies[k] \in {<<>>, <<Rejected>>}
    PROVE  CallsOK'
<1>1. ops \in Seq(STRING) BY ClientAssumption
<1> DEFINE answers == [i \in DOMAIN ops |-> first + i]
<1>2. Replies(answers, first) /\ Len(answers) = Len(ops) /\ Len(ops) \in Nat BY <1>1, SendNumbers
<1>0. UNCHANGED <<turn, chunk, tx, run, requests, replies, hungup, broker, parser, late>>
  BY DEF Send, wires
<1>3. /\ unsent'[c] = Numbered(ops, first)
      /\ waiting'[c] = answers /\ got'[c] = <<>> /\ own'[c] = TRUE /\ sent'[c] = first + Len(ops)
      /\ pushed'[c] = (pushed[c] \/ \E i \in DOMAIN ops : ops[i] \in Pushing)
      /\ \A d \in Client : d # c =>
            /\ waiting'[d] = waiting[d] /\ got'[d] = got[d] /\ own'[d] = own[d]
            /\ unsent'[d] = unsent[d] /\ sent'[d] = sent[d] /\ pushed'[d] = pushed[d]
  BY DEF Send, CallsOK, SocketsOK, TablesOK, Pushing
<1> HIDE DEF answers
<1>4. Before(c)' = first BY <1>2, <1>3 DEF Before
<1>5. SocketsOK'
  <2>1. \A d \in Client : Replies(waiting[d], Before(d))' /\ Before(d)' \in Nat
    <3>1. Replies(waiting[c], Before(c))' /\ Before(c)' \in Nat
      BY <1>2, <1>3, <1>4 DEF Replies
    <3>2. ASSUME NEW d \in Client, d # c PROVE Replies(waiting[d], Before(d))' /\ Before(d)' \in Nat
      <4>1. waiting'[d] = waiting[d] /\ sent'[d] = sent[d] BY <1>3, <3>2
      <4>2. Replies(waiting[d], Before(d)) /\ Before(d) \in Nat BY DEF CallsOK, SocketsOK
      <4> QED BY <4>1, <4>2 DEF Before, Replies
    <3> QED BY <3>1, <3>2
  <2>2. TablesOK'
    <3>1. sent' = [sent EXCEPT ![c] = first + Len(ops)] /\ first + Len(ops) \in Nat
      BY <1>2 DEF Send
    <3>2. DOMAIN waiting' = DOMAIN waiting /\ DOMAIN got' = DOMAIN got
          /\ DOMAIN pushed' = DOMAIN pushed /\ DOMAIN own' = DOMAIN own
          /\ DOMAIN unsent' = DOMAIN unsent
      BY DEF Send
    <3>3. UNCHANGED <<late, chunk, requests, replies, hungup, parser>> BY <1>0
    <3> QED BY <3>1, <3>2, <3>3 DEF CallsOK, SocketsOK, TablesOK
  <2>3. \A d \in Client : sock'[d] # NoConn => phase'[sock'[d]] # "free"
    BY DEF CallsOK, SocketsOK, TablesOK
  <2>4. \A d, e \in Client : sock'[d] = sock'[e] => sock'[d] = NoConn \/ d = e
    BY DEF CallsOK, SocketsOK, TablesOK
  <2>5. \A d \in Client : Waits(d)' => sock'[d] # NoConn
    BY <1>3, ClientAssumption DEF Waits, CallsOK, SocketsOK, TablesOK
  <2> QED BY <2>1, <2>2, <2>3, <2>4, <2>5 DEF SocketsOK
<1>6. ASSUME Quiet(c)' PROVE Untroubled(c, k)'
  <2>1. Asked(Numbered(ops, first), first) /\ Len(Numbered(ops, first)) = Len(ops)
    BY <1>1, <1>3, <1>6, SendNumbers DEF Quiet
  <2>2. InPubSub(k)' = InPubSub(k) BY <1>0, BrokerUnchanged DEF IInv
  <2>3. Received(c)' = first BY <1>3, <1>4 DEF Received
  <2>4. Replies(got[c], Before(c))' BY <1>3 DEF Replies
  <2>5. CASE phase'[k] # "ended"
    <3>1. Silent(c, k) BY <1>6, <2>5
    <3>2. Ongoing(k)' = 0 BY <1>0, SessionsAssumption DEF Ongoing
    <3>3. /\ replies'[k] = <<>> /\ chunk'[k] = <<>> /\ requests'[k] = <<>>
          /\ tx'[k].queue \in Seq(Mild)
      BY <1>0, <3>1 DEF Silent
    <3>5. OnTheWay(c, k)' = first /\ Taken(c, k)' = first /\ Unread(c, k)' = first
          /\ Handed(c, k)' = first
      BY <2>3, <3>2, <3>3 DEF OnTheWay, Taken, Unread, Handed
    <3>6. Replies(replies[k], Received(c))' /\ Asked(chunk[k], Taken(c, k))'
          /\ Asked(requests[k], Unread(c, k))'
      BY <3>3 DEF Replies, Asked
    <3>7. Asked(unsent[c], Handed(c, k))' /\ (Handed(c, k) + Len(unsent[c]) = sent[c])'
      BY <1>3, <2>1, <3>5 DEF Asked
    <3>8. Flows(c, k)'
      BY <1>0, <1>3, <2>4, <3>2, <3>3, <3>6, <3>7, SessionsAssumption DEF Flows
    <3> QED BY <1>0, <1>3, <1>6, <2>2, <2>5, <3>8 DEF Untroubled
  <2>6. CASE phase'[k] = "ended"
    <3>1. replies'[k] = <<>> \/ replies'[k] = <<Rejected>> BY <1>0, <1>6, <2>6
    <3>2. CASE replies'[k] = <<>>
      <4>1. OnTheWay(c, k)' <= sent'[c] /\ Replies(replies[k], Received(c))'
        BY <1>2, <1>3, <2>3, <3>2 DEF OnTheWay, Replies
      <4> QED BY <1>0, <1>3, <1>6, <2>2, <2>4, <2>6, <4>1 DEF Untroubled, Cut
    <3>3. CASE replies'[k] = <<Rejected>>
      BY <1>0, <1>3, <1>6, <2>2, <2>6, <3>3 DEF Untroubled, Cut
    <3> QED BY <3>1, <3>2, <3>3
  <2> QED BY <2>5, <2>6
<1>7. \A j \in Conn : j # k =>
          /\ phase'[j] = phase[j] /\ requests'[j] = requests[j]
          /\ replies'[j] = replies[j] /\ hungup'[j] = hungup[j]
  BY <1>0
<1>8. /\ sock'[c] = k
      /\ \A d \in Client : d # c => sock'[d] = sock[d] /\ late'[d] = late[d] /\ parser'[d] = parser[d]
  BY <1>0 DEF CallsOK, SocketsOK, TablesOK
<1>9. late'[c] \/ parser'[c] # "adrift" BY <1>0 DEF CallsOK, ParsersOK
<1> QED BY <1>0, <1>3, <1>5, <1>6, <1>7, <1>8, <1>9, OthersSound

\* When all the replies there are to come have come, nothing is being or to be answered.
LEMMA NothingUnread ==
    ASSUME SocketsOK, NEW c \in Client, NEW k \in Conn, Flows(c, k), OnTheWay(c, k) = sent[c]
    PROVE  chunk[k] = <<>> /\ requests[k] = <<>>
<1>1. PICK s \in Nat : s = sent[c] BY FlowCounts
<1>2. PICK h \in Nat : h = Len(chunk[k]) BY FlowCounts
<1>3. PICK q \in Nat : q = Len(requests[k]) BY FlowCounts
<1>4. PICK o \in Nat : o = Ongoing(k) BY DEF Ongoing
<1>7. PICK u \in Nat : u = Len(unsent[c]) BY FlowCounts
<1>5. s + o + h + q + u = s BY <1>1, <1>2, <1>3, <1>4, <1>7 DEF Flows, Handed, Unread, Taken
<1>6. h = 0 /\ q = 0 BY <1>5
<1> QED BY <1>2, <1>3, <1>6, EmptySeq DEF Flows, Asked

\* Between two calls nothing of an earlier one is left on a quiet connection.
LEMMA NothingLeft ==
    ASSUME CallsOK, NEW c \in Client, NEW k \in Conn, sock[c] = k, Quiet(c), ~Waits(c)
    PROVE  /\ ~hungup[k] /\ ~InPubSub(k)
           /\ phase[k] # "ended" => Silent(c, k)
           /\ phase[k] = "ended" => replies[k] \in {<<>>, <<Rejected>>}
<1>1. Untroubled(c, k) BY DEF CallsOK
<1>2. Before(c) = sent[c] /\ sent[c] \in Nat
  BY DEF Waits, Before, CallsOK, SocketsOK, TablesOK
<1>3. CASE phase[k] # "ended"
  <2>1. Flows(c, k) BY <1>1, <1>3 DEF Untroubled
  <2>2. OnTheWay(c, k) = sent[c] /\ Len(replies[k]) = 0
    <3>1. OnTheWay(c, k) <= sent[c] /\ Len(got[c]) \in Nat /\ Len(replies[k]) \in Nat
      BY <2>1, FlowCounts DEF CallsOK
    <3>2. OnTheWay(c, k) = sent[c] + Len(got[c]) + Len(replies[k])
      BY <1>2 DEF OnTheWay, Received
    <3> QED BY <1>2, <3>1, <3>2
  <2>3. replies[k] = <<>> /\ chunk[k] = <<>> /\ requests[k] = <<>>
    BY <2>1, <2>2, EmptySeq, NothingUnread DEF Flows, Replies, CallsOK
  <2> QED BY <1>1, <1>3, <2>1, <2>3 DEF Untroubled, Silent, Flows
<1>4. CASE phase[k] = "ended"
  <2>1. Cut(c, k) BY <1>1, <1>4 DEF Untroubled
  <2>2. ASSUME Replies(got[c], Before(c)), Replies(replies[k], Received(c)), OnTheWay(c, k) <= sent[c]
        PROVE  replies[k] = <<>>
    <3>1. Len(replies[k]) = 0 BY <1>2, <2>2 DEF Replies, Received, OnTheWay
    <3> QED BY <2>2, <3>1, EmptySeq DEF Replies
  <2> QED BY <1>1, <1>4, <2>1, <2>2 DEF Untroubled, Cut
<1> QED BY <1>3, <1>4

LEMMA CallCalls ==
    ASSUME CallsOK, IInv, NEW c \in Client, Call(c)
    PROVE  CallsOK'
<1>1. PICK k \in Conn : k = sock[c]
  BY DEF Call, CallsOK, SocketsOK, TablesOK
<1>2. PICK ops \in Calls[c] : Send(c, sent[c], ops) BY <1>1 DEF Call
<1>3. /\ turn = Nobody /\ ~Waits(c) /\ k # NoConn
      /\ UNCHANGED <<phase, sock>>
  BY <1>1, ClientAssumption DEF Call, CanCall
<1>4. sent[c] \in Nat /\ phase[k] # "free" /\ sock' = [sock EXCEPT ![c] = k]
  BY <1>1, <1>3 DEF CallsOK, SocketsOK, TablesOK
<1>5. \A d \in Client : sock[d] # k \/ d = c BY <1>1, <1>3 DEF CallsOK, SocketsOK
<1>6. ASSUME Quiet(c)' PROVE Quiet(c)
  BY <1>2, <1>3, <1>6 DEF Quiet, Send, CallsOK, SocketsOK, TablesOK
<1>7. Quiet(c)' => /\ ~hungup[k] /\ ~InPubSub(k)
                   /\ \/ phase'[k] # "ended" /\ Silent(c, k)
                      \/ phase'[k] = "ended" /\ replies[k] \in {<<>>, <<Rejected>>}
  BY <1>1, <1>3, <1>6, NothingLeft
<1>8. \A j \in Conn : j # k => phase'[j] = phase[j] BY <1>3
<1>9. phase'[k] # "free" /\ (phase[k] = "ended" => phase'[k] = "ended") BY <1>3, <1>4
<1> QED BY <1>2, <1>3, <1>4, <1>5, <1>7, <1>8, <1>9, SendSound

LEMMA ConnectCalls ==
    ASSUME CallsOK, IInv, NEW c \in Client, ConnectAndCall(c)
    PROVE  CallsOK'
<1>1. PICK k \in Conn : /\ phase[k] = "free"
                        /\ sock' = [sock EXCEPT ![c] = k]
                        /\ phase' = [phase EXCEPT ![k] = "new"]
  BY DEF ConnectAndCall
<1>2. PICK ops \in Calls[c] : Send(c, 0, ops) BY DEF ConnectAndCall
<1>3. turn = Nobody BY DEF ConnectAndCall, CanCall
<1>4. phase'[k] = "new" /\ \A j \in Conn : j # k => phase'[j] = phase[j]
  BY <1>1 DEF IInv, HandlersOK
<1>5. \A d \in Client : sock[d] # k \/ d = c BY <1>1, ClientAssumption DEF CallsOK, SocketsOK
<1>6. Fresh(k) /\ ~InPubSub(k) BY <1>1 DEF CallsOK, IInv
<1>7. <<>> \in Seq(Mild) OBVIOUS
<1>8. Silent(c, k) /\ ~hungup[k] BY <1>6, <1>7 DEF Fresh, Silent, NoTx
<1>9. Quiet(c)' => /\ ~hungup[k] /\ ~InPubSub(k)
                   /\ \/ phase'[k] # "ended" /\ Silent(c, k)
                      \/ phase'[k] = "ended" /\ replies[k] \in {<<>>, <<Rejected>>}
  BY <1>4, <1>6, <1>8
<1>10. 0 \in Nat /\ phase[k] # "ended" /\ phase'[k] # "free" BY <1>1, <1>4
<1> QED BY <1>1, <1>2, <1>3, <1>4, <1>5, <1>9, <1>10, SendSound

\* The call of a client has come to an end: it waits for nothing.
LEMMA EndedSockets ==
    ASSUME CallsOK, NEW c \in Client, waiting'[c] = <<>>,
           \A d \in Client : d # c => waiting'[d] = waiting[d],
           DOMAIN waiting' = Client, DOMAIN got' = Client, DOMAIN own' = Client, DOMAIN late' = Client,
           DOMAIN unsent' = Client, DOMAIN parser' = Client,
           DOMAIN pushed' = Client, DOMAIN chunk' = Conn, DOMAIN requests' = Conn,
           DOMAIN replies' = Conn, DOMAIN hungup' = Conn,
           UNCHANGED <<sock, sent, phase>>
    PROVE  SocketsOK' /\ Before(c)' = sent[c]
<1>1. sent[c] \in Nat BY DEF CallsOK, SocketsOK, TablesOK
<1>2. Before(c)' = sent[c] BY <1>1 DEF Before
<1>3. Replies(waiting[c], Before(c))' BY DEF Replies
<1>4. ASSUME NEW d \in Client, d # c PROVE Replies(waiting[d], Before(d))' /\ Before(d)' \in Nat
  <2>1. Replies(waiting[d], Before(d)) /\ Before(d) \in Nat BY DEF CallsOK, SocketsOK
  <2>2. waiting'[d] = waiting[d] BY <1>4
  <2> QED BY <2>1, <2>2 DEF Before, Replies
<1>5. TablesOK' BY DEF CallsOK, SocketsOK, TablesOK
<1>6. SocketsOK' BY <1>1, <1>2, <1>3, <1>4, <1>5 DEF CallsOK, SocketsOK, Waits
<1> QED BY <1>2, <1>6

\* The call is over, and nothing of it is left on a connection that still goes on.
LEMMA CallOver ==
    ASSUME NEW c \in Client, NEW k \in Conn, ~hungup'[k], ~InPubSub(k)', own'[c],
           got'[c] = <<>>, waiting'[c] = <<>>, unsent'[c] = <<>>, sent'[c] \in Nat, turn' # k,
           phase'[k] # "ended" => Silent(c, k)' /\ phase'[k] # "free",
           replies'[k] = <<>>
    PROVE  Untroubled(c, k)'
<1>1. Before(c)' = sent'[c] /\ Received(c)' = sent'[c] /\ OnTheWay(c, k)' = sent'[c]
  BY DEF Before, Received, OnTheWay
<1>2. Replies(got[c], Before(c))' /\ Replies(replies[k], Received(c))'
  BY DEF Replies
<1>3. CASE phase'[k] = "ended" BY <1>1, <1>2, <1>3 DEF Untroubled, Cut
<1>4. CASE phase'[k] # "ended"
  <2>1. Ongoing(k)' = 0 BY DEF Ongoing
  <2>2. chunk'[k] = <<>> /\ requests'[k] = <<>> /\ tx'[k].queue \in Seq(Mild)
    BY <1>4 DEF Silent
  <2>3. Taken(c, k)' = sent'[c] /\ Unread(c, k)' = sent'[c] /\ Handed(c, k)' = sent'[c]
    BY <1>1, <2>1, <2>2 DEF Taken, Unread, Handed
  <2>4. Asked(chunk[k], Taken(c, k))' /\ Asked(requests[k], Unread(c, k))'
        /\ Asked(unsent[c], Handed(c, k))'
    BY <2>2 DEF Asked
  <2>5. (Handed(c, k) + Len(unsent[c]) = sent[c])' BY <2>3
  <2>6. Flows(c, k)' BY <1>2, <2>1, <2>2, <2>4, <2>5 DEF Flows
  <2> QED BY <1>4, <2>6 DEF Untroubled
<1> QED BY <1>3, <1>4

\* A call that returns has received exactly the numbers it waits for, and all there was.
LEMMA ReturnSound ==
    ASSUME CallsOK, NEW c \in Client, NEW k \in Conn, Replies(got[c], Before(c)),
           Replies(replies[k], Received(c)), OnTheWay(c, k) <= sent[c],
           NEW n \in 0..Len(replies[k]),
           NEW all, all = got[c] \o SubSeq(replies[k], 1, n), Len(all) >= Len(waiting[c])
    PROVE  /\ SubSeq(all, 1, Len(waiting[c])) = waiting[c]
           /\ SubSeq(replies[k], n + 1, Len(replies[k])) = <<>>
           /\ OnTheWay(c, k) = sent[c]
<1>1. Replies(waiting[c], Before(c)) BY DEF CallsOK, SocketsOK
<1>2. PICK b \in Nat : b = Before(c) BY DEF CallsOK, SocketsOK
<1>3. PICK s \in Nat : s = sent[c] BY DEF CallsOK, SocketsOK, TablesOK
<1>4. PICK w \in Nat : w = Len(waiting[c]) BY <1>1, RepliesLen
<1>5. PICK g \in Nat : g = Len(got[c]) BY DEF Replies
<1>6. PICK r \in Nat : r = Len(replies[k]) BY DEF Replies
<1>7. /\ Replies(SubSeq(replies[k], 1, n), Received(c)) /\ Len(SubSeq(replies[k], 1, n)) = n
  <2>1. Received(c) \in Int /\ n \in 0..Len(replies[k]) BY <1>2, <1>5, <1>6 DEF Received
  <2> QED BY <2>1, RepliesCut
<1>8. Replies(all, Before(c)) /\ Len(all) = Len(got[c]) + n
  <2>1. PICK s1, t1 : s1 = got[c] /\ t1 = SubSeq(replies[k], 1, n) OBVIOUS
  <2>2. b \in Int /\ Replies(s1, b) /\ Replies(t1, b + Len(s1)) /\ Len(t1) = n
    BY <1>2, <1>7, <2>1 DEF Received
  <2>3. Replies(s1 \o t1, b) /\ Len(s1 \o t1) = Len(s1) + Len(t1) BY <2>2, RepliesJoin
  <2> QED BY <1>2, <2>1, <2>2, <2>3
<1>9. b + w = s BY <1>2, <1>3, <1>4 DEF Before
<1>10. b + g + r <= s BY <1>2, <1>3, <1>5, <1>6 DEF OnTheWay, Received
<1>11. n \in Nat /\ n <= r BY <1>6
<1>12. g + n >= w BY <1>4, <1>5, <1>8
<1>13. n = r /\ g + n = w /\ b + g + r = s BY <1>9, <1>10, <1>11, <1>12
<1>14. OnTheWay(c, k) = sent[c] BY <1>2, <1>3, <1>5, <1>6, <1>13 DEF OnTheWay, Received
<1>15. SubSeq(replies[k], n + 1, Len(replies[k])) = <<>> BY <1>6, <1>13 DEF Replies
<1>16. all \in Seq(Int) /\ waiting[c] \in Seq(Int) /\ Len(all) = Len(waiting[c])
  BY <1>1, <1>4, <1>5, <1>8, <1>13 DEF Replies
<1>17. \A i \in 1..Len(all) : all[i] = waiting[c][i] BY <1>1, <1>8, <1>16 DEF Replies
<1>18. all = waiting[c] BY <1>16, <1>17, SeqEqual
<1>19. SubSeq(waiting[c], 1, Len(waiting[c])) = waiting[c] BY <1>16, SubSeqFull
<1> QED BY <1>14, <1>15, <1>18, <1>19

\* A call that has not received all moves replies from the way to what it has.
LEMMA RepliesMove ==
    ASSUME NEW from \in Nat, NEW s, NEW t, Replies(s, from), Replies(t, from + Len(s)),
           NEW n \in 0..Len(t)
    PROVE  LET s1 == s \o SubSeq(t, 1, n)  t1 == SubSeq(t, n + 1, Len(t))
           IN  /\ Replies(s1, from) /\ Replies(t1, from + Len(s1))
               /\ Len(s1) = Len(s) + n /\ Len(t1) = Len(t) - n
<1> DEFINE s1 == s \o SubSeq(t, 1, n)  t1 == SubSeq(t, n + 1, Len(t))
<1>1. Len(s) \in Nat /\ Len(t) \in Nat BY DEF Replies
<1>2. from + Len(s) \in Int /\ n \in 0..Len(t) BY <1>1
<1>3. /\ Replies(SubSeq(t, 1, n), from + Len(s)) /\ Len(SubSeq(t, 1, n)) = n
      /\ Replies(t1, from + Len(s) + n) /\ Len(t1) = Len(t) - n
  BY <1>2, RepliesCut
<1>4. Replies(s1, from) /\ Len(s1) = Len(s) + n BY <1>3, RepliesJoin
<1> HIDE DEF s1, t1
<1>5. from + Len(s1) = from + Len(s) + n BY <1>1, <1>4
<1>6. Replies(t1, from + Len(s1)) BY <1>3, <1>5
<1> QED BY <1>3, <1>4, <1>6 DEF s1, t1

LEMMA ReceiveMore ==
    ASSUME SocketsOK, NEW c \in Client, NEW k \in Conn, Replies(got[c], Before(c)),
           Replies(replies[k], Received(c)), NEW n \in 0..Len(replies[k]),
           got'[c] = got[c] \o SubSeq(replies[k], 1, n),
           replies'[k] = SubSeq(replies[k], n + 1, Len(replies[k])),
           waiting'[c] = waiting[c], sent'[c] = sent[c]
    PROVE  /\ Replies(got[c], Before(c))' /\ Replies(replies[k], Received(c))'
           /\ OnTheWay(c, k)' = OnTheWay(c, k)
<1>1. Before(c)' = Before(c) /\ Before(c) \in Nat BY DEF Before, SocketsOK
<1>2. PICK b \in Nat : b = Before(c) BY <1>1
<1>3. PICK g, r : g = got[c] /\ r = replies[k] OBVIOUS
<1> DEFINE s1 == g \o SubSeq(r, 1, n)  t1 == SubSeq(r, n + 1, Len(r))
<1>4. Replies(g, b) /\ Replies(r, b + Len(g)) /\ n \in 0..Len(r) BY <1>2, <1>3 DEF Received
<1>5. Len(g) \in Nat /\ Len(r) \in Nat BY <1>4, RepliesLen
<1>6. /\ Replies(s1, b) /\ Replies(t1, b + Len(s1))
      /\ Len(s1) = Len(g) + n /\ Len(t1) = Len(r) - n
  BY <1>4, RepliesMove
<1>7. got'[c] = s1 /\ replies'[k] = t1 BY <1>2, <1>3
<1> HIDE DEF s1, t1
<1>8. Replies(got[c], Before(c))' /\ Replies(replies[k], Received(c))'
  BY <1>1, <1>2, <1>3, <1>6, <1>7 DEF Replies, Received
<1>9. b + Len(s1) + Len(t1) = b + Len(g) + Len(r)
  <2>1. ASSUME NEW lg \in Nat, NEW lr \in Nat PROVE b + (lg + n) + (lr - n) = b + lg + lr
    BY <1>5
  <2> QED BY <1>5, <1>6, <2>1
<1>10. OnTheWay(c, k)' = OnTheWay(c, k)
  <2>1. OnTheWay(c, k)' = b + Len(s1) + Len(t1) BY <1>1, <1>2, <1>3, <1>7 DEF OnTheWay, Received
  <2>2. OnTheWay(c, k) = b + Len(g) + Len(r) BY <1>2, <1>3 DEF OnTheWay, Received
  <2> QED BY <1>9, <2>1, <2>2
<1> QED BY <1>8, <1>10

LEMMA AskedJoin ==
    ASSUME NEW from \in Int, NEW s, NEW t, Asked(s, from), Asked(t, from + Len(s))
    PROVE  Asked(s \o t, from) /\ Len(s \o t) = Len(s) + Len(t)
<1> DEFINE M == Mild
<1>1. s \in Seq(M) /\ t \in Seq(M) BY DEF Asked
<1> HIDE DEF M
<1>2. s \o t \in Seq(M) /\ Len(s \o t) = Len(s) + Len(t) BY <1>1, ConcatProperties
<1>3. Len(s) \in Nat /\ Len(t) \in Nat BY <1>1
<1>4. ASSUME NEW i \in 1..Len(s \o t) PROVE (s \o t)[i][2] = from + i
  <2>1. CASE i <= Len(s)
    <3>1. (s \o t)[i] = s[i] /\ i \in 1..Len(s) BY <1>1, <1>2, <1>3, <2>1
    <3> QED BY <3>1 DEF Asked
  <2>2. CASE i > Len(s)
    <3>1. (s \o t)[i] = t[i - Len(s)] /\ i - Len(s) \in 1..Len(t) BY <1>1, <1>2, <1>3, <2>2
    <3>2. t[i - Len(s)][2] = (from + Len(s)) + (i - Len(s)) BY <3>1 DEF Asked
    <3> QED BY <1>3, <3>1, <3>2
  <2> QED BY <1>2, <1>3, <2>1, <2>2
<1> QED BY <1>2, <1>4 DEF Asked, M

\* What sendall hands over follows on what it has handed over before.
LEMMA TransmitFlows ==
    ASSUME SocketsOK, NEW c \in Client, NEW k \in Conn, Flows(c, k), NEW n \in 1..Len(unsent[c]),
           requests'[k] = requests[k] \o SubSeq(unsent[c], 1, n),
           unsent'[c] = SubSeq(unsent[c], n + 1, Len(unsent[c])),
           UNCHANGED <<phase, turn, chunk, tx, run, replies, sent, waiting, got>>
    PROVE  Flows(c, k)'
<1>1. /\ Unread(c, k) \in Nat /\ Handed(c, k) \in Nat
      /\ Len(requests[k]) \in Nat /\ Len(unsent[c]) \in Nat
  BY FlowCounts
<1>2. /\ Asked(SubSeq(unsent[c], 1, n), Handed(c, k)) /\ Len(SubSeq(unsent[c], 1, n)) = n
      /\ Asked(SubSeq(unsent[c], n + 1, Len(unsent[c])), Handed(c, k) + n)
      /\ Len(SubSeq(unsent[c], n + 1, Len(unsent[c]))) = Len(unsent[c]) - n
  <2>1. Handed(c, k) \in Int /\ n \in 0..Len(unsent[c]) /\ Asked(unsent[c], Handed(c, k))
    BY <1>1 DEF Flows
  <2> QED BY <2>1, AskedCut
<1>3. PICK t : t = SubSeq(unsent[c], 1, n) OBVIOUS
<1>4. Asked(requests[k] \o t, Unread(c, k)) /\ Len(requests[k] \o t) = Len(requests[k]) + n
  <2>1. Asked(requests[k], Unread(c, k)) /\ Asked(t, Unread(c, k) + Len(requests[k])) /\ Len(t) = n
    BY <1>2, <1>3 DEF Flows, Handed
  <2>2. PICK q, u : q = requests[k] /\ u = Unread(c, k) /\ u \in Int BY <1>1
  <2>3. u \in Int /\ Asked(q, u) /\ Asked(t, u + Len(q)) BY <2>1, <2>2
  <2>4. Asked(q \o t, u) /\ Len(q \o t) = Len(q) + Len(t) BY <2>3, AskedJoin
  <2> QED BY <2>1, <2>2, <2>4
<1>5. Unread(c, k)' = Unread(c, k) /\ Taken(c, k)' = Taken(c, k) /\ OnTheWay(c, k)' = OnTheWay(c, k)
      /\ Received(c)' = Received(c) /\ Before(c)' = Before(c) /\ Ongoing(k)' = Ongoing(k)
  BY DEF Unread, Taken, OnTheWay, Received, Before, Ongoing
<1>6. Handed(c, k)' = Handed(c, k) + n BY <1>1, <1>3, <1>4, <1>5 DEF Handed
<1>7. Asked(requests[k], Unread(c, k))' BY <1>3, <1>4, <1>5 DEF Asked
<1>8. Asked(unsent[c], Handed(c, k))' BY <1>2, <1>6 DEF Asked
<1>9. (Handed(c, k) + Len(unsent[c]) = sent[c])'
  <2>1. Handed(c, k) + Len(unsent[c]) = sent[c] BY DEF Flows
  <2>2. PICK h \in Nat, u \in Nat : h = Handed(c, k) /\ u = Len(unsent[c]) BY <1>1
  <2>3. n \in 1..u /\ (h + n) + (u - n) = h + u BY <2>2
  <2>4. Handed(c, k)' = h + n /\ Len(unsent'[c]) = u - n BY <1>2, <1>6, <2>2
  <2> QED BY <2>1, <2>2, <2>3, <2>4
<1>10. Replies(got[c], Before(c))' /\ Replies(replies[k], Received(c))'
       /\ Asked(chunk[k], Taken(c, k))'
  BY <1>5 DEF Flows, Replies, Asked
<1> QED BY <1>5, <1>7, <1>8, <1>9, <1>10 DEF Flows

LEMMA TransmitCalls ==
    ASSUME CallsOK, IInv, NEW c \in Client, Transmit(c)
    PROVE  CallsOK'
<1>1. PICK k \in Conn : k = sock[c] /\ sock[c] # NoConn
  BY ClientAssumption DEF Transmit, CallsOK, SocketsOK, TablesOK
<1>2. PICK n \in 1..Len(unsent[c]) :
          /\ requests' = [requests EXCEPT ![k] = @ \o SubSeq(unsent[c], 1, n)]
          /\ unsent' = [unsent EXCEPT ![c] = SubSeq(@, n + 1, Len(@))]
  BY <1>1 DEF Transmit
<1>3. /\ turn = Nobody
      /\ UNCHANGED <<phase, turn, chunk, tx, run, replies, hungup, broker>>
      /\ UNCHANGED <<sock, waiting, got, own, parser, sent, late, pushed>>
  BY DEF Transmit, call
<1>4. /\ requests'[k] = requests[k] \o SubSeq(unsent[c], 1, n)
      /\ unsent'[c] = SubSeq(unsent[c], n + 1, Len(unsent[c]))
      /\ DOMAIN requests' = Conn /\ DOMAIN unsent' = Client
      /\ \A j \in Conn : j # k => requests'[j] = requests[j]
      /\ \A d \in Client : d # c => unsent'[d] = unsent[d]
  BY <1>2 DEF CallsOK, SocketsOK, TablesOK
<1>5. SocketsOK'
  <2>1. TablesOK' BY <1>3, <1>4 DEF CallsOK, SocketsOK, TablesOK
  <2>2. \A d \in Client : Replies(waiting[d], Before(d))' /\ Before(d)' \in Nat
    BY <1>3 DEF CallsOK, SocketsOK, Before, Replies
  <2> QED BY <1>3, <2>1, <2>2 DEF CallsOK, SocketsOK, Waits
<1>6. ASSUME Quiet(c)' PROVE Untroubled(c, k)'
  <2>1. Untroubled(c, k) BY <1>1, <1>3, <1>6 DEF Quiet, CallsOK
  <2>2. InPubSub(k)' = InPubSub(k) BY <1>3, BrokerUnchanged DEF IInv
  <2>3. Cut(c, k) => Cut(c, k)' BY <1>3 DEF Cut, Replies, Received, Before, OnTheWay
  <2>4. Flows(c, k) => Flows(c, k)' BY <1>3, <1>4, TransmitFlows DEF CallsOK
  <2> QED BY <1>3, <2>1, <2>2, <2>3, <2>4 DEF Untroubled
<1>7. sock'[c] = k /\ phase'[k] # "free" /\ \A d \in Client : sock[d] # k \/ d = c
  BY <1>1, <1>3 DEF CallsOK, SocketsOK
<1>8. late'[c] \/ parser'[c] # "adrift" BY <1>3 DEF CallsOK, ParsersOK
<1> QED BY <1>3, <1>4, <1>5, <1>6, <1>7, <1>8, OthersSound

LEMMA ReceiveCalls ==
    ASSUME CallsOK, IInv, NEW c \in Client, Receive(c)
    PROVE  CallsOK'
<1>1. PICK k \in Conn : k = sock[c] /\ sock[c] # NoConn
  BY ClientAssumption DEF Receive, Receives, CallsOK, SocketsOK, TablesOK
<1>0. PICK n \in 0..Len(replies[k]) :
          /\ Takes(c, n) /\ Keeps(c, n)
          /\ Results(c, got[c] \o SubSeq(replies[k], 1, n))
  BY <1>1 DEF Receive
<1>2. /\ replies' = [replies EXCEPT ![k] = SubSeq(@, n + 1, Len(@))]
      /\ LET all == got[c] \o SubSeq(replies[k], 1, n)
         IN  IF Len(all) >= Len(waiting[c]) THEN Return(c, SubSeq(all, 1, Len(waiting[c])))
             ELSE got' = [got EXCEPT ![c] = all] /\ UNCHANGED <<waiting, own>>
  BY <1>0, <1>1 DEF Takes, Results
<1>20. replies[k] # <<>>
  <2>1. n > 0 \/ n < Len(replies[k]) BY <1>0, <1>1 DEF Keeps
  <2>2. Len(<<>>) = 0 /\ ~(0 > 0) /\ ~(0 < 0) /\ \A i \in 0..0 : i = 0 OBVIOUS
  <2> QED BY <2>1, <2>2
<1>21. /\ DOMAIN parser' = Client /\ parser'[c] # "adrift"
       /\ \A d \in Client : d # c => parser'[d] = parser[d]
  BY <1>0 DEF Keeps, CallsOK, SocketsOK, TablesOK
<1> DEFINE all == got[c] \o SubSeq(replies[k], 1, n)
           rest == SubSeq(replies[k], n + 1, Len(replies[k]))
<1>3. /\ turn = Nobody /\ Waits(c)
      /\ UNCHANGED <<phase, turn, chunk, tx, run, requests, hungup, broker>>
      /\ unsent[c] = <<>> /\ UNCHANGED <<sock, sent, late, pushed, unsent>>
  BY <1>0 DEF Receive, Receives, Takes
<1>4. replies'[k] = rest /\ DOMAIN replies' = Conn
      /\ \A j \in Conn : j # k => replies'[j] = replies[j]
  BY <1>2 DEF CallsOK, SocketsOK, TablesOK
<1>5. \/ /\ Len(all) >= Len(waiting[c])
         /\ waiting'[c] = <<>> /\ got'[c] = <<>>
         /\ own'[c] = (SubSeq(all, 1, Len(waiting[c])) = waiting[c]
                       \/ Head(SubSeq(all, 1, Len(waiting[c]))) = Rejected)
      \/ /\ ~(Len(all) >= Len(waiting[c]))
         /\ waiting' = waiting /\ got'[c] = all /\ own' = own
  BY <1>2 DEF Return, CallsOK, SocketsOK, TablesOK
<1>6. /\ DOMAIN waiting' = Client /\ DOMAIN got' = Client /\ DOMAIN own' = Client
      /\ \A d \in Client : d # c =>
            waiting'[d] = waiting[d] /\ got'[d] = got[d] /\ own'[d] = own[d]
  BY <1>2 DEF Return, CallsOK, SocketsOK, TablesOK
<1>7. SocketsOK'
  <2>1. CASE waiting'[c] = <<>>
    BY <1>3, <1>4, <1>6, <1>21, <2>1, EndedSockets DEF CallsOK, SocketsOK, TablesOK
  <2>2. CASE waiting' = waiting
    <3>1. TablesOK' BY <1>3, <1>4, <1>6, <1>21, <2>2 DEF CallsOK, SocketsOK, TablesOK
    <3>2. \A d \in Client : Replies(waiting[d], Before(d))' /\ Before(d)' \in Nat
      BY <1>3, <2>2 DEF CallsOK, SocketsOK, Before, Replies
    <3> QED BY <1>3, <2>2, <3>1, <3>2 DEF CallsOK, SocketsOK, Waits
  <2> QED BY <1>5, <2>1, <2>2
<1>8. ASSUME Quiet(c)' PROVE Untroubled(c, k)'
  <2>1. Quiet(c) BY <1>3, <1>8 DEF Quiet
  <2>2. Untroubled(c, k) BY <1>1, <2>1 DEF CallsOK
  <2>3. InPubSub(k)' = InPubSub(k) BY <1>3, BrokerUnchanged DEF IInv
  <2>4. phase[k] # "free" BY <1>1 DEF CallsOK, SocketsOK
  <2>5. sent'[c] \in Nat BY <1>3 DEF CallsOK, SocketsOK, TablesOK
  <2>6. turn' # k BY <1>3, SessionsAssumption
  <2>7. CASE phase[k] # "ended"
    <3>1. Flows(c, k) BY <2>2, <2>7 DEF Untroubled
    <3>2. CASE Len(all) >= Len(waiting[c])
      <4>1. /\ SubSeq(all, 1, Len(waiting[c])) = waiting[c] /\ rest = <<>>
            /\ chunk[k] = <<>> /\ requests[k] = <<>>
        BY <3>1, <3>2, ReturnSound, FlowCounts, NothingUnread DEF Flows, CallsOK
      <4>2. own'[c] /\ waiting'[c] = <<>> /\ got'[c] = <<>> /\ replies'[k] = <<>>
        BY <1>4, <1>5, <3>2, <4>1
      <4>3. Silent(c, k)' BY <1>3, <3>1, <4>1, <4>2 DEF Silent, Flows
      <4> QED BY <1>3, <2>2, <2>3, <2>4, <2>5, <2>6, <4>2, <4>3, CallOver DEF Untroubled
    <3>3. CASE ~(Len(all) >= Len(waiting[c]))
      <4>1. got'[c] = all /\ waiting' = waiting /\ own' = own BY <1>5, <3>3
      <4>2. /\ Replies(got[c], Before(c))' /\ Replies(replies[k], Received(c))'
            /\ OnTheWay(c, k)' = OnTheWay(c, k)
        BY <1>3, <1>4, <3>1, <4>1, ReceiveMore DEF Flows, CallsOK
      <4>3. Taken(c, k)' = Taken(c, k) /\ Unread(c, k)' = Unread(c, k)
            /\ Ongoing(k)' = Ongoing(k) /\ Handed(c, k)' = Handed(c, k)
        BY <1>3, <4>2 DEF Taken, Unread, Handed, Ongoing
      <4>4. Asked(chunk[k], Taken(c, k))' /\ Asked(requests[k], Unread(c, k))'
            /\ Asked(unsent[c], Handed(c, k))'
        BY <1>3, <3>1, <4>3 DEF Flows, Asked
      <4>5. phase[k] # "new"
        BY <1>20, <3>1 DEF Flows
      <4>6. (Ongoing(k) = 1 => run.id = OnTheWay(c, k) + 1)' BY <1>3, <3>1, <4>2, <4>3 DEF Flows
      <4>7. Flows(c, k)' BY <1>3, <3>1, <4>2, <4>3, <4>4, <4>5, <4>6 DEF Flows
      <4> QED BY <1>3, <2>2, <2>3, <2>7, <4>1, <4>7 DEF Untroubled
    <3> QED BY <3>2, <3>3
  <2>8. CASE phase[k] = "ended"
    <3>1. Cut(c, k) BY <2>2, <2>8 DEF Untroubled
    <3>2. Len(waiting[c]) \in Nat /\ waiting[c] # <<>> /\ Len(waiting[c]) # 0
      BY <1>3, EmptySeq DEF Waits, CallsOK, SocketsOK, Replies
    <3>6. CASE got[c] = <<>> /\ replies[k] = <<Rejected>> /\ n = 0
      <4>1. <<Rejected>> \in Seq(Int) /\ Len(<<Rejected>>) = 1 /\ <<>> \o <<>> = <<>>
        BY DEF Rejected
      <4>2. SubSeq(<<Rejected>>, 1, 0) = <<>> BY <4>1, SubSeqEmpty
      <4>7. SubSeq(<<Rejected>>, 1, 1) = <<Rejected>> BY <4>1, SubSeqFull
      <4>3. SubSeq(replies[k], 1, n) = <<>> /\ rest = <<Rejected>> BY <3>6, <4>1, <4>2, <4>7
      <4>4. all = <<>> /\ Len(all) = 0 BY <3>6, <4>1, <4>3
      <4> HIDE DEF all, rest
      <4>5. ~(Len(all) >= Len(waiting[c]))
        <5>1. PICK w \in Nat : w = Len(waiting[c]) /\ w # 0 BY <3>2
        <5> QED BY <4>4, <5>1
      <4>6. got'[c] = <<>> /\ own' = own /\ replies'[k] = <<Rejected>>
        BY <1>4, <1>5, <4>3, <4>4, <4>5
      <4> QED BY <1>3, <2>2, <2>3, <2>8, <4>6 DEF Untroubled, Cut
    <3>3. CASE got[c] = <<>> /\ replies[k] = <<Rejected>> /\ n # 0
      <4>1. n = 1 BY <3>3
      <4>2. all = <<Rejected>> /\ rest = <<>>
        <5>1. <<Rejected>> \in Seq(Int) /\ Len(<<Rejected>>) = 1 BY DEF Rejected
        <5>2. SubSeq(<<Rejected>>, 1, 1) = <<Rejected>> BY <5>1, SubSeqFull
        <5>3. SubSeq(<<Rejected>>, 2, 1) = <<>> BY <5>1, SubSeqEmpty
        <5>4. SubSeq(replies[k], 1, n) = <<Rejected>> BY <3>3, <4>1, <5>2
        <5>5. rest = <<>> BY <3>3, <4>1, <5>1, <5>3
        <5> QED BY <3>3, <5>1, <5>4, <5>5, ConcatEmptySeq
      <4> HIDE DEF all, rest
      <4>3. CASE Len(all) >= Len(waiting[c])
        <5>1. Len(waiting[c]) = 1
          <6>1. PICK w \in Nat : w = Len(waiting[c]) BY <3>2
          <6>2. Len(all) = 1 BY <4>2
          <6>3. w <= 1 /\ w # 0 BY <3>2, <4>3, <6>1, <6>2
          <6>4. w = 1 BY <6>3
          <6> QED BY <6>1, <6>4
        <5>2. Head(SubSeq(all, 1, Len(waiting[c]))) = Rejected
          <6>1. <<Rejected>> \in Seq(Int) /\ Len(<<Rejected>>) = 1 BY DEF Rejected
          <6> QED BY <4>2, <5>1, <6>1, SubSeqFull
        <5>3. own'[c] /\ waiting'[c] = <<>> /\ got'[c] = <<>> /\ replies'[k] = <<>>
          BY <1>4, <1>5, <4>2, <4>3, <5>2
        <5> QED BY <1>3, <2>2, <2>3, <2>5, <2>6, <2>8, <5>3, CallOver DEF Untroubled
      <4>4. CASE ~(Len(all) >= Len(waiting[c]))
        <5>1. got'[c] = <<Rejected>> /\ own' = own /\ replies'[k] = <<>>
          BY <1>4, <1>5, <4>2, <4>4
        <5> QED BY <1>3, <2>2, <2>3, <2>8, <5>1 DEF Untroubled, Cut
      <4> QED BY <4>3, <4>4
    <3>5. CASE /\ Replies(got[c], Before(c)) /\ Replies(replies[k], Received(c))
               /\ OnTheWay(c, k) <= sent[c]
      <4>1. CASE Len(all) >= Len(waiting[c])
        <5>1. SubSeq(all, 1, Len(waiting[c])) = waiting[c] /\ rest = <<>>
          BY <3>5, <4>1, ReturnSound
        <5>2. own'[c] /\ waiting'[c] = <<>> /\ got'[c] = <<>> /\ replies'[k] = <<>>
          BY <1>4, <1>5, <4>1, <5>1
        <5> QED BY <1>3, <2>2, <2>3, <2>5, <2>6, <2>8, <5>2, CallOver DEF Untroubled
      <4>2. CASE ~(Len(all) >= Len(waiting[c]))
        <5>1. got'[c] = all /\ waiting' = waiting /\ own' = own BY <1>5, <4>2
        <5>2. /\ Replies(got[c], Before(c))' /\ Replies(replies[k], Received(c))'
              /\ OnTheWay(c, k)' = OnTheWay(c, k)
          BY <1>3, <1>4, <3>5, <5>1, ReceiveMore DEF CallsOK
        <5>3. Cut(c, k)' BY <1>3, <3>5, <5>2 DEF Cut
        <5> QED BY <1>3, <2>2, <2>3, <2>8, <5>1, <5>3 DEF Untroubled
      <4> QED BY <4>1, <4>2
    <3> QED BY <1>20, <3>1, <3>3, <3>5, <3>6 DEF Cut
  <2> QED BY <2>7, <2>8
<1>9. sock'[c] = k /\ phase'[k] # "free" /\ \A d \in Client : sock[d] # k \/ d = c
  BY <1>1, <1>3 DEF CallsOK, SocketsOK
<1> QED BY <1>3, <1>4, <1>6, <1>7, <1>8, <1>9, <1>21, OthersSound

\* A parser out of step belongs to a connection that is not quiet.
LEMMA MisreadCalls ==
    ASSUME CallsOK, IInv, NEW c \in Client, Misread(c)
    PROVE  CallsOK'
<1>1. PICK k \in Conn : k = sock[c] /\ sock[c] # NoConn
  BY ClientAssumption DEF Misread, Receives, CallsOK, SocketsOK, TablesOK
<1>2. PICK n : Takes(c, n) BY DEF Misread
<1>3. /\ turn = Nobody
      /\ replies' = [replies EXCEPT ![k] = SubSeq(@, n + 1, Len(@))]
      /\ UNCHANGED <<phase, turn, chunk, tx, run, requests, hungup, broker>>
      /\ UNCHANGED <<sock, unsent, sent, late, pushed>>
  BY <1>1, <1>2 DEF Misread, Receives, Takes
<1>4. /\ DOMAIN replies' = Conn
      /\ \A j \in Conn : j # k => replies'[j] = replies[j]
  BY <1>3 DEF CallsOK, SocketsOK, TablesOK
<1>5. late[c] BY DEF Misread, CallsOK, ParsersOK
<1>6. \/ UNCHANGED <<call, parser>>
      \/ (\E all : Results(c, all)) /\ (UNCHANGED parser \/ \E m : Keeps(c, m))
      \/ Failed(c) /\ UNCHANGED parser
  BY DEF Misread, Yields
<1>7. /\ DOMAIN parser' = Client
      /\ \A d \in Client : d # c => parser'[d] = parser[d]
  BY <1>6 DEF Keeps, CallsOK, SocketsOK, TablesOK
<1>8. /\ DOMAIN waiting' = Client /\ DOMAIN got' = Client /\ DOMAIN own' = Client
      /\ \A d \in Client : d # c =>
            waiting'[d] = waiting[d] /\ got'[d] = got[d] /\ own'[d] = own[d]
      /\ waiting'[c] = <<>> \/ waiting' = waiting
  <2>1. CASE UNCHANGED call BY <2>1 DEF call, CallsOK, SocketsOK, TablesOK
  <2>2. CASE Failed(c) BY <2>2 DEF Failed, CallsOK, SocketsOK, TablesOK
  <2>3. CASE \E all : Results(c, all)
    <3>1. PICK all : Results(c, all) BY <2>3
    <3> QED BY <3>1 DEF Results, Return, CallsOK, SocketsOK, TablesOK
  <2> QED BY <1>6, <2>1, <2>2, <2>3
<1>9. SocketsOK'
  <2>1. CASE waiting'[c] = <<>>
    BY <1>3, <1>4, <1>7, <1>8, <2>1, EndedSockets DEF CallsOK, SocketsOK, TablesOK
  <2>2. CASE waiting' = waiting
    <3>1. TablesOK' BY <1>3, <1>4, <1>7, <1>8, <2>2 DEF CallsOK, SocketsOK, TablesOK
    <3>2. \A d \in Client : Replies(waiting[d], Before(d))' /\ Before(d)' \in Nat
      BY <1>3, <2>2 DEF CallsOK, SocketsOK, Before, Replies
    <3> QED BY <1>3, <2>2, <3>1, <3>2 DEF CallsOK, SocketsOK, Waits
  <2> QED BY <1>8, <2>1, <2>2
<1>10. late'[c] /\ ~Quiet(c)' BY <1>3, <1>5 DEF Quiet
<1>11. sock'[c] = k /\ phase'[k] # "free" /\ \A d \in Client : sock[d] # k \/ d = c
  BY <1>1, <1>3 DEF CallsOK, SocketsOK
<1> QED BY <1>3, <1>4, <1>7, <1>8, <1>9, <1>10, <1>11, OthersSound

LEMMA EndOfStreamCalls ==
    ASSUME CallsOK, IInv, NEW c \in Client, EndOfStream(c)
    PROVE  CallsOK'
<1>1. PICK k \in Conn : k = sock[c] /\ sock[c] # NoConn
  BY ClientAssumption DEF EndOfStream, CallsOK, SocketsOK, TablesOK
<1>2. /\ turn = Nobody /\ phase[k] = "ended"
      /\ replies' = [replies EXCEPT ![k] = <<>>]
      /\ UNCHANGED <<phase, turn, chunk, tx, run, requests, hungup, broker>>
      /\ UNCHANGED <<own, sock, sent, pushed>>
  BY <1>1 DEF EndOfStream, Failed, Closed
<1>3. replies'[k] = <<>> /\ DOMAIN replies' = Conn
      /\ \A j \in Conn : j # k => replies'[j] = replies[j]
  BY <1>2 DEF CallsOK, SocketsOK, TablesOK
<1>4. /\ waiting'[c] = <<>> /\ got'[c] = <<>>
      /\ DOMAIN waiting' = Client /\ DOMAIN got' = Client
      /\ \A d \in Client : d # c => waiting'[d] = waiting[d] /\ got'[d] = got[d]
  BY DEF EndOfStream, Failed, CallsOK, SocketsOK, TablesOK
<1>8. /\ unsent'[c] = <<>> /\ late'[c] = (late[c] \/ parser[c] # "clean")
      /\ parser'[c] = (IF parser[c] = "clean" THEN parser[c] ELSE "adrift")
      /\ DOMAIN unsent' = Client /\ DOMAIN late' = Client /\ DOMAIN parser' = Client
      /\ \A d \in Client : d # c =>
            unsent'[d] = unsent[d] /\ late'[d] = late[d] /\ parser'[d] = parser[d]
  BY DEF EndOfStream, Abandoned, CallsOK, SocketsOK, TablesOK
<1>9. late'[c] \/ parser'[c] # "adrift" BY <1>8
<1>5. SocketsOK' BY <1>8, <1>2, <1>3, <1>4, EndedSockets DEF CallsOK, SocketsOK, TablesOK
<1>6. ASSUME Quiet(c)' PROVE Untroubled(c, k)'
  <2>1. Quiet(c) /\ Untroubled(c, k) BY <1>1, <1>2, <1>6, <1>8 DEF Quiet, CallsOK
  <2>2. InPubSub(k)' = InPubSub(k) BY <1>2, BrokerUnchanged DEF IInv
  <2>3. sent'[c] \in Nat BY <1>2 DEF CallsOK, SocketsOK, TablesOK
  <2>4. turn' # k BY <1>2, SessionsAssumption
  <2> QED BY <1>2, <1>3, <1>4, <1>8, <2>1, <2>2, <2>3, <2>4, CallOver DEF Untroubled
<1>7. sock'[c] = k /\ phase'[k] # "free" /\ \A d \in Client : sock[d] # k \/ d = c
  BY <1>1, <1>2 DEF CallsOK, SocketsOK
<1> QED BY <1>2, <1>3, <1>4, <1>5, <1>6, <1>7, <1>8, <1>9, OthersSound

\* The connection is not quiet any more: a late reply may be on its way.
LEMMA TimeoutCalls ==
    ASSUME CallsOK, IInv, NEW c \in Client, Timeout(c)
    PROVE  CallsOK'
<1>1. PICK k \in Conn : k = sock[c] /\ sock[c] # NoConn
  BY ClientAssumption DEF Timeout, CallsOK, SocketsOK, TablesOK
<1>2. /\ turn = Nobody
      /\ UNCHANGED <<phase, turn, chunk, tx, run, requests, replies, hungup, broker>>
      /\ UNCHANGED <<own, sock, sent, pushed, unsent, parser>>
  BY DEF Timeout, Failed, server, wires
<1>3. /\ waiting'[c] = <<>> /\ got'[c] = <<>> /\ late'[c] = TRUE
      /\ DOMAIN waiting' = Client /\ DOMAIN got' = Client /\ DOMAIN late' = Client
      /\ \A d \in Client : d # c =>
            waiting'[d] = waiting[d] /\ got'[d] = got[d] /\ late'[d] = late[d]
  BY DEF Timeout, Failed, CallsOK, SocketsOK, TablesOK
<1>4. SocketsOK' BY <1>2, <1>3, EndedSockets DEF CallsOK, SocketsOK, TablesOK
<1>5. ~Quiet(c)' BY <1>3 DEF Quiet
<1>6. sock'[c] = k /\ phase'[k] # "free" /\ \A d \in Client : sock[d] # k \/ d = c
  BY <1>1, <1>2 DEF CallsOK, SocketsOK
<1> QED BY <1>2, <1>3, <1>4, <1>5, <1>6, OthersSound

LEMMA CloseCalls ==
    ASSUME CallsOK, IInv, NEW c \in Client, Close(c)
    PROVE  CallsOK'
<1>1. PICK k \in Conn : k = sock[c] /\ sock[c] # NoConn
  BY ClientAssumption DEF Close, CallsOK, SocketsOK, TablesOK
<1>2. /\ turn = Nobody /\ waiting[c] = <<>>
      /\ replies' = [replies EXCEPT ![k] = <<>>]
      /\ hungup' = [hungup EXCEPT ![k] = TRUE]
      /\ UNCHANGED <<phase, turn, chunk, tx, run, requests, broker, waiting, got, own>>
  BY <1>1 DEF Close, Waits, call
<1>3. /\ DOMAIN replies' = Conn /\ DOMAIN hungup' = Conn
      /\ \A j \in Conn : j # k => replies'[j] = replies[j] /\ hungup'[j] = hungup[j]
  BY <1>2 DEF CallsOK, SocketsOK, TablesOK
<1>4. /\ sock'[c] = NoConn /\ sent'[c] = 0
      /\ sock' \in [Client -> Conn \cup {NoConn}] /\ sent' \in [Client -> Nat]
      /\ DOMAIN late' = Client /\ DOMAIN pushed' = Client
      /\ \A d \in Client : d # c =>
            sock'[d] = sock[d] /\ sent'[d] = sent[d] /\ late'[d] = late[d] /\ pushed'[d] = pushed[d]
  BY DEF Close, CallsOK, SocketsOK, TablesOK
<1>9. /\ late'[c] = (parser[c] # "clean")
      /\ parser'[c] = (IF parser[c] = "clean" THEN parser[c] ELSE "adrift")
      /\ DOMAIN unsent' = Client /\ DOMAIN parser' = Client
      /\ \A d \in Client : d # c => unsent'[d] = unsent[d] /\ parser'[d] = parser[d]
  BY DEF Close, Abandoned, CallsOK, SocketsOK, TablesOK
<1>10. late'[c] \/ parser'[c] # "adrift" BY <1>9
<1>5. SocketsOK'
  <2>1. TablesOK' BY <1>2, <1>3, <1>4, <1>9 DEF CallsOK, SocketsOK, TablesOK
  <2>2. Before(c)' = 0 /\ Replies(waiting[c], Before(c))'
    <3>1. waiting'[c] = <<>> /\ sent'[c] = 0 BY <1>2, <1>4
    <3>2. Before(c)' = sent'[c] - Len(waiting'[c]) BY DEF Before
    <3>3. Before(c)' = 0
      <4>1. Len(<<>>) = 0 /\ 0 - 0 = 0 OBVIOUS
      <4> QED BY <3>1, <3>2, <4>1
    <3> QED BY <3>1, <3>3, RepliesNone
  <2>3. ASSUME NEW d \in Client, d # c PROVE Replies(waiting[d], Before(d))' /\ Before(d)' \in Nat
    <3>1. Replies(waiting[d], Before(d)) /\ Before(d) \in Nat BY DEF CallsOK, SocketsOK
    <3>2. waiting'[d] = waiting[d] /\ sent'[d] = sent[d] BY <1>2, <1>4, <2>3
    <3> QED BY <3>1, <3>2 DEF Before, Replies
  <2>4. \A d \in Client : sock'[d] # NoConn => phase'[sock'[d]] # "free"
    BY <1>2, <1>4 DEF CallsOK, SocketsOK
  <2>5. \A d \in Client : Waits(d)' => sock'[d] # NoConn
    BY <1>2, <1>4 DEF CallsOK, SocketsOK, Waits
  <2>6. \A d, e \in Client : sock'[d] = sock'[e] => sock'[d] = NoConn \/ d = e
    BY <1>4 DEF CallsOK, SocketsOK
  <2> QED BY <2>1, <2>2, <2>3, <2>4, <2>5, <2>6 DEF SocketsOK
<1>6. ~Quiet(c)' BY <1>4 DEF Quiet
<1>7. phase'[k] # "free" /\ \A d \in Client : sock[d] # k \/ d = c
  BY <1>1, <1>2 DEF CallsOK, SocketsOK
<1>8. /\ turn = Nobody /\ UNCHANGED <<turn, chunk, run, tx, broker>>
      /\ \A j \in Conn : j # k => phase'[j] = phase[j] /\ requests'[j] = requests[j]
      /\ \A d \in Client : waiting'[d] = waiting[d] /\ got'[d] = got[d] /\ own'[d] = own[d]
  BY <1>2
<1> QED BY <1>3, <1>4, <1>5, <1>6, <1>7, <1>8, <1>9, <1>10, OthersSound

LEMMA UseCalls ==
    ASSUME CallsOK, IInv, NEW c \in Client, Use(c)
    PROVE  CallsOK'
BY CallCalls, ConnectCalls, TransmitCalls, ReceiveCalls, MisreadCalls, EndOfStreamCalls,
   TimeoutCalls, CloseCalls DEF Use

LEMMA UnchangedCalls ==
    ASSUME CallsOK, UNCHANGED <<turn, phase, chunk, run, tx, requests, replies, hungup, broker>>,
           UNCHANGED <<sock, call, unsent, parser, sent, late, pushed>>
    PROVE  CallsOK'
<1>1. UNCHANGED <<waiting, got, own, channels, patterns>> BY DEF call, broker
<1>2. SocketsOK' BY <1>1 DEF CallsOK, SocketsOK, TablesOK, Before, Replies, Waits
<1>3. \A k \in Conn : Fresh(k)' = Fresh(k) BY DEF Fresh
<1>4. \A c \in Client : Quiet(c)' = Quiet(c) BY DEF Quiet
<1>5. ASSUME NEW c \in Client, Untroubled(c, sock[c]) PROVE Untroubled(c, sock[c])'
  <2>1. PICK k : k = sock[c] OBVIOUS
  <2>2. Cut(c, k) => Cut(c, k)' BY <1>1 DEF Cut, Replies, Received, Before, OnTheWay
  <2>3. Flows(c, k) => Flows(c, k)'
    BY <1>1 DEF Flows, Replies, Asked, Received, Before, OnTheWay, Taken, Unread, Handed, Ongoing
  <2>4. InPubSub(k)' = InPubSub(k) BY <1>1 DEF InPubSub
  <2>5. Untroubled(c, k)' BY <1>1, <1>5, <2>1, <2>2, <2>3, <2>4 DEF Untroubled
  <2> QED BY <2>1, <2>5
<1>6. ParsersOK' BY DEF CallsOK, ParsersOK
<1> QED BY <1>2, <1>3, <1>4, <1>5, <1>6 DEF CallsOK

LEMMA InitCalls == Init => CallsOK
<1> SUFFICES ASSUME Init PROVE CallsOK
  OBVIOUS
<1>1. TablesOK BY DEF Init, SessionsInit, TablesOK
<1>2. \A c \in Client : waiting[c] = <<>> /\ sent[c] = 0 /\ sock[c] = NoConn BY DEF Init
<1>3. \A c \in Client : Replies(waiting[c], Before(c)) /\ Before(c) \in Nat
  <2>1. \A c \in Client : Before(c) = 0 BY <1>2 DEF Before
  <2> QED BY <1>2, <2>1, RepliesNone
<1>4. SocketsOK BY <1>1, <1>2, <1>3 DEF SocketsOK, Waits
<1>5. \A k \in Conn : Fresh(k) BY DEF Init, SessionsInit, Fresh
<1>6. ParsersOK BY DEF Init, ParsersOK
<1> QED BY <1>2, <1>4, <1>5, <1>6 DEF CallsOK, Quiet

LEMMA CallsStep == IInv /\ CallsOK /\ [Next]_vars => CallsOK'
<1> SUFFICES ASSUME IInv, CallsOK, [Next]_vars PROVE CallsOK'
  OBVIOUS
<1>1. CASE UNCHANGED vars BY <1>1, UnchangedCalls DEF vars, server, wires, clients
<1>2. CASE Serve /\ \E k \in Conn : Handler(k) BY <1>2, HandlerCalls DEF Serve
<1>3. CASE Serve /\ (BeginShutdown \/ EndShutdown)
  BY <1>3, UnchangedCalls DEF Serve, BeginShutdown, EndShutdown, wires, clients
<1>4. CASE \E c \in Client : Use(c) BY <1>4, UseCalls
<1> QED BY <1>1, <1>2, <1>3, <1>4 DEF Next, Serve, ServerStep
-----------------------------------------------------------------------------
(***************************************************************************)
(* However the requests of calls and pipelines and the replies to them are *)
(* cut by the connection, in the middle of a reply too, whatever           *)
(* transactions they make and whenever the server ends a connection or     *)
(* refuses it, a call of the client library (client/client.py) that returns*)
(* has the replies to its own requests, as long as no call on the          *)
(* connection timed out, none before it left the beginning of a reply in   *)
(* the parser, which closing the connection does not clear, and it is not  *)
(* used for Pub/Sub.                                                       *)
(***************************************************************************)
THEOREM AnswersAreOwn == Spec => []OwnAnswer
<1>1. CallsOK => OwnAnswer BY DEF CallsOK, Quiet, Untroubled, OwnAnswer
<1> QED BY <1>1, InitSound, StepSound, InitCalls, CallsStep, PTL DEF Spec
=============================================================================
