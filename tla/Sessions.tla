------------------------------ MODULE Sessions ------------------------------
(***************************************************************************)
(* The server's side of its connections: the handler of a connection and   *)
(* shutdown (server/server.py), the gates of the dispatcher in front of the*)
(* commands (server/dispatcher.py), MULTI and EXEC, and Pub/Sub.           *)
(*                                                                         *)
(* The handlers are tasks of one event loop.  A handler reads a chunk of   *)
(* requests and runs them all before it lets go of the loop: the commands  *)
(* of a chunk are steps of their own here, and turn names the connection   *)
(* whose chunk it is.  A request is a pair of a command and a number that  *)
(* is unique on its connection, a reply the number of its request.         *)
(***************************************************************************)
EXTENDS PubSub, Integers

CONSTANTS MaxClients,              \* settings.max_clients
          RequestRoom,             \* requests that fit on the way to the server
          ReplyRoom,               \* replies that fit on the way back before drain waits
          Nobody                   \* no connection has the loop

ASSUME SessionsAssumption ==
    /\ MaxClients \in Nat /\ Nobody \notin Conn
    /\ RequestRoom \in Nat \ {0} /\ ReplyRoom \in Nat

VARIABLES status,                  \* "running", "asked" to stop, "closing" or "down"
          phase,                   \* where the handler of a connection is
          turn,                    \* connection whose chunk is being run
          chunk,                   \* requests read and not yet run
          tx,                      \* TransactionState of a connection
          quit,                    \* should_close of a connection
          run,                     \* the transaction that EXEC is running
          requests,                \* sent by the client and not yet read
          replies,                 \* written by the server and not yet received
          hungup                   \* the client has closed its end

wires == <<requests, replies, hungup>>
server == <<status, phase, turn, chunk, tx, quit, run, wires, broker>>

Message == -1                      \* a reply that answers no request
Rejected == 0                      \* the error that max_clients were reached

(***************************************************************************)
(* A transaction that is open has a queue; none is running when its number *)
(* is 0.                                                                   *)
(***************************************************************************)
NoTx == [open |-> FALSE, queue |-> <<>>]
NoRun == [id |-> 0, rest |-> <<>>]

SessionsInit ==
    /\ PubSubInit
    /\ status = "running"
    /\ phase = [k \in Conn |-> "free"]
    /\ turn = Nobody
    /\ chunk = [k \in Conn |-> <<>>]
    /\ tx = [k \in Conn |-> NoTx]
    /\ quit = [k \in Conn |-> FALSE]
    /\ run = NoRun
    /\ requests = [k \in Conn |-> <<>>]
    /\ replies = [k \in Conn |-> <<>>]
    /\ hungup = [k \in Conn |-> FALSE]

\* Connections that are in _clients, and those whose transport is open.
Clients == {k \in Conn : phase[k] \in {"reading", "flushing"}}
Attached == {k \in Conn : phase[k] \notin {"free", "ended"}}

\* What is written to a connection whose client is gone is lost.
Written(k, some) == IF hungup[k] THEN replies[k] ELSE replies[k] \o some

Reply(k, id) == replies' = [replies EXCEPT ![k] = Written(k, <<id>>)]

\* What a command answers is one of the results while EXEC runs.
Answer(k, id) == IF run = NoRun THEN Reply(k, id) ELSE UNCHANGED replies
-----------------------------------------------------------------------------
(***************************************************************************)
(* The handler of a connection (_handle_client).                           *)
(***************************************************************************)
\* The condition of its loop.
GoesOn(k) == status \in {"running", "asked"} /\ ~quit[k]

\* Wrong on purpose: a connection too many is told so and then left open.
BeginLeavingOpen(k) ==
    /\ turn = Nobody /\ phase[k] = "new"
    /\ IF Cardinality(Clients) >= MaxClients
       THEN phase' = [phase EXCEPT ![k] = "stuck"] /\ Reply(k, Rejected)
       ELSE /\ phase' = [phase EXCEPT ![k] = IF GoesOn(k) THEN "reading" ELSE "ended"]
            /\ UNCHANGED replies
    /\ UNCHANGED <<status, turn, chunk, tx, quit, run, requests, hungup, broker>>

Begin(k) ==
    /\ turn = Nobody /\ phase[k] = "new"
    /\ IF Cardinality(Clients) >= MaxClients
       THEN phase' = [phase EXCEPT ![k] = "ended"] /\ Reply(k, Rejected)
       ELSE /\ phase' = [phase EXCEPT ![k] = IF GoesOn(k) THEN "reading" ELSE "ended"]
            /\ UNCHANGED replies
    /\ UNCHANGED <<status, turn, chunk, tx, quit, run, requests, hungup, broker>>

\* A chunk may end anywhere in what the client has sent.
Read(k) ==
    /\ turn = Nobody /\ phase[k] = "reading"
    /\ \E n \in 1..Len(requests[k]) :
          /\ chunk' = [chunk EXCEPT ![k] = SubSeq(requests[k], 1, n)]
          /\ requests' = [requests EXCEPT ![k] = SubSeq(@, n + 1, Len(@))]
    /\ turn' = k
    /\ UNCHANGED <<status, phase, tx, quit, run, replies, hungup, broker>>

\* The chunk has been run: the handler flushes, and lets go of the loop.
ChunkDone(k) ==
    /\ turn = k /\ run = NoRun /\ chunk[k] = <<>>
    /\ turn' = Nobody
    /\ phase' = [phase EXCEPT ![k] = "flushing"]
    /\ UNCHANGED <<status, chunk, tx, quit, run, wires, broker>>

\* The finally clause.  The connection's object goes with it.
Finish(k) ==
    /\ RemoveConnection(k)
    /\ phase' = [phase EXCEPT ![k] = "ended"]
    /\ tx' = [tx EXCEPT ![k] = NoTx]
    /\ quit' = [quit EXCEPT ![k] = FALSE]
    /\ UNCHANGED <<status, turn, chunk, run, wires>>

\* The client is gone: the end of its stream, or a reset that loses what it had sent.
ReadEnd(k) ==
    /\ turn = Nobody /\ phase[k] = "reading" /\ hungup[k]
    /\ Finish(k)

\* drain waits until the replies fit on the way, or fails when the client is gone.
Loop(k) ==
    /\ turn = Nobody /\ phase[k] = "flushing"
    /\ Len(replies[k]) <= ReplyRoom \/ hungup[k]
    /\ IF GoesOn(k)
       THEN /\ phase' = [phase EXCEPT ![k] = "reading"]
            /\ UNCHANGED <<status, turn, chunk, tx, quit, run, wires, broker>>
       ELSE Finish(k)
-----------------------------------------------------------------------------
(***************************************************************************)
(* The dispatcher: commands that a connection in Pub/Sub mode may send, and*)
(* commands that are not queued in a transaction.                          *)
(***************************************************************************)
InPubSubAllowed == {"SUBSCRIBE", "UNSUBSCRIBE", "PSUBSCRIBE", "PUNSUBSCRIBE", "QUIT"}

\* Wrong on purpose: SUBSCRIBE runs at once inside a transaction.
NotQueuedAndSubscribe == {"EXEC", "MULTI", "QUIT", "SUBSCRIBE"}

NotQueued == {"EXEC", "MULTI", "QUIT"}

Refuses(k, op) == InPubSub(k) /\ op \notin InPubSubAllowed

Queue(k, req) ==
    /\ tx' = [tx EXCEPT ![k].queue = Append(@, req)]
    /\ Answer(k, req[2])
    /\ UNCHANGED <<status, quit, broker>>

Plain(k, id) ==
    /\ Answer(k, id)
    /\ UNCHANGED <<status, tx, quit, broker>>

\* Refused inside a transaction.
Multi(k, id) ==
    /\ tx' = [tx EXCEPT ![k].open = TRUE]
    /\ Answer(k, id)
    /\ UNCHANGED <<status, quit, broker>>

\* EXEC closes the transaction, then runs what was queued.
Exec(k, id) ==
    /\ tx' = [tx EXCEPT ![k] = NoTx]
    /\ IF tx[k].open
       THEN run' = [id |-> id, rest |-> tx[k].queue] /\ UNCHANGED replies
       ELSE Answer(k, id) /\ UNCHANGED run
    /\ UNCHANGED <<status, quit, broker>>

Quit(k, id) ==
    /\ quit' = [quit EXCEPT ![k] = TRUE]
    /\ Answer(k, id)
    /\ UNCHANGED <<status, tx, broker>>

\* SHUTDOWN makes a task that stops the server later.
Shutdown(k, id) ==
    /\ status' = IF status = "running" THEN "asked" ELSE status
    /\ Answer(k, id)
    /\ UNCHANGED <<tx, quit, broker>>

(***************************************************************************)
(* The confirmations go straight to the socket, inside EXEC too: one for   *)
(* each name, or one that says there was none to unsubscribe from.         *)
(***************************************************************************)
Confirm(k, id, names) ==
    replies' = [replies EXCEPT ![k] = Written(k, [i \in 1..Cardinality(names) |-> id])]

ConfirmOneAtLeast(k, id, names) ==
    IF names = {} THEN Reply(k, id) ELSE Confirm(k, id, names)

SubscribeCommand(k, id) ==
    \E names \in SUBSET Channel : names # {} /\ Subscribe(k, names) /\ Confirm(k, id, names)

PSubscribeCommand(k, id) ==
    \E names \in SUBSET Pattern : names # {} /\ PSubscribe(k, names) /\ Confirm(k, id, names)

\* All that the connection has, or one by name.
Named(all) == {{name} : name \in all}

\* Wrong on purpose: nothing to unsubscribe from, no confirmation.
UnsubscribeCommandSilent(k, id) ==
    \E names \in {channels[k]} \cup Named(Channel) : Unsubscribe(k, names) /\ Confirm(k, id, names)

UnsubscribeCommand(k, id) ==
    \E names \in {channels[k]} \cup Named(Channel) :
        Unsubscribe(k, names) /\ ConfirmOneAtLeast(k, id, names)

PUnsubscribeCommand(k, id) ==
    \E names \in {patterns[k]} \cup Named(Pattern) :
        PUnsubscribe(k, names) /\ ConfirmOneAtLeast(k, id, names)

\* send_raw writes to a connection unless it is being closed.
Publish(k, id) ==
    /\ \E ch \in Channel :
          replies' = [c \in Conn |->
              IF c = k /\ run = NoRun THEN Written(c, <<id>>)
              ELSE IF c \in Clients THEN Written(c, [i \in 1..Copies(c, ch) |-> Message])
              ELSE replies[c]]
    /\ UNCHANGED <<status, tx, quit, broker>>

\* The commands that run by themselves and in a transaction alike.
Execute(k, op, id) ==
    \/ op = "GET" /\ Plain(k, id)
    \/ op = "SHUTDOWN" /\ Shutdown(k, id)
    \/ op = "PUBLISH" /\ Publish(k, id)
    \/ /\ \/ op = "SUBSCRIBE" /\ SubscribeCommand(k, id)
          \/ op = "PSUBSCRIBE" /\ PSubscribeCommand(k, id)
          \/ op = "UNSUBSCRIBE" /\ UnsubscribeCommand(k, id)
          \/ op = "PUNSUBSCRIBE" /\ PUnsubscribeCommand(k, id)
       /\ UNCHANGED <<status, tx, quit>>

Dispatch(k, op, id) ==
    IF Refuses(k, op) THEN Plain(k, id) /\ UNCHANGED run
    ELSE IF tx[k].open /\ op \notin NotQueued THEN Queue(k, <<op, id>>) /\ UNCHANGED run
    ELSE \/ op = "EXEC" /\ Exec(k, id)
         \/ /\ \/ op = "MULTI" /\ Multi(k, id)
               \/ op = "QUIT" /\ Quit(k, id)
               \/ Execute(k, op, id)
            /\ UNCHANGED run

(***************************************************************************)
(* The next request of the chunk; the next command of a transaction, which *)
(* passes the gates once more; the answer to EXEC, all results in one.     *)
(***************************************************************************)
RunNext(k) ==
    /\ turn = k /\ run = NoRun /\ chunk[k] # <<>>
    /\ LET req == Head(chunk[k]) IN Dispatch(k, req[1], req[2])
    /\ chunk' = [chunk EXCEPT ![k] = Tail(@)]
    /\ UNCHANGED <<turn, phase, requests, hungup>>

RunQueued(k) ==
    /\ turn = k /\ run.rest # <<>>
    /\ LET req == Head(run.rest)
       IN  IF Refuses(k, req[1]) THEN Plain(k, req[2]) ELSE Execute(k, req[1], req[2])
    /\ run' = [run EXCEPT !.rest = Tail(@)]
    /\ UNCHANGED <<turn, phase, chunk, requests, hungup>>

ExecDone(k) ==
    /\ turn = k /\ run # NoRun /\ run.rest = <<>>
    /\ Reply(k, run.id)
    /\ run' = NoRun
    /\ UNCHANGED <<status, turn, phase, chunk, tx, quit, requests, hungup, broker>>

Handler(k) ==
    \/ Begin(k) \/ Read(k) \/ ReadEnd(k) \/ Loop(k)
    \/ RunNext(k) \/ RunQueued(k) \/ ExecDone(k) \/ ChunkDone(k)
-----------------------------------------------------------------------------
(***************************************************************************)
(* shutdown: closes the listening socket and waits for it, that is, from   *)
(* Python 3.12 on, until every connection it has accepted is closed.       *)
(***************************************************************************)
BeginShutdown ==
    /\ turn = Nobody /\ status = "asked"
    /\ status' = "closing"
    /\ UNCHANGED <<phase, turn, chunk, tx, quit, run, wires, broker>>

EndShutdown ==
    /\ turn = Nobody /\ status = "closing" /\ Attached = {}
    /\ status' = "down"
    /\ UNCHANGED <<phase, turn, chunk, tx, quit, run, wires, broker>>

ServerStep ==
    \/ \E k \in Conn : Handler(k)
    \/ BeginShutdown \/ EndShutdown
-----------------------------------------------------------------------------
(***************************************************************************)
(* The broker's tables and the connections' own sets say the same, and a   *)
(* connection that has ended, however it did, is in neither: no message is *)
(* written to it for ever after.                                           *)
(***************************************************************************)
SubscriptionsSound ==
    /\ \A k \in Conn : channels[k] = {ch \in Channel : k \in subscribers[ch]}
    /\ \A k \in Conn : patterns[k] = {p \in Pattern : k \in psubscribers[p]}
    /\ \A k \in Conn : InPubSub(k) => phase[k] \in {"reading", "flushing"}

(***************************************************************************)
(* No connection is subscribed while its transaction is open: the gate of  *)
(* Pub/Sub, which comes first, would refuse EXEC and DISCARD, and the      *)
(* transaction could not be ended.                                         *)
(***************************************************************************)
NotBothModes == \A k \in Conn : ~(tx[k].open /\ InPubSub(k))
=============================================================================
