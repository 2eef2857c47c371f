--------------------------- MODULE ClientLibrary ----------------------------
(***************************************************************************)
(* The client library (client/client.py, client/pool.py) against the       *)
(* server.  A client has one connection, opens it when it needs one and    *)
(* keeps it whatever happens to a call, until it is told to close it.  Its *)
(* parser it keeps even then.                                              *)
(***************************************************************************)
EXTENDS Sessions

CONSTANTS Client,                  \* clients, each used by one thread
          Calls,                   \* what a client may send: a command, or a pipeline of some
          NoConn,                  \* no connection
          Budgets                  \* bound: calls of each client and timeouts of a behaviour

ASSUME ClientAssumption ==
    /\ NoConn \notin Conn
    /\ Calls \in [Client -> SUBSET Seq(STRING)]
    /\ Budgets \subseteq [calls : [Client -> Nat], timeouts : Nat]

VARIABLES sock,                    \* the connection of a client
          waiting,                 \* numbers of the requests of the call in progress
          unsent,                  \* those that sendall has not handed over yet
          got,                     \* replies it has received
          parser,                  \* "clean", or holds the beginning of a reply: "begun", "adrift"
          sent,                    \* requests made on the connection so far
          left,                    \* what is left of the budget
          late,                    \* history: a call on this connection timed out, or the parser
                                   \* had kept the beginning of a reply of an earlier one
          pushed,                  \* history: it has been used for Pub/Sub
          own                      \* history: the last call returned its own replies

call == <<waiting, got, own>>
clients == <<sock, call, unsent, parser, sent, left, late, pushed>>
vars == <<server, clients>>

Waits(c) == waiting[c] # <<>>
Closed(k) == phase[k] = "ended"

Garbled == -2                      \* what a parser makes of what is not a reply

Numbered(ops, from) == [i \in DOMAIN ops |-> <<ops[i], from + i>>]

(***************************************************************************)
(* A call of execute, of a pipeline or of a single command: all requests   *)
(* are sent before the first reply is received.  sendall hands over as much*)
(* as there is room for on the way, and waits while there is none.         *)
(* Clients act between two chunks only: whatever they do while one is run  *)
(* is noticed after it.                                                    *)
(***************************************************************************)
Send(c, first, ops) ==
    /\ unsent' = [unsent EXCEPT ![c] = Numbered(ops, first)]
    /\ waiting' = [waiting EXCEPT ![c] = [i \in DOMAIN ops |-> first + i]]
    /\ got' = [got EXCEPT ![c] = <<>>]
    /\ own' = [own EXCEPT ![c] = TRUE]
    /\ sent' = [sent EXCEPT ![c] = first + Len(ops)]
    /\ left' = [left EXCEPT !.calls[c] = @ - 1]
    /\ pushed' = [pushed EXCEPT ![c] =
                     @ \/ \E i \in DOMAIN ops : ops[i] \in InPubSubAllowed \ {"QUIT"}]
    /\ UNCHANGED <<status, turn, chunk, tx, quit, run, wires, broker, parser, late>>

Transmit(c) ==
    /\ turn = Nobody /\ Waits(c)
    /\ \E n \in 1..Len(unsent[c]) :
          /\ \/ n = RequestRoom - Len(requests[sock[c]])
             \/ n = Len(unsent[c]) /\ n < RequestRoom - Len(requests[sock[c]])
          /\ requests' = [requests EXCEPT ![sock[c]] = @ \o SubSeq(unsent[c], 1, n)]
          /\ unsent' = [unsent EXCEPT ![c] = SubSeq(@, n + 1, Len(@))]
    /\ UNCHANGED <<status, phase, turn, chunk, tx, quit, run, replies, hungup, broker>>
    /\ UNCHANGED <<sock, call, parser, sent, left, late, pushed>>

(***************************************************************************)
(* Nothing more is asked on a connection that a timeout left with a request*)
(* cut short: it has to be closed first.                                   *)
(***************************************************************************)
CanCall(c) == turn = Nobody /\ ~Waits(c) /\ unsent[c] = <<>> /\ left.calls[c] > 0

Call(c) ==
    /\ CanCall(c) /\ sock[c] # NoConn
    /\ \E ops \in Calls[c] : Send(c, sent[c], ops)
    /\ UNCHANGED <<phase, sock>>

\* connect is refused when nobody listens.
ConnectAndCall(c) ==
    /\ CanCall(c) /\ sock[c] = NoConn
    /\ status \in {"running", "asked"}
    /\ \E k \in {j \in Conn : phase[j] = "free"} :
          /\ \A j \in Conn : phase[j] = "free" => k <= j
          /\ sock' = [sock EXCEPT ![c] = k]
          /\ phase' = [phase EXCEPT ![k] = "new"]
    /\ \E ops \in Calls[c] : Send(c, 0, ops)

(***************************************************************************)
(* The loop around recv.  Any number of replies may come at once and the   *)
(* beginning of the next, which stays in the parser; those beyond what the *)
(* call waits for are dropped.  One taken in part stays on the way here.   *)
(***************************************************************************)
Return(c, results) ==
    /\ waiting' = [waiting EXCEPT ![c] = <<>>]
    /\ got' = [got EXCEPT ![c] = <<>>]
    /\ own' = [own EXCEPT ![c] = results = waiting[c] \/ Head(results) = Rejected]

Results(c, all) ==
    IF Len(all) >= Len(waiting[c]) THEN Return(c, SubSeq(all, 1, Len(waiting[c])))
    ELSE got' = [got EXCEPT ![c] = all] /\ UNCHANGED <<waiting, own>>

Receives(c) == turn = Nobody /\ Waits(c) /\ unsent[c] = <<>>

Takes(c, n) ==
    /\ replies' = [replies EXCEPT ![sock[c]] = SubSeq(@, n + 1, Len(@))]
    /\ UNCHANGED <<status, phase, turn, chunk, tx, quit, run, requests, hungup, broker>>
    /\ UNCHANGED <<sock, unsent, sent, left, late, pushed>>

\* What the parser may hold after n replies.
Keeps(c, n) ==
    \/ n > 0 /\ parser' = [parser EXCEPT ![c] = "clean"]
    \/ /\ n < Len(replies[sock[c]]) /\ (n = 0 => parser[c] # "begun")
       /\ parser' = [parser EXCEPT ![c] = "begun"]

\* Wrong on purpose: a pipeline returns with the first replies that come.
ReceiveFirstChunk(c) ==
    /\ Receives(c) /\ parser[c] # "adrift"
    /\ \E n \in 1..Len(replies[sock[c]]) :
          Takes(c, n) /\ Keeps(c, n) /\ Return(c, SubSeq(replies[sock[c]], 1, n))

Receive(c) ==
    /\ Receives(c) /\ parser[c] # "adrift"
    /\ \E n \in 0..Len(replies[sock[c]]) :
          /\ Takes(c, n) /\ Keeps(c, n)
          /\ Results(c, got[c] \o SubSeq(replies[sock[c]], 1, n))

Failed(c) ==
    /\ waiting' = [waiting EXCEPT ![c] = <<>>]
    /\ got' = [got EXCEPT ![c] = <<>>]
    /\ UNCHANGED <<own, sock, sent, pushed>>

(***************************************************************************)
(* The parser holds the beginning of a reply of a connection that is gone. *)
(* What comes next is taken for its rest: it is swallowed, or made into    *)
(* results that nobody sent with the last replies after them, or raises    *)
(* a ProtocolError, after which whole replies may be in the parser too.    *)
(***************************************************************************)
Yields(c, taken, junk) ==
    \E i \in 1..(Len(taken) + 1) :
        Results(c, got[c] \o [j \in 1..junk |-> Garbled] \o SubSeq(taken, i, Len(taken)))

Misread(c) ==
    /\ Receives(c) /\ parser[c] = "adrift"
    /\ \E n \in 0..Len(replies[sock[c]]) :
          /\ Takes(c, n)
          /\ \/ n > 0 /\ UNCHANGED <<call, parser>>
             \/ /\ \E junk \in 1..Len(waiting[c]) : Yields(c, SubSeq(replies[sock[c]], 1, n), junk)
                /\ UNCHANGED parser \/ Keeps(c, n)
             \/ Failed(c) /\ UNCHANGED parser

\* The parser keeps what it has; the rest of it will never come.
Abandoned(c) == [parser EXCEPT ![c] = IF @ = "clean" THEN @ ELSE "adrift"]

(***************************************************************************)
(* The server has closed the connection; what it had sent is lost if it    *)
(* left requests unread, and sendall fails if it is not done.              *)
(***************************************************************************)
EndOfStream(c) ==
    /\ turn = Nobody /\ Waits(c) /\ Closed(sock[c])
    /\ replies[sock[c]] = <<>> \/ requests[sock[c]] # <<>> \/ unsent[c] # <<>>
    /\ replies' = [replies EXCEPT ![sock[c]] = <<>>]
    /\ unsent' = [unsent EXCEPT ![c] = <<>>]
    /\ Failed(c)
    /\ parser' = Abandoned(c)
    /\ late' = [late EXCEPT ![c] = @ \/ parser[c] # "clean"]
    /\ UNCHANGED <<status, phase, turn, chunk, tx, quit, run, requests, hungup, broker, left>>

\* The timeout of the socket, in sendall or recv.  The connection is kept.
Timeout(c) ==
    /\ turn = Nobody /\ Waits(c)
    /\ Failed(c)
    /\ late' = [late EXCEPT ![c] = TRUE]
    /\ left.timeouts > 0
    /\ left' = [left EXCEPT !.timeouts = @ - 1]
    /\ UNCHANGED <<server, unsent, parser>>

Close(c) ==
    /\ turn = Nobody /\ ~Waits(c) /\ sock[c] # NoConn
    /\ replies' = [replies EXCEPT ![sock[c]] = <<>>]
    /\ sock' = [sock EXCEPT ![c] = NoConn]
    /\ hungup' = [hungup EXCEPT ![sock[c]] = TRUE]
    /\ sent' = [sent EXCEPT ![c] = 0]
    /\ unsent' = [unsent EXCEPT ![c] = <<>>]
    /\ parser' = Abandoned(c)
    /\ late' = [late EXCEPT ![c] = parser[c] # "clean"]
    /\ pushed' = [pushed EXCEPT ![c] = FALSE]
    /\ UNCHANGED <<status, phase, turn, chunk, tx, quit, run, requests, broker, call, left>>
-----------------------------------------------------------------------------
Init ==
    /\ SessionsInit
    /\ sock = [c \in Client |-> NoConn]
    /\ waiting = [c \in Client |-> <<>>]
    /\ unsent = [c \in Client |-> <<>>]
    /\ got = [c \in Client |-> <<>>]
    /\ parser = [c \in Client |-> "clean"]
    /\ sent = [c \in Client |-> 0]
    /\ left \in Budgets
    /\ late = [c \in Client |-> FALSE]
    /\ pushed = [c \in Client |-> FALSE]
    /\ own = [c \in Client |-> TRUE]

Serve == ServerStep /\ UNCHANGED clients

Use(c) ==
    \/ Call(c) \/ ConnectAndCall(c) \/ Transmit(c) \/ Receive(c) \/ Misread(c)
    \/ EndOfStream(c) \/ Timeout(c) \/ Close(c)

Next == Serve \/ \E c \in Client : Use(c)

(***************************************************************************)
(* The event loop runs every handler that can run, sendall goes on when    *)
(* there is room and recv returns when there is something to return: what a*)
(* parser that is adrift makes of it is left open.  Nobody has to make or  *)
(* end calls.                                                              *)
(***************************************************************************)
Fairness ==
    /\ \A k \in Conn : WF_vars(Handler(k) /\ UNCHANGED clients)
    /\ WF_vars((BeginShutdown \/ EndShutdown) /\ UNCHANGED clients)
    /\ \A c \in Client : WF_vars(Transmit(c)) /\ WF_vars(Receive(c) \/ EndOfStream(c))

Spec == Init /\ [][Next]_vars /\ Fairness
-----------------------------------------------------------------------------
(***************************************************************************)
(* A call that returns has the replies to its own requests, in their order,*)
(* wherever they and the requests were cut on the way, in the middle of a  *)
(* reply too, unless the server had no room for the connection.  Excepted  *)
(* are calls on a connection on which one timed out, which keeps its late  *)
(* reply for the next call; calls after a timeout or a lost connection had *)
(* left the beginning of a reply in the parser, which closing and opening  *)
(* the connection does not clear; and connections used for Pub/Sub, which  *)
(* are sent messages and, inside EXEC, replies out of turn.                *)
(***************************************************************************)
OwnAnswer ==
    \A c \in Client : sock[c] # NoConn /\ ~late[c] /\ ~pushed[c] => own[c]

(***************************************************************************)
(* A call ends without the help of its timeout: the server answers all that*)
(* it reads and closes the connection on what it does not.  Excepted are a *)
(* parser that is adrift, and a pipeline too long for what fits on the way:*)
(* the client will not receive before it has sent the rest, the handler    *)
(* will not read before its replies are taken, and both wait for ever.     *)
(***************************************************************************)
BothFull(c) ==
    /\ unsent[c] # <<>> /\ phase[sock[c]] = "flushing"
    /\ Len(requests[sock[c]]) = RequestRoom /\ Len(replies[sock[c]]) > ReplyRoom

Amiss(c) == parser[c] = "adrift" \/ \E i \in DOMAIN got[c] : got[c][i] = Garbled

CallsEnd == \A c \in Client : Waits(c) ~> ~Waits(c) \/ BothFull(c) \/ Amiss(c)

(***************************************************************************)
(* A shutdown comes to its end once no client keeps a connection, whether  *)
(* the server had accepted, refused or subscribed it.                      *)
(***************************************************************************)
ShutdownCompletes ==
    (<>[](\A c \in Client : sock[c] = NoConn)) => (status = "closing" ~> status = "down")
=============================================================================
