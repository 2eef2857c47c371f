----------------------------- MODULE Replication -----------------------------
(***************************************************************************)
(* A primary that streams its write commands to a replica over connections *)
(* that fail, and resynchronises it when it comes back                     *)
(* (replication/primary.py, replication/replica.py,                        *)
(* commands/replication.py and the calls of server/dispatcher.py).         *)
(*                                                                         *)
(* A value is a string or a container; a command is as long as it is given *)
(* to be, and its bytes are told apart by their position.  A connection    *)
(* keeps the order of the bytes and loses those that are under way when it *)
(* fails.  There is one database, and keys do not expire.                  *)
(***************************************************************************)
EXTENDS ReplicationBacklog, FiniteSets, SequencesExt

CONSTANTS
    Key,
    String,         \* string values clients write
    Absent,         \* no value
    BigString,      \* those of them that make a command fill the backlog
    Requests,       \* the write commands the clients send
    MaxOffset,      \* bound: bytes of the stream when a command is called
    MaxFailures,    \* bound: connections lost, REPLICAOF commands and
                    \* restarts of the primary
    MaxPings        \* bound: heartbeats sent

Container == "container"
Printed == "printed"      \* str() of a container
Value == String \cup {Container, Printed, Absent}

ClientCommand ==
    [op : {"SET"}, key : Key, val : String] \cup
    [op : {"PUSH", "DEL"}, key : Key, val : {Absent}]

Command ==
    ClientCommand \cup [op : {"SET"}, key : Key, val : {Printed}]
                  \cup [op : {"PING"}, key : {Absent}, val : {Absent}]

Ping == [op |-> "PING", key |-> Absent, val |-> Absent]

(***************************************************************************)
(* The bytes of an encoded command.                                        *)
(***************************************************************************)
Length(cmd) ==
    CASE cmd.op \in {"PING", "DEL"} -> 1
      [] cmd.val \in BigString -> Size + 1
      [] OTHER -> 2

Encode(cmd) == [i \in 1..Length(cmd) |-> [cmd |-> cmd, part |-> i]]

CommandByte == [cmd : Command, part : 1..(Size + 1)]

ASSUME ReplicationAssumption ==
    /\ Byte = CommandByte
    /\ IsFiniteSet(Key)
    /\ Absent \notin String \cup {Container, Printed} \cup Key
    /\ Requests \subseteq ClientCommand
    /\ BigString \subseteq String /\ {Container, Printed} \cap String = {}
    /\ MaxOffset \in Nat /\ MaxFailures \in Nat /\ MaxPings \in Nat

NoReply == [full |-> FALSE, replid |-> -1, offset |-> -1]

Unknown == 0   \* "?", no replication id

VARIABLES
    keyspace,   \* what the primary stores
    backlog,    \* the primary's backlog
    replid,     \* the primary's replication id, counting its starts
    link,       \* "down", "syncing" when PSYNC is on its way, "replied" when
                \* its reply is, "streaming"
    reply,      \* that reply line, or NoReply
    channel,    \* bytes on their way to the replica, behind the reply
    copy,       \* what the replica stores
    source,     \* master_replid
    offset,     \* processed_offset
    partial,    \* the incomplete command in the replica's parser
    failures, pings,   \* how much of their bounds was used
    stream,     \* history: every byte of the commands propagated by this start
    overfed,    \* history: one of them was no smaller than the backlog
    full,       \* history: this connection began with a full synchronisation
    stale,      \* history: the keys only the replica had at that moment
    snapshot,   \* history: how many bytes of that snapshot are in the channel
    reached     \* history: how far into the stream the replica has read

pvars == <<keyspace, backlog, replid, stream, overfed>>
rvars == <<copy, source, offset, reached>>
connection == <<link, reply, channel, partial, full, stale, snapshot>>
counters == <<failures, pings>>
vars == <<pvars, rvars, connection, counters>>

Nothing == [cmd |-> Ping, got |-> 0, clean |-> TRUE]

Init ==
    /\ keyspace = [k \in Key |-> Absent] /\ backlog = EmptyBacklog
    /\ replid = 1 /\ stream = <<>> /\ overfed = FALSE
    /\ link = "down" /\ reply = NoReply /\ channel = <<>> /\ partial = Nothing
    /\ full = FALSE /\ stale = {} /\ snapshot = 0
    /\ copy = [k \in Key |-> Absent]
    /\ source = Unknown /\ offset = -1 /\ reached = 0
    /\ failures = 0 /\ pings = 0

Online == link \in {"replied", "streaming"}

-----------------------------------------------------------------------------
(***************************************************************************)
(* Executing a command, on the primary and on the replica alike.           *)
(***************************************************************************)
Fails(data, cmd) == cmd.op = "PUSH" /\ data[cmd.key] \notin {Container, Absent}

Run(data, cmd) ==
    CASE cmd.op = "PING" \/ Fails(data, cmd) -> data
      [] cmd.op = "PUSH" /\ ~Fails(data, cmd) -> [data EXCEPT ![cmd.key] = Container]
      [] cmd.op \in {"SET", "DEL"} -> [data EXCEPT ![cmd.key] = cmd.val]

(***************************************************************************)
(* dispatch_command and propagate_write: a command that failed is not      *)
(* propagated.                                                             *)
(***************************************************************************)
Write(cmd) ==
    /\ Len(stream) < MaxOffset
    /\ ~Fails(keyspace, cmd)
    /\ keyspace' = Run(keyspace, cmd)
    /\ backlog' = Feed(backlog, Encode(cmd))
    /\ stream' = stream \o Encode(cmd)
    /\ overfed' = (overfed \/ Length(cmd) >= Size)
    /\ channel' = IF Online THEN channel \o Encode(cmd) ELSE channel
    /\ UNCHANGED <<replid, rvars, link, reply, partial, full, stale, snapshot, counters>>

(***************************************************************************)
(* A heartbeat goes to the replica and not into the backlog.               *)
(***************************************************************************)
Heartbeat ==
    /\ Online /\ pings < MaxPings
    /\ pings' = pings + 1
    /\ channel' = channel \o Encode(Ping)
    /\ UNCHANGED <<pvars, rvars, link, reply, partial, full, stale, snapshot, failures>>

(***************************************************************************)
(* The keyspace as SET commands.  The dictionary has some order; the keys  *)
(* are distinct, so it makes no difference which.                          *)
(***************************************************************************)
\* Wrong on purpose: sends a container as it is.
AsItIs(value) == value

AsString(value) == IF value = Container THEN Printed ELSE value

Loading(data, k) == [op |-> "SET", key |-> k, val |-> AsString(data[k])]

Snapshot(data) ==
    LET keys == SetToSeq({k \in Key : data[k] # Absent})
    IN  FlattenSeq([i \in 1..Len(keys) |-> Encode(Loading(data, keys[i]))])

Continues(requested, from) == requested = replid /\ InBacklog(backlog, from)

\* handle_psync
HandlePsync ==
    LET continues == Continues(source, offset)
    IN  /\ link = "syncing"
        /\ link' = "replied"
        /\ reply' = [full |-> ~continues, replid |-> replid, offset |-> backlog.master]
        /\ channel' = IF continues THEN DataSince(backlog, offset) ELSE Snapshot(keyspace)
        /\ full' = ~continues
        /\ stale' = {k \in Key : copy[k] # Absent /\ keyspace[k] = Absent}
        /\ snapshot' = IF continues THEN 0 ELSE Len(channel')
        /\ UNCHANGED <<pvars, rvars, partial, counters>>

-----------------------------------------------------------------------------
\* Wrong on purpose: only the first connection is made.
ConnectOnce ==
    /\ link = "down" /\ source = Unknown
    /\ link' = "syncing"
    /\ partial' = Nothing
    /\ UNCHANGED <<pvars, rvars, reply, channel, full, stale, snapshot, counters>>

Connect ==
    /\ link = "down"
    /\ link' = "syncing"
    /\ partial' = Nothing
    /\ UNCHANGED <<pvars, rvars, reply, channel, full, stale, snapshot, counters>>

\* Wrong on purpose: does not take over the offset of a full synchronisation.
ReadReplyKeepingOffset ==
    /\ link = "replied"
    /\ link' = "streaming"
    /\ source' = reply.replid
    /\ reached' = IF reply.full THEN reply.offset ELSE reached
    /\ reply' = NoReply
    /\ UNCHANGED <<pvars, copy, offset, channel, partial, full, stale, snapshot, counters>>

(***************************************************************************)
(* _perform_handshake, from the reply to PSYNC on.                         *)
(***************************************************************************)
ReadReply ==
    /\ link = "replied"
    /\ link' = "streaming"
    /\ source' = reply.replid
    /\ offset' = IF reply.full THEN reply.offset ELSE offset
    /\ reached' = IF reply.full THEN reply.offset ELSE reached
    /\ reply' = NoReply
    /\ UNCHANGED <<pvars, copy, channel, partial, full, stale, snapshot, counters>>

(***************************************************************************)
(* The parser takes as many bytes for a command as its first one says.     *)
(* If they are not that command's, the parser fails or some other value is *)
(* stored; what cannot begin a command is dropped or makes it fail.  Which *)
(* of them happens, the values decide: fate.                               *)
(***************************************************************************)
Parser(data, read, failed) == [data |-> data, partial |-> read, failed |-> failed]

Finish(state, read, fate) ==
    IF read.got < Length(read.cmd) THEN Parser(state.data, read, state.failed)
    ELSE IF read.clean THEN Parser(Run(state.data, read.cmd), Nothing, state.failed)
    ELSE IF fate = "error" \/ read.cmd.op # "SET" THEN Parser(state.data, state.partial, TRUE)
    ELSE Parser([state.data EXCEPT ![read.cmd.key] = fate], Nothing, state.failed)

ParseByte(state, byte, fate) ==
    LET read == state.partial
        expected == [cmd |-> read.cmd, part |-> read.got + 1]
    IN  IF read.got > 0
        THEN Finish(state,
                    [cmd |-> read.cmd, got |-> read.got + 1,
                     clean |-> IF byte = expected THEN read.clean ELSE FALSE],
                    fate)
        ELSE IF byte.part = 1
             THEN Finish(state, [cmd |-> byte.cmd, got |-> 1, clean |-> TRUE], fate)
             ELSE Parser(state.data, read, IF fate = "error" THEN TRUE ELSE state.failed)

\* All the bytes there are, one after the other.
ParseFrom(start, chunk, fate) ==
    LET after[i \in 0..Len(chunk)] ==
            IF i = 0 THEN start ELSE ParseByte(after[i - 1], chunk[i], fate)
    IN  after[Len(chunk)]

\* Wrong on purpose: a new parser for each chunk.
ParseAfresh(chunk, fate) == ParseFrom(Parser(copy, Nothing, FALSE), chunk, fate)

Parse(chunk, fate) == ParseFrom(Parser(copy, partial, FALSE), chunk, fate)

\* How far into the stream the bytes before the rest of the channel go.
ReadUpTo(rest, loading) ==
    Len(stream) - Cardinality({i \in 1..Len(rest) : i > loading /\ rest[i].cmd # Ping})

CloseConnection ==
    /\ link' = "down"
    /\ reply' = NoReply
    /\ channel' = <<>>
    /\ partial' = Nothing
    /\ snapshot' = 0
    /\ UNCHANGED <<full, stale>>

(***************************************************************************)
(* One turn of _consume_master_stream: the bytes read are counted before   *)
(* they are parsed, and when the parser fails the commands parsed before   *)
(* are dropped with it and the connection is given up.                     *)
(***************************************************************************)
Receive(n, fate) ==
    LET parsed == Parse(SubSeq(channel, 1, n), fate)
        rest == SubSeq(channel, n + 1, Len(channel))
        loading == IF snapshot > n THEN snapshot - n ELSE 0
    IN  /\ link = "streaming"
        /\ offset' = offset + n
        /\ reached' = ReadUpTo(rest, loading)
        /\ IF parsed.failed
           THEN /\ CloseConnection
                /\ UNCHANGED copy
           ELSE /\ copy' = parsed.data
                /\ partial' = parsed.partial
                /\ channel' = rest
                /\ snapshot' = loading
                /\ UNCHANGED <<link, reply, full, stale>>
        /\ UNCHANGED <<pvars, source, counters>>

ReceiveSome == \E n \in 1..Len(channel), fate \in String \cup {"error"} : Receive(n, fate)

LoseConnection ==
    /\ link # "down" /\ failures < MaxFailures
    /\ failures' = failures + 1
    /\ CloseConnection
    /\ UNCHANGED <<pvars, rvars, pings>>

(***************************************************************************)
(* REPLICAOF: a new ReplicaManager over the data there is.                 *)
(***************************************************************************)
ReplicaOf ==
    /\ failures < MaxFailures
    /\ failures' = failures + 1
    /\ CloseConnection
    /\ source' = Unknown
    /\ offset' = -1
    /\ reached' = 0
    /\ UNCHANGED <<pvars, copy, pings>>

(***************************************************************************)
(* The primary recovers its data and starts a new stream.                  *)
(***************************************************************************)
RestartPrimary ==
    /\ failures < MaxFailures
    /\ failures' = failures + 1
    /\ replid' = replid + 1
    /\ backlog' = EmptyBacklog
    /\ stream' = <<>>
    /\ overfed' = FALSE
    /\ CloseConnection
    /\ UNCHANGED <<keyspace, rvars, pings>>

Next ==
    \/ \E cmd \in Requests : Write(cmd)
    \/ Heartbeat
    \/ HandlePsync
    \/ Connect
    \/ ReadReply
    \/ ReceiveSome
    \/ LoseConnection
    \/ ReplicaOf
    \/ RestartPrimary

Spec == Init /\ [][Next]_vars

(***************************************************************************)
(* The replica's loop reconnects for ever, the primary answers, and the    *)
(* network delivers.                                                       *)
(***************************************************************************)
Fairness ==
    /\ WF_vars(Connect)
    /\ WF_vars(HandlePsync)
    /\ WF_vars(ReadReply)
    /\ WF_vars(ReceiveSome)

FairSpec == Spec /\ Fairness

-----------------------------------------------------------------------------
(***************************************************************************)
(* What the variables hold.                                                *)
(***************************************************************************)
TypeOK ==
    /\ keyspace \in [Key -> Value] /\ copy \in [Key -> Value]
    /\ backlog \in Backlog
    /\ replid \in Nat \ {0} /\ source \in Nat
    /\ offset \in Nat \cup {-1} /\ reached \in Nat
    /\ link \in {"down", "syncing", "replied", "streaming"}
    /\ reply \in [full : BOOLEAN, replid : Nat, offset : Nat] \cup {NoReply}
    /\ channel \in Seq(CommandByte) /\ stream \in Seq(CommandByte)
    /\ partial \in [cmd : Command, got : Nat, clean : BOOLEAN]
    /\ overfed \in BOOLEAN /\ full \in BOOLEAN
    /\ stale \subseteq Key /\ snapshot \in Nat

(***************************************************************************)
(* What the ring returns for an offset it says it holds is the stream from *)
(* that offset on, for a backlog that was fed no command of its own size   *)
(* (feed, is_offset_in_backlog, get_data_since_offset).                    *)
(***************************************************************************)
BacklogHoldsStream ==
    ~overfed =>
        \A from \in 0..Len(stream) :
            InBacklog(backlog, from) =>
                DataSince(backlog, from) = SubSeq(stream, from + 1, Len(stream))

(***************************************************************************)
(* What the replica will store when it has read all that is on its way.    *)
(***************************************************************************)
Final == Parse(channel, "error").data

Agrees(k) ==
    \/ Final[k] = keyspace[k]
    \/ k \in stale /\ Final[k] # Absent
    \/ keyspace[k] = Container /\ Final[k] \in String \cup {Printed}

(***************************************************************************)
(* A connection that began with a full synchronisation brings the replica  *)
(* every write up to the present, however the stream is cut and whenever   *)
(* the snapshot was taken.  Excepted are keys the primary did not have     *)
(* when it was taken, which the replica keeps, and containers, which are   *)
(* sent as strings (handle_psync, propagate_write).                        *)
(***************************************************************************)
FullSyncComplete ==
    Online /\ full => \A k \in Key : Agrees(k)

(***************************************************************************)
(* The offset the replica will ask for is never behind what it has read,   *)
(* so no command is applied twice (processed_offset).                      *)
(***************************************************************************)
NothingTwice ==
    source = replid /\ ~overfed => reached <= offset

(***************************************************************************)
(* Once connections stop failing, the replica is connected and has read    *)
(* everything (_replication_client_loop).                                  *)
(***************************************************************************)
CatchesUp == []<>(link = "streaming" /\ channel = <<>>)

(***************************************************************************)
(* "The primary transmits only the delta command stream since the          *)
(* replica's last offset" (docs/replication.md): a connection that began   *)
(* with +CONTINUE brings the replica every write up to the present.        *)
(***************************************************************************)
PartialSyncComplete ==
    Online /\ ~full /\ ~overfed => \A k \in Key : Agrees(k)
=============================================================================
