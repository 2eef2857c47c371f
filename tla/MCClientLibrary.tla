-------------------------- MODULE MCClientLibrary ---------------------------
(***************************************************************************)
(* A small instance of ClientLibrary.  Ann subscribes and reconnects; Bob  *)
(* publishes, shuts the server down, and subscribes while it is about to   *)
(* stop; Cy sends every command inside a transaction, and a pipeline that  *)
(* does not fit on the way: a request too many is left when both directions*)
(* are full; Dee leaves and comes back, perhaps before the server knows.   *)
(***************************************************************************)
EXTENDS ClientLibrary, TLC

CONSTANTS ann, bob, cy, dee, news, every

FourClients == {ann, bob, cy, dee}
Connections == 1..3
OneChannel == {news}
OnePattern == {every}
AllMatch == {<<every, news>>}

Transaction(ops) == <<"MULTI">> \o ops \o <<"EXEC">>
Queued == {"GET", "SHUTDOWN", "PUBLISH", "SUBSCRIBE", "PSUBSCRIBE", "UNSUBSCRIBE", "PUNSUBSCRIBE", "MULTI"}

SomeCalls ==
    (ann :> { <<"SUBSCRIBE">>, <<"PSUBSCRIBE">>, <<"UNSUBSCRIBE">>, <<"PUNSUBSCRIBE">>,
              Transaction(<<"SUBSCRIBE">>) })
    @@ (bob :> { <<"PUBLISH">>, Transaction(<<"PUBLISH">>), <<"SHUTDOWN">>, <<"SHUTDOWN", "SUBSCRIBE">> })
    @@ (cy :> { <<"EXEC">>, <<"QUIT", "GET">>, <<"GET", "GET", "GET", "GET", "GET">>,
                Transaction(<<"SUBSCRIBE", "GET">>) }
              \cup { Transaction(<<op>>) : op \in Queued })
    @@ (dee :> { <<"GET">> })

Budget(anns, bobs, cys, dees, times) ==
    [calls |-> (ann :> anns @@ bob :> bobs @@ cy :> cys @@ dee :> dees), timeouts |-> times]

FewSteps ==
    { Budget(2, 0, 0, 0, 1), Budget(1, 1, 0, 0, 0), Budget(0, 0, 1, 1, 0), Budget(0, 0, 1, 0, 1),
      Budget(1, 0, 0, 2, 0), Budget(0, 1, 0, 2, 0) }
=============================================================================
