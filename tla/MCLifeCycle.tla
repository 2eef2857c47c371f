---------------------------- MODULE MCLifeCycle -----------------------------
(***************************************************************************)
(* A small instance of LifeCycle: two keys, values of two fields, a table  *)
(* of three slots, batches of one.                                         *)
(***************************************************************************)
EXTENDS LifeCycle, TLC

CONSTANTS a, b, f, g, x, y

TwoKeys == {a, b}
TwoFields == {f, g}
TwoContents == {x, y}
TimesToLive == {0, 1}

Entry(val, exp) == [val |-> val, exp |-> exp]
Both == f :> x @@ g :> x
Half == f :> y @@ g :> NoContent
OneValue == {Half}
TwoRecords ==
    {<<[key |-> a, entry |-> Entry(Both, 1)], [key |-> b, entry |-> Entry(Half, Never)]>>}

Budget(w, e, s, n, t) ==
    [writes |-> w, edits |-> e, saves |-> s, starts |-> n, ticks |-> t]

\* Behaviours that spend their steps on writes, on saves, or on a walk of BGSAVE.
FewSteps ==
    { Budget(3, 0, 0, 1, 2), Budget(2, 0, 1, 1, 0), Budget(1, 0, 2, 1, 0), Budget(1, 0, 0, 2, 2),
      Budget(1, 1, 1, 1, 0), Budget(0, 2, 1, 1, 0), Budget(1, 0, 1, 1, 1) }
=============================================================================
