------------------------- MODULE OptimisticLocking --------------------------
(***************************************************************************)
(* What WATCH, MULTI and EXEC promise, without versions: a set of watched  *)
(* locations for each client, the ones among them that were modified since *)
(* they were watched, and commits that are refused while there are any.    *)
(* A commit takes the server for itself and shows its writes all at once.  *)
(***************************************************************************)
CONSTANTS Client, Location, Content, Nobody

VARIABLES
    store,        \* what each location holds
    watching,     \* the locations each client watches
    stale,        \* those of them modified since the client watched them
    committing    \* the client whose commit is in progress, or Nobody

vars == <<store, watching, stale, committing>>

Init ==
    /\ store \in [Location -> Content]
    /\ watching = [c \in Client |-> {}]
    /\ stale = [c \in Client |-> {}]
    /\ committing = Nobody

(***************************************************************************)
(* The locations in touched are written, and the clients in fresh have     *)
(* stopped watching or have yet to start.                                  *)
(***************************************************************************)
Touch(touched, fresh) ==
    /\ store' \in [Location -> Content]
    /\ \A l \in Location \ touched : store'[l] = store[l]
    /\ stale' = [c \in Client |-> IF c \in fresh THEN {}
                                  ELSE stale[c] \cup (watching[c] \cap touched)]

Write ==
    /\ committing = Nobody
    /\ \E touched \in SUBSET Location : Touch(touched, {})
    /\ UNCHANGED <<watching, committing>>

(***************************************************************************)
(* Watching a location again forgets that it was modified.                 *)
(***************************************************************************)
Watch(c, l) ==
    /\ committing = Nobody
    /\ watching' = [watching EXCEPT ![c] = @ \cup {l}]
    /\ stale' = [stale EXCEPT ![c] = @ \ {l}]
    /\ UNCHANGED <<store, committing>>

(***************************************************************************)
(* UNWATCH, DISCARD, an aborted EXEC and a closed connection.  The write   *)
(* that comes with an EXEC is an eviction.                                 *)
(***************************************************************************)
Forget(c) ==
    /\ committing = Nobody
    /\ \E touched \in SUBSET Location : Touch(touched, {c})
    /\ watching' = [watching EXCEPT ![c] = {}]
    /\ UNCHANGED committing

BeginCommit(c) ==
    /\ committing = Nobody
    /\ stale[c] = {}
    /\ \E touched \in SUBSET (Location \ watching[c]) : Touch(touched, {c})
    /\ watching' = [watching EXCEPT ![c] = {}]
    /\ committing' = c

EndCommit ==
    /\ committing # Nobody
    /\ \E touched \in SUBSET Location : Touch(touched, {})
    /\ committing' = Nobody
    /\ UNCHANGED watching

Next ==
    \/ Write
    \/ \E c \in Client : Forget(c) \/ BeginCommit(c)
    \/ \E c \in Client, l \in Location : Watch(c, l)
    \/ EndCommit

Spec == Init /\ [][Next]_vars
=============================================================================
