------------------------------- MODULE PubSub -------------------------------
(***************************************************************************)
(* pubsub/broker.py and commands/pubsub.py: who is subscribed to what.     *)
(* Subscriptions are kept twice, in the tables of the broker and with the  *)
(* connection, which is in Pub/Sub mode while it has any.                  *)
(***************************************************************************)
EXTENDS Naturals, Sequences, FiniteSets

CONSTANTS Conn,                    \* connections the server has accepted
          Channel,                 \* names of channels
          Pattern,                 \* patterns of channel names
          Matches                  \* pairs of a pattern and a channel it matches

ASSUME PubSubAssumption ==
    /\ IsFiniteSet(Conn)
    /\ Matches \subseteq Pattern \X Channel

VARIABLES subscribers,             \* _channel_subscribers
          psubscribers,            \* _pattern_subscribers
          channels,                \* subscribed_channels of a connection
          patterns                 \* subscribed_patterns of a connection

broker == <<subscribers, psubscribers, channels, patterns>>

PubSubInit ==
    /\ subscribers = [ch \in Channel |-> {}]
    /\ psubscribers = [p \in Pattern |-> {}]
    /\ channels = [k \in Conn |-> {}]
    /\ patterns = [k \in Conn |-> {}]

InPubSub(k) == channels[k] # {} \/ patterns[k] # {}

(***************************************************************************)
(* subscribe, psubscribe, unsubscribe and punsubscribe of some names.  The *)
(* tables are told of an unsubscription whether or not there was one.      *)
(***************************************************************************)
With(table, k, names) == [n \in DOMAIN table |-> IF n \in names THEN table[n] \cup {k} ELSE table[n]]
Without(table, k, names) == [n \in DOMAIN table |-> IF n \in names THEN table[n] \ {k} ELSE table[n]]

Subscribe(k, names) ==
    /\ subscribers' = With(subscribers, k, names)
    /\ channels' = [channels EXCEPT ![k] = @ \cup names]
    /\ UNCHANGED <<psubscribers, patterns>>

PSubscribe(k, names) ==
    /\ psubscribers' = With(psubscribers, k, names)
    /\ patterns' = [patterns EXCEPT ![k] = @ \cup names]
    /\ UNCHANGED <<subscribers, channels>>

Unsubscribe(k, names) ==
    /\ subscribers' = Without(subscribers, k, names)
    /\ channels' = [channels EXCEPT ![k] = @ \ names]
    /\ UNCHANGED <<psubscribers, patterns>>

PUnsubscribe(k, names) ==
    /\ psubscribers' = Without(psubscribers, k, names)
    /\ patterns' = [patterns EXCEPT ![k] = @ \ names]
    /\ UNCHANGED <<subscribers, channels>>

\* Wrong on purpose: the patterns of the connection are cleared before they are looked through.
RemoveConnectionTooLate(k) ==
    /\ subscribers' = Without(subscribers, k, channels[k])
    /\ channels' = [channels EXCEPT ![k] = {}]
    /\ patterns' = [patterns EXCEPT ![k] = {}]
    /\ UNCHANGED psubscribers

\* remove_connection
RemoveConnection(k) ==
    /\ subscribers' = Without(subscribers, k, channels[k])
    /\ psubscribers' = Without(psubscribers, k, patterns[k])
    /\ channels' = [channels EXCEPT ![k] = {}]
    /\ patterns' = [patterns EXCEPT ![k] = {}]

(***************************************************************************)
(* publish: how many copies of a message to a channel a connection is sent,*)
(* one for the channel and one for each pattern that matches it.           *)
(***************************************************************************)
Copies(k, ch) ==
    (IF k \in subscribers[ch] THEN 1 ELSE 0)
    + Cardinality({p \in Pattern : <<p, ch>> \in Matches /\ k \in psubscribers[p]})
=============================================================================
