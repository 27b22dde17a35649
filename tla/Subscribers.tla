----------------------------- MODULE Subscribers ----------------------------
(***************************************************************************)
(* The table of subscribers of drivers/kbd/kbd.cpp, composed with the      *)
(* keyboard of module Keypresses: whoever subscribes is called by          *)
(* keyboard_event_publisher for every key, once for each subscription.     *)
(*                                                                         *)
(* Callers subscribe and unsubscribe between keys (a system call runs with *)
(* interrupts off), and unsubscribe only what is subscribed: for any other *)
(* function the code would drop the first subscriber instead, and call a   *)
(* null pointer at the next key.                                           *)
(***************************************************************************)
EXTENDS Keypresses, SequencesExt

CONSTANTS
  Handlers,           \* the functions that may be subscribed
  Capacity,           \* entries in the table: 256
  Moved               \* entries that unsubscribe moves up: 64

ASSUME SubscribersAssumption == Capacity \in Nat /\ Moved \in 1 .. Capacity - 1

VARIABLES
  keyboard_event_subscriber, keyboard_subscribers,
  subscriptions       \* ghost: how often each function is subscribed now

tableVars == <<keyboard_event_subscriber, keyboard_subscribers>>
everyVar == <<keyVars, tableVars, subscriptions>>

nullptr == "nullptr"

SubscribersInit ==
  /\ KeysInit
  /\ keyboard_event_subscriber = [n \in 0 .. Capacity - 1 |-> nullptr]
  /\ keyboard_subscribers = 0
  /\ subscriptions = [h \in Handlers |-> 0]

\* A table with more than Moved + 1 entries is not moved up as a whole, so that is
\* as many subscriptions as callers may have.
keyboard_event_subscribe(h) ==
  /\ keyboard_subscribers <= Moved
  /\ keyboard_event_subscriber' = [keyboard_event_subscriber EXCEPT ![keyboard_subscribers] = h]
  /\ keyboard_subscribers' = keyboard_subscribers + 1
  /\ subscriptions' = [subscriptions EXCEPT ![h] = @ + 1]
  /\ UNCHANGED keyVars

\* The entries from an index on move up by one.
MovedUp(table, from) ==
  [n \in DOMAIN table |-> IF n \in from .. Moved - 1 THEN table[n + 1] ELSE table[n]]

\* Slip: the entries behind the removed one move.
UnsubscribeMovesBehind(h) ==
  LET at == CHOOSE n \in 0 .. keyboard_subscribers - 1 :
              /\ keyboard_event_subscriber[n] = h
              /\ \A m \in 0 .. n - 1 : keyboard_event_subscriber[m] # h
  IN  /\ subscriptions[h] > 0
      /\ keyboard_event_subscriber' =
           MovedUp([keyboard_event_subscriber EXCEPT ![at] = nullptr], at + 1)
      /\ keyboard_subscribers' = keyboard_subscribers - 1
      /\ subscriptions' = [subscriptions EXCEPT ![h] = @ - 1]
      /\ UNCHANGED keyVars

\* The first entry with the function goes.
keyboard_event_unsubscribe(h) ==
  LET at == CHOOSE n \in 0 .. keyboard_subscribers - 1 :
              /\ keyboard_event_subscriber[n] = h
              /\ \A m \in 0 .. n - 1 : keyboard_event_subscriber[m] # h
  IN  /\ subscriptions[h] > 0
      /\ keyboard_event_subscriber' =
           MovedUp([keyboard_event_subscriber EXCEPT ![at] = nullptr], at)
      /\ keyboard_subscribers' = keyboard_subscribers - 1
      /\ subscriptions' = [subscriptions EXCEPT ![h] = @ - 1]
      /\ UNCHANGED keyVars

\* What keyboard_event_publisher calls: the first entries, in order.
Called == [n \in 1 .. keyboard_subscribers |-> keyboard_event_subscriber[n - 1]]

KeyComes == KeysNext /\ UNCHANGED <<tableVars, subscriptions>>

SubscribersNext ==
  \/ \E h \in Handlers : keyboard_event_subscribe(h) \/ keyboard_event_unsubscribe(h)
  \/ KeyComes

SubscribersSpec == SubscribersInit /\ [][SubscribersNext]_everyVar

-----------------------------------------------------------------------------
\* The next key reaches every subscriber once for each of its subscriptions, and calls
\* nothing else, after any sequence of subscribing and unsubscribing: moving the
\* table up must lose no entry, double none and leave no null pointer among the
\* first keyboard_subscribers entries.
EachHearsEachKey ==
  /\ ToSet(Called) \subseteq Handlers
  /\ \A h \in Handlers : Cardinality({n \in DOMAIN Called : Called[n] = h}) = subscriptions[h]
=============================================================================
