---------------------------- MODULE MarketDataProofs ----------------------------
(* Proofs about MarketData: its types, that a stopped service leaves nothing open, *)
(* that no connection is left behind by a reconnection, that the exchange streams  *)
(* what is subscribed, and that a dropped connection is always in someone's hands  *)
(* and replaced within a bounded number of steps.                                  *)
EXTENDS MarketData, TLAPS

\* A task that is not receiving holds no connection that is up or being closed.
Quiet == ws \in {"none", "created", "connecting", "backoff"} => ~Held({"open", "closing"})

\* The flag is up while there is a connection to lose, and never without one.
FlagFollows ==
    /\ Held({"open"}) => connected
    /\ connected => socket # None

IInv ==
    /\ TypeOK
    /\ NothingLeftOpen
    /\ OneConnection
    /\ SubscriptionsCarried
    /\ Quiet
    /\ FlagFollows

---------------------------------------------------------------------------------
(* The invariant holds at the start and is kept by every step                      *)

LEMMA BoundsNat ==
    /\ MaxReconnects \in Nat /\ 0 \in 0 .. MaxReconnects
    /\ MaxEvents \in Nat /\ 0 \in 0 .. MaxEvents
  BY MarketDataAssumption

\* Attempts are counted up to their limit.
LEMMA ReconnectCounts ==
    ASSUME NEW n \in 0 .. MaxReconnects, Reconnect(n)
    PROVE  count' \in 0 .. MaxReconnects /\ ws' \in {"ended", "backoff"}
  BY BoundsNat DEF Reconnect

\* A step of the environment is counted within its bound.
LEMMA EventCounts ==
    ASSUME events \in 0 .. MaxEvents, Event PROVE events' \in 0 .. MaxEvents
  BY BoundsNat DEF Event

LEMMA InitIInv == Init => IInv
  BY MarketDataAssumption, BoundsNat
  DEF Init, IInv, TypeOK, NothingLeftOpen, OneConnection, SubscriptionsCarried, Quiet,
      FlagFollows, Held

\* Every step keeps the types.
LEMMA TypesKept ==
    ASSUME TypeOK, [Next]_vars PROVE TypeOK'
<1> USE MarketDataAssumption, BoundsNat, ReconnectCounts, EventCounts
        DEF net, link, task, service, TypeOK, Held
<1>1. ASSUME RunCollector PROVE TypeOK'
  BY <1>1 DEF RunCollector
<1>2. ASSUME Refused PROVE TypeOK'
  BY <1>2 DEF Refused, ConnectFails
<1>3. ASSUME BackoffEnds PROVE TypeOK'
  BY <1>3 DEF BackoffEnds, Continue
<1>4. ASSUME ReceiveFails PROVE TypeOK'
  BY <1>4 DEF ReceiveFails
<1>5. ASSUME ReceiveEnds PROVE TypeOK'
  BY <1>5 DEF ReceiveEnds
<1>6. ASSUME NEW c \in Connection, Connected(c) PROVE TypeOK'
  BY <1>6 DEF Connected, Continue, ToSend
<1>7. ASSUME NEW c \in Connection, ConnectedInVain(c) PROVE TypeOK'
  BY <1>7 DEF ConnectedInVain, ConnectFails, ToSend
<1>8. ASSUME NEW c \in Connection, Drop(c) PROVE TypeOK'
  BY <1>8 DEF Drop
<1>9. ASSUME NEW c \in Connection, CloseInOrder(c) PROVE TypeOK'
  BY <1>9 DEF CloseInOrder
<1>10. ASSUME NEW s \in Symbol, Subscribe(s) PROVE TypeOK'
  BY <1>10 DEF Subscribe, Streaming
<1>11. ASSUME NEW s \in Symbol, Unsubscribe(s) PROVE TypeOK'
  BY <1>11 DEF Unsubscribe, Streaming
<1>12. ASSUME ServiceStart PROVE TypeOK'
  BY <1>12 DEF ServiceStart
<1>13. ASSUME TurnEnds PROVE TypeOK'
  BY <1>13 DEF TurnEnds, Finally, Disconnect, MustWait, CancelTask
<1>14. ASSUME ServiceFails PROVE TypeOK'
  BY <1>14 DEF ServiceFails, Finally, Disconnect, MustWait, CancelTask
<1>15. ASSUME Stop PROVE TypeOK'
  BY <1>15 DEF Stop, Disconnect, MustWait
<1>16. ASSUME CloseEnds PROVE TypeOK'
  BY <1>16 DEF CloseEnds, CancelTask
<1>17. CASE UNCHANGED vars
  BY <1>17 DEF vars
<1>18. QED
  BY <1>1, <1>2, <1>3, <1>4, <1>5, <1>6, <1>7, <1>8, <1>9, <1>10, <1>11, <1>12, <1>13, <1>14, <1>15, <1>16, <1>17 DEF Next, Collector, vars

\* A new connection is opened only when the collector holds none that is up.
LEMMA OneConnectionKept ==
    ASSUME IInv, [Next]_vars PROVE OneConnection'
<1> USE MarketDataAssumption
        DEF net, link, task, service, IInv, TypeOK, OneConnection, Quiet, Held
<1>1. ASSUME RunCollector PROVE OneConnection'
  BY <1>1 DEF RunCollector
<1>2. ASSUME Refused PROVE OneConnection'
  BY <1>2 DEF Refused, ConnectFails, Reconnect
<1>3. ASSUME BackoffEnds PROVE OneConnection'
  BY <1>3 DEF BackoffEnds, Continue
<1>4. ASSUME ReceiveFails PROVE OneConnection'
  BY <1>4 DEF ReceiveFails, Reconnect
<1>5. ASSUME ReceiveEnds PROVE OneConnection'
  BY <1>5 DEF ReceiveEnds
<1>6. ASSUME NEW c \in Connection, Connected(c) PROVE OneConnection'
  BY <1>6 DEF Connected, Continue, ToSend
<1>7. ASSUME NEW c \in Connection, ConnectedInVain(c) PROVE OneConnection'
  BY <1>7 DEF ConnectedInVain, ConnectFails, Reconnect, ToSend, Event
<1>8. ASSUME NEW c \in Connection, Drop(c) PROVE OneConnection'
  BY <1>8 DEF Drop, Event
<1>9. ASSUME NEW c \in Connection, CloseInOrder(c) PROVE OneConnection'
  BY <1>9 DEF CloseInOrder, Event
<1>10. ASSUME NEW s \in Symbol, Subscribe(s) PROVE OneConnection'
  BY <1>10 DEF Subscribe, Event, Streaming
<1>11. ASSUME NEW s \in Symbol, Unsubscribe(s) PROVE OneConnection'
  BY <1>11 DEF Unsubscribe, Event, Streaming
<1>12. ASSUME ServiceStart PROVE OneConnection'
  BY <1>12 DEF ServiceStart, Event
<1>13. ASSUME TurnEnds PROVE OneConnection'
  BY <1>13 DEF TurnEnds, Finally, Disconnect, MustWait, CancelTask
<1>14. ASSUME ServiceFails PROVE OneConnection'
  BY <1>14 DEF ServiceFails, Event, Finally, Disconnect, MustWait, CancelTask
<1>15. ASSUME Stop PROVE OneConnection'
  BY <1>15 DEF Stop, Event, Disconnect, MustWait
<1>16. ASSUME CloseEnds PROVE OneConnection'
  BY <1>16 DEF CloseEnds, CancelTask
<1>17. CASE UNCHANGED vars
  BY <1>17 DEF vars
<1>18. QED
  BY <1>1, <1>2, <1>3, <1>4, <1>5, <1>6, <1>7, <1>8, <1>9, <1>10, <1>11, <1>12, <1>13, <1>14, <1>15, <1>16, <1>17 DEF Next, Collector, vars

\* What is wanted and what is streamed change together.
LEMMA SubscriptionsKept ==
    ASSUME IInv, [Next]_vars PROVE SubscriptionsCarried'
<1> USE DEF net, link, task, service, IInv, TypeOK, SubscriptionsCarried, FlagFollows, Held
<1>1. ASSUME RunCollector PROVE SubscriptionsCarried'
  BY <1>1 DEF RunCollector
<1>2. ASSUME Refused PROVE SubscriptionsCarried'
  BY <1>2 DEF Refused, ConnectFails, Reconnect
<1>3. ASSUME BackoffEnds PROVE SubscriptionsCarried'
  BY <1>3 DEF BackoffEnds, Continue
<1>4. ASSUME ReceiveFails PROVE SubscriptionsCarried'
  BY <1>4 DEF ReceiveFails, Reconnect
<1>5. ASSUME ReceiveEnds PROVE SubscriptionsCarried'
  BY <1>5 DEF ReceiveEnds
<1>6. ASSUME NEW c \in Connection, Connected(c) PROVE SubscriptionsCarried'
  BY <1>6 DEF Connected, Continue, ToSend
<1>7. ASSUME NEW c \in Connection, ConnectedInVain(c) PROVE SubscriptionsCarried'
  BY <1>7 DEF ConnectedInVain, ConnectFails, Reconnect, ToSend, Event
<1>8. ASSUME NEW c \in Connection, Drop(c) PROVE SubscriptionsCarried'
  BY <1>8 DEF Drop, Event
<1>9. ASSUME NEW c \in Connection, CloseInOrder(c) PROVE SubscriptionsCarried'
  BY <1>9 DEF CloseInOrder, Event
<1>10. ASSUME NEW s \in Symbol, Subscribe(s) PROVE SubscriptionsCarried'
  BY <1>10 DEF Subscribe, Event, Streaming
<1>11. ASSUME NEW s \in Symbol, Unsubscribe(s) PROVE SubscriptionsCarried'
  BY <1>11 DEF Unsubscribe, Event, Streaming
<1>12. ASSUME ServiceStart PROVE SubscriptionsCarried'
  BY <1>12 DEF ServiceStart, Event
<1>13. ASSUME TurnEnds PROVE SubscriptionsCarried'
  BY <1>13 DEF TurnEnds, Finally, Disconnect, MustWait, CancelTask
<1>14. ASSUME ServiceFails PROVE SubscriptionsCarried'
  BY <1>14 DEF ServiceFails, Event, Finally, Disconnect, MustWait, CancelTask
<1>15. ASSUME Stop PROVE SubscriptionsCarried'
  BY <1>15 DEF Stop, Event, Disconnect, MustWait
<1>16. ASSUME CloseEnds PROVE SubscriptionsCarried'
  BY <1>16 DEF CloseEnds, CancelTask
<1>17. CASE UNCHANGED vars
  BY <1>17 DEF vars
<1>18. QED
  BY <1>1, <1>2, <1>3, <1>4, <1>5, <1>6, <1>7, <1>8, <1>9, <1>10, <1>11, <1>12, <1>13, <1>14, <1>15, <1>16, <1>17 DEF Next, Collector, vars

\* The task leaves the stream only when its connection is gone.
LEMMA QuietKept ==
    ASSUME IInv, [Next]_vars PROVE Quiet'
<1> USE DEF net, link, task, service, IInv, TypeOK, OneConnection, NothingLeftOpen, Quiet, FlagFollows, Held
<1>1. ASSUME RunCollector PROVE Quiet'
  BY <1>1 DEF RunCollector
<1>2. ASSUME Refused PROVE Quiet'
  BY <1>2 DEF Refused, ConnectFails, Reconnect
<1>3. ASSUME BackoffEnds PROVE Quiet'
  BY <1>3 DEF BackoffEnds, Continue
<1>4. ASSUME ReceiveFails PROVE Quiet'
  BY <1>4 DEF ReceiveFails, Reconnect
<1>5. ASSUME ReceiveEnds PROVE Quiet'
  BY <1>5 DEF ReceiveEnds
<1>6. ASSUME NEW c \in Connection, Connected(c) PROVE Quiet'
  BY <1>6 DEF Connected, Continue, ToSend
<1>7. ASSUME NEW c \in Connection, ConnectedInVain(c) PROVE Quiet'
  BY <1>7 DEF ConnectedInVain, ConnectFails, Reconnect, ToSend, Event
<1>8. ASSUME NEW c \in Connection, Drop(c) PROVE Quiet'
  BY <1>8 DEF Drop, Event
<1>9. ASSUME NEW c \in Connection, CloseInOrder(c) PROVE Quiet'
  BY <1>9 DEF CloseInOrder, Event
<1>10. ASSUME NEW s \in Symbol, Subscribe(s) PROVE Quiet'
  BY <1>10 DEF Subscribe, Event, Streaming
<1>11. ASSUME NEW s \in Symbol, Unsubscribe(s) PROVE Quiet'
  BY <1>11 DEF Unsubscribe, Event, Streaming
<1>12. ASSUME ServiceStart PROVE Quiet'
  BY <1>12 DEF ServiceStart, Event
<1>13. ASSUME TurnEnds PROVE Quiet'
  BY <1>13 DEF TurnEnds, Finally, Disconnect, MustWait, CancelTask
<1>14. ASSUME ServiceFails PROVE Quiet'
  BY <1>14 DEF ServiceFails, Event, Finally, Disconnect, MustWait, CancelTask
<1>15. ASSUME Stop PROVE Quiet'
  BY <1>15 DEF Stop, Event, Disconnect, MustWait
<1>16. ASSUME CloseEnds PROVE Quiet'
  BY <1>16 DEF CloseEnds, CancelTask
<1>17. CASE UNCHANGED vars
  BY <1>17 DEF vars
<1>18. QED
  BY <1>1, <1>2, <1>3, <1>4, <1>5, <1>6, <1>7, <1>8, <1>9, <1>10, <1>11, <1>12, <1>13, <1>14, <1>15, <1>16, <1>17 DEF Next, Collector, vars

\* The flag follows the connection.
LEMMA FlagKept ==
    ASSUME IInv, [Next]_vars PROVE FlagFollows'
<1> USE MarketDataAssumption
        DEF net, link, task, service, IInv, TypeOK, FlagFollows, Quiet, Held
<1>1. ASSUME RunCollector PROVE FlagFollows'
  BY <1>1 DEF RunCollector
<1>2. ASSUME Refused PROVE FlagFollows'
  BY <1>2 DEF Refused, ConnectFails, Reconnect
<1>3. ASSUME BackoffEnds PROVE FlagFollows'
  BY <1>3 DEF BackoffEnds, Continue
<1>4. ASSUME ReceiveFails PROVE FlagFollows'
  BY <1>4 DEF ReceiveFails, Reconnect
<1>5. ASSUME ReceiveEnds PROVE FlagFollows'
  BY <1>5 DEF ReceiveEnds
<1>6. ASSUME NEW c \in Connection, Connected(c) PROVE FlagFollows'
  BY <1>6 DEF Connected, Continue, ToSend
<1>7. ASSUME NEW c \in Connection, ConnectedInVain(c) PROVE FlagFollows'
  BY <1>7 DEF ConnectedInVain, ConnectFails, Reconnect, ToSend, Event
<1>8. ASSUME NEW c \in Connection, Drop(c) PROVE FlagFollows'
  BY <1>8 DEF Drop, Event
<1>9. ASSUME NEW c \in Connection, CloseInOrder(c) PROVE FlagFollows'
  BY <1>9 DEF CloseInOrder, Event
<1>10. ASSUME NEW s \in Symbol, Subscribe(s) PROVE FlagFollows'
  BY <1>10 DEF Subscribe, Event, Streaming
<1>11. ASSUME NEW s \in Symbol, Unsubscribe(s) PROVE FlagFollows'
  BY <1>11 DEF Unsubscribe, Event, Streaming
<1>12. ASSUME ServiceStart PROVE FlagFollows'
  BY <1>12 DEF ServiceStart, Event
<1>13. ASSUME TurnEnds PROVE FlagFollows'
  BY <1>13 DEF TurnEnds, Finally, Disconnect, MustWait, CancelTask
<1>14. ASSUME ServiceFails PROVE FlagFollows'
  BY <1>14 DEF ServiceFails, Event, Finally, Disconnect, MustWait, CancelTask
<1>15. ASSUME Stop PROVE FlagFollows'
  BY <1>15 DEF Stop, Event, Disconnect, MustWait
<1>16. ASSUME CloseEnds PROVE FlagFollows'
  BY <1>16 DEF CloseEnds, CancelTask
<1>17. CASE UNCHANGED vars
  BY <1>17 DEF vars
<1>18. QED
  BY <1>1, <1>2, <1>3, <1>4, <1>5, <1>6, <1>7, <1>8, <1>9, <1>10, <1>11, <1>12, <1>13, <1>14, <1>15, <1>16, <1>17 DEF Next, Collector, vars

\* The service ends after its collector, and with the last connection.
LEMMA NothingLeftOpenKept ==
    ASSUME IInv, [Next]_vars PROVE NothingLeftOpen'
<1> USE MarketDataAssumption
        DEF net, link, task, service, IInv, TypeOK, OneConnection, NothingLeftOpen, FlagFollows, Streaming, Held
<1>1. ASSUME RunCollector PROVE NothingLeftOpen'
  BY <1>1 DEF RunCollector
<1>2. ASSUME Refused PROVE NothingLeftOpen'
  BY <1>2 DEF Refused, ConnectFails, Reconnect
<1>3. ASSUME BackoffEnds PROVE NothingLeftOpen'
  BY <1>3 DEF BackoffEnds, Continue
<1>4. ASSUME ReceiveFails PROVE NothingLeftOpen'
  BY <1>4 DEF ReceiveFails, Reconnect
<1>5. ASSUME ReceiveEnds PROVE NothingLeftOpen'
  BY <1>5 DEF ReceiveEnds
<1>6. ASSUME NEW c \in Connection, Connected(c) PROVE NothingLeftOpen'
  BY <1>6 DEF Connected, Continue, ToSend
<1>7. ASSUME NEW c \in Connection, ConnectedInVain(c) PROVE NothingLeftOpen'
  BY <1>7 DEF ConnectedInVain, ConnectFails, Reconnect, ToSend, Event
<1>8. ASSUME NEW c \in Connection, Drop(c) PROVE NothingLeftOpen'
  BY <1>8 DEF Drop, Event
<1>9. ASSUME NEW c \in Connection, CloseInOrder(c) PROVE NothingLeftOpen'
  BY <1>9 DEF CloseInOrder, Event
<1>10. ASSUME NEW s \in Symbol, Subscribe(s) PROVE NothingLeftOpen'
  BY <1>10 DEF Subscribe, Event, Streaming
<1>11. ASSUME NEW s \in Symbol, Unsubscribe(s) PROVE NothingLeftOpen'
  BY <1>11 DEF Unsubscribe, Event, Streaming
<1>12. ASSUME ServiceStart PROVE NothingLeftOpen'
  BY <1>12 DEF ServiceStart, Event
<1>13. ASSUME TurnEnds PROVE NothingLeftOpen'
  BY <1>13 DEF TurnEnds, Finally, Disconnect, MustWait, CancelTask
<1>14. ASSUME ServiceFails PROVE NothingLeftOpen'
  BY <1>14 DEF ServiceFails, Event, Finally, Disconnect, MustWait, CancelTask
<1>15. ASSUME Stop PROVE NothingLeftOpen'
  BY <1>15 DEF Stop, Event, Disconnect, MustWait
<1>16. ASSUME CloseEnds PROVE NothingLeftOpen'
  BY <1>16 DEF CloseEnds, CancelTask
<1>17. CASE UNCHANGED vars
  BY <1>17 DEF vars
<1>18. QED
  BY <1>1, <1>2, <1>3, <1>4, <1>5, <1>6, <1>7, <1>8, <1>9, <1>10, <1>11, <1>12, <1>13, <1>14, <1>15, <1>16, <1>17 DEF Next, Collector, vars

LEMMA NextIInv == IInv /\ [Next]_vars => IInv'
  BY TypesKept, OneConnectionKept, SubscriptionsKept, QuietKept, FlagKept, NothingLeftOpenKept
  DEF IInv

LEMMA SpecIInv == Spec => []IInv
  BY InitIInv, NextIInv, PTL DEF Spec

---------------------------------------------------------------------------------
(* The theorems                                                                    *)

\* The collector's fields and its connections are always of a kind the code handles,
\* and the attempts stay within their limit: market_data_ws.py:97-116, 186.
THEOREM TypeCorrect == Spec => []TypeOK
  BY SpecIInv, PTL DEF IInv

\* A service that has ended left no task and no connection, wherever the collector was
\* when it was stopped: ingestion_service.py:361, market_data_ws.py:169.
THEOREM StopLeavesNothing == Spec => []NothingLeftOpen
  BY SpecIInv, PTL DEF IInv

\* However often the collector reconnects, one connection is up at most, and it is the
\* one the collector will close: market_data_ws.py:150.
THEOREM OneAtATime == Spec => []OneConnection
  BY SpecIInv, PTL DEF IInv

\* The exchange streams what is subscribed, for any number of reconnections and of calls
\* between their steps: market_data_ws.py:158, 223.
THEOREM StreamsWhatIsWanted == Spec => []SubscriptionsCarried
  BY SpecIInv, PTL DEF IInv
---------------------------------------------------------------------------------
(* What DropHandled needs besides fairness: a connection that is lost is in the     *)
(* hands of the task, which replaces it or ends in a bounded number of steps, and    *)
(* does not end without a cause.                                                     *)

\* A task that has not begun, or is gone, holds no connection.
Unheld == ws \in {"none", "created"} => socket = None

\* guards: the task can do its next step
CollectorGoesOn ==
    \/ ws \in {"connecting", "backoff"}
    \/ ws = "receiving" /\ (Held({"lost"}) \/ ~running)

DropInHand == running /\ Held({"lost"}) => CollectorGoesOn \/ ws = "ended"

\* the steps left until the task has a connection or has used up its attempts
ReconnectLeft ==
    LET attempts == 4 * (MaxReconnects - count)
    IN  CASE ws = "connecting"              -> attempts + 1
          [] ws = "backoff" /\ ~connected   -> attempts + 2
          [] ws = "receiving"               -> attempts + 3
          [] ws = "backoff" /\ connected    -> attempts + 4
          [] OTHER                          -> 0

ReconnectBounded == ReconnectLeft \in 0 .. 4 * MaxReconnects + 4

\* Each step of the task that brings no new connection leaves less to do.
ReconnectShortens ==
    [][/\ ws \in {"connecting", "backoff", "receiving"}
       /\ socket' \in {socket, None}
       => \/ UNCHANGED <<ws, count>>
          \/ ReconnectLeft' < ReconnectLeft]_vars

\* The task ends because it is told to, because its first connect failed, or because no
\* attempt is left.
EndsForCause ==
    [][ws # "ended" /\ ws' = "ended" => ~running \/ first \/ count = MaxReconnects
                                           \/ MaxReconnects = 0]_vars

\* A task begins and is cancelled without a connection.
LEMMA UnheldStep ==
    ASSUME IInv, Unheld, [Next]_vars
    PROVE  Unheld'
  <1> USE DEF IInv, Unheld, net, link, task, service
  <1>1. CASE Collector
    BY <1>1 DEF Collector, RunCollector, Refused, BackoffEnds, ReceiveFails, ReceiveEnds,
                Connected, Continue, ConnectFails, Reconnect
  <1>2. ASSUME NEW c \in Connection, ConnectedInVain(c) \/ Drop(c) \/ CloseInOrder(c)
        PROVE  Unheld'
    BY <1>2 DEF ConnectedInVain, ConnectFails, Reconnect, Drop, CloseInOrder
  <1>3. ASSUME NEW s \in Symbol, Subscribe(s) \/ Unsubscribe(s)
        PROVE  Unheld'
    BY <1>3 DEF Subscribe, Unsubscribe
  <1>4. CASE ServiceStart
    BY <1>4 DEF ServiceStart, NothingLeftOpen
  <1>5. CASE TurnEnds \/ ServiceFails
    BY <1>5 DEF TurnEnds, ServiceFails, Finally, Disconnect, CancelTask
  <1>6. CASE Stop \/ CloseEnds
    BY <1>6 DEF Stop, CloseEnds, Disconnect, CancelTask
  <1>7. CASE UNCHANGED vars
    BY <1>7 DEF vars
  <1>8. QED
    BY <1>1, <1>2, <1>3, <1>4, <1>5, <1>6, <1>7 DEF Next

\* A lost connection of a running collector is never left to nobody: its task can do its
\* next step, or has ended: market_data_ws.py:128-148, 184-210.
THEOREM DropsAreInHand == Spec => []DropInHand
  <1>1. Init => Unheld
    BY DEF Init, Unheld
  <1>2. IInv /\ Unheld /\ [Next]_vars => Unheld'
    BY UnheldStep
  <1>3. IInv /\ Unheld => DropInHand
    BY DEF IInv, TypeOK, Unheld, DropInHand, CollectorGoesOn, Held
  <1>4. QED
    BY <1>1, <1>2, <1>3, SpecIInv, PTL DEF Spec

\* Another attempt is one less that is left.
LEMMA AttemptShortens ==
    ASSUME count \in 0 .. MaxReconnects, Reconnect(count)
    PROVE  ReconnectLeft' \in Nat /\ ReconnectLeft' <= 4 * (MaxReconnects - count)
  <1>1. MaxReconnects \in Nat /\ count \in Nat /\ count <= MaxReconnects
    BY BoundsNat
  <1>2. CASE count >= MaxReconnects
    BY <1>1, <1>2 DEF Reconnect, ReconnectLeft
  <1>3. CASE ~(count >= MaxReconnects)
    <2>1. ws' = "backoff" /\ count' = count + 1
      BY <1>3 DEF Reconnect
    <2>2. MaxReconnects - count' \in Nat /\ MaxReconnects - count' = MaxReconnects - count - 1
      BY <1>1, <1>3, <2>1
    <2>3. \/ ReconnectLeft' = 4 * (MaxReconnects - count') + 2
          \/ ReconnectLeft' = 4 * (MaxReconnects - count') + 4
      BY <2>1, <2>2 DEF ReconnectLeft
    <2>4. QED
      BY <1>1, <2>1, <2>2, <2>3
  <1>4. QED
    BY <1>2, <1>3

LEMMA ReconnectStep ==
    ASSUME IInv, [Next]_vars,
           ws \in {"connecting", "backoff", "receiving"}, socket' \in {socket, None}
    PROVE  \/ UNCHANGED <<ws, count>>
           \/ ReconnectLeft' < ReconnectLeft
  <1> USE DEF net, link, task, service
  <1>0. /\ MaxReconnects \in Nat /\ count \in Nat /\ count <= MaxReconnects
        /\ connected \in BOOLEAN /\ count \in 0 .. MaxReconnects
    BY BoundsNat DEF IInv, TypeOK
  <1>1. ReconnectLeft \in Nat /\ ReconnectLeft > 4 * (MaxReconnects - count)
    BY <1>0 DEF ReconnectLeft
  <1>2. Reconnect(count) => ReconnectLeft' < ReconnectLeft
    BY <1>0, <1>1, AttemptShortens
  <1>3. CASE Refused
    <2>1. CASE first
      BY <1>0, <1>3, <2>1 DEF Refused, ConnectFails, ReconnectLeft
    <2>2. CASE ~first
      <3>1. Reconnect(count)
        BY <1>3, <2>2 DEF Refused, ConnectFails
      <3>2. QED
        BY <1>2, <3>1
    <2>3. QED
      BY <2>1, <2>2
  <1>4. CASE BackoffEnds
    BY <1>0, <1>4 DEF BackoffEnds, Continue, ReconnectLeft
  <1>5. CASE ReceiveFails
    <2>1. CASE running
      <3>1. Reconnect(count)
        BY <1>5, <2>1 DEF ReceiveFails
      <3>2. QED
        BY <1>2, <3>1
    <2>2. CASE ~running
      BY <1>0, <1>5, <2>2 DEF ReceiveFails, ReconnectLeft
    <2>3. QED
      BY <2>1, <2>2
  <1>6. CASE ReceiveEnds
    BY <1>0, <1>6 DEF ReceiveEnds, ReconnectLeft
  <1>7. ASSUME NEW c \in Connection, Connected(c) \/ ConnectedInVain(c)
        PROVE  FALSE
    BY <1>7, MarketDataAssumption DEF Connected, ConnectedInVain
  <1>8. CASE TurnEnds \/ ServiceFails \/ CloseEnds
    <2>1. count' = count /\ ws' \in {ws, "none"}
      BY <1>8 DEF TurnEnds, ServiceFails, Finally, CloseEnds, CancelTask
    <2>2. QED
      BY <1>0, <1>1, <2>1 DEF ReconnectLeft
  <1>9. CASE ServiceStart
    BY <1>9 DEF ServiceStart, IInv, NothingLeftOpen
  <1>10. CASE RunCollector
    BY <1>10 DEF RunCollector
  <1>11. CASE Stop
    BY <1>11 DEF Stop
  <1>12. ASSUME NEW s \in Symbol, Subscribe(s) \/ Unsubscribe(s)
         PROVE  UNCHANGED <<ws, count>>
    BY <1>12 DEF Subscribe, Unsubscribe
  <1>13. ASSUME NEW c \in Connection, Drop(c) \/ CloseInOrder(c)
         PROVE  UNCHANGED <<ws, count>>
    BY <1>13 DEF Drop, CloseInOrder
  <1>14. CASE UNCHANGED vars
    BY <1>14 DEF vars
  <1>15. QED
    BY <1>3, <1>4, <1>5, <1>6, <1>7, <1>8, <1>9, <1>10, <1>11, <1>12, <1>13, <1>14
    DEF Next, Collector

\* From one connection to the next, or to the end of the task, is a number of steps that
\* the attempts bound: market_data_ws.py:118-210.
THEOREM ReconnectionIsShort == Spec => []ReconnectBounded /\ ReconnectShortens
  <1>1. IInv => ReconnectBounded
    BY BoundsNat DEF IInv, TypeOK, ReconnectBounded, ReconnectLeft
  <1>2. IInv /\ [Next]_vars =>
            (/\ ws \in {"connecting", "backoff", "receiving"}
             /\ socket' \in {socket, None}
             => \/ UNCHANGED <<ws, count>>
                \/ ReconnectLeft' < ReconnectLeft)
    BY ReconnectStep
  <1>3. QED
    BY <1>1, <1>2, SpecIInv, PTL DEF Spec, ReconnectShortens

\* No drop ends a collector that is to run and has attempts left, once it has been
\* connected: market_data_ws.py:184-190.
THEOREM EndsForCauseHolds == Spec => EndsForCause
  <1>1. ASSUME IInv, [Next]_vars, ws # "ended", ws' = "ended"
        PROVE  ~running \/ first \/ count = MaxReconnects \/ MaxReconnects = 0
    <2> USE <1>1 DEF net, link, task, service
    <2>0. MaxReconnects \in Nat /\ count \in 0 .. MaxReconnects
      BY BoundsNat DEF IInv, TypeOK
    <2>1. CASE Collector
      BY <2>0, <2>1 DEF Collector, RunCollector, Refused, BackoffEnds, ReceiveFails,
                        ReceiveEnds, Connected, Continue, ConnectFails, Reconnect
    <2>2. ASSUME NEW c \in Connection, ConnectedInVain(c)
          PROVE  first \/ MaxReconnects = 0
      BY <2>0, <2>2 DEF ConnectedInVain, ConnectFails, Reconnect
    <2>3. CASE ~Collector /\ \A c \in Connection : ~ConnectedInVain(c)
      BY <2>3 DEF Next, Drop, CloseInOrder, Subscribe, Unsubscribe, ServiceStart, TurnEnds,
                  ServiceFails, Finally, CancelTask, Stop, CloseEnds, vars
    <2>4. QED
      BY <2>1, <2>2, <2>3
  <1>2. IInv /\ [Next]_vars =>
            (ws # "ended" /\ ws' = "ended" =>
                ~running \/ first \/ count = MaxReconnects \/ MaxReconnects = 0)
    BY <1>1
  <1>3. QED
    BY <1>2, SpecIInv, PTL DEF Spec, EndsForCause
=================================================================================
