------------------------------- MODULE MarketData -------------------------------
(* The market data collector (data_ingestion/collectors/market_data_ws.py) inside *)
(* the ingestion service that runs it (data_ingestion/ingestion_service.py): the  *)
(* service's task, the collector's task, the task that asks the service to stop,  *)
(* and the exchange at the other end of the connections.                          *)
(*                                                                                *)
(* A task runs from one await to the next.  A close of an open connection ends    *)
(* when the connection is down, and everyone who waits for it resumes at once; a  *)
(* close of a connection that is down already does not wait.                      *)
EXTENDS Naturals, FiniteSets

CONSTANTS
    Connection, Symbol,
    Configured,         \* MarketWebSocketConfig.subscriptions
    MaxReconnects,      \* reconnect_attempts
    None,
    MaxEvents           \* bound of an instance: drops, refusals apart, and calls from outside

ASSUME MarketDataAssumption ==
    /\ Configured \subseteq Symbol
    /\ None \notin Connection
    /\ {MaxReconnects, MaxEvents} \subseteq Nat

VARIABLES
    conn,               \* each connection, as the network has it
    carried,            \* what the exchange streams on the latest connection
    socket, connected, running, wanted, count,  \* the collector's fields; wanted is _subscriptions
    ws, first,          \* its task, and whether it has not connected yet
    svc, svcRunning,    \* the service's task and flag
    stop,               \* the task that stops the service
    events

net == <<conn, carried>>
link == <<socket, connected>>
task == <<ws, first, count>>
service == <<svc, svcRunning, stop>>
vars == <<net, link, running, wanted, task, service, events>>

Init ==
    /\ conn = [c \in Connection |-> "none"] /\ carried = {}
    /\ socket = None /\ connected = FALSE /\ running = FALSE
    /\ wanted = {} /\ count = 0
    /\ ws = "none" /\ first = TRUE
    /\ svc = "idle" /\ svcRunning = FALSE
    /\ stop = "idle"
    /\ events = 0

Held(S) == socket # None /\ conn[socket] \in S
Streaming == connected /\ Held({"open"})

Event ==
    /\ events < MaxEvents
    /\ events' = events + 1
---------------------------------------------------------------------------------
(* The collector's task                                                          *)

RunCollector ==
    /\ ws = "created"
    /\ ws' = "connecting" /\ first' = TRUE
    /\ running' = TRUE
    /\ UNCHANGED <<net, link, wanted, count, service, events>>

\* connect() succeeded: the task goes on receiving, or finds it is to stop
Continue == ws' = IF running THEN "receiving" ELSE "ended"

\* a mutant: one attempt more than allowed
ReconnectOnceMore(n) ==
    IF n > MaxReconnects
    THEN ws' = "ended" /\ count' = n
    ELSE ws' = "backoff" /\ count' = n + 1

\* _reconnect() with n attempts made: give up or wait for the next
Reconnect(n) ==
    IF n >= MaxReconnects
    THEN ws' = "ended" /\ count' = n
    ELSE ws' = "backoff" /\ count' = n + 1

\* a failure of the first connect() is the end of the task
ConnectFails(n) ==
    /\ IF first THEN ws' = "ended" /\ count' = n ELSE Reconnect(n)
    /\ UNCHANGED first

ToSend == IF first THEN wanted \cup Configured ELSE wanted

\* a mutant: nothing is sent again after a reconnection
ConnectedOnly(c) ==
    /\ ws = "connecting" /\ c # socket /\ conn[c] # "open"
    /\ conn' = [conn EXCEPT ![c] = "open"]
    /\ socket' = c /\ connected' = TRUE
    /\ wanted' = ToSend /\ carried' = IF first THEN ToSend ELSE {}
    /\ count' = 0 /\ first' = FALSE
    /\ Continue
    /\ UNCHANGED <<running, service, events>>

Connected(c) ==
    /\ ws = "connecting" /\ c # socket /\ conn[c] # "open"
    /\ conn' = [conn EXCEPT ![c] = "open"]
    /\ socket' = c /\ connected' = TRUE
    /\ wanted' = ToSend /\ carried' = ToSend
    /\ count' = 0 /\ first' = FALSE
    /\ Continue
    /\ UNCHANGED <<running, service, events>>

\* the connection is down again before the subscriptions are sent
ConnectedInVain(c) ==
    /\ Event
    /\ ws = "connecting" /\ c # socket /\ conn[c] # "open" /\ ToSend # {}
    /\ conn' = [conn EXCEPT ![c] = "lost"]
    /\ socket' = c /\ connected' = TRUE
    /\ carried' = {}
    /\ ConnectFails(0)
    /\ UNCHANGED <<running, wanted, service>>

Refused ==
    /\ ws = "connecting"
    /\ ConnectFails(count)
    /\ UNCHANGED <<net, link, running, wanted, service, events>>

\* connect() returns at once when it believes it is connected
BackoffEnds ==
    /\ ws = "backoff"
    /\ IF connected THEN Continue ELSE ws' = "connecting"
    /\ UNCHANGED <<net, link, running, wanted, first, count, service, events>>

\* a mutant: the error ends the stream and nothing else
ReceiveFailsUnseen ==
    /\ ws = "receiving" /\ Held({"lost"})
    /\ connected' = FALSE
    /\ IF running THEN UNCHANGED ws ELSE ws' = "ended"
    /\ UNCHANGED <<net, socket, running, wanted, first, count, service, events>>

\* a mutant: a message that cannot be handled counts as a failure of the connection
ReceiveOrHandleFails ==
    /\ ws = "receiving" /\ Held({"lost", "open"})
    /\ connected' = FALSE
    /\ IF running THEN Reconnect(count) ELSE ws' = "ended" /\ UNCHANGED count
    /\ UNCHANGED <<net, socket, running, wanted, first, service, events>>

ReceiveFails ==
    /\ ws = "receiving" /\ Held({"lost"})
    /\ connected' = FALSE
    /\ IF running THEN Reconnect(count) ELSE ws' = "ended" /\ UNCHANGED count
    /\ UNCHANGED <<net, socket, running, wanted, first, service, events>>

\* the next message, or the end of the connection, finds the flag down; while it is
\* up a connection that was closed in order is only asked for messages again
ReceiveEnds ==
    /\ ws = "receiving" /\ ~running
    /\ ws' = "ended"
    /\ UNCHANGED <<net, link, running, wanted, first, count, service, events>>
---------------------------------------------------------------------------------
(* Anyone: subscriptions                                                         *)

\* sent when the collector believes it is connected, which raises on a dead connection
Subscribe(s) ==
    /\ Event
    /\ s \notin wanted
    /\ \/ /\ Streaming
          /\ carried' = carried \cup {s}
          /\ wanted' = wanted \cup {s}
       \/ /\ ~connected
          /\ wanted' = wanted \cup {s}
          /\ UNCHANGED carried
    /\ UNCHANGED <<conn, link, running, task, service>>

Unsubscribe(s) ==
    /\ Event
    /\ s \in wanted
    /\ \/ /\ Streaming
          /\ carried' = carried \ {s}
          /\ wanted' = wanted \ {s}
       \/ /\ ~connected
          /\ wanted' = wanted \ {s}
          /\ UNCHANGED carried
    /\ UNCHANGED <<conn, link, running, task, service>>
---------------------------------------------------------------------------------
(* The service                                                                   *)

ServiceStart ==
    /\ Event
    /\ svc = "idle"
    /\ svc' = "running" /\ svcRunning' = TRUE
    /\ ws' = "created"
    /\ UNCHANGED <<net, link, running, wanted, first, count, stop>>

MustWait == Held({"open", "closing"})

\* WebSocketCollector.stop() up to its first wait, or to its end
Disconnect ==
    /\ running' = FALSE
    /\ IF MustWait
       THEN conn' = [conn EXCEPT ![socket] = "closing"] /\ UNCHANGED link
       ELSE socket' = None /\ connected' = (connected /\ socket = None) /\ UNCHANGED conn

\* a mutant: the task of the collector is left to itself
CancelNothing == UNCHANGED ws

\* ws_task.cancel(), which abandons a connect() under way
CancelTask == ws' = "none"

Finally ==
    /\ Disconnect
    /\ IF MustWait
       THEN svc' = "closing" /\ UNCHANGED ws
       ELSE svc' = "idle" /\ CancelTask
    /\ UNCHANGED <<carried, wanted, first, count, svcRunning, stop>>

TurnEnds ==
    /\ svc = "running" /\ ~svcRunning
    /\ Finally
    /\ UNCHANGED events

\* the service is cancelled, or a collection cycle raises
ServiceFails ==
    /\ Event
    /\ svc = "running"
    /\ Finally

Stop ==
    /\ Event
    /\ stop = "idle"
    /\ svcRunning' = FALSE
    /\ Disconnect
    /\ stop' = IF MustWait THEN "closing" ELSE "idle"
    /\ UNCHANGED <<carried, wanted, task, svc>>

\* the handshake is over or timed out, and the tasks that wait for it resume
CloseEnds ==
    /\ Held({"closing"})
    /\ conn' = [conn EXCEPT ![socket] = "none"]
    /\ socket' = None /\ connected' = FALSE
    /\ stop' = "idle"
    /\ IF svc = "closing"
       THEN svc' = "idle" /\ CancelTask
       ELSE UNCHANGED <<svc, ws>>
    /\ UNCHANGED <<carried, running, wanted, first, count, svcRunning, events>>
---------------------------------------------------------------------------------
(* The exchange and the network                                                  *)

Drop(c) ==
    /\ Event
    /\ conn[c] = "open"
    /\ conn' = [conn EXCEPT ![c] = "lost"]
    /\ UNCHANGED <<carried, link, running, wanted, task, service>>

CloseInOrder(c) ==
    /\ Event
    /\ conn[c] = "open"
    /\ conn' = [conn EXCEPT ![c] = "clean"]
    /\ UNCHANGED <<carried, link, running, wanted, task, service>>
---------------------------------------------------------------------------------
Collector ==
    \/ RunCollector \/ Refused \/ BackoffEnds \/ ReceiveFails \/ ReceiveEnds
    \/ \E c \in Connection : Connected(c)

Next ==
    \/ Collector
    \/ \E c \in Connection : ConnectedInVain(c) \/ Drop(c) \/ CloseInOrder(c)
    \/ \E s \in Symbol : Subscribe(s) \/ Unsubscribe(s)
    \/ ServiceStart \/ TurnEnds \/ ServiceFails \/ Stop \/ CloseEnds

\* the loop runs its tasks, and every wait ends: a connect by an answer or its
\* timeout, a close by its timeout, a backoff and a turn of the service by the clock
Fairness == WF_vars(Collector) /\ WF_vars(TurnEnds) /\ WF_vars(CloseEnds)

Spec == Init /\ [][Next]_vars
FairSpec == Spec /\ Fairness
---------------------------------------------------------------------------------
(* Properties                                                                    *)

TypeOK ==
    /\ conn \in [Connection -> {"none", "open", "closing", "lost", "clean"}]
    /\ carried \in SUBSET Symbol /\ wanted \in SUBSET Symbol
    /\ socket \in Connection \cup {None}
    /\ {connected, running, first, svcRunning} \subseteq BOOLEAN
    /\ count \in 0 .. MaxReconnects
    /\ ws \in {"none", "created", "connecting", "receiving", "backoff", "ended"}
    /\ svc \in {"idle", "running", "closing"}
    /\ stop \in {"idle", "closing"}
    /\ events \in 0 .. MaxEvents

(* When the service has ended its collector has too, and no connection is left open, *)
(* whatever the collector was waiting for when it was stopped: a connection that it   *)
(* opens after stop() returned is closed with the service (ingestion_service.py:361). *)
NothingLeftOpen ==
    svc = "idle" => /\ ws = "none" /\ ~connected /\ socket = None
                    /\ \A c \in Connection : conn[c] \notin {"open", "closing"}

(* Only the connection the collector holds is ever up: a reconnection does not leave  *)
(* the one before it open behind it (market_data_ws.py:150, 314).                     *)
OneConnection == \A c \in Connection : conn[c] \in {"open", "closing"} => c = socket

(* The exchange streams on an open connection what is subscribed, through drops,      *)
(* reconnections and calls of subscribe and unsubscribe between any two of their      *)
(* steps (market_data_ws.py:158, 223).                                                *)
SubscriptionsCarried == Held({"open"}) => carried = wanted

(* A connection that drops is replaced, or the collector's task ends because it is    *)
(* stopped or has used up its attempts (market_data_ws.py:184, 29).                   *)
DropHandled == (running /\ Held({"lost"})) ~> (Streaming \/ ~running \/ ws = "ended")

(* A connection the exchange closed is replaced as well ("Handle disconnects with     *)
(* automatic reconnection", market_data_ws.py:29).                                    *)
CloseHandled == (running /\ Held({"clean"})) ~> (Streaming \/ ~running \/ ws = "ended")
=================================================================================
