----------------------------- MODULE BrokerLink -----------------------------
(***************************************************************************)
(* One process's side of the event broker: RabbitMqConnectionManager, which *)
(* keeps one connection and dials again when it closes, and the settlement  *)
(* consumer, which subscribes once at the start and anew after every        *)
(* "reconnected". Followed along the life of one message of the settlement  *)
(* queue.                                                                  *)
(*                                                                         *)
(* Connections are numbered in the order the broker accepts them; a channel *)
(* is named by its connection, and is closed when that is.                  *)
(***************************************************************************)
EXTENDS Naturals, FiniteSets

CONSTANT MaxConnections  \* bound: connections the broker ever accepts, and
                         \* so the number of those that are lost

ASSUME ConnectionsAssumption == MaxConnections \in Nat \ {0}

Conns == 1..MaxConnections

VARIABLES
  accepted, \* connections accepted so far
  open,     \* connections that are open
  mgr,      \* the manager: conn (connection and confirmChannel, 0 is null),
            \* dial (step of establishConnection), timer, closing
  cons,     \* the consumer: start and rebuild (steps of start() and of the
            \* rebuild under way), started, failed (start() rejected), pending
            \* (rebuilds chained on rebuildTail), channel (0 is null) and
            \* listening (to "reconnected")
  subs,     \* subscriptions to the settlement queue, per connection
  message,  \* a message of that queue: "ready", "unacked" or "acked"
  work      \* connections on which dispatchMessage is under way

linkVars == <<accepted, open, mgr, cons, subs, message, work>>

Idle == [step |-> "idle", conn |-> 0]

\* The constructors: the manager dials, the consumer listens and start() waits.
NewManager == [conn |-> 0, dial |-> [step |-> "connect", conn |-> 0],
               timer |-> FALSE, closing |-> FALSE]
NewConsumer == [start |-> [step |-> "waiting", conn |-> 0], started |-> FALSE,
                failed |-> FALSE, pending |-> 0, rebuild |-> Idle,
                channel |-> 0, listening |-> TRUE]

LinkInit ==
  /\ accepted = 0
  /\ open = {}
  /\ mgr = NewManager
  /\ cons = NewConsumer
  /\ subs = [c \in Conns |-> 0]
  /\ message = "ready"
  /\ work = {}

-----------------------------------------------------------------------------
(* RabbitMqConnectionManager.                                              *)

\* The connections of C close: their channels and subscriptions go with them,
\* and the broker puts an unacknowledged message back.
Closed(C) ==
  /\ open' = open \ C
  /\ subs' = [c \in Conns |-> IF c \in C THEN 0 ELSE subs[c]]
  /\ message' = IF message = "unacked" /\ \E c \in C : subs[c] > 0
                  THEN "ready" ELSE message

\* scheduleReconnect: no second timer, none once closing.
Rescheduled(m) == [m EXCEPT !.timer = @ \/ ~m.closing]

\* connect() rejects: the broker is away.
ConnectFails ==
  /\ mgr.dial.step = "connect"
  /\ mgr' = Rescheduled([mgr EXCEPT !.conn = 0, !.dial = Idle])
  /\ UNCHANGED <<accepted, open, cons, subs, message, work>>

\* connect() resolves and the handlers are set; the channel is asked for.
Connected ==
  /\ mgr.dial.step = "connect"
  /\ accepted < MaxConnections
  /\ accepted' = accepted + 1
  /\ open' = open \cup {accepted'}
  /\ mgr' = [mgr EXCEPT !.dial = [step |-> "channel", conn |-> accepted']]
  /\ UNCHANGED <<cons, subs, message, work>>

\* The confirm channel and the exchange are there; "reconnected" is emitted,
\* and onReconnected chains a rebuild.
ChannelReady ==
  /\ mgr.dial.step = "channel"
  /\ mgr.dial.conn \in open
  /\ mgr' = [mgr EXCEPT !.conn = mgr.dial.conn, !.dial = Idle]
  /\ cons' = IF cons.listening THEN [cons EXCEPT !.pending = @ + 1] ELSE cons
  /\ UNCHANGED <<accepted, open, subs, message, work>>

\* The channel or the exchange is refused, or the connection is gone: the
\* catch block closes what there is of it.
ChannelFails ==
  /\ mgr.dial.step = "channel"
  /\ mgr.dial.conn \notin open
  /\ mgr' = Rescheduled([mgr EXCEPT !.conn = 0, !.dial = Idle])
  /\ UNCHANGED <<accepted, open, cons, subs, message, work>>

\* Mutation: the close handler leaves it to the next publication to notice.
ConnectionCloses_NotRescheduled(c) ==
  /\ c \in open
  /\ accepted < MaxConnections
  /\ Closed({c})
  /\ mgr' = IF mgr.closing THEN mgr ELSE [mgr EXCEPT !.conn = 0]
  /\ UNCHANGED <<accepted, cons, work>>

\* The close handler of a connection.
ConnectionCloses(c) ==
  /\ c \in open
  /\ accepted < MaxConnections
  /\ Closed({c})
  /\ mgr' = IF mgr.closing THEN mgr ELSE Rescheduled([mgr EXCEPT !.conn = 0])
  /\ UNCHANGED <<accepted, cons, work>>

\* The timer fires; establishConnection returns at once when closing or when
\* a connect is under way.
Redial ==
  /\ mgr.timer
  /\ mgr' = [mgr EXCEPT
       !.timer = FALSE,
       !.dial = IF mgr.closing \/ @.step # "idle" THEN @
                ELSE [step |-> "connect", conn |-> 0]]
  /\ UNCHANGED <<accepted, open, cons, subs, message, work>>

\* close(): the timer, the channel and the connection.
CloseManager ==
  /\ Closed({mgr.conn} \cap Conns)
  /\ mgr' = [mgr EXCEPT !.conn = 0, !.timer = FALSE, !.closing = TRUE]
  /\ UNCHANGED <<accepted, cons, work>>

-----------------------------------------------------------------------------
(* SettlementEventConsumerService.                                         *)

Ready == mgr.conn # 0 /\ ~mgr.closing

\* waitForReady returns and createConsumerChannel asks for a channel of the
\* connection it finds.
StartWaited ==
  /\ cons.start.step = "waiting"
  /\ Ready
  /\ cons' = [cons EXCEPT !.start = [step |-> "setup", conn |-> mgr.conn]]
  /\ UNCHANGED <<accepted, open, mgr, subs, message, work>>

\* waitForReady gives up after a minute, or because the manager is closing;
\* or the connection goes while the queue is being declared. start() rejects,
\* and nobody calls it again.
StartFails ==
  /\ \/ cons.start.step = "waiting" /\ ~Ready
     \/ cons.start.step = "setup" /\ cons.start.conn \notin open
  /\ cons' = [cons EXCEPT !.start = Idle, !.failed = TRUE]
  /\ UNCHANGED <<accepted, open, mgr, subs, message, work>>

\* setupConsumerChannel on connection c.
Subscribed(c) == subs' = [subs EXCEPT ![c] = @ + 1]

StartSubscribes ==
  /\ cons.start.step = "setup"
  /\ cons.start.conn \in open
  /\ Subscribed(cons.start.conn)
  /\ cons' = [cons EXCEPT !.start = Idle, !.started = TRUE,
                          !.channel = cons.start.conn]
  /\ UNCHANGED <<accepted, open, mgr, message, work>>

\* closeConsumerChannelOnly: the subscription ends and the broker takes an
\* unacknowledged message back.
ChannelLetGo ==
  LET c == cons.channel
      live == c # 0 /\ c \in open
  IN  /\ subs' = IF live THEN [subs EXCEPT ![c] = @ - 1] ELSE subs
      /\ message' = IF live /\ message = "unacked" THEN "ready" ELSE message

\* Mutation: the old channel is dropped without being closed.
RebuildBegins_NotClosed ==
  /\ cons.pending > 0
  /\ cons.rebuild.step = "idle"
  /\ cons' = [cons EXCEPT
       !.pending = @ - 1,
       !.channel = IF cons.started THEN 0 ELSE @,
       !.rebuild = IF cons.started THEN [step |-> "waiting", conn |-> 0] ELSE @]
  /\ UNCHANGED <<accepted, open, mgr, subs, message, work>>

\* The next rebuild of the chain: ignored while start() has not succeeded.
RebuildBegins ==
  /\ cons.pending > 0
  /\ cons.rebuild.step = "idle"
  /\ \/ /\ ~cons.started
        /\ cons' = [cons EXCEPT !.pending = @ - 1]
        /\ UNCHANGED <<subs, message>>
     \/ /\ cons.started
        /\ ChannelLetGo
        /\ cons' = [cons EXCEPT !.pending = @ - 1, !.channel = 0,
                                !.rebuild = [step |-> "waiting", conn |-> 0]]
  /\ UNCHANGED <<accepted, open, mgr, work>>

RebuildWaited ==
  /\ cons.rebuild.step = "waiting"
  /\ Ready
  /\ cons' = [cons EXCEPT !.rebuild = [step |-> "setup", conn |-> mgr.conn]]
  /\ UNCHANGED <<accepted, open, mgr, subs, message, work>>

\* As StartFails; the catch of the chain logs it, and the next "reconnected"
\* tries again.
RebuildFails ==
  /\ \/ cons.rebuild.step = "waiting" /\ ~Ready
     \/ cons.rebuild.step = "setup" /\ cons.rebuild.conn \notin open
  /\ cons' = [cons EXCEPT !.rebuild = Idle]
  /\ UNCHANGED <<accepted, open, mgr, subs, message, work>>

RebuildSubscribes ==
  /\ cons.rebuild.step = "setup"
  /\ cons.rebuild.conn \in open
  /\ Subscribed(cons.rebuild.conn)
  /\ cons' = [cons EXCEPT !.rebuild = Idle, !.channel = cons.rebuild.conn]
  /\ UNCHANGED <<accepted, open, mgr, message, work>>

\* The broker delivers; dispatchMessage works for a while.
Dispatch(c) ==
  /\ message = "ready"
  /\ subs[c] > 0
  /\ c \notin work
  /\ message' = "unacked"
  /\ work' = work \cup {c}
  /\ UNCHANGED <<accepted, open, mgr, cons, subs>>

\* A channel that is closed throws on ack, and on the nack of the catch block:
\* the rejection of dispatchMessage is nobody's, and ends the process.
AckThrows(c) == c \in work /\ subs[c] = 0

Ack(c) ==
  /\ c \in work
  /\ subs[c] > 0
  /\ message' = IF message = "unacked" THEN "acked" ELSE message
  /\ work' = work \ {c}
  /\ UNCHANGED <<accepted, open, mgr, cons, subs>>

-----------------------------------------------------------------------------

\* What the process does by itself.
LinkStep ==
  \/ ConnectFails \/ Connected \/ ChannelReady \/ ChannelFails \/ Redial
  \/ StartWaited \/ StartFails \/ StartSubscribes
  \/ RebuildBegins \/ RebuildWaited \/ RebuildFails \/ RebuildSubscribes
  \/ \E c \in Conns : Dispatch(c) \/ Ack(c)
=============================================================================
