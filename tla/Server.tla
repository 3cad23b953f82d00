------------------------------- MODULE Server -------------------------------
(***************************************************************************)
(* The life of a server process: boot, the two broker links with their      *)
(* consumers, the WebSocket sessions, an orderly shutdown on SIGTERM, the   *)
(* end by a rejection nobody handles, and the restart.                     *)
(***************************************************************************)
EXTENDS BrokerLink

CONSTANTS
  Sockets,   \* WebSocket connections one player opens (tabs)
  NoSocket   \* no entry in activeSessions

ASSUME SocketsAssumption == IsFiniteSet(Sockets) /\ NoSocket \notin Sockets

VARIABLES
  phase,     \* where main() and shutdown() are
  waits,     \* rebuilds stop() still waits for
  webhook,   \* the webhook link: conn ("none", "open", "lost"), consuming,
             \* busy (a handler is under way)
  sockets,   \* sockets that are open
  session,   \* the player's entry in activeSessions
  orphaned   \* history: since the last connect, a socket was closed while another
             \* one, older or newer, stayed open

serverVars == <<phase, waits, webhook, sockets, session, orphaned>>
vars == <<linkVars, serverVars>>

NoWebhook == [conn |-> "none", consuming |-> FALSE, busy |-> FALSE]

Init ==
  /\ LinkInit
  /\ phase = "running"
  /\ waits = 0
  /\ webhook \in {NoWebhook, [NoWebhook EXCEPT !.conn = "open"]}
  /\ sockets = {}
  /\ session = NoSocket
  /\ orphaned = FALSE

Down == phase \in {"ended", "crashed"}
Stopping == phase \in {"stopWebhook", "stopConsumer", "closeManager", "closeHttp"}

-----------------------------------------------------------------------------
(* The webhook link is dialled once, before the rest of main(): without it, *)
(* or after it is lost, rows wait for the polling of processPendingWebhooks.*)

WebhookConsumes ==
  /\ phase = "running"
  /\ webhook.conn = "open"
  /\ ~webhook.consuming
  /\ webhook' = [webhook EXCEPT !.consuming = TRUE]
  /\ UNCHANGED <<linkVars, phase, waits, sockets, session, orphaned>>

WebhookDispatch ==
  /\ ~Down
  /\ webhook.conn = "open"
  /\ webhook.consuming
  /\ ~webhook.busy
  /\ webhook' = [webhook EXCEPT !.busy = TRUE]
  /\ UNCHANGED <<linkVars, phase, waits, sockets, session, orphaned>>

WebhookAck ==
  /\ ~Down
  /\ webhook.conn = "open"
  /\ webhook.busy
  /\ webhook' = [webhook EXCEPT !.busy = FALSE]
  /\ UNCHANGED <<linkVars, phase, waits, sockets, session, orphaned>>

\* Only "error" has a handler: nothing dials again.
WebhookLost ==
  /\ ~Down
  /\ webhook.conn = "open"
  /\ webhook' = [webhook EXCEPT !.conn = "lost"]
  /\ UNCHANGED <<linkVars, phase, waits, sockets, session, orphaned>>

-----------------------------------------------------------------------------
(* WebSocketService.                                                       *)

\* connection: the player's last socket is the one that is remembered. A new
\* socket needs the server to be listening.
Connect(s) ==
  /\ ~Down /\ phase # "closeHttp"
  /\ s \notin sockets
  /\ sockets' = sockets \cup {s}
  /\ session' = s
  /\ orphaned' = FALSE
  /\ UNCHANGED <<linkVars, phase, waits, webhook>>

\* Mutation: disconnect leaves the entry.
Disconnect_EntryKept(s) ==
  /\ ~Down
  /\ s \in sockets
  /\ sockets' = sockets \ {s}
  /\ orphaned' = (orphaned \/ sockets' # {})
  /\ UNCHANGED <<linkVars, phase, waits, webhook, session>>

\* disconnect deletes the player's entry, whichever of the sockets closes and
\* whichever the entry names.
Disconnect(s) ==
  /\ ~Down
  /\ s \in sockets
  /\ sockets' = sockets \ {s}
  /\ session' = NoSocket
  /\ orphaned' = (orphaned \/ sockets' # {})
  /\ UNCHANGED <<linkVars, phase, waits, webhook>>

-----------------------------------------------------------------------------
(* shutdown().                                                             *)

\* SIGTERM: the timers stop, webhookBroker.close() is called. As it closes the
\* consumer's channel, the handler under way cannot acknowledge any more.
SigTerm ==
  /\ phase = "running"
  /\ phase' = "stopWebhook"
  /\ UNCHANGED <<linkVars, waits, webhook, sockets, session, orphaned>>

\* close() of the webhook link is through; stop() of the consumer begins to
\* wait for the rebuilds it finds on the chain.
WebhookClosed ==
  /\ phase = "stopWebhook"
  /\ phase' = "stopConsumer"
  /\ webhook' = [webhook EXCEPT !.conn = IF @ = "none" THEN @ ELSE "lost",
                                !.consuming = FALSE]
  /\ waits' = cons.pending + (IF cons.rebuild.step = "idle" THEN 0 ELSE 1)
  /\ UNCHANGED <<linkVars, sockets, session, orphaned>>

\* Mutation: stop() waits until start() has succeeded.
ConsumerStops_WaitsForStart ==
  /\ phase = "stopConsumer"
  /\ waits = 0
  /\ cons.started
  /\ phase' = "closeManager"
  /\ ChannelLetGo
  /\ cons' = [cons EXCEPT !.listening = FALSE, !.channel = 0, !.started = FALSE]
  /\ UNCHANGED <<accepted, open, mgr, work, waits, webhook, sockets, session,
                 orphaned>>

\* The rest of stop(): the listener, the channel.
ConsumerStops ==
  /\ phase = "stopConsumer"
  /\ waits = 0
  /\ phase' = "closeManager"
  /\ ChannelLetGo
  /\ cons' = [cons EXCEPT !.listening = FALSE, !.channel = 0, !.started = FALSE]
  /\ UNCHANGED <<accepted, open, mgr, work, waits, webhook, sockets, session,
                 orphaned>>

BrokerClosed ==
  /\ phase = "closeManager"
  /\ phase' = "closeHttp"
  /\ CloseManager
  /\ UNCHANGED <<waits, webhook, sockets, session, orphaned>>

\* The process is gone: nothing of its memory stays, its connections close.
Gone ==
  /\ Closed(open)
  /\ mgr' = [NewManager EXCEPT !.dial = Idle, !.closing = TRUE]
  /\ cons' = [NewConsumer EXCEPT !.start = Idle, !.listening = FALSE]
  /\ work' = {}
  /\ waits' = 0
  /\ webhook' = NoWebhook
  /\ sockets' = {}
  /\ session' = NoSocket
  /\ orphaned' = FALSE
  /\ UNCHANGED accepted

\* httpServer.close calls back when every connection has ended, those of the
\* WebSockets included; then the pool and Redis close and the process exits.
Exit ==
  /\ phase = "closeHttp"
  /\ sockets = {}
  /\ phase' = "ended"
  /\ Gone

\* A handler wants to acknowledge on a channel that is closed.
Crash ==
  /\ ~Down
  /\ \/ \E c \in work : AckThrows(c)
     \/ webhook.busy /\ webhook.conn = "lost"
  /\ phase' = "crashed"
  /\ Gone

\* SIGKILL, out of memory, a lost node.
Killed ==
  /\ ~Down
  /\ accepted < MaxConnections
  /\ phase' = "crashed"
  /\ Gone

\* The container starts again: main() from the top.
Restart ==
  /\ Down
  /\ accepted < MaxConnections
  /\ phase' = "running"
  /\ mgr' = NewManager
  /\ cons' = NewConsumer
  /\ webhook' \in {NoWebhook, [NoWebhook EXCEPT !.conn = "open"]}
  /\ UNCHANGED <<accepted, open, subs, message, work, waits, sockets, session,
                 orphaned>>

-----------------------------------------------------------------------------

\* stop() counts the rebuilds it waits for as they end.
RebuildEnds == cons.rebuild.step # "idle" /\ cons'.rebuild.step = "idle"
RebuildSkipped == cons'.pending < cons.pending /\ cons'.rebuild.step = "idle"

Link ==
  /\ ~Down
  /\ LinkStep
  /\ waits' = IF waits > 0 /\ (RebuildEnds \/ RebuildSkipped)
              THEN waits - 1 ELSE waits
  /\ UNCHANGED <<phase, webhook, sockets, session, orphaned>>

LinkCloses(c) ==
  /\ ~Down
  /\ ConnectionCloses(c)
  /\ UNCHANGED serverVars

Shutdown == WebhookClosed \/ ConsumerStops \/ BrokerClosed \/ Exit

Next ==
  \/ Link
  \/ \E c \in Conns : LinkCloses(c)
  \/ WebhookConsumes \/ WebhookDispatch \/ WebhookAck \/ WebhookLost
  \/ \E s \in Sockets : Connect(s) \/ Disconnect(s)
  \/ SigTerm \/ Shutdown \/ Crash \/ Killed \/ Restart

Spec == Init /\ [][Next]_vars

\* The event loop serves what is due, timers fire and the container is started
\* again. The broker may refuse connections for any time, but not for ever.
\* No player has to close a socket, and no signal has to come.
Fairness ==
  /\ WF_vars(Link)
  /\ SF_vars(Link /\ Connected)
  /\ WF_vars(WebhookConsumes)
  /\ WF_vars(WebhookAck)
  /\ WF_vars(Crash)
  /\ WF_vars(Shutdown)
  /\ WF_vars(Restart)

FairSpec == Spec /\ Fairness

-----------------------------------------------------------------------------
(* Properties.                                                             *)

\* A process never has two subscriptions to the settlement queue, whatever the
\* order of losses, rebuilds and start(): the rebuilds take turns, each closes
\* the channel before it. A live subscription is always that of the channel the
\* consumer knows and would close next, in a shutdown too.
OneSubscription ==
  /\ \A b, c \in open : subs[b] > 0 /\ subs[c] > 0 => b = c
  /\ \A c \in open : subs[c] <= 1
  /\ \A c \in open : subs[c] = 1 => cons.channel = c

\* Once connections are no longer lost, the message is handled, unless the one
\* start() of this process failed (then "reconnected" is ignored for good), or
\* the process is stopped.
MessageIsHandled ==
  <>[](message = "acked" \/ cons.failed \/ Down \/ Stopping)

\* A shutdown comes to its end, by exit or by the crash of a handler it cut
\* off, unless a player keeps a WebSocket open: httpServer.close waits for it.
ShutdownEnds == <>[](~Stopping \/ sockets # {})

\* activeSessions never names a socket that is closed; and the player can be
\* notified while a socket is open, unless, since the last connect, another
\* socket was closed: the disconnect of any socket takes the one entry, be it
\* that of an older tab (the entry named the newer one) or of the newer tab
\* (the older one is open, and is not put back).
SessionNamesOpenSocket ==
  /\ session # NoSocket => session \in sockets
  /\ sockets # {} /\ ~orphaned => session \in sockets
=============================================================================
