---------------------------- MODULE ServerProofs ----------------------------
(***************************************************************************)
(* Proofs about Server, for any number of connections and sockets.          *)
(*                                                                         *)
(* That a process has one subscription does not follow from what one step   *)
(* leaves: a rebuild that subscribes must know that no channel of the       *)
(* process is still subscribed.  Turns says who may have one: start() until *)
(* it has ended, then one rebuild at a time, and neither of them while the  *)
(* consumer has a channel.                                                 *)
(***************************************************************************)
EXTENDS Server, FiniteSetTheorems, TLAPS

Dials == [step : {"idle", "connect", "channel"}, conn : 0..MaxConnections]
Setups == [step : {"idle", "waiting", "setup"}, conn : 0..MaxConnections]

LinkTypes ==
  /\ accepted \in 0..MaxConnections
  /\ open \in SUBSET (1..accepted)
  /\ mgr \in [conn : 0..MaxConnections, dial : Dials, timer : BOOLEAN,
              closing : BOOLEAN]
  /\ cons \in [start : Setups, started : BOOLEAN, failed : BOOLEAN,
               pending : Nat, rebuild : Setups, channel : 0..MaxConnections,
               listening : BOOLEAN]
  /\ cons.channel <= accepted
  /\ subs \in [Conns -> Nat]

\* start() has not ended, or a rebuild is under way, but not both, and neither
\* while there is a channel.
Turns ==
  /\ cons.start.step # "idle" =>
       ~cons.started /\ cons.rebuild.step = "idle" /\ cons.channel = 0
  /\ cons.rebuild.step # "idle" => cons.channel = 0

\* The only subscription is that of the consumer's channel while that is open.
ChannelSubscribes ==
  \A c \in Conns : subs[c] = IF c \in open /\ cons.channel = c THEN 1 ELSE 0

LinkInv == LinkTypes /\ Turns /\ ChannelSubscribes

\* A process that is gone has no channel.
GoneInv == Down => cons.channel = 0

-----------------------------------------------------------------------------
(* The start of a process, and its end.                                    *)

\* 0 is a connection's number or null.
LEMMA Numbers == 0 \in 0..MaxConnections /\ Conns \subseteq 0..MaxConnections
BY ConnectionsAssumption DEF Conns

\* What the constructors leave is well-typed and in turn.
LEMMA NewLink ==
  /\ NewManager \in [conn : 0..MaxConnections, dial : Dials, timer : BOOLEAN,
                     closing : BOOLEAN]
  /\ NewConsumer \in [start : Setups, started : BOOLEAN, failed : BOOLEAN,
                      pending : Nat, rebuild : Setups,
                      channel : 0..MaxConnections, listening : BOOLEAN]
BY Numbers DEF NewManager, NewConsumer, Dials, Setups, Idle

\* A new process has no subscription.
LEMMA LinkBegins == Init => LinkInv
<1> SUFFICES ASSUME Init PROVE LinkInv
  OBVIOUS
<1>1. LinkTypes
  <2>1. cons.channel = 0 /\ accepted = 0 /\ accepted \in 0..MaxConnections
    BY ConnectionsAssumption DEF Init, LinkInit, NewConsumer
  <2>2. QED BY <2>1, NewLink DEF Init, LinkInit, LinkTypes
<1>2. Turns
  BY DEF Init, LinkInit, Turns, NewConsumer, Idle
<1>3. ChannelSubscribes
  BY DEF Init, LinkInit, ChannelSubscribes
<1>4. QED BY <1>1, <1>2, <1>3 DEF LinkInv

\* Closed connections take their subscriptions with them.
LEMMA ClosedKeeps ==
  ASSUME LinkInv, NEW C, Closed(C)
  PROVE  /\ open' \in SUBSET (1..accepted)
         /\ subs' \in [Conns -> Nat]
         /\ \A c \in Conns :
              subs'[c] = IF c \in open' /\ cons.channel = c THEN 1 ELSE 0
<1>1. \A c \in Conns : subs'[c] = IF c \in C THEN 0 ELSE subs[c]
  BY DEF Closed
<1>2. QED BY <1>1 DEF Closed, LinkInv, LinkTypes, ChannelSubscribes

\* The death of a process leaves no subscription.
LEMMA GoneKeeps == LinkInv /\ Gone => LinkInv'
<1> SUFFICES ASSUME LinkInv, Gone PROVE LinkInv'
  OBVIOUS
<1>1. open' = {} /\ \A c \in Conns : subs'[c] = 0
  BY DEF Gone, Closed, LinkInv, LinkTypes, ChannelSubscribes
<1>2. LinkTypes'
  <2>1. open' \in SUBSET (1..accepted) /\ subs' \in [Conns -> Nat]
    BY ClosedKeeps DEF Gone
  <2>2. mgr' \in [conn : 0..MaxConnections, dial : Dials, timer : BOOLEAN,
                  closing : BOOLEAN]
    BY NewLink, Numbers DEF Gone, Idle, Dials
  <2>3. cons' \in [start : Setups, started : BOOLEAN, failed : BOOLEAN,
                   pending : Nat, rebuild : Setups,
                   channel : 0..MaxConnections, listening : BOOLEAN]
    BY NewLink, Numbers DEF Gone, Idle, Setups
  <2>4. cons'.channel = 0
    BY DEF Gone, NewConsumer
  <2>5. QED BY <2>1, <2>2, <2>3, <2>4 DEF Gone, LinkInv, LinkTypes
<1>3. Turns'
  BY DEF Gone, Turns, NewConsumer, Idle
<1>4. ChannelSubscribes'
  BY <1>1 DEF ChannelSubscribes
<1>5. QED BY <1>2, <1>3, <1>4 DEF LinkInv

-----------------------------------------------------------------------------
(* The manager's steps leave the consumer's channel alone.                 *)

\* The manager changes only its own state, open connections, and how many
\* rebuilds are chained.
LEMMA ManagerKeeps ==
  ASSUME LinkInv,
         ConnectFails \/ Connected \/ ChannelReady \/ ChannelFails \/ Redial
  PROVE  LinkInv'
<1> USE DEF LinkInv
<1>1. CASE ConnectFails
  BY <1>1, Numbers DEF ConnectFails, Rescheduled, LinkTypes, Dials, Idle, Turns,
     ChannelSubscribes
<1>2. CASE Connected
  <2>1. accepted' \in Conns /\ accepted' \in 0..MaxConnections
    BY <1>2, ConnectionsAssumption DEF Connected, LinkTypes, Conns
  <2>2. LinkTypes'
    BY <1>2, <2>1 DEF Connected, LinkTypes, Dials
  <2>3. \A c \in Conns : c \in open' /\ cons.channel = c <=> c \in open /\ cons.channel = c
    BY <1>2 DEF Connected, LinkTypes
  <2>4. QED BY <1>2, <2>2, <2>3 DEF Connected, Turns, ChannelSubscribes
<1>3. CASE ChannelReady
  <2>1. mgr.dial.conn \in 0..MaxConnections
    BY DEF LinkTypes, Dials
  <2>2. mgr' \in [conn : 0..MaxConnections, dial : Dials, timer : BOOLEAN,
                  closing : BOOLEAN]
    BY <1>3, <2>1, Numbers DEF ChannelReady, LinkTypes, Dials, Idle
  <2>3. cons' \in [start : Setups, started : BOOLEAN, failed : BOOLEAN,
                   pending : Nat, rebuild : Setups,
                   channel : 0..MaxConnections, listening : BOOLEAN]
    BY <1>3 DEF ChannelReady, LinkTypes
  <2>4. /\ cons'.start = cons.start /\ cons'.started = cons.started
        /\ cons'.rebuild = cons.rebuild /\ cons'.channel = cons.channel
    BY <1>3 DEF ChannelReady, LinkTypes
  <2>5. QED BY <1>3, <2>2, <2>3, <2>4 DEF ChannelReady, LinkTypes, Turns, ChannelSubscribes
<1>4. CASE ChannelFails
  BY <1>4, Numbers DEF ChannelFails, Rescheduled, LinkTypes, Dials, Idle, Turns,
     ChannelSubscribes
<1>5. CASE Redial
  BY <1>5, Numbers DEF Redial, LinkTypes, Dials, Turns, ChannelSubscribes
<1>6. QED BY <1>1, <1>2, <1>3, <1>4, <1>5

\* So does the loss of a connection.
LEMMA LossKeeps ==
  ASSUME LinkInv, NEW c \in Conns, ConnectionCloses(c)
  PROVE  LinkInv'
<1>1. Closed({c})
  BY DEF ConnectionCloses
<1>2. mgr' \in [conn : 0..MaxConnections, dial : Dials, timer : BOOLEAN,
                closing : BOOLEAN]
  BY Numbers DEF ConnectionCloses, Rescheduled, LinkInv, LinkTypes
<1>3. QED
  BY <1>1, <1>2, ClosedKeeps DEF ConnectionCloses, LinkInv, LinkTypes, Turns, ChannelSubscribes

\* And the end of the manager.
LEMMA CloseManagerKeeps ==
  ASSUME LinkInv, CloseManager
  PROVE  LinkInv'
<1>1. Closed({mgr.conn} \cap Conns)
  BY DEF CloseManager
<1>2. mgr' \in [conn : 0..MaxConnections, dial : Dials, timer : BOOLEAN,
                closing : BOOLEAN]
  BY Numbers DEF CloseManager, LinkInv, LinkTypes
<1>3. QED
  BY <1>1, <1>2, ClosedKeeps DEF CloseManager, LinkInv, LinkTypes, Turns, ChannelSubscribes

-----------------------------------------------------------------------------
(* The consumer's steps.                                                   *)

\* With no channel there is no subscription.
LEMMA NoChannelNoSubscription ==
  ASSUME LinkInv, cons.channel = 0
  PROVE  \A c \in Conns : subs[c] = 0
BY DEF LinkInv, ChannelSubscribes, Conns

\* Letting go of the channel ends the process's subscription.
LEMMA LetGo ==
  ASSUME LinkInv, ChannelLetGo
  PROVE  subs' \in [Conns -> Nat] /\ \A c \in Conns : subs'[c] = 0
<1>1. CASE cons.channel \in open
  <2>1. PICK c \in Conns : c = cons.channel
    BY <1>1 DEF LinkInv, LinkTypes, Conns
  <2>2. c # 0
    BY <2>1 DEF Conns
  <2>3. subs' = [subs EXCEPT ![c] = @ - 1]
    BY <1>1, <2>1, <2>2 DEF ChannelLetGo
  <2>4. \A b \in Conns : subs[b] = IF b = c THEN 1 ELSE 0
    BY <1>1, <2>1 DEF LinkInv, LinkTypes, ChannelSubscribes
  <2>5. QED BY <2>3, <2>4 DEF LinkInv, LinkTypes
<1>2. CASE cons.channel \notin open
  <2>1. subs' = subs
    BY <1>2 DEF ChannelLetGo
  <2>2. QED BY <1>2, <2>1 DEF LinkInv, LinkTypes, ChannelSubscribes
<1>3. QED BY <1>1, <1>2

\* Where nothing was subscribed, one subscription is all there is.
LEMMA FirstSubscription ==
  ASSUME LinkInv, cons.channel = 0, NEW d \in open, Subscribed(d)
  PROVE  /\ subs' \in [Conns -> Nat]
         /\ \A c \in Conns : subs'[c] = IF c = d THEN 1 ELSE 0
<1>1. \A c \in Conns : subs[c] = 0
  BY NoChannelNoSubscription
<1>2. d \in Conns
  BY ConnectionsAssumption DEF LinkInv, LinkTypes, Conns
<1>3. QED BY <1>1, <1>2 DEF Subscribed, LinkInv, LinkTypes

\* The steps of the consumer keep its types.
LEMMA ConsumerTypes ==
  ASSUME LinkInv,
         StartWaited \/ StartFails \/ StartSubscribes \/
         RebuildBegins \/ RebuildWaited \/ RebuildFails \/ RebuildSubscribes
  PROVE  cons' \in [start : Setups, started : BOOLEAN, failed : BOOLEAN,
                    pending : Nat, rebuild : Setups,
                    channel : 0..MaxConnections, listening : BOOLEAN]
<1> USE DEF LinkInv, LinkTypes
<1>1. Idle \in Setups /\ [step |-> "waiting", conn |-> 0] \in Setups
  BY Numbers DEF Idle, Setups
<1>2. [step |-> "setup", conn |-> mgr.conn] \in Setups
  BY DEF Setups
<1>3. cons.start.conn \in 0..MaxConnections /\ cons.rebuild.conn \in 0..MaxConnections
  BY DEF Setups
<1>4. CASE StartWaited \/ StartFails \/ StartSubscribes
  BY <1>1, <1>2, <1>3, <1>4 DEF StartWaited, StartFails, StartSubscribes
<1>5. CASE RebuildBegins
  <2>1. cons.pending > 0 => cons.pending - 1 \in Nat
    OBVIOUS
  <2>2. QED BY <1>1, <1>5, <2>1, Numbers DEF RebuildBegins
<1>6. CASE RebuildWaited \/ RebuildFails \/ RebuildSubscribes
  BY <1>1, <1>2, <1>3, <1>6 DEF RebuildWaited, RebuildFails, RebuildSubscribes
<1>7. QED BY <1>4, <1>5, <1>6

\* A step of start() or of a rebuild leaves one subscription, the channel's.
LEMMA ConsumerKeeps ==
  ASSUME LinkInv,
         StartWaited \/ StartFails \/ StartSubscribes \/
         RebuildBegins \/ RebuildWaited \/ RebuildFails \/ RebuildSubscribes
  PROVE  LinkInv'
<1>1. /\ cons' \in [start : Setups, started : BOOLEAN, failed : BOOLEAN,
                     pending : Nat, rebuild : Setups,
                     channel : 0..MaxConnections, listening : BOOLEAN]
      /\ UNCHANGED <<accepted, open, mgr>>
  BY ConsumerTypes DEF StartWaited, StartFails, StartSubscribes, RebuildBegins,
     RebuildWaited, RebuildFails, RebuildSubscribes
<1>2. CASE StartWaited \/ StartFails \/ RebuildWaited \/ RebuildFails
  <2>1. /\ UNCHANGED subs
        /\ cons'.channel = cons.channel /\ cons'.started = cons.started
    BY <1>2 DEF StartWaited, StartFails, RebuildWaited, RebuildFails, LinkInv, LinkTypes
  <2>2. /\ cons'.start.step # "idle" => cons.start.step # "idle"
        /\ cons'.rebuild.step # "idle" => cons.rebuild.step # "idle"
    BY <1>2 DEF StartWaited, StartFails, RebuildWaited, RebuildFails, LinkInv, LinkTypes, Idle
  <2>3. QED BY <1>1, <2>1, <2>2 DEF LinkInv, LinkTypes, Turns, ChannelSubscribes
<1>3. CASE StartSubscribes \/ RebuildSubscribes
  <2>1. PICK d \in open :
          /\ d = IF StartSubscribes THEN cons.start.conn ELSE cons.rebuild.conn
          /\ Subscribed(d) /\ cons'.channel = d
    BY <1>3 DEF StartSubscribes, RebuildSubscribes, LinkInv, LinkTypes
  <2>2. cons.channel = 0
    BY <1>3 DEF StartSubscribes, RebuildSubscribes, LinkInv, Turns
  <2>3. cons'.start.step = "idle" /\ cons'.rebuild.step = "idle"
    <3>1. StartSubscribes => cons'.start = Idle /\ cons'.rebuild = cons.rebuild
                             /\ cons.start.step = "setup"
      BY DEF StartSubscribes, LinkInv, LinkTypes
    <3>2. RebuildSubscribes => cons'.start = cons.start /\ cons'.rebuild = Idle
                               /\ cons.rebuild.step = "setup"
      BY DEF RebuildSubscribes, LinkInv, LinkTypes
    <3>3. QED BY <1>3, <3>1, <3>2 DEF LinkInv, Turns, Idle
  <2>4. /\ subs' \in [Conns -> Nat]
        /\ \A c \in Conns : subs'[c] = IF c = d THEN 1 ELSE 0
    BY <2>1, <2>2, FirstSubscription
  <2>5. d \in 1..accepted
    BY DEF LinkInv, LinkTypes
  <2>6. QED BY <1>1, <2>1, <2>3, <2>4, <2>5 DEF LinkInv, LinkTypes, Turns, ChannelSubscribes
<1>4. CASE RebuildBegins /\ ~cons.started
  <2>1. /\ UNCHANGED subs
        /\ cons'.channel = cons.channel /\ cons'.started = cons.started
        /\ cons'.start = cons.start /\ cons'.rebuild = cons.rebuild
    BY <1>4 DEF RebuildBegins, LinkInv, LinkTypes
  <2>2. QED BY <1>1, <2>1 DEF LinkInv, LinkTypes, Turns, ChannelSubscribes
<1>5. CASE RebuildBegins /\ cons.started
  <2>1. cons'.channel = 0 /\ cons'.start = cons.start /\ cons.start.step = "idle"
    BY <1>5 DEF RebuildBegins, LinkInv, LinkTypes, Turns
  <2>2. subs' \in [Conns -> Nat] /\ \A c \in Conns : subs'[c] = 0
    BY <1>5, LetGo DEF RebuildBegins
  <2>3. \A c \in Conns : c # 0
    BY DEF Conns
  <2>4. QED
    BY <1>1, <2>1, <2>2, <2>3 DEF LinkInv, LinkTypes, Turns, ChannelSubscribes
<1>6. QED BY <1>2, <1>3, <1>4, <1>5

\* Whatever the process does by itself.
LEMMA LinkKeeps == LinkInv /\ LinkStep => LinkInv'
<1> SUFFICES ASSUME LinkInv, LinkStep PROVE LinkInv'
  OBVIOUS
<1>1. ASSUME NEW c \in Conns, Dispatch(c) \/ Ack(c)
      PROVE  LinkInv'
  BY <1>1 DEF Dispatch, Ack, LinkInv, LinkTypes, Turns, ChannelSubscribes
<1>2. QED BY <1>1, ManagerKeeps, ConsumerKeeps DEF LinkStep

\* stop() lets go of the channel for good.
LEMMA StopKeeps == LinkInv /\ ConsumerStops => LinkInv'
<1> SUFFICES ASSUME LinkInv, ConsumerStops PROVE LinkInv'
  OBVIOUS
<1>1. subs' \in [Conns -> Nat] /\ \A c \in Conns : subs'[c] = 0
  BY LetGo DEF ConsumerStops
<1>2. /\ cons' \in [start : Setups, started : BOOLEAN, failed : BOOLEAN,
                     pending : Nat, rebuild : Setups,
                     channel : 0..MaxConnections, listening : BOOLEAN]
      /\ cons'.channel = 0 /\ cons'.started = FALSE
      /\ cons'.start = cons.start /\ cons'.rebuild = cons.rebuild
  BY Numbers DEF ConsumerStops, LinkInv, LinkTypes
<1>3. \A c \in Conns : c # 0
  BY DEF Conns
<1>4. QED
  BY <1>1, <1>2, <1>3 DEF ConsumerStops, LinkInv, LinkTypes, Turns, ChannelSubscribes

\* A process that starts again finds no subscription of the one before.
LEMMA RestartKeeps == LinkInv /\ GoneInv /\ Restart => LinkInv'
<1> SUFFICES ASSUME LinkInv, GoneInv, Restart PROVE LinkInv'
  OBVIOUS
<1>1. \A c \in Conns : subs[c] = 0 /\ c # 0
  BY NoChannelNoSubscription DEF GoneInv, Restart, Conns
<1>2. /\ cons'.channel = 0 /\ cons'.rebuild.step = "idle" /\ ~cons'.started
  BY DEF Restart, NewConsumer, Idle
<1>3. QED
  BY <1>1, <1>2, NewLink DEF Restart, LinkInv, LinkTypes, Turns, ChannelSubscribes

\* Only the end of the process makes it gone, and nothing of it moves then.
LEMMA GoneInvNext == GoneInv /\ [Next]_vars => GoneInv'
<1> SUFFICES ASSUME GoneInv, [Next]_vars PROVE GoneInv'
  OBVIOUS
<1>1. CASE UNCHANGED <<phase, cons>>
  BY <1>1 DEF GoneInv, Down
<1>2. ASSUME ~Down' PROVE GoneInv'
  BY <1>2 DEF GoneInv
<1>3. CASE Exit \/ Crash \/ Killed
  BY <1>3 DEF Exit, Crash, Killed, Gone, NewConsumer, GoneInv
<1>4. CASE Link
  BY <1>2, <1>4 DEF Link, Down
<1>5. ASSUME NEW c \in Conns, LinkCloses(c) PROVE GoneInv'
  BY <1>2, <1>5 DEF LinkCloses, serverVars, Down
<1>6. CASE SigTerm \/ WebhookClosed \/ ConsumerStops \/ BrokerClosed \/ Restart
  BY <1>2, <1>6 DEF SigTerm, WebhookClosed, ConsumerStops, BrokerClosed, Restart, Down
<1>7. CASE \/ WebhookConsumes \/ WebhookDispatch \/ WebhookAck \/ WebhookLost
           \/ \E s \in Sockets : Connect(s) \/ Disconnect(s)
  BY <1>1, <1>7 DEF WebhookConsumes, WebhookDispatch, WebhookAck, WebhookLost, Connect,
     Disconnect, linkVars
<1>8. QED
  BY <1>1, <1>3, <1>4, <1>5, <1>6, <1>7 DEF Next, Shutdown, vars, linkVars, serverVars

\* A step of the rest of the server.
LEMMA LinkInvNext == LinkInv /\ GoneInv /\ [Next]_vars => LinkInv'
<1> SUFFICES ASSUME LinkInv, GoneInv, [Next]_vars PROVE LinkInv'
  OBVIOUS
<1>1. CASE UNCHANGED linkVars
  BY <1>1 DEF linkVars, LinkInv, LinkTypes, Turns, ChannelSubscribes
<1>2. CASE Link
  BY <1>2, LinkKeeps DEF Link
<1>3. ASSUME NEW c \in Conns, LinkCloses(c) PROVE LinkInv'
  BY <1>3, LossKeeps DEF LinkCloses
<1>4. CASE ConsumerStops
  BY <1>4, StopKeeps
<1>5. CASE BrokerClosed
  BY <1>5, CloseManagerKeeps DEF BrokerClosed
<1>6. CASE Exit \/ Crash \/ Killed
  BY <1>6, GoneKeeps DEF Exit, Crash, Killed
<1>7. CASE Restart
  BY <1>7, RestartKeeps
<1>8. CASE \/ WebhookConsumes \/ WebhookDispatch \/ WebhookAck \/ WebhookLost
           \/ WebhookClosed \/ SigTerm
           \/ \E s \in Sockets : Connect(s) \/ Disconnect(s)
  BY <1>1, <1>8 DEF WebhookConsumes, WebhookDispatch, WebhookAck, WebhookLost,
     WebhookClosed, SigTerm, Connect, Disconnect
<1>9. QED
  BY <1>1, <1>2, <1>3, <1>4, <1>5, <1>6, <1>7, <1>8 DEF Next, Shutdown, vars

\* For any number of connections, in every order of losses, rebuilds, start()
\* and shutdown: the process has at most one live subscription, and it is that
\* of the channel the consumer knows.
THEOREM SubscribesOnce == Spec => []OneSubscription
<1>1. LinkInv => OneSubscription
  <2> SUFFICES ASSUME LinkInv PROVE OneSubscription
    OBVIOUS
  <2>1. \A c \in open : subs[c] = IF cons.channel = c THEN 1 ELSE 0
    BY ConnectionsAssumption DEF LinkInv, LinkTypes, ChannelSubscribes, Conns
  <2>2. QED BY <2>1 DEF OneSubscription
<1>2. Init => GoneInv
  BY DEF Init, GoneInv, Down
<1>3. QED BY <1>1, <1>2, LinkBegins, LinkInvNext, GoneInvNext, PTL DEF Spec

\* The entry of activeSessions never outlives its socket, and an open socket
\* is without it only after the disconnect, since the last connect, of another
\* socket of the player, older or newer.
THEOREM SessionIsOpen == Spec => []SessionNamesOpenSocket
<1>1. Init => SessionNamesOpenSocket
  BY DEF Init, SessionNamesOpenSocket
<1>2. SessionNamesOpenSocket /\ [Next]_vars => SessionNamesOpenSocket'
  <2> SUFFICES ASSUME SessionNamesOpenSocket, [Next]_vars
               PROVE  SessionNamesOpenSocket'
    OBVIOUS
  <2>1. CASE UNCHANGED <<sockets, session, orphaned>>
    BY <2>1 DEF SessionNamesOpenSocket
  <2>2. ASSUME NEW s \in Sockets, Connect(s) \/ Disconnect(s)
        PROVE  SessionNamesOpenSocket'
    BY <2>2 DEF Connect, Disconnect, SessionNamesOpenSocket
  <2>3. CASE Exit \/ Crash \/ Killed
    BY <2>3 DEF Exit, Crash, Killed, Gone, SessionNamesOpenSocket
  <2>4. ASSUME NEW c \in Conns, LinkCloses(c) PROVE SessionNamesOpenSocket'
    BY <2>1, <2>4 DEF LinkCloses, serverVars
  <2>5. CASE \/ Link \/ WebhookConsumes \/ WebhookDispatch \/ WebhookAck
             \/ WebhookLost \/ WebhookClosed \/ ConsumerStops \/ BrokerClosed
             \/ SigTerm \/ Restart
    BY <2>1, <2>5 DEF Link, WebhookConsumes, WebhookDispatch, WebhookAck, WebhookLost,
       WebhookClosed, ConsumerStops, BrokerClosed, SigTerm, Restart
  <2>6. QED
    BY <2>1, <2>2, <2>3, <2>4, <2>5 DEF Next, Shutdown, vars, serverVars
<1>3. QED BY <1>1, <1>2, PTL DEF Spec
=============================================================================
