----------------------------- MODULE RlpxSession -----------------------------
(***************************************************************************)
(* One outbound RLPx session and the dial coroutine that makes it:         *)
(* RlpxSession::connect, the ETH Status handshake, the bridge to the       *)
(* EthWatchRunner, the session's send and receive loops, and disconnect(). *)
(*                                                                         *)
(* Everything runs on one io_context thread.  A step is what runs between  *)
(* two suspensions.  An operation that has completed waits in the          *)
(* io_context's queue until its coroutine or handler runs, and other steps *)
(* may come in between: a completed read and an expired timer are states   *)
(* of their own.                                                           *)
(*                                                                         *)
(* The peer sends any messages it likes, or none, and may hang up.  A      *)
(* message carries its number, which is history: the code never sees it.   *)
(*                                                                         *)
(* An operator named X_Y is X with the defect Y.                           *)
(***************************************************************************)
EXTENDS Naturals, Sequences

CONSTANTS
    MaxMessages,    \* how many messages the peer sends
    PeerSays,       \* which kinds of messages
    StatusTimeout   \* kStatusHandshakeTimeout

ASSUME SessionAssumption == /\ MaxMessages \in Nat
                            /\ StatusTimeout \in Nat \ {0}

VARIABLES
    dial,           \* where the dial coroutine is
    timer,          \* the HELLO timer: off, armed, or queued (expired)
    state,          \* state_
    open,           \* the socket is open on this side
    link,           \* the peer has not hung up
    wire,           \* messages on their way from the peer
    inbox,          \* the message of a completed read
    recv,           \* recv_channel_
    outbox,         \* number of messages in send_channel_
    receiver,       \* where the receive loop is
    sender,         \* where the send loop is
    runner,         \* the EthWatchRunner: none, held or destroyed
    stopped,        \* EthWatchService::stop() has run
    now, deadline,  \* the clock and the end of the current wait for Status
    said,           \* history variable: all the peer has sent
    handled         \* history variable: what the runner was given

sessionVars == <<dial, timer, state, open, link, wire, inbox, recv, outbox,
                 receiver, sender, runner, stopped, now, deadline,
                 said, handled>>

(* hello: an eth version is negotiated.  plain: a HELLO without one.       *)
(* eth: any ETH message but Status.  badStatus: a Status that fails to     *)
(* decode or to validate.  ping: every message below the ETH offset but    *)
(* Disconnect.  garbled: a frame that cannot be read.                      *)
Kinds == {"hello", "plain", "ping", "disconnect", "status", "badStatus", "eth",
          "garbled"}
EthKinds == {"status", "badStatus", "eth"}
Message == [kind : Kinds, n : 1..MaxMessages]
NoMessage == [kind |-> "none", n |-> 0]

Terminal == {"kClosed", "kError"}

Init ==
    /\ dial = "tcp" /\ timer = "off" /\ state = "kUninitialized"
    /\ open = FALSE /\ link = TRUE
    /\ wire = <<>> /\ inbox = NoMessage /\ recv = <<>> /\ outbox = 0
    /\ receiver = "off" /\ sender = "off"
    /\ runner = "none" /\ stopped = FALSE
    /\ now = 0 /\ deadline = 0
    /\ said = <<>> /\ handled = <<>>

-----------------------------------------------------------------------------
(* Who keeps the session alive: the dial coroutine, the two loops and the  *)
(* runner.  Without them it is destroyed, and its socket with it.          *)
Held == \/ dial \in {"auth", "hello", "helloRead", "status"}
        \/ receiver \in {"spawned", "reading", "completed"}
        \/ sender \in {"spawned", "polling", "writing"}
        \/ runner = "held"

(* The socket after a step that closes it, or not.                         *)
Socket(closes) == open' = (open /\ ~closes /\ Held')


(* disconnect(): a session that is over already is left as it is.          *)
Disconnect == IF state \in Terminal
              THEN [state |-> state, closes |-> FALSE]
              ELSE [state |-> "kClosed", closes |-> TRUE]

-----------------------------------------------------------------------------
(* connect_with_timeout().                                                 *)
TcpConnected ==
    /\ dial = "tcp"
    /\ dial' = "auth" /\ open' = TRUE
    /\ UNCHANGED <<timer, state, link, wire, inbox, recv, outbox, receiver,
                   sender, runner, stopped, now, deadline, said, handled>>

TcpFails ==
    /\ dial = "tcp"
    /\ dial' = "failed"
    /\ UNCHANGED <<timer, state, open, link, wire, inbox, recv, outbox, receiver,
                   sender, runner, stopped, now, deadline, said, handled>>

(* The auth handshake, which has no timer; then the local HELLO is sent    *)
(* and the wait for the peer's begins.                                     *)
AuthSucceeds ==
    /\ dial = "auth"
    /\ dial' = "hello" /\ timer' = "armed"
    /\ UNCHANGED <<state, open, link, wire, inbox, recv, outbox, receiver,
                   sender, runner, stopped, now, deadline, said, handled>>

AuthFails ==
    /\ dial = "auth"
    /\ dial' = "failed"
    /\ UNCHANGED <<timer, state, link, wire, inbox, recv, outbox, receiver,
                   sender, runner, stopped, now, deadline, said, handled>>
    /\ Socket(TRUE)

(* The read of the first message completes.                                *)
HelloRead ==
    /\ dial = "hello" /\ open /\ wire # <<>>
    /\ dial' = "helloRead" /\ inbox' = Head(wire) /\ wire' = Tail(wire)
    /\ UNCHANGED <<timer, state, open, link, recv, outbox, receiver, sender,
                   runner, stopped, now, deadline, said, handled>>

(* cancel() does not take back a handler that is queued.                   *)
Cancelled == IF timer = "armed" THEN "off" ELSE timer

HelloFails ==
    /\ dial = "hello"
    /\ ~open \/ (~link /\ wire = <<>>)
    /\ dial' = "failed" /\ timer' = Cancelled
    /\ UNCHANGED <<state, link, wire, inbox, recv, outbox, receiver, sender,
                   runner, stopped, now, deadline, said, handled>>
    /\ Socket(TRUE)

TimerExpires ==
    /\ timer = "armed"
    /\ timer' = "queued"
    /\ UNCHANGED <<dial, state, open, link, wire, inbox, recv, outbox, receiver,
                   sender, runner, stopped, now, deadline, said, handled>>

(* The timer's handler closes the stream, even when the HELLO has come.    *)
TimerCloses ==
    /\ timer = "queued"
    /\ timer' = "off" /\ open' = FALSE
    /\ UNCHANGED <<dial, state, link, wire, inbox, recv, outbox, receiver,
                   sender, runner, stopped, now, deadline, said, handled>>

(* connect() goes on with the first message.  After a HELLO the session is *)
(* active and both loops are spawned; PerformEthStatusHandshake follows    *)
(* without a suspension: it fails if no eth version was negotiated, posts  *)
(* the local Status and waits otherwise.                                   *)
HelloAccepted ==
    /\ dial = "helloRead" /\ inbox.kind = "hello"
    /\ dial' = "status" /\ state' = "kActive" /\ timer' = Cancelled
    /\ receiver' = "spawned" /\ sender' = "spawned"
    /\ outbox' = outbox + 1 /\ deadline' = now + StatusTimeout
    /\ inbox' = NoMessage
    /\ UNCHANGED <<open, link, wire, recv, runner, stopped, now, said, handled>>

HelloWithoutEth ==
    /\ dial = "helloRead" /\ inbox.kind = "plain"
    /\ dial' = "failed" /\ state' = "kClosed" /\ timer' = Cancelled
    /\ receiver' = "spawned" /\ sender' = "spawned"
    /\ inbox' = NoMessage
    /\ UNCHANGED <<link, wire, recv, outbox, runner, stopped, now, deadline, said, handled>>
    /\ Socket(TRUE)

HelloRejected ==
    /\ dial = "helloRead" /\ inbox.kind \notin {"hello", "plain"}
    /\ dial' = "failed" /\ timer' = Cancelled /\ inbox' = NoMessage
    /\ UNCHANGED <<state, link, wire, recv, outbox, receiver, sender, runner,
                   stopped, now, deadline, said, handled>>
    /\ Socket(TRUE)

-----------------------------------------------------------------------------
(* The dial coroutine gives up: session->disconnect(), on_done().          *)
GiveUp ==
    /\ dial' = "failed"
    /\ state' = Disconnect.state
    /\ UNCHANGED <<deadline, runner>>
    /\ Socket(Disconnect.closes)

(* on_connected(), install_session_bridge(), active_runners_.              *)
Bridge ==
    /\ dial' = "bridged" /\ runner' = "held"
    /\ UNCHANGED <<state, open, deadline>>

(* ETH messages before Status are skipped.                                 *)
TakeMessage_EthSkipped(m) ==
    \/ m.kind = "status" /\ Bridge
    \/ m.kind \in {"badStatus", "disconnect"} /\ GiveUp
    \/ /\ m.kind \notin {"status", "badStatus", "disconnect"}
       /\ \/ state = "kActive" /\ deadline' = now + StatusTimeout
             /\ UNCHANGED <<dial, state, open, runner>>
          \/ state # "kActive" /\ GiveUp

(* What PerformEthStatusHandshake does with a message.  A message that is  *)
(* not of ETH is skipped, and the wait begins anew if the session is still *)
(* active.                                                                 *)
TakeMessage(m) ==
    \/ m.kind = "status" /\ Bridge
    \/ m.kind \in {"badStatus", "eth", "disconnect"} /\ GiveUp
    \/ /\ m.kind \notin EthKinds \cup {"disconnect"}
       /\ \/ state = "kActive" /\ deadline' = now + StatusTimeout
             /\ UNCHANGED <<dial, state, open, runner>>
          \/ state # "kActive" /\ GiveUp

(* receive_message_with_timeout() polls recv_channel_.                     *)
StatusPoll ==
    /\ dial = "status" /\ recv # <<>>
    /\ recv' = Tail(recv)
    /\ UNCHANGED <<timer, link, wire, inbox, outbox, receiver, sender, stopped,
                   now, said, handled>>
    /\ TakeMessage(Head(recv))

(* A wait in a session that broke down is not given up.                    *)
StatusTimesOut_ActiveOnly ==
    /\ dial = "status" /\ recv = <<>> /\ now >= deadline /\ state = "kActive"
    /\ UNCHANGED <<timer, link, wire, inbox, recv, outbox, receiver, sender,
                   stopped, now, said, handled>>
    /\ GiveUp

(* The deadline is only compared when the channel is empty.                *)
StatusTimesOut ==
    /\ dial = "status" /\ recv = <<>> /\ now >= deadline
    /\ UNCHANGED <<timer, link, wire, inbox, recv, outbox, receiver, sender,
                   stopped, now, said, handled>>
    /\ GiveUp

-----------------------------------------------------------------------------
(* The loop condition of the two loops, with the state the step leaves.    *)
ReceiverGoesOn == receiver' = IF state = "kActive" THEN "reading" ELSE "ended"

ReceiverStarts ==
    /\ receiver = "spawned"
    /\ ReceiverGoesOn
    /\ UNCHANGED <<dial, timer, state, link, wire, inbox, recv, outbox, sender,
                   runner, stopped, now, deadline, said, handled>>
    /\ Socket(FALSE)

ReadCompletes ==
    /\ receiver = "reading" /\ open /\ wire # <<>> /\ Head(wire).kind # "garbled"
    /\ receiver' = "completed" /\ inbox' = Head(wire) /\ wire' = Tail(wire)
    /\ UNCHANGED <<dial, timer, state, open, link, recv, outbox, sender, runner,
                   stopped, now, deadline, said, handled>>

(* force_error_state() does not close the stream.                          *)
ReadFails ==
    /\ receiver = "reading"
    /\ \/ ~open
       \/ wire = <<>> /\ ~link
       \/ wire # <<>> /\ Head(wire).kind = "garbled"
    /\ receiver' = "ended" /\ state' = "kError"
    /\ UNCHANGED <<dial, timer, link, wire, inbox, recv, outbox, sender, runner,
                   stopped, now, deadline, said, handled>>
    /\ Socket(FALSE)

(* route_message(), the push to recv_channel_, and the loop condition.  A  *)
(* runner may answer with a request of its own (one is enough here).       *)
RouteMessage ==
    /\ receiver = "completed"
    /\ IF runner # "none" /\ inbox.kind \in EthKinds
       THEN /\ handled' = Append(handled, inbox)
            /\ outbox' = IF state = "kActive" /\ outbox = 0 THEN 1 ELSE outbox
       ELSE UNCHANGED <<handled, outbox>>
    /\ recv' = Append(recv, inbox) /\ inbox' = NoMessage
    /\ ReceiverGoesOn
    /\ UNCHANGED <<dial, timer, state, link, wire, sender, runner, stopped, now,
                   deadline, said>>
    /\ Socket(FALSE)

SenderGoesOn ==
    IF state # "kActive"
    THEN sender' = "ended" /\ UNCHANGED outbox
    ELSE \/ outbox = 0 /\ sender' = "polling" /\ UNCHANGED outbox
         \/ outbox > 0 /\ sender' = "writing" /\ outbox' = outbox - 1

(* The loop begins, its poll interval is over, or its write is done.       *)
SenderSteps ==
    /\ \/ sender \in {"spawned", "polling"}
       \/ sender = "writing" /\ open /\ link
    /\ SenderGoesOn
    /\ UNCHANGED <<dial, timer, state, link, wire, inbox, recv, receiver, runner,
                   stopped, now, deadline, said, handled>>
    /\ Socket(FALSE)

WriteFails ==
    /\ sender = "writing" /\ ~(open /\ link)
    /\ sender' = "ended" /\ state' = "kError"
    /\ UNCHANGED <<dial, timer, link, wire, inbox, recv, outbox, receiver, runner,
                   stopped, now, deadline, said, handled>>
    /\ Socket(FALSE)

-----------------------------------------------------------------------------
(* EthWatchService::stop(): the scheduler disconnects the sessions it was  *)
(* told of, and the runners are destroyed.                                 *)
Stop ==
    /\ ~stopped
    /\ stopped' = TRUE
    /\ UNCHANGED <<dial, timer, link, wire, inbox, recv, outbox, receiver, sender,
                   now, deadline, said, handled>>
    /\ IF dial = "bridged"
       THEN /\ state' = Disconnect.state /\ runner' = "destroyed"
            /\ Socket(Disconnect.closes)
       ELSE UNCHANGED <<state, runner, open>>

PeerSends(kind) ==
    /\ link /\ open /\ Len(said) < MaxMessages
    /\ dial \notin {"tcp", "auth"}
    /\ LET m == [kind |-> kind, n |-> Len(said) + 1]
       IN  said' = Append(said, m) /\ wire' = Append(wire, m)
    /\ UNCHANGED <<dial, timer, state, open, link, inbox, recv, outbox, receiver,
                   sender, runner, stopped, now, deadline, handled>>

PeerHangsUp ==
    /\ link /\ open
    /\ link' = FALSE
    /\ UNCHANGED <<dial, timer, state, open, wire, inbox, recv, outbox, receiver,
                   sender, runner, stopped, now, deadline, said, handled>>

(* Time only matters to the wait for Status, and once its deadline has     *)
(* come, later times are all the same to it.                               *)
Tick ==
    /\ dial = "status" /\ now < deadline
    /\ now' = now + 1
    /\ UNCHANGED <<dial, timer, state, open, link, wire, inbox, recv, outbox,
                   receiver, sender, runner, stopped, deadline, said,
                   handled>>

DialStep == \/ TcpConnected \/ TcpFails \/ HelloRead \/ HelloFails
            \/ HelloAccepted \/ HelloWithoutEth \/ HelloRejected
            \/ StatusPoll \/ StatusTimesOut

ReceiverStep == ReceiverStarts \/ ReadCompletes \/ ReadFails \/ RouteMessage

SenderStep == SenderSteps \/ WriteFails

Next ==
    \/ DialStep \/ AuthSucceeds \/ AuthFails
    \/ TimerExpires \/ TimerCloses
    \/ ReceiverStep \/ SenderStep
    \/ Stop
    \/ \E kind \in PeerSays \cap Kinds : PeerSends(kind)
    \/ PeerHangsUp
    \/ Tick

Spec == Init /\ [][Next]_sessionVars

(* Coroutines that can run do, timers expire and time passes.  Nothing is  *)
(* assumed of the peer, so the auth handshake may last for ever.           *)
FairSpec ==
    /\ Spec
    /\ WF_sessionVars(DialStep) /\ WF_sessionVars(ReceiverStep)
    /\ WF_sessionVars(SenderStep)
    /\ WF_sessionVars(TimerExpires) /\ WF_sessionVars(TimerCloses)
    /\ WF_sessionVars(Tick)

-----------------------------------------------------------------------------

EthSaid == SelectSeq(said, LAMBDA m : m.kind \in EthKinds)

(* What the runner is given is a run of the peer's ETH messages without a  *)
(* gap and in their order, and the first ETH message of all, which never   *)
(* is among them, was a valid Status: the bridge never meets a peer whose  *)
(* chain was not compared.                                                 *)
HandledAfterStatus ==
    runner # "none" =>
        /\ EthSaid[1].kind = "status"
        /\ \E i \in 2..(Len(EthSaid) + 1) :
              handled = SubSeq(EthSaid, i, i + Len(handled) - 1)


(* Once the keys are exchanged, the dial is settled although the peer      *)
(* falls silent at any point, hangs up, or its session breaks.             *)
HandshakeSettles == dial = "hello" ~> dial \in {"bridged", "failed"}
===============================================================================
