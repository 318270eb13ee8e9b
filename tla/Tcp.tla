---------------------------------- MODULE Tcp ----------------------------------
(***************************************************************************)
(* TCP_Sender and TCP_Receiver of tcp.cc: go-back-N over two queues in     *)
(* memory.  The application's thread calls tcp_send; the timer thread      *)
(* counts seconds; the handler thread runs handler_fn and the receiver's   *)
(* thread do_recv, each once, as the code has it; another application      *)
(* thread calls tcp_recv.                                                  *)
(*                                                                         *)
(* What a thread does under a mutex is one action, except where another    *)
(* thread reads the same state without that mutex.  The conditions the     *)
(* handler sleeps on are changed and notified without handler_mtx, so a    *)
(* notification can fall between its test and its sleep.                   *)
(*                                                                         *)
(* A packet is its sequence number; its data is what tcp_send was given    *)
(* for that number.                                                        *)
(***************************************************************************)
EXTENDS Integers, Sequences, SequencesExt

CONSTANTS SendWindow, ReceiveWindow,  \* template arguments
          TimeOutLimit,
          MaxSeq,                     \* bound on the number of packets sent
          NoPkt                       \* a slot no packet was stored in

ASSUME TcpAssumption ==
    /\ SendWindow \in Nat \ {0} /\ ReceiveWindow \in Nat \ {0}
    /\ TimeOutLimit \in Nat \ {0} /\ MaxSeq \in Nat
    /\ NoPkt \notin Nat

VARIABLES pkt_queue, ack_queue,      \* the two channels
          connected,                 \* tcp_connect has been called
          spc,                       \* where the application's thread is in tcp_send
          buf, send_base, current_seq,
          tcp_counter,               \* counts up to TimeOutLimit, and no further here
          terminate,                 \* both terminate_ flags
          tpc, hpc, rpc,             \* where the timer, the handler and recver are
          resend,                    \* handle_timeout's i
          recv_base, tcp_buf, ready_seq, app_buf,
          got                        \* what tcp_recv has returned: history variable

channels == <<pkt_queue, ack_queue>>
sender == <<connected, spc, buf, current_seq, terminate>>
handler == <<hpc, send_base, resend>>
receiver == <<rpc, recv_base, tcp_buf, ready_seq, app_buf, got>>
vars == <<channels, sender, handler, receiver, tpc, tcp_counter>>

Seqs == 0 .. MaxSeq - 1

Init ==
    /\ pkt_queue = <<>> /\ ack_queue = <<>>
    /\ connected = FALSE
    /\ spc = "idle" /\ tpc = "check" /\ hpc = "testCounter" /\ rpc = "lock"
    /\ buf = [s \in 0 .. SendWindow - 1 |-> NoPkt]
    /\ send_base = 0 /\ current_seq = 0 /\ tcp_counter = 0
    /\ terminate = FALSE
    /\ resend = 0
    /\ recv_base = 0
    /\ tcp_buf = [s \in 0 .. ReceiveWindow - 1 |-> NoPkt]
    /\ ready_seq = {}
    /\ app_buf = <<>> /\ got = <<>>

\* notify_all on the condition variable recver, or the handler, sleeps on.
WakeRecver == rpc' = IF rpc = "wait" THEN "lock" ELSE rpc
WakeHandler == hpc' = IF hpc = "wait" THEN "testCounter" ELSE hpc

\* do_recv holds pkt_queue_mtx to its end, handle_ack ack_queue_mtx.
PktQueueFree == rpc \notin {"deliver", "ack"}
AckQueueFree == hpc # "ackReset"

\* ip_send
IpSend(pkt) ==
    /\ PktQueueFree
    /\ pkt_queue' = Append(pkt_queue, pkt)
    /\ WakeRecver
    /\ UNCHANGED <<ack_queue, recv_base, tcp_buf, ready_seq, app_buf, got>>
-----------------------------------------------------------------------------
(* The application's thread: tcp_connect, tcp_send, ~TCP_Sender *)

Connect ==
    /\ spc = "idle" /\ ~connected
    /\ connected' = TRUE
    /\ UNCHANGED <<channels, handler, receiver, tpc, tcp_counter, spc, buf, current_seq, terminate>>

HasRoomLate == current_seq - send_base <= SendWindow
HasRoom == current_seq - send_base < SendWindow

\* A full window, like a missing connection, throws and changes nothing.
SendCall ==
    /\ spc = "idle" /\ connected
    /\ current_seq < MaxSeq
    /\ HasRoom
    /\ spc' = "store"
    /\ UNCHANGED <<channels, handler, receiver, tpc, tcp_counter, connected, buf, current_seq, terminate>>

SendStore ==
    /\ spc = "store"
    /\ buf' = [buf EXCEPT ![current_seq % SendWindow] = current_seq]
    /\ spc' = "transmit"
    /\ UNCHANGED <<channels, handler, receiver, tpc, tcp_counter, connected, current_seq, terminate>>

SendTransmit ==
    /\ spc = "transmit"
    /\ IpSend(buf[current_seq % SendWindow])
    /\ spc' = "advance"
    /\ UNCHANGED <<handler, tpc, tcp_counter, connected, buf, current_seq, terminate>>

SendAdvance ==
    /\ spc = "advance"
    /\ current_seq' = current_seq + 1
    /\ spc' = "notify"
    /\ UNCHANGED <<channels, handler, receiver, tpc, tcp_counter, connected, buf, terminate>>

SendNotify ==
    /\ spc = "notify"
    /\ WakeRecver
    /\ spc' = "reset"
    /\ UNCHANGED <<channels, handler, tpc, tcp_counter, connected, buf, current_seq, terminate,
                   recv_base, tcp_buf, ready_seq, app_buf, got>>

SendReset ==
    /\ spc = "reset"
    /\ tcp_counter' = 0
    /\ spc' = "idle"
    /\ UNCHANGED <<channels, handler, receiver, tpc, connected, buf, current_seq, terminate>>

\* ~TCP_Sender: raise the flags, then join the timer and the handler.
Terminate ==
    /\ spc = "idle"
    /\ terminate' = TRUE
    /\ spc' = "join"
    /\ UNCHANGED <<channels, handler, receiver, tpc, tcp_counter, connected, buf, current_seq>>

Join ==
    /\ spc = "join" /\ tpc = "done" /\ hpc = "done"
    /\ spc' = "gone"
    /\ UNCHANGED <<channels, handler, receiver, tpc, tcp_counter, connected, buf, current_seq, terminate>>
-----------------------------------------------------------------------------
(* The timer thread *)

TimerCheck ==
    /\ tpc = "check"
    /\ tpc' = IF terminate THEN "done" ELSE "sleep"
    /\ UNCHANGED <<channels, sender, handler, receiver, tcp_counter>>

TimerTick ==
    /\ tpc = "sleep"
    /\ tcp_counter' = IF tcp_counter < TimeOutLimit THEN tcp_counter + 1 ELSE tcp_counter
    /\ tpc' = "notify"
    /\ UNCHANGED <<channels, sender, handler, receiver>>

TimerNotifyNobody ==
    /\ tpc = "notify"
    /\ tpc' = "check"
    /\ UNCHANGED <<channels, sender, handler, receiver, tcp_counter>>
TimerNotify ==
    /\ tpc = "notify"
    /\ WakeHandler
    /\ tpc' = "check"
    /\ UNCHANGED <<channels, sender, send_base, resend, receiver, tcp_counter>>
-----------------------------------------------------------------------------
(* The handler thread: handler_fn *)

\* The predicate of handler_cond.wait reads the counter, then the queue's size.
TestCounter ==
    /\ hpc = "testCounter"
    /\ hpc' = IF tcp_counter >= TimeOutLimit THEN "ack" ELSE "testQueue"
    /\ UNCHANGED <<channels, sender, send_base, resend, receiver, tpc, tcp_counter>>

TestQueue ==
    /\ hpc = "testQueue"
    /\ hpc' = IF ack_queue # <<>> THEN "ack" ELSE "sleep"
    /\ UNCHANGED <<channels, sender, send_base, resend, receiver, tpc, tcp_counter>>

FallAsleep ==
    /\ hpc = "sleep"
    /\ hpc' = "wait"
    /\ UNCHANGED <<channels, sender, send_base, resend, receiver, tpc, tcp_counter>>

WakeSpuriously ==
    /\ hpc = "wait"
    /\ WakeHandler
    /\ UNCHANGED <<channels, sender, send_base, resend, receiver, tpc, tcp_counter>>

SkipAck ==
    /\ hpc = "ack" /\ ack_queue = <<>>
    /\ hpc' = "timeout"
    /\ UNCHANGED <<channels, sender, send_base, resend, receiver, tpc, tcp_counter>>

\* handle_ack: send_base moves to the latest of the acknowledgements.
HandleAck ==
    /\ hpc = "ack" /\ ack_queue # <<>>
    /\ send_base' = Max({send_base} \cup ToSet(ack_queue))
    /\ ack_queue' = <<>>
    /\ hpc' = "ackReset"
    /\ UNCHANGED <<pkt_queue, sender, resend, receiver, tpc, tcp_counter>>

AckReset ==
    /\ hpc = "ackReset"
    /\ tcp_counter' = 0
    /\ hpc' = "timeout"
    /\ UNCHANGED <<channels, sender, send_base, resend, receiver, tpc>>

TestTimeout ==
    /\ hpc = "timeout"
    /\ hpc' = IF tcp_counter >= TimeOutLimit THEN "resend" ELSE "done"
    /\ resend' = IF tcp_counter >= TimeOutLimit THEN send_base ELSE resend
    /\ UNCHANGED <<channels, sender, send_base, receiver, tpc, tcp_counter>>

InFlightAndOne(seq) == seq <= current_seq
InFlight(seq) == seq < current_seq

\* handle_timeout: every packet of the window again, as far as current_seq is now.
Resend ==
    /\ hpc = "resend" /\ InFlight(resend)
    /\ IpSend(buf[resend % SendWindow])
    /\ resend' = resend + 1
    /\ UNCHANGED <<sender, hpc, send_base, tpc, tcp_counter>>

ResendEnd ==
    /\ hpc = "resend" /\ ~InFlight(resend)
    /\ tcp_counter' = 0
    /\ hpc' = "done"
    /\ UNCHANGED <<channels, sender, send_base, resend, receiver, tpc>>
-----------------------------------------------------------------------------
(* The receiver's thread: do_recv *)

RecvWait ==
    /\ rpc = "lock" /\ pkt_queue = <<>>
    /\ rpc' = "wait"
    /\ UNCHANGED <<channels, sender, handler, tpc, tcp_counter, recv_base, tcp_buf, ready_seq, app_buf, got>>

RecvWakeSpuriously ==
    /\ rpc = "wait"
    /\ WakeRecver
    /\ UNCHANGED <<channels, sender, handler, tpc, tcp_counter, recv_base, tcp_buf, ready_seq, app_buf, got>>

InWindowUnbounded(seq) == seq >= recv_base
InWindow(seq) == seq >= recv_base /\ seq < recv_base + ReceiveWindow

\* The loop drops the packets outside the receive window.  Packets inside it
\* share a slot only with themselves, so that the order of the loop's turns is
\* no matter; it would leave the last, that is the greatest, in a slot.
Accepted == {seq \in ToSet(pkt_queue) : InWindow(seq)}

Stored(slot) ==
    LET fits == {seq \in Accepted : seq % ReceiveWindow = slot}
    IN  IF fits = {} THEN tcp_buf[slot] ELSE Max(fits)

RecvDrain ==
    /\ rpc = "lock" /\ pkt_queue # <<>>
    /\ tcp_buf' = [slot \in DOMAIN tcp_buf |-> Stored(slot)]
    /\ ready_seq' = ready_seq \cup Accepted
    /\ pkt_queue' = <<>>
    /\ rpc' = "deliver"
    /\ UNCHANGED <<ack_queue, sender, handler, tpc, tcp_counter, recv_base, app_buf, got>>

\* The first number from recv_base on that is not in ready_seq, where the loop stops.
FirstMissing == CHOOSE n \in recv_base .. MaxSeq :
                   n \notin ready_seq /\ \A m \in recv_base .. n - 1 : m \in ready_seq

Deliver ==
    /\ rpc = "deliver"
    /\ app_buf' = app_buf \o [i \in 1 .. FirstMissing - recv_base |->
                                tcp_buf[(recv_base + i - 1) % ReceiveWindow]]
    /\ recv_base' = FirstMissing
    /\ rpc' = "ack"
    /\ UNCHANGED <<channels, sender, handler, tpc, tcp_counter, tcp_buf, ready_seq, got>>

AckNumberBeyond == recv_base + 1
AckNumber == recv_base

\* send_ack; do_recv ends and releases pkt_queue_mtx.
SendAck ==
    /\ rpc = "ack"
    /\ AckQueueFree
    /\ ack_queue' = Append(ack_queue, AckNumber)
    /\ WakeHandler
    /\ rpc' = "done"
    /\ UNCHANGED <<pkt_queue, sender, send_base, resend, tpc, tcp_counter,
                   recv_base, tcp_buf, ready_seq, app_buf, got>>

\* tcp_recv returns nullopt, changing nothing, when app_buf is empty.
TcpRecv ==
    /\ got' = IF app_buf = <<>> THEN got ELSE Append(got, Head(app_buf))
    /\ app_buf' = IF app_buf = <<>> THEN app_buf ELSE Tail(app_buf)
    /\ UNCHANGED <<channels, sender, handler, tpc, tcp_counter, rpc, recv_base, tcp_buf, ready_seq>>
-----------------------------------------------------------------------------
SenderStep ==
    SendStore \/ SendTransmit \/ SendAdvance \/ SendNotify \/ SendReset \/ Join

TimerStep == TimerCheck \/ TimerTick \/ TimerNotify

HandlerStep ==
    \/ TestCounter \/ TestQueue \/ FallAsleep
    \/ SkipAck \/ HandleAck \/ AckReset \/ TestTimeout \/ Resend \/ ResendEnd

RecverStep == RecvWait \/ RecvDrain \/ Deliver \/ SendAck

Next ==
    \/ Connect \/ SendCall \/ Terminate \/ TcpRecv
    \/ SenderStep \/ TimerStep \/ HandlerStep \/ RecverStep
    \/ WakeSpuriously \/ RecvWakeSpuriously

Spec == Init /\ [][Next]_vars

(***************************************************************************)
(* The threads keep running and a call that was begun goes on; nothing     *)
(* obliges the application to call, nor a sleeper to wake for no reason.   *)
(***************************************************************************)
Fairness ==
    WF_vars(SenderStep) /\ WF_vars(TimerStep) /\ WF_vars(HandlerStep) /\ WF_vars(RecverStep)

FairSpec == Spec /\ Fairness
-----------------------------------------------------------------------------
(***************************************************************************)
(* Type correctness; only packets that were stored are ever transmitted or *)
(* delivered.                                                              *)
(***************************************************************************)
TypeOK ==
    /\ pkt_queue \in Seq(Seqs) /\ ack_queue \in Seq(0 .. MaxSeq)
    /\ connected \in BOOLEAN /\ terminate \in BOOLEAN
    /\ spc \in {"idle", "store", "transmit", "advance", "notify", "reset", "join", "gone"}
    /\ tpc \in {"check", "sleep", "notify", "done"}
    /\ hpc \in {"testCounter", "testQueue", "sleep", "wait", "ack", "ackReset", "timeout",
                "resend", "done"}
    /\ rpc \in {"lock", "wait", "deliver", "ack", "done"}
    /\ buf \in [0 .. SendWindow - 1 -> Seqs \cup {NoPkt}]
    /\ tcp_buf \in [0 .. ReceiveWindow - 1 -> Seqs \cup {NoPkt}]
    /\ send_base \in 0 .. MaxSeq /\ current_seq \in 0 .. MaxSeq /\ recv_base \in 0 .. MaxSeq
    /\ resend \in 0 .. MaxSeq
    /\ tcp_counter \in 0 .. TimeOutLimit
    /\ ready_seq \subseteq Seqs
    /\ app_buf \in Seq(Seqs) /\ got \in Seq(Seqs)

(***************************************************************************)
(* The receiver's application gets the packets in the order they were      *)
(* sent, each once and without a gap, up to recv_base.                     *)
(***************************************************************************)
DeliveredInOrder == got \o app_buf = [i \in 1 .. recv_base |-> i - 1]

\* tcp_send has transmitted the packet current_seq but not yet counted it.
Uncounted == IF spc = "advance" THEN 1 ELSE 0

(***************************************************************************)
(* What the sender takes for acknowledged has been delivered, and nothing  *)
(* is acknowledged that was not sent. send_base may be ahead of            *)
(* current_seq, but only while tcp_send has yet to count what it sent; so  *)
(* the length of the window it computes is never negative.                 *)
(***************************************************************************)
AckedWasDelivered ==
    /\ send_base <= recv_base
    /\ recv_base <= current_seq + Uncounted

(***************************************************************************)
(* Every packet of the window stays in buf, ready to be sent again.        *)
(***************************************************************************)
UnackedKept == \A seq \in send_base .. current_seq - 1 : buf[seq % SendWindow] = seq

(***************************************************************************)
(* handle_timeout never reads the slot of buf that tcp_send is writing:    *)
(* the two threads share buf without a lock.                               *)
(***************************************************************************)
BufNotRaced ==
    spc = "store" /\ hpc = "resend" /\ InFlight(resend) =>
        resend % SendWindow # current_seq % SendWindow

(***************************************************************************)
(* An acknowledgement reaches the handler although its notification can    *)
(* fall between the handler's test and its sleep: the next tick of the     *)
(* timer wakes it, unless the sender is being destroyed.                   *)
(***************************************************************************)
AckEndsSleep == ack_queue # <<>> ~> hpc = "done" \/ terminate

(***************************************************************************)
(* "handler thread: handle 2 events: a) timer expire b) receive ack"       *)
(* (tcp.cc:30): while the sender is not being destroyed, every             *)
(* acknowledgement is handled.                                             *)
(***************************************************************************)
EveryAckHandled == ack_queue # <<>> ~> ack_queue = <<>> \/ terminate
=============================================================================
