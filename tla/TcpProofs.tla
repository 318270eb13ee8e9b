------------------------------- MODULE TcpProofs -------------------------------
(***************************************************************************)
(* Proofs about Tcp, for any window sizes, timeout and number of packets.  *)
(***************************************************************************)
EXTENDS Tcp, SequenceTheorems, WellFoundedInduction, TLAPS

(***************************************************************************)
(* The inductive invariant.  The sender: a call of tcp_send that goes on   *)
(* has room in the window and, from the store on, its packet in its slot;  *)
(* handle_timeout resends no packet before send_base.                      *)
(***************************************************************************)
SenderInv ==
    /\ spc \in {"store", "transmit", "advance"} =>
         current_seq < MaxSeq /\ current_seq - send_base < SendWindow
    /\ spc \in {"transmit", "advance"} => buf[current_seq % SendWindow] = current_seq
    /\ UnackedKept
    /\ hpc = "resend" => send_base <= resend

(***************************************************************************)
(* The receiver: whatever is below recv_base is ready, and what is ready   *)
(* and not below it is inside the window and in its slot.                  *)
(***************************************************************************)
ReceiverInv ==
    /\ \A seq \in 0 .. recv_base - 1 : seq \in ready_seq
    /\ \A seq \in ready_seq : seq >= recv_base =>
         seq < recv_base + ReceiveWindow /\ tcp_buf[seq % ReceiveWindow] = seq
    /\ DeliveredInOrder

(***************************************************************************)
(* Between them: only what was sent travels, and only what was delivered   *)
(* is acknowledged.                                                        *)
(***************************************************************************)
ChannelInv ==
    /\ \A i \in 1 .. Len(pkt_queue) : pkt_queue[i] < current_seq + Uncounted
    /\ \A seq \in ready_seq : seq < current_seq + Uncounted
    /\ \A i \in 1 .. Len(ack_queue) : ack_queue[i] <= recv_base
    /\ send_base <= recv_base

TcpInv == TypeOK /\ SenderInv /\ ReceiverInv /\ ChannelInv
-----------------------------------------------------------------------------
(* Arithmetic. *)

\* A nonempty set of natural numbers has a least element.
LEMMA LeastNat ==
    ASSUME NEW T, T \subseteq Nat, T # {}
    PROVE  \E m \in T : \A n \in T : m <= n
<1>1. PICK m \in T : \A n \in T : ~(<<n, m>> \in OpToRel(<, Nat))
  BY NatLessThanWellFounded, WFMin
<1>2. ASSUME NEW n \in T, n < m PROVE FALSE
  <2>1. <<n, m>> \in OpToRel(<, Nat)
    BY <1>2 DEF OpToRel
  <2> QED
    BY <2>1, <1>1
<1>3. ASSUME NEW n \in T PROVE m <= n
  BY <1>2
<1> QED
  BY <1>3

\* A nonempty bounded set of natural numbers has a greatest element, which is Max.
LEMMA MaxOfBounded ==
    ASSUME NEW K \in Nat, NEW S, S \subseteq 0 .. K, S # {}
    PROVE  Max(S) \in S /\ \A x \in S : x <= Max(S)
<1> DEFINE T == {n \in 0 .. K : \A x \in S : x <= n}
<1>1. K \in T /\ T \subseteq Nat
  OBVIOUS
<1>2. PICK m \in T : \A n \in T : m <= n
  <2> HIDE DEF T
  <2> QED
    BY <1>1, LeastNat
<1>3. m \in S
  <2>1. SUFFICES ASSUME m \notin S PROVE FALSE
    OBVIOUS
  <2>2. \A x \in S : x < m
    BY <1>2, <2>1
  <2>3. PICK x \in S : x \in 0 .. K
    OBVIOUS
  <2>4. m - 1 \in 0 .. K
    BY <1>2, <2>2, <2>3
  <2>5. \A y \in S : y <= m - 1
    BY <1>2, <2>2
  <2> QED
    BY <1>2, <2>4, <2>5
<1>4. \A x \in S : m >= x
  BY <1>2
<1> QED
  BY <1>3, <1>4 DEF Max

\* Two numbers of one window have different slots.
LEMMA SlotsDiffer ==
    ASSUME NEW W \in Nat \ {0}, NEW a \in Nat, NEW b \in Nat, a < b, b - a < W
    PROVE  a % W # b % W
<1>1. SUFFICES ASSUME a % W = b % W PROVE FALSE
  OBVIOUS
<1> DEFINE p == a \div W
           q == b \div W
           d == a % W
<1>2. p \in Nat /\ q \in Nat /\ d \in Nat
  OBVIOUS
<1>3. a = W * p + d /\ b = W * q + d
  BY <1>1
<1> HIDE DEF p, q, d
<1>4. b - a = W * (q - p)
  BY <1>2, <1>3
<1>5. q - p >= 1 => W * (q - p) >= W
  BY <1>2
<1>6. q - p <= 0 => W * (q - p) <= 0
  BY <1>2
<1> QED
  BY <1>2, <1>4, <1>5, <1>6

\* An index of a sequence one longer, which is not the new one.
LEMMA ButLast ==
    ASSUME NEW l \in Nat, NEW i \in 1 .. l + 1, i # l + 1
    PROVE  i \in 1 .. l
  OBVIOUS

\* What is below a bound is below a later one.
LEMMA BelowMore ==
    ASSUME NEW x \in Nat, NEW c \in Nat, NEW u \in 0 .. 1, NEW v \in 0 .. 1, u <= v, x < c + u
    PROVE  x < c + v
  OBVIOUS

\* A slot is an index of the array.
LEMMA SlotType ==
    ASSUME NEW W \in Nat \ {0}, NEW a \in Nat
    PROVE  a % W \in 0 .. W - 1
  OBVIOUS
-----------------------------------------------------------------------------
\* The constructors establish the invariant.
LEMMA InitTcpInv == Init => TcpInv
<1> SUFFICES ASSUME Init PROVE TcpInv
  OBVIOUS
<1> USE TcpAssumption DEF Init
<1>1. TypeOK
  BY DEF TypeOK, Seqs
<1>2. SenderInv
  BY DEF SenderInv, UnackedKept
<1>3. ReceiverInv
  BY DEF ReceiverInv, DeliveredInOrder
<1>4. ChannelInv
  BY DEF ChannelInv
<1> QED
  BY <1>1, <1>2, <1>3, <1>4 DEF TcpInv

\* The steps that change neither windows, nor packets, nor what was delivered.
LocalVars == <<pkt_queue, ack_queue, buf, send_base, current_seq, recv_base, tcp_buf, ready_seq,
               app_buf, got>>

\* They keep the types, if what else they write has its type.
LEMMA LocalTypes ==
    ASSUME TypeOK, UNCHANGED <<LocalVars, connected, terminate, spc>>,
           tpc' \in {"check", "sleep", "notify", "done"},
           hpc' \in {"testCounter", "testQueue", "sleep", "wait", "ack", "ackReset", "timeout",
                     "resend", "done"},
           rpc' \in {"lock", "wait", "deliver", "ack", "done"},
           resend' \in 0 .. MaxSeq, tcp_counter' \in 0 .. TimeOutLimit
    PROVE  TypeOK'
  BY DEF TypeOK, LocalVars

\* They keep the invariant.
LEMMA LocalSteps ==
    ASSUME TcpInv, TypeOK', UNCHANGED LocalVars,
           \/ spc' = spc
           \/ spc' \notin {"store", "transmit", "advance"} /\ spc # "advance"
           \/ spc' = "store" /\ spc = "idle" /\ current_seq < MaxSeq /\ HasRoom,
           hpc' = "resend" => send_base <= resend'
    PROVE  TcpInv'
<1> USE DEF TcpInv, LocalVars
<1>1. SenderInv'
  BY TcpAssumption DEF SenderInv, UnackedKept, HasRoom
<1>2. ReceiverInv'
  BY DEF ReceiverInv, DeliveredInOrder
<1>3. ChannelInv'
  BY DEF ChannelInv, Uncounted
<1> QED
  BY <1>1, <1>2, <1>3

\* tcp_connect, tcp_send apart from its buffer and its transmission, and ~TCP_Sender.
LEMMA ApplicationSteps ==
    ASSUME TcpInv, Connect \/ SendCall \/ SendNotify \/ SendReset \/ Terminate \/ Join
    PROVE  TcpInv'
<1> USE TcpAssumption DEF TcpInv, vars, channels, sender, handler, receiver, LocalVars
<1>1. CASE Connect \/ SendReset \/ Terminate \/ Join
  <2>1. Connect => TypeOK'
    BY DEF TypeOK, Connect
  <2>2. SendReset => TypeOK'
    BY DEF TypeOK, SendReset
  <2>3. Terminate => TypeOK'
    BY DEF TypeOK, Terminate
  <2>4. Join => TypeOK'
    BY DEF TypeOK, Join
  <2> QED
    BY <1>1, <2>1, <2>2, <2>3, <2>4, LocalSteps DEF Connect, SendReset, Terminate, Join, SenderInv
<1>2. CASE SendCall
  <2>1. TypeOK'
    BY <1>2 DEF TypeOK, SendCall
  <2> QED
    BY <1>2, <2>1, LocalSteps DEF SendCall, SenderInv
<1>3. CASE SendNotify
  <2>1. TypeOK'
    BY <1>3 DEF TypeOK, SendNotify, WakeRecver
  <2> QED
    BY <1>3, <2>1, LocalSteps DEF SendNotify, SenderInv
<1> QED
  BY <1>1, <1>2, <1>3

\* The timer thread.
LEMMA TimerSteps ==
    ASSUME TcpInv, TimerStep
    PROVE  TcpInv'
<1> USE TcpAssumption DEF TcpInv
<1>1. UNCHANGED <<LocalVars, connected, terminate, spc, rpc, resend>>
  BY DEF TimerStep, TimerCheck, TimerTick, TimerNotify, LocalVars, channels, sender, handler,
         receiver
<1>2. tcp_counter' \in 0 .. TimeOutLimit
  <2>1. CASE TimerTick
    BY <2>1 DEF TypeOK, TimerTick
  <2>2. CASE TimerCheck \/ TimerNotify
    BY <2>2 DEF TypeOK, TimerCheck, TimerNotify
  <2> QED
    BY <2>1, <2>2 DEF TimerStep
<1>3. tpc' \in {"check", "sleep", "notify", "done"}
  BY DEF TimerStep, TimerCheck, TimerTick, TimerNotify
<1>4. hpc' = hpc \/ hpc' = "testCounter"
  BY DEF TimerStep, TimerCheck, TimerTick, TimerNotify, WakeHandler, handler
<1>5. /\ hpc' \in {"testCounter", "testQueue", "sleep", "wait", "ack", "ackReset", "timeout",
                   "resend", "done"}
      /\ rpc' \in {"lock", "wait", "deliver", "ack", "done"}
      /\ resend' \in 0 .. MaxSeq
  BY <1>1, <1>4 DEF TypeOK
<1>6. TypeOK'
  BY <1>1, <1>2, <1>3, <1>5, LocalTypes
<1>7. hpc' = "resend" => send_base <= resend'
  BY <1>1, <1>4 DEF SenderInv
<1> QED
  BY <1>1, <1>6, <1>7, LocalSteps

\* The handler thread, apart from the acknowledgements it takes and the packets it resends.
LEMMA HandlerSteps ==
    ASSUME TcpInv,
           \/ TestCounter \/ TestQueue \/ FallAsleep \/ WakeSpuriously \/ SkipAck \/ AckReset
           \/ TestTimeout \/ ResendEnd
    PROVE  TcpInv'
<1> USE TcpAssumption DEF TcpInv
<1>1. UNCHANGED <<LocalVars, connected, terminate, spc, tpc, rpc>>
  BY DEF TestCounter, TestQueue, FallAsleep, WakeSpuriously, SkipAck, AckReset, TestTimeout,
         ResendEnd, LocalVars, channels, sender, receiver
<1>2. tcp_counter' = tcp_counter \/ tcp_counter' = 0
  BY DEF TestCounter, TestQueue, FallAsleep, WakeSpuriously, SkipAck, AckReset, TestTimeout,
         ResendEnd
<1>3. resend' = resend \/ (TestTimeout /\ resend' = send_base)
  BY DEF TestCounter, TestQueue, FallAsleep, WakeSpuriously, SkipAck, AckReset, TestTimeout,
         ResendEnd
<1>4. /\ hpc' \in {"testCounter", "testQueue", "sleep", "wait", "ack", "timeout", "resend", "done"}
      /\ hpc' = "resend" => TestTimeout
  BY DEF TestCounter, TestQueue, FallAsleep, WakeSpuriously, WakeHandler, SkipAck, AckReset,
         TestTimeout, ResendEnd
<1>5. /\ tcp_counter' \in 0 .. TimeOutLimit /\ resend' \in 0 .. MaxSeq
      /\ tpc' \in {"check", "sleep", "notify", "done"}
      /\ rpc' \in {"lock", "wait", "deliver", "ack", "done"}
  BY <1>1, <1>2, <1>3 DEF TypeOK
<1>6. TypeOK'
  BY <1>1, <1>4, <1>5, LocalTypes
<1>7. hpc' = "resend" => resend' = send_base
  BY <1>4 DEF TestTimeout
<1>8. hpc' = "resend" => send_base <= resend'
  BY <1>7 DEF TypeOK
<1> QED
  BY <1>1, <1>6, <1>8, LocalSteps

\* The receiver's thread while there is no packet.
LEMMA RecvWaits ==
    ASSUME TcpInv, RecvWait \/ RecvWakeSpuriously
    PROVE  TcpInv'
<1> USE DEF TcpInv
<1>1. UNCHANGED <<LocalVars, connected, terminate, spc, tpc, hpc, resend, tcp_counter>>
  BY DEF RecvWait, RecvWakeSpuriously, LocalVars, channels, sender, handler
<1>2. rpc' \in {"lock", "wait", "deliver", "ack", "done"}
  BY DEF RecvWait, RecvWakeSpuriously, WakeRecver
<1>3. TypeOK'
  BY <1>1, <1>2, LocalTypes DEF TypeOK
<1>4. hpc' = "resend" => send_base <= resend'
  BY <1>1 DEF SenderInv
<1> QED
  BY <1>1, <1>3, <1>4, LocalSteps

\* ip_send of a packet that was sent, or is being sent.
LEMMA IpSendStep ==
    ASSUME TcpInv, NEW pkt \in Seqs, IpSend(pkt), UNCHANGED <<current_seq, send_base>>,
           Uncounted <= Uncounted', pkt < current_seq + Uncounted', Uncounted' \in 0 .. 1
    PROVE  /\ ChannelInv' /\ ReceiverInv'
           /\ pkt_queue' \in Seq(Seqs)
           /\ rpc' \in {"lock", "wait", "deliver", "ack", "done"}
<1> USE DEF TcpInv
<1>0. /\ pkt_queue \in Seq(Seqs) /\ ready_seq \subseteq Seqs /\ Seqs \subseteq Nat
      /\ current_seq \in Nat
  BY TcpAssumption DEF TypeOK, Seqs
<1>1. /\ pkt_queue' \in Seq(Seqs) /\ Len(pkt_queue') = Len(pkt_queue) + 1
      /\ \A i \in 1 .. Len(pkt_queue) : pkt_queue'[i] = pkt_queue[i]
      /\ pkt_queue'[Len(pkt_queue) + 1] = pkt
  BY <1>0 DEF IpSend
<1>2. Uncounted \in 0 .. 1
  BY DEF Uncounted
<1>3. \A i \in 1 .. Len(pkt_queue') : pkt_queue'[i] < current_seq + Uncounted'
  <2> SUFFICES ASSUME NEW i \in 1 .. Len(pkt_queue') PROVE pkt_queue'[i] < current_seq + Uncounted'
    OBVIOUS
  <2>1. CASE i = Len(pkt_queue) + 1
    BY <2>1, <1>1
  <2>2. CASE i # Len(pkt_queue) + 1
    <3>1. i \in 1 .. Len(pkt_queue)
      <4>1. Len(pkt_queue) \in Nat /\ i \in 1 .. Len(pkt_queue) + 1
        BY <1>0, <1>1
      <4> QED
        BY <4>1, <2>2, ButLast
    <3>2. pkt_queue[i] \in Nat /\ pkt_queue[i] < current_seq + Uncounted
      <4>1. pkt_queue[i] \in Seqs
        BY <3>1, <1>0
      <4>2. pkt_queue[i] < current_seq + Uncounted
        BY <3>1 DEF ChannelInv
      <4> QED
        BY <4>1, <4>2, <1>0
    <3>3. pkt_queue[i] < current_seq + Uncounted'
      BY <3>2, <1>0, <1>2, BelowMore
    <3> QED
      BY <3>1, <3>3, <1>1
  <2> QED
    BY <2>1, <2>2
<1>4. ASSUME NEW seq \in ready_seq PROVE seq < current_seq + Uncounted'
  <2>1. seq \in Nat /\ seq < current_seq + Uncounted
    BY <1>0 DEF ChannelInv
  <2> QED
    BY <2>1, <1>0, <1>2, BelowMore
<1>5. ChannelInv'
  BY <1>3, <1>4 DEF IpSend, ChannelInv
<1>6. ReceiverInv'
  BY DEF IpSend, ReceiverInv, DeliveredInOrder
<1>7. rpc' \in {"lock", "wait", "deliver", "ack", "done"}
  BY DEF IpSend, WakeRecver, TypeOK
<1> QED
  BY <1>1, <1>5, <1>6, <1>7

\* tcp_send writes a slot that holds no packet of the window.
LEMMA SendStoreStep ==
    ASSUME TcpInv, SendStore
    PROVE  TcpInv'
<1> USE TcpAssumption DEF TcpInv, channels, sender, handler, receiver
<1>1. /\ spc = "store" /\ spc' = "transmit" /\ current_seq \in Nat /\ send_base \in Nat
      /\ current_seq < MaxSeq /\ current_seq - send_base < SendWindow
  BY DEF SendStore, SenderInv, TypeOK
<1>2. current_seq % SendWindow \in 0 .. SendWindow - 1
  BY <1>1, SlotType
<1>3. TypeOK'
  BY <1>1, <1>2 DEF TypeOK, SendStore, Seqs
<1>4. SenderInv'
  <2>1. buf'[current_seq % SendWindow] = current_seq
    BY <1>2 DEF SendStore, TypeOK
  <2>2. ASSUME NEW seq \in send_base .. current_seq - 1 PROVE buf'[seq % SendWindow] = seq
    <3>1. seq \in Nat /\ seq < current_seq /\ current_seq - seq < SendWindow
      BY <1>1
    <3>2. seq % SendWindow # current_seq % SendWindow /\ seq % SendWindow \in 0 .. SendWindow - 1
      BY <3>1, <1>1, SlotsDiffer, SlotType
    <3> QED
      BY <3>2 DEF SendStore, TypeOK, SenderInv, UnackedKept
  <2> QED
    BY <1>1, <2>1, <2>2 DEF SendStore, SenderInv, UnackedKept
<1>5. ReceiverInv' /\ ChannelInv'
  BY <1>1 DEF SendStore, ReceiverInv, DeliveredInOrder, ChannelInv, Uncounted
<1> QED
  BY <1>3, <1>4, <1>5

\* Both transmissions send what is in the slot.
LEMMA TransmitSteps ==
    ASSUME TcpInv, SendTransmit \/ Resend
    PROVE  TcpInv'
<1> USE TcpAssumption DEF TcpInv, channels, sender, handler, receiver
<1>1. CASE SendTransmit
  <2> DEFINE pkt == buf[current_seq % SendWindow]
  <2>1. pkt = current_seq /\ current_seq \in Seqs
    BY <1>1 DEF SendTransmit, SenderInv, TypeOK, Seqs
  <2>2. Uncounted = 0 /\ Uncounted' = 1
    BY <1>1 DEF SendTransmit, Uncounted
  <2>3. ChannelInv' /\ ReceiverInv' /\ pkt_queue' \in Seq(Seqs) /\ rpc' \in {"lock", "wait", "deliver", "ack", "done"}
    BY <1>1, <2>1, <2>2, IpSendStep DEF SendTransmit, Seqs
  <2>4. TypeOK'
    BY <1>1, <2>3 DEF SendTransmit, IpSend, TypeOK
  <2>5. SenderInv'
    BY <1>1 DEF SendTransmit, IpSend, SenderInv, UnackedKept
  <2> QED
    BY <2>3, <2>4, <2>5
<1>2. CASE Resend
  <2> DEFINE pkt == buf[resend % SendWindow]
  <2>1. pkt = resend /\ resend \in Seqs /\ resend < current_seq
    BY <1>2 DEF Resend, InFlight, SenderInv, UnackedKept, TypeOK, Seqs
  <2>2. Uncounted' = Uncounted /\ Uncounted \in 0 .. 1
    BY <1>2 DEF Resend, Uncounted
  <2>3. ChannelInv' /\ ReceiverInv' /\ pkt_queue' \in Seq(Seqs) /\ rpc' \in {"lock", "wait", "deliver", "ack", "done"}
    <3>1. resend < current_seq + Uncounted'
      BY <2>1, <2>2 DEF TypeOK, Seqs
    <3> QED
      BY <1>2, <2>1, <2>2, <3>1, IpSendStep DEF Resend
  <2>4. TypeOK'
    BY <1>2, <2>1, <2>3 DEF Resend, IpSend, TypeOK, Seqs
  <2>5. SenderInv'
    BY <1>2, <2>1 DEF Resend, IpSend, SenderInv, UnackedKept, TypeOK
  <2> QED
    BY <2>3, <2>4, <2>5
<1> QED
  BY <1>1, <1>2

\* tcp_send counts the packet that it has stored and transmitted.
LEMMA SendAdvanceStep ==
    ASSUME TcpInv, SendAdvance
    PROVE  TcpInv'
<1> USE TcpAssumption DEF TcpInv, channels, sender, handler, receiver
<1>1. /\ spc = "advance" /\ spc' = "notify" /\ current_seq' = current_seq + 1
      /\ current_seq < MaxSeq /\ buf[current_seq % SendWindow] = current_seq
  BY DEF SendAdvance, SenderInv
<1>2. TypeOK'
  BY <1>1 DEF TypeOK, SendAdvance
<1>3. SenderInv'
  <2>1. send_base' = send_base /\ buf' = buf /\ hpc' = hpc /\ resend' = resend
    BY DEF SendAdvance
  <2>2. ASSUME NEW seq \in send_base .. current_seq' - 1 PROVE buf[seq % SendWindow] = seq
    <3>1. seq \in send_base .. current_seq - 1 \/ seq = current_seq
      BY <1>1 DEF TypeOK
    <3> QED
      BY <3>1, <1>1 DEF SenderInv, UnackedKept
  <2> QED
    BY <1>1, <2>1, <2>2 DEF SenderInv, UnackedKept
<1>4. current_seq' + Uncounted' = current_seq + Uncounted
  BY <1>1 DEF Uncounted, TypeOK
<1>5. ReceiverInv' /\ ChannelInv'
  BY <1>4 DEF SendAdvance, ReceiverInv, DeliveredInOrder, ChannelInv
<1> QED
  BY <1>2, <1>3, <1>5

\* handle_ack moves send_base forward, and not beyond recv_base.
LEMMA HandleAckStep ==
    ASSUME TcpInv, HandleAck
    PROVE  TcpInv'
<1> USE TcpAssumption DEF TcpInv, channels, sender, handler, receiver
<1> DEFINE S == {send_base} \cup ToSet(ack_queue)
<1>1. /\ hpc' = "ackReset" /\ send_base' = Max(S) /\ ack_queue' = <<>>
      /\ UNCHANGED <<pkt_queue, spc, buf, current_seq, recv_base, tcp_buf, ready_seq, app_buf, got>>
  BY DEF HandleAck
<1>2. S \subseteq 0 .. recv_base
  <2>1. ASSUME NEW i \in DOMAIN ack_queue PROVE ack_queue[i] \in 0 .. recv_base
    <3>1. i \in 1 .. Len(ack_queue) /\ ack_queue[i] \in 0 .. MaxSeq
      BY DEF TypeOK
    <3> QED
      BY <3>1 DEF TypeOK, ChannelInv
  <2> QED
    BY <2>1 DEF TypeOK, ChannelInv, ToSet
<1>3. Max(S) \in S /\ send_base <= Max(S)
  <2>1. recv_base \in Nat /\ S # {}
    BY DEF TypeOK
  <2> HIDE DEF S
  <2>2. Max(S) \in S /\ \A x \in S : x <= Max(S)
    BY <1>2, <2>1, MaxOfBounded
  <2> QED
    BY <2>2 DEF S
<1>4. /\ send_base' \in 0 .. MaxSeq /\ send_base <= send_base' /\ send_base' <= recv_base
  <2> HIDE DEF S
  <2>1. Max(S) \in 0 .. recv_base
    BY <1>2, <1>3
  <2>2. recv_base \in 0 .. MaxSeq /\ MaxSeq \in Nat
    BY DEF TypeOK
  <2>3. send_base' \in 0 .. MaxSeq /\ send_base' <= recv_base
    BY <1>1, <2>1, <2>2
  <2> QED
    BY <1>1, <1>3, <2>3
<1>5. TypeOK'
  BY <1>1, <1>4 DEF HandleAck, TypeOK
<1>6. SenderInv'
  <2> HIDE DEF S
  <2>4. /\ current_seq \in Nat /\ send_base \in Nat /\ send_base' \in Nat
        /\ send_base <= send_base'
    BY <1>4 DEF TypeOK
  <2>1. current_seq - send_base < SendWindow => current_seq - send_base' < SendWindow
    <3>1. PICK b : b = send_base'
      OBVIOUS
    <3>2. b \in Nat /\ send_base <= b
      BY <2>4, <3>1
    <3>3. current_seq - send_base < SendWindow => current_seq - b < SendWindow
      BY <2>4, <3>2
    <3> QED
      BY <3>1, <3>3
  <2>2. \A seq \in send_base' .. current_seq - 1 : seq \in send_base .. current_seq - 1
    BY <2>4, <1>4
  <2>3. UnackedKept'
    BY <1>1, <2>2 DEF SenderInv, UnackedKept
  <2> QED
    BY <1>1, <2>1, <2>3 DEF SenderInv
<1>7. ReceiverInv' /\ ChannelInv'
  BY <1>1, <1>4 DEF ReceiverInv, DeliveredInOrder, ChannelInv, Uncounted
<1> QED
  BY <1>5, <1>6, <1>7

\* do_recv stores the packets of the window, each in its slot.
LEMMA RecvDrainStep ==
    ASSUME TcpInv, RecvDrain
    PROVE  TcpInv'
<1> USE TcpAssumption DEF TcpInv, channels, sender, handler, receiver
<1>1. \A seq \in Accepted : /\ seq \in Seqs /\ seq < current_seq + Uncounted
                            /\ recv_base <= seq /\ seq < recv_base + ReceiveWindow
  <2>1. TAKE seq \in Accepted
  <2>2. PICK i \in 1 .. Len(pkt_queue) : seq = pkt_queue[i]
    BY DEF Accepted, ToSet
  <2>3. recv_base <= seq /\ seq < recv_base + ReceiveWindow
    BY DEF Accepted, InWindow
  <2>4. pkt_queue[i] \in Seqs
    BY <2>2 DEF TypeOK
  <2>5. pkt_queue[i] < current_seq + Uncounted
    BY <2>2 DEF ChannelInv
  <2> QED
    BY <2>2, <2>3, <2>4, <2>5
<1>2. ASSUME NEW slot \in 0 .. ReceiveWindow - 1
      PROVE  \/ Stored(slot) = tcp_buf[slot] /\ \A seq \in Accepted : seq % ReceiveWindow # slot
             \/ Stored(slot) \in Accepted /\ Stored(slot) % ReceiveWindow = slot
  <2> DEFINE fits == {seq \in Accepted : seq % ReceiveWindow = slot}
  <2>1. fits \subseteq 0 .. MaxSeq
    BY <1>1 DEF Seqs
  <2>2. fits # {} => Max(fits) \in fits
    <3> HIDE DEF fits
    <3> QED
      BY <2>1, MaxOfBounded
  <2>3. Stored(slot) = IF fits = {} THEN tcp_buf[slot] ELSE Max(fits)
    BY DEF Stored
  <2>4. CASE fits = {}
    BY <2>3, <2>4
  <2>5. CASE fits # {}
    BY <2>2, <2>3, <2>5
  <2> QED
    BY <2>4, <2>5
<1>3. /\ tcp_buf' = [slot \in 0 .. ReceiveWindow - 1 |-> Stored(slot)]
      /\ ready_seq' = ready_seq \cup Accepted /\ pkt_queue' = <<>> /\ rpc' = "deliver"
      /\ UNCHANGED <<ack_queue, sender, handler, tpc, tcp_counter, recv_base, app_buf, got>>
  BY DEF RecvDrain, TypeOK
<1>4. ASSUME NEW seq \in ready_seq', seq >= recv_base
      PROVE  seq < recv_base + ReceiveWindow /\ tcp_buf'[seq % ReceiveWindow] = seq
  <2> DEFINE slot == seq % ReceiveWindow
  <2>1. seq \in Nat /\ recv_base \in Nat /\ seq < recv_base + ReceiveWindow
    BY <1>1, <1>3, <1>4 DEF TypeOK, ReceiverInv, Seqs
  <2>2. slot \in 0 .. ReceiveWindow - 1 /\ tcp_buf'[slot] = Stored(slot)
    BY <1>3, <2>1, SlotType
  <2>3. CASE Stored(slot) = tcp_buf[slot] /\ \A q \in Accepted : q % ReceiveWindow # slot
    BY <1>3, <1>4, <2>2, <2>3 DEF ReceiverInv
  <2>4. CASE Stored(slot) \in Accepted /\ Stored(slot) % ReceiveWindow = slot
    <3> DEFINE q == Stored(slot)
    <3>1. q \in Nat /\ recv_base <= q /\ q < recv_base + ReceiveWindow
      BY <1>1, <2>4 DEF Seqs
    <3> HIDE DEF q
    <3>2. q % ReceiveWindow = seq % ReceiveWindow
      BY <2>4 DEF q
    <3>3. q = seq
      <4>1. ~(q < seq)
        <5>1. seq - q < ReceiveWindow
          BY <2>1, <3>1
        <5> QED
          BY <2>1, <3>1, <3>2, <5>1, SlotsDiffer
      <4>2. ~(seq < q)
        <5>1. q - recv_base < ReceiveWindow /\ recv_base <= seq
          BY <1>4, <2>1, <3>1
        <5>2. q - seq < ReceiveWindow
          BY <2>1, <3>1, <5>1
        <5> QED
          BY <2>1, <3>1, <3>2, <5>2, SlotsDiffer
      <4> QED
        BY <2>1, <3>1, <4>1, <4>2
    <3> QED
      BY <2>1, <2>2, <3>3 DEF q
  <2> QED
    BY <1>2, <2>2, <2>3, <2>4
<1>5. TypeOK'
  <2>1. \A slot \in 0 .. ReceiveWindow - 1 : Stored(slot) \in Seqs \cup {NoPkt}
    BY <1>1, <1>2 DEF TypeOK
  <2> QED
    BY <1>1, <1>3, <2>1 DEF TypeOK
<1>6. SenderInv'
  BY <1>3 DEF SenderInv, UnackedKept
<1>7. ReceiverInv'
  BY <1>3, <1>4 DEF ReceiverInv, DeliveredInOrder
<1>8. ChannelInv'
  BY <1>1, <1>3 DEF ChannelInv, Uncounted
<1> QED
  BY <1>5, <1>6, <1>7, <1>8

\* The packets that are ready without a gap go to the application, in order.
LEMMA DeliverStep ==
    ASSUME TcpInv, Deliver
    PROVE  TcpInv'
<1> USE TcpAssumption DEF TcpInv, channels, sender, handler, receiver
<1> DEFINE n == FirstMissing
           more == [i \in 1 .. n - recv_base |-> tcp_buf[(recv_base + i - 1) % ReceiveWindow]]
<1>1. n \in recv_base .. MaxSeq /\ n \notin ready_seq /\ \A m \in recv_base .. n - 1 : m \in ready_seq
  <2> DEFINE T == {m \in recv_base .. MaxSeq : m \notin ready_seq}
  <2>1. MaxSeq \in T /\ T \subseteq Nat
    BY DEF TypeOK, Seqs
  <2>2. PICK k \in T : \A m \in T : k <= m
    <3> HIDE DEF T
    <3> QED
      BY <2>1, LeastNat
  <2>3. k \notin ready_seq /\ \A m \in recv_base .. k - 1 : m \in ready_seq
    BY <2>2 DEF TypeOK
  <2> QED
    BY <2>2, <2>3 DEF FirstMissing
<1> HIDE DEF n
<1>2. /\ recv_base' = n /\ app_buf' = app_buf \o more /\ rpc' = "ack"
      /\ UNCHANGED <<channels, sender, handler, tpc, tcp_counter, tcp_buf, ready_seq, got>>
  BY DEF Deliver, n
<1>3. recv_base \in Nat /\ n \in Nat /\ recv_base <= n /\ n - recv_base \in Nat
  BY <1>1 DEF TypeOK
<1>4. more = [i \in 1 .. n - recv_base |-> recv_base + i - 1]
  <2>1. ASSUME NEW i \in 1 .. n - recv_base
        PROVE  tcp_buf[(recv_base + i - 1) % ReceiveWindow] = recv_base + i - 1
    <3>1. recv_base + i - 1 \in recv_base .. n - 1 /\ recv_base + i - 1 >= recv_base
      BY <1>3
    <3>2. recv_base + i - 1 \in ready_seq
      BY <1>1, <3>1
    <3> QED
      BY <3>1, <3>2 DEF ReceiverInv
  <2> QED
    BY <2>1
<1>5. more \in Seq(Seqs)
  <2>1. \A i \in 1 .. n - recv_base : recv_base + i - 1 \in Seqs
    BY <1>1, <1>3 DEF Seqs
  <2> DEFINE l == n - recv_base
  <2>2. l \in Nat /\ more \in [1 .. l -> Seqs]
    BY <1>3, <1>4, <2>1
  <2> HIDE DEF l, more
  <2> QED
    BY <2>2
<1> HIDE DEF more
<1>6. TypeOK'
  BY <1>1, <1>2, <1>5 DEF TypeOK
<1>7. DeliveredInOrder'
  <2>1. got \o app_buf = [i \in 1 .. recv_base |-> i - 1]
    BY DEF ReceiverInv, DeliveredInOrder
  <2> DEFINE s == got \o app_buf
  <2>2. s \in Seq(Seqs) /\ Len(s) = recv_base /\ \A i \in 1 .. recv_base : s[i] = i - 1
    <3>1. s \in Seq(Seqs)
      BY DEF TypeOK
    <3>2. s = [i \in 1 .. recv_base |-> i - 1]
      BY <2>1
    <3> HIDE DEF s
    <3> QED
      BY <1>3, <3>1, <3>2
  <2>3. got' \o app_buf' = s \o more
    <3>1. got \in Seq(Seqs) /\ app_buf \in Seq(Seqs)
      BY DEF TypeOK
    <3>2. (got \o app_buf) \o more = got \o (app_buf \o more)
      BY <3>1, <1>5, ConcatAssociative
    <3> QED
      BY <3>2, <1>2
  <2> HIDE DEF s
  <2>4. Len(more) = n - recv_base /\ \A i \in 1 .. n - recv_base : more[i] = recv_base + i - 1
    BY <1>3, <1>4
  <2> DEFINE t == s \o more
  <2>5. t \in Seq(Seqs) /\ Len(t) = n
    BY <1>3, <1>5, <2>2, <2>4
  <2>6. ASSUME NEW i \in 1 .. n PROVE t[i] = i - 1
    <3>1. CASE i <= recv_base
      BY <3>1, <1>3, <1>5, <2>2
    <3>2. CASE ~(i <= recv_base)
      <4>1. t[i] = more[i - recv_base] /\ i - recv_base \in 1 .. n - recv_base
        BY <3>2, <1>3, <1>5, <2>2, <2>4
      <4> QED
        BY <4>1, <1>3, <2>4
    <3> QED
      BY <3>1, <3>2
  <2>7. t = [i \in 1 .. n |-> i - 1]
    <3> HIDE DEF t
    <3> QED
      BY <2>5, <2>6
  <2> QED
    BY <1>2, <2>3, <2>7 DEF DeliveredInOrder
<1>8. SenderInv'
  BY <1>2 DEF SenderInv, UnackedKept
<1>9. ReceiverInv'
  <2>1. \A seq \in 0 .. n - 1 : seq \in ready_seq
    BY <1>1, <1>3 DEF ReceiverInv
  <2>2. \A seq \in ready_seq : seq >= n =>
           seq < n + ReceiveWindow /\ tcp_buf[seq % ReceiveWindow] = seq
    BY <1>3 DEF ReceiverInv, TypeOK, Seqs
  <2> QED
    BY <1>2, <1>7, <2>1, <2>2 DEF ReceiverInv
<1>10. ChannelInv'
  BY <1>2, <1>3 DEF ChannelInv, TypeOK, Uncounted
<1> QED
  BY <1>6, <1>8, <1>9, <1>10

\* send_ack acknowledges recv_base.
LEMMA SendAckStep ==
    ASSUME TcpInv, SendAck
    PROVE  TcpInv'
<1> USE TcpAssumption DEF TcpInv, channels, sender, handler, receiver
<1>1. /\ ack_queue' = Append(ack_queue, recv_base) /\ rpc' = "done"
      /\ UNCHANGED <<pkt_queue, sender, send_base, resend, tpc, tcp_counter, recv_base, tcp_buf,
                     ready_seq, app_buf, got>>
  BY DEF SendAck, AckNumber
<1>2. /\ ack_queue' \in Seq(0 .. MaxSeq) /\ Len(ack_queue') = Len(ack_queue) + 1
      /\ \A i \in 1 .. Len(ack_queue') : ack_queue'[i] <= recv_base
  <2>1. ack_queue \in Seq(0 .. MaxSeq) /\ recv_base \in 0 .. MaxSeq
    BY DEF TypeOK
  <2>2. \A i \in 1 .. Len(ack_queue) : ack_queue[i] <= recv_base
    BY DEF ChannelInv
  <2> HIDE DEF TcpInv
  <2> QED
    BY <1>1, <2>1, <2>2
<1>3. hpc' = "resend" => hpc = "resend"
  BY DEF SendAck, WakeHandler
<1>4. TypeOK'
  BY <1>1, <1>2 DEF SendAck, WakeHandler, TypeOK
<1>5. SenderInv'
  BY <1>1, <1>3 DEF SenderInv, UnackedKept
<1>6. ReceiverInv' /\ ChannelInv'
  BY <1>1, <1>2 DEF ReceiverInv, DeliveredInOrder, ChannelInv, Uncounted
<1> QED
  BY <1>4, <1>5, <1>6

\* tcp_recv moves the first packet from app_buf to the caller.
LEMMA TcpRecvStep ==
    ASSUME TcpInv, TcpRecv
    PROVE  TcpInv'
<1> USE TcpAssumption DEF TcpInv, channels, sender, handler, receiver
<1>1. /\ app_buf' \in Seq(Seqs) /\ got' \in Seq(Seqs)
      /\ got' \o app_buf' = got \o app_buf
  <2>1. CASE app_buf = <<>>
    BY <2>1 DEF TcpRecv, TypeOK
  <2>2. CASE app_buf # <<>>
    <3>1. /\ Head(app_buf) \in Seqs /\ Tail(app_buf) \in Seq(Seqs)
          /\ app_buf = <<Head(app_buf)>> \o Tail(app_buf)
      BY <2>2 DEF TypeOK
    <3>2. got' = got \o <<Head(app_buf)>> /\ app_buf' = Tail(app_buf)
      BY <2>2, <3>1 DEF TcpRecv, TypeOK
    <3> DEFINE h == <<Head(app_buf)>>
               t == Tail(app_buf)
    <3>3. got \in Seq(Seqs) /\ h \in Seq(Seqs) /\ t \in Seq(Seqs)
      BY <3>1 DEF TypeOK
    <3>4. got' = got \o h /\ app_buf' = t /\ app_buf = h \o t
      BY <3>1, <3>2
    <3> HIDE DEF h, t
    <3>5. (got \o h) \o t = got \o (h \o t)
      BY <3>3, ConcatAssociative
    <3>6. got \o h \in Seq(Seqs)
      BY <3>3
    <3> QED
      BY <3>3, <3>4, <3>5, <3>6
  <2> QED
    BY <2>1, <2>2
<1>2. TypeOK'
  BY <1>1 DEF TcpRecv, TypeOK
<1>3. SenderInv' /\ ReceiverInv' /\ ChannelInv'
  BY <1>1 DEF TcpRecv, SenderInv, UnackedKept, ReceiverInv, DeliveredInOrder, ChannelInv, Uncounted
<1> QED
  BY <1>2, <1>3
-----------------------------------------------------------------------------
\* Every step of every thread preserves it.
LEMMA NextTcpInv == TcpInv /\ [Next]_vars => TcpInv'
<1> SUFFICES ASSUME TcpInv, [Next]_vars PROVE TcpInv'
  OBVIOUS
<1>1. CASE UNCHANGED vars
  BY <1>1 DEF TcpInv, TypeOK, SenderInv, UnackedKept, ReceiverInv, DeliveredInOrder, ChannelInv,
              Uncounted, vars, channels, sender, handler, receiver
<1>2. CASE Connect \/ SendCall \/ Terminate \/ TcpRecv
  BY <1>2, ApplicationSteps, TcpRecvStep
<1>3. CASE SenderStep
  BY <1>3, ApplicationSteps, SendStoreStep, TransmitSteps, SendAdvanceStep DEF SenderStep
<1>4. CASE TimerStep
  BY <1>4, TimerSteps
<1>5. CASE HandlerStep
  BY <1>5, HandlerSteps, HandleAckStep, TransmitSteps DEF HandlerStep
<1>6. CASE RecverStep
  BY <1>6, RecvWaits, RecvDrainStep, DeliverStep, SendAckStep DEF RecverStep
<1>7. CASE WakeSpuriously \/ RecvWakeSpuriously
  BY <1>7, HandlerSteps, RecvWaits
<1> QED
  BY <1>1, <1>2, <1>3, <1>4, <1>5, <1>6, <1>7 DEF Next

(***************************************************************************)
(* The conjunction of what the sender, the receiver and the two queues     *)
(* between them keep is an inductive invariant.                            *)
(***************************************************************************)
THEOREM TcpInductive == Spec => []TcpInv
  BY InitTcpInv, NextTcpInv, PTL DEF Spec

(***************************************************************************)
(* Type correctness: among others, ip_send only ever sends packets that    *)
(* were stored, never a slot of buf that holds none.                       *)
(***************************************************************************)
THEOREM TcpTypeCorrect == Spec => []TypeOK
<1>1. TcpInv => TypeOK
  BY DEF TcpInv
<1> QED
  BY <1>1, TcpInductive, PTL

(***************************************************************************)
(* The receiver's application gets the packets in the order they were      *)
(* sent, each once and without a gap, whatever is lost to the window,      *)
(* resent or reordered between the threads.                                *)
(***************************************************************************)
THEOREM DeliveryInOrder == Spec => []DeliveredInOrder
<1>1. TcpInv => DeliveredInOrder
  BY DEF TcpInv, ReceiverInv
<1> QED
  BY <1>1, TcpInductive, PTL

(***************************************************************************)
(* What the sender takes for acknowledged has been delivered, and what was *)
(* delivered has been sent.                                                *)
(***************************************************************************)
THEOREM AcknowledgedIsDelivered == Spec => []AckedWasDelivered
<1>1. TcpInv => AckedWasDelivered
  <2> SUFFICES ASSUME TcpInv PROVE recv_base <= current_seq + Uncounted
    BY DEF TcpInv, ChannelInv, AckedWasDelivered
  <2>1. recv_base \in Nat /\ current_seq \in Nat /\ Uncounted \in 0 .. 1
    BY TcpAssumption DEF TcpInv, TypeOK, Uncounted
  <2>2. recv_base # 0 => recv_base - 1 \in ready_seq
    BY <2>1 DEF TcpInv, ReceiverInv
  <2>3. recv_base # 0 => recv_base - 1 < current_seq + Uncounted
    BY <2>2 DEF TcpInv, ChannelInv
  <2> QED
    BY <2>1, <2>3
<1> QED
  BY <1>1, TcpInductive, PTL

(***************************************************************************)
(* The packets of the window stay in buf until they are acknowledged.      *)
(***************************************************************************)
THEOREM WindowIsKept == Spec => []UnackedKept
<1>1. TcpInv => UnackedKept
  BY DEF TcpInv, SenderInv
<1> QED
  BY <1>1, TcpInductive, PTL

(***************************************************************************)
(* tcp_send and handle_timeout share buf without a lock and without a race *)
(* on a slot.                                                              *)
(***************************************************************************)
THEOREM NoRaceOnBuf == Spec => []BufNotRaced
<1>1. TcpInv => BufNotRaced
  <2> SUFFICES ASSUME TcpInv, spc = "store", hpc = "resend", resend < current_seq
               PROVE  resend % SendWindow # current_seq % SendWindow
    BY DEF BufNotRaced, InFlight
  <2>1. /\ resend \in Nat /\ current_seq \in Nat /\ send_base \in Nat
        /\ send_base <= resend /\ current_seq - send_base < SendWindow
    BY TcpAssumption DEF TcpInv, TypeOK, SenderInv
  <2>2. SendWindow \in Nat \ {0} /\ current_seq - resend < SendWindow
    BY <2>1, TcpAssumption
  <2> QED
    BY <2>1, <2>2, SlotsDiffer
<1> QED
  BY <1>1, TcpInductive, PTL
=============================================================================
