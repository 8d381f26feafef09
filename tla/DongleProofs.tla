---------------------------- MODULE DongleProofs ----------------------------
(***************************************************************************)
(* The safety properties of the dongle, and that it implements what the    *)
(* engine relies on (module Link), for any channels, attempts, pages and   *)
(* reports, and whatever the devices answer.                               *)
(***************************************************************************)
EXTENDS Dongle, TLAPS

-----------------------------------------------------------------------------

Connecting == {"find", "txflush", "ask", "answer"}
Exchanging == {"rxflush", "request", "gather", "frame"}

\* A connect is under way without handles only, an exchange with them only,
\* and a connect that does not scan tries no channel but the dongle's.
ChannelInv ==
    /\ pc \in {"idle"} \union Connecting \union Exchanging
    /\ open \in BOOLEAN /\ scan \in BOOLEAN
    /\ channel \in Channel
    /\ pc \in Connecting =>
          /\ ~open
          /\ plan \in Seq(Channel) /\ plan # <<>>
          /\ ~scan => \A i \in 1 .. Len(plan) : plan[i] = channel
    /\ pc \in Exchanging => open

\* The channels of a reopen.
LEMMA PlansAreChannels ==
    ASSUME NEW c \in Channel
    PROVE  /\ Tries(c, Attempts) \in Seq(Channel) /\ Tries(c, Attempts) # <<>>
           /\ \A i \in 1 .. Len(Tries(c, Attempts)) : Tries(c, Attempts)[i] = c
           /\ EveryChannel \in Seq(Channel) /\ EveryChannel # <<>>
<1>1. ASSUME NEW d \in Channel
      PROVE  /\ Tries(d, Attempts) \in Seq(Channel) /\ Len(Tries(d, Attempts)) = Attempts
             /\ \A i \in 1 .. Attempts : Tries(d, Attempts)[i] = d
    BY ChannelAssumption DEF Tries
<1>2. Attempts \in Nat \ {0} /\ Default \in Channel /\ Others \in Seq(Channel)
    BY ChannelAssumption
<1>3. Tries(Default, Attempts) \in Seq(Channel) /\ Len(Tries(Default, Attempts)) = Attempts
    BY <1>1, <1>2
<1>4. EveryChannel \in Seq(Channel) /\ Len(EveryChannel) = Attempts + Len(Others)
    BY <1>2, <1>3 DEF EveryChannel
<1>5. EveryChannel # <<>>
    BY <1>2, <1>4
<1> QED
    BY <1>1, <1>2, <1>4, <1>5

\* Every step keeps the plan to the channel.
LEMMA ChannelIsKept ==
    ASSUME ChannelInv, [Next]_vars
    PROVE  ChannelInv'
<1>1. CASE UNCHANGED vars
    BY <1>1 DEF vars, callVars, localVars, ChannelInv
<1>2. CASE Outside
    BY <1>2 DEF Outside, AnswerArrives, PartArrives, Moves, callVars, localVars, ChannelInv
<1>3. ASSUME NEW every \in BOOLEAN, CallReopen(every)
      PROVE  ChannelInv'
    <2>1. /\ pc' = "find" /\ open' = FALSE /\ scan' = every /\ channel' = channel
          /\ plan' = IF every THEN EveryChannel ELSE Tries(channel, Attempts)
        BY <1>3 DEF CallReopen
    <2>2. channel \in Channel
        BY DEF ChannelInv
    <2> QED
        <3>1. /\ plan' \in Seq(Channel) /\ plan' # <<>>
              /\ ~every => \A i \in 1 .. Len(plan') : plan'[i] = channel
            BY <2>1, <2>2, PlansAreChannels
        <3> QED
            BY <2>1, <2>2, <3>1 DEF ChannelInv, Connecting, Exchanging
<1>4. CASE CallPoll \/ CallSend
    BY <1>4 DEF CallPoll, CallSend, ChannelInv, Connecting, Exchanging
<1>5. ASSUME NEW result, CallReturns(result), UNCHANGED <<open, channel>>
      PROVE  ChannelInv'
    BY <1>5 DEF CallReturns, ChannelInv, Connecting, Exchanging
<1>6. CASE CallClosed \/ Fails \/ ReplyTaken \/ ReplyRefused
    BY <1>5, <1>6 DEF CallClosed, Fails, ReplyTaken, ReplyRefused
<1>7. CASE Found \/ TxFlush \/ TxFlushed \/ Ask
    BY <1>7 DEF Found, TxFlush, TxFlushed, Ask, callVars, localVars, ChannelInv, Connecting, Exchanging
<1>8. CASE Connected
    <2>1. pc = "answer" /\ open' = TRUE /\ channel' = Head(plan) /\ CallReturns("ok")
        BY <1>8 DEF Connected
    <2>2. Head(plan) \in Channel
        BY <2>1 DEF ChannelInv, Connecting
    <2> QED
        BY <2>1, <2>2 DEF CallReturns, ChannelInv, Connecting, Exchanging
<1>9. CASE NotConnected
    <2>1. CASE Len(plan) > 1
        <3>1. /\ pc = "answer" /\ pc' = "txflush" /\ plan' = Tail(plan) /\ UNCHANGED <<scan, open, channel>>
            BY <1>9, <2>1 DEF NotConnected
        <3>2. plan \in Seq(Channel) /\ (~scan => \A i \in 1 .. Len(plan) : plan[i] = channel) /\ ~open
            BY <3>1 DEF ChannelInv, Connecting
        <3>3. /\ Tail(plan) \in Seq(Channel) /\ Len(Tail(plan)) = Len(plan) - 1
              /\ \A i \in 1 .. Len(plan) - 1 : Tail(plan)[i] = plan[i + 1]
            BY <2>1, <3>2
        <3>4. ~scan => \A i \in 1 .. Len(Tail(plan)) : Tail(plan)[i] = channel
            BY <3>2, <3>3
        <3>5. Tail(plan) # <<>>
            <4>0. ASSUME NEW n \in Nat, n > 1, NEW k, k = n - 1
                  PROVE  k # 0
                BY <4>0
            <4>1. Len(Tail(plan)) # 0
                <5>1. Len(plan) \in Nat
                    BY <3>2
                <5> QED
                    BY <2>1, <3>3, <4>0, <5>1, Zenon
            <4>2. Len(<<>>) = 0
                OBVIOUS
            <4> QED
                BY <4>1, <4>2, Zenon
        <3> QED
            BY <3>1, <3>2, <3>3, <3>4, <3>5 DEF ChannelInv, Connecting, Exchanging
    <2>2. CASE ~(Len(plan) > 1)
        BY <1>5, <1>9, <2>2 DEF NotConnected
    <2> QED
        BY <2>1, <2>2
<1>10. CASE RxFlush \/ RxFlushed \/ AskReceiver \/ Gather
    BY <1>10 DEF RxFlush, RxFlushed, AskReceiver, Gather, callVars, localVars, ChannelInv, Connecting, Exchanging
<1>11. CASE WriteFrame
    BY <1>5, <1>11 DEF WriteFrame, ChannelInv, Connecting, Exchanging
<1> QED
    BY <1>1, <1>2, <1>3, <1>4, <1>6, <1>7, <1>8, <1>9, <1>10, <1>11 DEF Next, Call, Transfer

\* Every step of the dongle is a step of Link or leaves Link's variables alone.
LEMMA StepsAreLink ==
    ASSUME ChannelInv, [Next]_vars
    PROVE  [Relied!Next]_(Relied!linkVars)
<1> USE DEF Relied!Next, Relied!linkVars, Relied!Succeed, Relied!Fail, Relied!GiveUp, Relied!Reopened
<1>1. CASE UNCHANGED vars \/ Outside \/ CallPoll \/ CallSend
    BY <1>1 DEF vars, callVars, Outside, AnswerArrives, PartArrives, Moves, CallPoll, CallSend
<1>2. CASE \E every \in BOOLEAN : CallReopen(every)
    BY <1>2 DEF CallReopen
<1>3. CASE CallClosed \/ Fails \/ ReplyRefused
    BY <1>3 DEF CallClosed, Fails, ReplyRefused, CallReturns
<1>4. CASE Found \/ TxFlush \/ TxFlushed \/ Ask \/ RxFlush \/ RxFlushed \/ AskReceiver \/ Gather
    BY <1>4 DEF Found, TxFlush, TxFlushed, Ask, RxFlush, RxFlushed, AskReceiver, Gather, callVars
<1>5. CASE Connected
    <2>1. pc = "answer" /\ open' = TRUE /\ channel' = Head(plan) /\ outcome' = "ok" /\ scan' = FALSE
        BY <1>5 DEF Connected, CallReturns
    <2>2. ~open /\ plan \in Seq(Channel) /\ plan # <<>> /\ (~scan => \A i \in 1 .. Len(plan) : plan[i] = channel)
        BY <2>1 DEF ChannelInv, Connecting
    <2>3. Head(plan) \in IF scan THEN Channel ELSE {channel}
        BY <2>2
    <2> QED
        BY <2>1, <2>2, <2>3
<1>6. CASE NotConnected
    BY <1>6 DEF NotConnected, CallReturns
<1>7. CASE ReplyTaken
    <2>1. open
        BY <1>7 DEF ReplyTaken, Gathered, ChannelInv, Exchanging
    <2> QED
        BY <1>7, <2>1 DEF ReplyTaken, CallReturns
<1>8. CASE WriteFrame
    <2>1. open
        BY <1>8 DEF WriteFrame, ChannelInv, Exchanging
    <2> QED
        BY <1>8, <2>1 DEF WriteFrame, CallReturns
<1> QED
    BY <1>1, <1>2, <1>3, <1>4, <1>5, <1>6, <1>7, <1>8 DEF Next, Call, Transfer

-----------------------------------------------------------------------------
(* The answers of the transmitter.                                         *)

\* What is on its way and what waits to be read is of one exchange and what
\* the exchange before it left, so that a flush discards all that waits; and
\* unless something was still on its way then, all there is afterwards is
\* for the channel of the present attempt.
AnswerInv ==
    /\ txAir \in Seq(Answer) /\ txQueue \in Seq(Answer) /\ flushed \in Nat /\ late \in BOOLEAN
    /\ Len(txAir) <= MaxAir
    /\ Len(txAir) + Len(txQueue) <= MaxAir + 1
    /\ pc = "find" => flushed = 0
    /\ pc = "txflush" => Len(txAir) + Len(txQueue) + flushed <= MaxAir + 1
    /\ pc = "ask" => Len(txAir) + Len(txQueue) <= MaxAir
    /\ pc = "ask" /\ ~late => txAir = <<>> /\ txQueue = <<>>
    /\ pc = "answer" /\ ~late =>
          /\ \A i \in 1 .. Len(txAir) : txAir[i].for = Head(plan)
          /\ \A i \in 1 .. Len(txQueue) : txQueue[i].for = Head(plan)

\* Every step keeps the answers to their bounds and to their attempt.
LEMMA AnswersAreKept ==
    ASSUME ChannelInv, AnswerInv, [Next]_vars
    PROVE  AnswerInv'
<1> USE DEF AnswerInv
<1>0. MaxAir \in Nat /\ TxReads \in Nat /\ TxReads > MaxAir
    BY ReadsAssumption
<1>1. ASSUME UNCHANGED <<txAir, txQueue>>, flushed' \in Nat, late' \in BOOLEAN,
             pc' \notin Connecting \/ (pc' = "find" /\ flushed' = 0)
      PROVE  AnswerInv'
    BY <1>1 DEF Connecting
<1>2. ASSUME NEW result, CallReturns(result), UNCHANGED <<txAir, txQueue>>
      PROVE  AnswerInv'
    BY <1>1, <1>2 DEF CallReturns, Connecting
<1>3. CASE UNCHANGED vars
    BY <1>3 DEF vars, callVars, localVars, airVars
<1>4. CASE PartArrives \/ \E c \in Channel \union {None} : Moves(c)
    BY <1>4 DEF PartArrives, Moves, callVars, localVars, airVars
<1>5. CASE AnswerArrives
    <2>1. /\ UNCHANGED <<pc, flushed, late, plan>>
          /\ txAir # <<>> /\ txAir' = Tail(txAir) /\ txQueue' = Append(txQueue, Head(txAir))
        BY <1>5 DEF AnswerArrives, callVars, localVars
    <2>2. /\ txAir' \in Seq(Answer) /\ txQueue' \in Seq(Answer)
          /\ Len(txAir') = Len(txAir) - 1 /\ Len(txQueue') = Len(txQueue) + 1
          /\ \A i \in 1 .. Len(txAir') : txAir'[i] = txAir[i + 1]
          /\ \A i \in 1 .. Len(txQueue) : txQueue'[i] = txQueue[i]
          /\ txQueue'[Len(txQueue) + 1] = txAir[1]
        BY <2>1
    <2>3. Len(txAir) \in Nat /\ Len(txQueue) \in Nat /\ Len(txAir) >= 1
        BY <2>1
    <2>4. ASSUME pc = "answer", ~late
          PROVE  /\ \A i \in 1 .. Len(txAir') : txAir'[i].for = Head(plan)
                 /\ \A i \in 1 .. Len(txQueue') : txQueue'[i].for = Head(plan)
        <3>1. /\ \A i \in 1 .. Len(txAir) : txAir[i].for = Head(plan)
              /\ \A i \in 1 .. Len(txQueue) : txQueue[i].for = Head(plan)
            BY <2>4
        <3>2. ASSUME NEW i \in 1 .. Len(txAir')
              PROVE  txAir'[i].for = Head(plan)
            <4>1. i + 1 \in 1 .. Len(txAir) /\ txAir'[i] = txAir[i + 1]
                BY <2>2, <2>3
            <4> QED
                BY <3>1, <4>1
        <3>3. ASSUME NEW i \in 1 .. Len(txQueue')
              PROVE  txQueue'[i].for = Head(plan)
            <4>1. i \in 1 .. Len(txQueue) \/ i = Len(txQueue) + 1
                BY <2>2, <2>3
            <4>2. 1 \in 1 .. Len(txAir)
                BY <2>3
            <4> QED
                BY <2>2, <3>1, <4>1, <4>2
        <3> QED
            BY <3>2, <3>3
    <2> QED
        BY <2>1, <2>2, <2>3, <2>4, <1>0
<1>6. CASE \E every \in BOOLEAN : CallReopen(every)
    BY <1>1, <1>6 DEF CallReopen, airVars
<1>7. CASE CallPoll \/ CallSend
    BY <1>1, <1>7 DEF CallPoll, CallSend, airVars, Connecting
<1>8. CASE CallClosed \/ Fails \/ ReplyTaken \/ ReplyRefused
    BY <1>2, <1>8 DEF CallClosed, Fails, ReplyTaken, ReplyRefused, airVars
<1>9. CASE Found
    BY <1>9 DEF Found, callVars, localVars, airVars
<1>10. CASE TxFlush
    <2>1. /\ pc = "txflush" /\ UNCHANGED <<pc, late, plan, txAir>> /\ flushed' = flushed + 1
          /\ txQueue # <<>> /\ txQueue' = Tail(txQueue)
        BY <1>10 DEF TxFlush
    <2>2. txQueue' \in Seq(Answer) /\ Len(txQueue') = Len(txQueue) - 1
        BY <2>1
    <2> QED
        BY <2>1, <2>2, <1>0
<1>11. CASE TxFlushed
    <2>1. /\ pc = "txflush" /\ pc' = "ask" /\ UNCHANGED <<flushed, plan, txAir, txQueue>>
          /\ late' = (txAir # <<>>) /\ (txQueue # <<>> => flushed = TxReads)
        BY <1>11 DEF TxFlushed, callVars, localVars, airVars
    <2>2. txQueue = <<>>
        BY <2>1, <1>0
    <2>3. late' \in BOOLEAN /\ (~late' => txAir = <<>>)
        BY <2>1, Zenon
    <2> QED
        BY <2>1, <2>2, <2>3, <1>0
<1>12. CASE Ask
    <2>1. pc = "ask" /\ pc' = "answer" /\ UNCHANGED <<flushed, late, plan, txQueue>>
        BY <1>12 DEF Ask, callVars, localVars
    <2>2. CASE UNCHANGED txAir
        BY <2>1, <2>2, <1>0
    <2>3. CASE Len(txAir) < MaxAir /\ txAir' = Append(txAir, [for |-> Head(plan), there |-> Head(plan) = at])
        <3>1. Head(plan) \in Channel
            BY <2>1 DEF ChannelInv, Connecting
        <3>2. [for |-> Head(plan), there |-> Head(plan) = at] \in Answer
            BY <3>1 DEF Answer
        <3> DEFINE e == [for |-> Head(plan), there |-> Head(plan) = at]
        <3>3. e.for = Head(plan)
            OBVIOUS
        <3> HIDE DEF e
        <3>4. /\ txAir' \in Seq(Answer) /\ Len(txAir') = Len(txAir) + 1
              /\ txAir'[Len(txAir) + 1] = e
            BY <2>3, <3>2 DEF e
        <3> QED
            BY <2>1, <2>3, <3>3, <3>4, <1>0
    <2> QED
        BY <1>12, <2>2, <2>3 DEF Ask
<1>13. ASSUME pc = "answer", UNCHANGED txAir,
              \/ UNCHANGED txQueue
              \/ txQueue # <<>> /\ txQueue' = Tail(txQueue)
       PROVE  /\ txQueue' \in Seq(Answer) /\ Len(txQueue') <= Len(txQueue)
              /\ Len(txAir') + Len(txQueue') <= MaxAir + 1
    <2>1. CASE txQueue # <<>> /\ txQueue' = Tail(txQueue)
        <3>1. txQueue' \in Seq(Answer) /\ Len(txQueue') = Len(txQueue) - 1
            BY <2>1
        <3> QED
            BY <3>1, <1>13, <1>0
    <2> QED
        BY <1>13, <2>1
<1>14. CASE Connected
    <2>1. pc' = "idle" /\ flushed' = 0 /\ late' = FALSE
        BY <1>14 DEF Connected, CallReturns
    <2> QED
        BY <1>13, <1>14, <2>1, <1>0 DEF Connected
<1>15. CASE NotConnected
    <2>1. /\ txQueue' \in Seq(Answer) /\ Len(txQueue') <= Len(txQueue)
          /\ Len(txAir') + Len(txQueue') <= MaxAir + 1
        BY <1>13, <1>15 DEF NotConnected
    <2>2. CASE Len(plan) > 1
        <3>1. pc' = "txflush" /\ late' = late /\ flushed' = 0 /\ txAir' = txAir
            BY <1>15, <2>2, Zenon DEF NotConnected
        <3> QED
            BY <2>1, <3>1, <1>0
    <2>3. CASE ~(Len(plan) > 1)
        <3>1. pc' = "idle" /\ late' = FALSE /\ flushed' = 0 /\ txAir' = txAir
            BY <1>15, <2>3, Zenon DEF NotConnected, CallReturns
        <3> QED
            BY <2>1, <3>1, <1>0
    <2> QED
        BY <2>2, <2>3
<1>16. CASE RxFlush \/ RxFlushed \/ AskReceiver \/ Gather
    <2>1. UNCHANGED <<txAir, txQueue>> /\ pc' \in Exchanging
        BY <1>16 DEF RxFlush, RxFlushed, AskReceiver, Gather, Exchanging, callVars, localVars, airVars
    <2>2. flushed' \in Nat
        BY <1>16 DEF RxFlush, RxFlushed, AskReceiver, Gather, callVars, localVars
    <2>3. late' \in BOOLEAN
        BY <1>16, Zenon DEF RxFlush, RxFlushed, AskReceiver, Gather
    <2> QED
        BY <1>1, <2>1, <2>2, <2>3 DEF Connecting, Exchanging
<1>17. CASE WriteFrame
    <2>1. CASE CallReturns("ok")
        BY <1>2, <1>17, <2>1 DEF WriteFrame, airVars
    <2>2. CASE UNCHANGED <<pc, flushed, late>>
        BY <1>17, <2>2 DEF WriteFrame, airVars
    <2> QED
        BY <1>17, <2>1, <2>2 DEF WriteFrame
<1> QED
    BY <1>3, <1>4, <1>5, <1>6, <1>7, <1>8, <1>9, <1>10, <1>11, <1>12, <1>14, <1>15, <1>16, <1>17
       DEF Next, Outside, Call, Transfer

\* The step that settles on a channel takes an answer for it.
LEMMA ConnectedByItsAnswer ==
    ASSUME ChannelInv, AnswerInv, [Next]_vars, ~open, open', ~late
    PROVE  Head(txQueue).for = channel'
<1>1. CASE Connected
    BY <1>1 DEF Connected, AnswerInv
<1>2. ~open'
      \/ Connected
    BY DEF Next, vars, Outside, Call, Transfer, AnswerArrives, PartArrives, Moves, CallReopen, CallPoll, CallSend,
           CallClosed, Fails, Found, TxFlush, TxFlushed, Ask, NotConnected, RxFlush, RxFlushed, AskReceiver, Gather,
           ReplyTaken, ReplyRefused, WriteFrame
<1> QED
    BY <1>1, <1>2

-----------------------------------------------------------------------------
(* The parts of the receiver's replies.                                    *)

\* The k-th part of the fresh reply to a poll that asked for n pages.
PartOf(part, k, devices, n) ==
    /\ part.part = k /\ part.of = PagesFor(Carried(devices, n))
    /\ part.reported = devices /\ part.fresh

\* One after the other, the parts of one such reply from its first.
OneReply(gathered, queue, air, n) ==
    \E devices \in 0 .. MaxPages * RecordsPerPage :
        /\ \A i \in 1 .. Len(gathered) : PartOf(gathered[i], i, devices, n)
        /\ \A i \in 1 .. Len(queue) : PartOf(queue[i], Len(gathered) + i, devices, n)
        /\ \A i \in 1 .. Len(air) : PartOf(air[i], Len(gathered) + Len(queue) + i, devices, n)

\* As for the transmitter; here what was gathered, what waits and what is on
\* its way are, one after the other, the parts of one reply in order.
ReplyInv ==
    /\ rxAir \in Seq(Part) /\ rxQueue \in Seq(Part) /\ got \in Seq(Part)
    /\ flushed \in Nat /\ late \in BOOLEAN /\ pages \in 1 .. MaxPages
    /\ Len(rxAir) <= MaxAir - 1 + MaxPages
    /\ Len(rxAir) + Len(rxQueue) <= MaxAir - 1 + 2 * MaxPages
    /\ pc = "rxflush" => Len(rxAir) + Len(rxQueue) + flushed <= MaxAir - 1 + 2 * MaxPages
    /\ pc \in {"rxflush", "request"} => got = <<>>
    /\ pc = "request" => Len(rxAir) + Len(rxQueue) <= MaxAir - 1 + MaxPages
    /\ pc = "request" /\ ~late => rxAir = <<>> /\ rxQueue = <<>>
    /\ pc = "gather" /\ ~late => OneReply(got, rxQueue, rxAir, pages)

\* What division gives.
LEMMA Quotient ==
    ASSUME NEW a \in Nat, NEW b \in Nat \ {0}
    PROVE  a \div b \in Nat /\ b * (a \div b) <= a /\ a < b * (a \div b) + b
<1>1. a \in Int /\ b \in Int /\ b > 0
    OBVIOUS
<1>2. a \div b \in Nat
    OBVIOUS
<1>3. b * (a \div b) <= a
    BY <1>1, Z3
<1>4. a < b * (a \div b) + b
    BY <1>1, Z3
<1> QED
    BY <1>2, <1>3, <1>4

\* frame.rs:119-121: the pages for any number of devices a receiver reports
\* are never none and never more than can be asked for, and they hold them all.
LEMMA PagesHoldTheDevices ==
    ASSUME NEW devices \in 0 .. MaxPages * RecordsPerPage
    PROVE  PagesFor(devices) \in 1 .. MaxPages /\ devices <= PagesFor(devices) * RecordsPerPage
<1>1. RecordsPerPage \in Nat \ {0} /\ MaxPages \in Nat \ {0} /\ devices \in Nat
    BY PagesAssumption
<1>2. CASE devices = 0
    <2>1. PagesFor(devices) = 1
        BY <1>2 DEF PagesFor
    <2> QED
        BY <1>1, <1>2, <2>1
<1>3. CASE devices # 0
    <2> DEFINE q == (devices + RecordsPerPage - 1) \div RecordsPerPage
    <2>1. devices + RecordsPerPage - 1 \in Nat
        BY <1>1
    <2>2. /\ q \in Nat
          /\ RecordsPerPage * q <= devices + RecordsPerPage - 1
          /\ devices + RecordsPerPage - 1 < RecordsPerPage * q + RecordsPerPage
        BY <1>1, <2>1, Quotient
    <2>3. PagesFor(devices) = q
        BY <1>3 DEF PagesFor
    <2> HIDE DEF q
    <2>4. RecordsPerPage * q \in Nat /\ RecordsPerPage * q = q * RecordsPerPage
          /\ RecordsPerPage * MaxPages \in Nat /\ MaxPages * RecordsPerPage = RecordsPerPage * MaxPages
        BY <1>1, <2>2
    <2>5. devices <= q * RecordsPerPage
        BY <1>1, <2>2, <2>4
    <2>6. q # 0
        BY <1>1, <1>3, <2>5
    <2>7. RecordsPerPage * q < RecordsPerPage * MaxPages + RecordsPerPage
        BY <1>1, <2>2, <2>4
    <2>8. q <= MaxPages
        BY <1>1, <2>2, <2>7
    <2> QED
        BY <1>1, <2>2, <2>3, <2>5, <2>6, <2>8
<1> QED
    BY <1>2, <1>3

\* The records a reply carries are among those reported, and they all fit
\* when the pages asked for hold them.
LEMMA CarriedAreReported ==
    ASSUME NEW devices \in 0 .. MaxPages * RecordsPerPage, NEW n \in 1 .. MaxPages
    PROVE  /\ Carried(devices, n) \in 0 .. MaxPages * RecordsPerPage
           /\ Carried(devices, n) <= devices
           /\ devices <= n * RecordsPerPage => Carried(devices, n) = devices
<1>1. n * RecordsPerPage \in Nat /\ MaxPages * RecordsPerPage \in Nat
    BY PagesAssumption
<1> QED
    BY <1>1 DEF Carried, Least

\* Ageing parts changes neither how many there are nor what else they say.
LEMMA StaleParts ==
    ASSUME NEW parts \in Seq(Part)
    PROVE  Stale(parts) \in Seq(Part) /\ Len(Stale(parts)) = Len(parts)
<1>1. ASSUME NEW i \in DOMAIN parts
      PROVE  [parts[i] EXCEPT !.fresh = FALSE] \in Part
    <2>1. parts[i] \in Part
        BY <1>1
    <2> QED
        BY <2>1 DEF Part
<1>2. DOMAIN parts = 1 .. Len(parts) /\ Len(parts) \in Nat
    OBVIOUS
<1> QED
    BY <1>1, <1>2 DEF Stale

\* Parts put after parts.
LEMMA PartsJoined ==
    ASSUME NEW parts \in Seq(Part), NEW more \in Seq(Part)
    PROVE  parts \o more \in Seq(Part) /\ Len(parts \o more) = Len(parts) + Len(more)
OBVIOUS

\* The first parts of a reply.
LEMMA PartsOfAReply ==
    ASSUME pages \in 1 .. MaxPages, NEW devices \in Reports, NEW n \in 1 .. Len(ReplyTo(devices))
    PROVE  /\ SubSeq(ReplyTo(devices), 1, n) \in Seq(Part)
           /\ Len(SubSeq(ReplyTo(devices), 1, n)) = n /\ n <= MaxPages
           /\ devices \in 0 .. MaxPages * RecordsPerPage
           /\ \A i \in 1 .. n : PartOf(SubSeq(ReplyTo(devices), 1, n)[i], i, devices, pages)
<1> DEFINE m == PagesFor(Carried(devices, pages))
<1>1. devices \in 0 .. MaxPages * RecordsPerPage
    BY PagesAssumption
<1>2. m \in 1 .. MaxPages /\ m \in Nat /\ MaxPages \in Nat
    <2>1. Carried(devices, pages) \in 0 .. MaxPages * RecordsPerPage
        BY <1>1, CarriedAreReported
    <2>2. m \in 1 .. MaxPages
        BY <2>1, PagesHoldTheDevices
    <2> HIDE DEF m
    <2> QED
        BY <2>2, PagesAssumption
<1>3. ReplyTo(devices) = [i \in 1 .. m |-> [part |-> i, of |-> m, reported |-> devices, fresh |-> TRUE]]
    BY DEF ReplyTo
<1> HIDE DEF m
<1>4. ASSUME NEW i \in 1 .. m
      PROVE  [part |-> i, of |-> m, reported |-> devices, fresh |-> TRUE] \in Part
    BY <1>2 DEF Part
<1>5. ReplyTo(devices) \in Seq(Part) /\ Len(ReplyTo(devices)) = m
    BY <1>2, <1>3, <1>4
<1>6. n \in 1 .. m
    BY <1>5
<1>7. /\ SubSeq(ReplyTo(devices), 1, n) \in Seq(Part) /\ Len(SubSeq(ReplyTo(devices), 1, n)) = n
      /\ \A i \in 1 .. n : SubSeq(ReplyTo(devices), 1, n)[i] = ReplyTo(devices)[i]
    <2> DEFINE r == ReplyTo(devices)
    <2>1. r \in Seq(Part) /\ Len(r) = m /\ n \in 1 .. Len(r)
        BY <1>5, <1>6
    <2> HIDE DEF r
    <2>2. SubSeq(r, 1, n) \in Seq(Part)
        BY <2>1
    <2>3. Len(SubSeq(r, 1, n)) = n
        BY <2>1
    <2>4. \A i \in 1 .. n : SubSeq(r, 1, n)[i] = r[i]
        BY <2>1
    <2> QED
        BY <2>2, <2>3, <2>4 DEF r
<1>8. ASSUME NEW i \in 1 .. n
      PROVE  PartOf(SubSeq(ReplyTo(devices), 1, n)[i], i, devices, pages)
    <2>1. i \in 1 .. m
        BY <1>2, <1>6
    <2>2. SubSeq(ReplyTo(devices), 1, n)[i] = [part |-> i, of |-> m, reported |-> devices, fresh |-> TRUE]
        BY <1>3, <1>7, <2>1
    <2> QED
        BY <2>2 DEF PartOf, m
<1> QED
    BY <1>1, <1>2, <1>6, <1>7, <1>8

\* Every step keeps the parts to their bounds, their order and their poll.
LEMMA PartsAreKept ==
    ASSUME ReplyInv, [Next]_vars
    PROVE  ReplyInv'
<1> USE DEF ReplyInv
<1>0. MaxAir \in Nat /\ MaxPages \in Nat \ {0} /\ RxReads \in Nat /\ RxReads >= MaxAir - 1 + 2 * MaxPages
    BY ReadsAssumption, PagesAssumption
<1>1. ASSUME UNCHANGED <<rxAir, rxQueue>>, pc' \notin {"rxflush", "request", "gather"},
             got' \in Seq(Part), flushed' \in Nat, late' \in BOOLEAN, pages' \in 1 .. MaxPages
      PROVE  ReplyInv'
    BY <1>1
<1>2. ASSUME NEW result, CallReturns(result), UNCHANGED <<rxAir, rxQueue>>, pages' \in 1 .. MaxPages
      PROVE  ReplyInv'
    <2>1. pc' = "idle" /\ got' \in Seq(Part)
        BY <1>2 DEF CallReturns
    <2>2. flushed' \in Nat /\ late' \in BOOLEAN
        BY <1>2, Zenon DEF CallReturns
    <2> QED
        BY <1>1, <1>2, <2>1, <2>2
<1>3. CASE UNCHANGED vars \/ AnswerArrives
    BY <1>3 DEF vars, AnswerArrives, callVars, localVars, airVars
<1>4. CASE \E c \in Channel \union {None} : Moves(c)
    BY <1>4 DEF Moves, callVars, localVars, airVars
<1>5. CASE PartArrives
    <2>1. /\ UNCHANGED <<pc, flushed, late, got, pages>>
          /\ rxAir # <<>> /\ rxAir' = Tail(rxAir) /\ rxQueue' = Append(rxQueue, Head(rxAir))
        BY <1>5 DEF PartArrives, callVars, localVars
    <2>2. /\ rxAir' \in Seq(Part) /\ rxQueue' \in Seq(Part)
          /\ Len(rxAir') = Len(rxAir) - 1 /\ Len(rxQueue') = Len(rxQueue) + 1
          /\ \A i \in 1 .. Len(rxAir') : rxAir'[i] = rxAir[i + 1]
          /\ \A i \in 1 .. Len(rxQueue) : rxQueue'[i] = rxQueue[i]
          /\ rxQueue'[Len(rxQueue) + 1] = rxAir[1]
        BY <2>1
    <2>3. Len(rxAir) \in Nat /\ Len(rxQueue) \in Nat /\ Len(got) \in Nat /\ Len(rxAir) >= 1
        BY <2>1
    <2>4. ASSUME pc = "gather", ~late, NEW devices \in 0 .. MaxPages * RecordsPerPage,
                 \A i \in 1 .. Len(rxQueue) : PartOf(rxQueue[i], Len(got) + i, devices, pages),
                 \A i \in 1 .. Len(rxAir) : PartOf(rxAir[i], Len(got) + Len(rxQueue) + i, devices, pages)
          PROVE  /\ \A i \in 1 .. Len(rxQueue') : PartOf(rxQueue'[i], Len(got) + i, devices, pages)
                 /\ \A i \in 1 .. Len(rxAir') : PartOf(rxAir'[i], Len(got) + Len(rxQueue') + i, devices, pages)
        <3>1. ASSUME NEW i \in 1 .. Len(rxAir')
              PROVE  PartOf(rxAir'[i], Len(got) + Len(rxQueue') + i, devices, pages)
            <4>1. /\ i + 1 \in 1 .. Len(rxAir) /\ rxAir'[i] = rxAir[i + 1]
                  /\ Len(got) + Len(rxQueue) + (i + 1) = Len(got) + Len(rxQueue') + i
                BY <2>2, <2>3
            <4>2. PartOf(rxAir[i + 1], Len(got) + Len(rxQueue) + (i + 1), devices, pages)
                BY <2>4, <4>1
            <4> QED
                BY <4>1, <4>2
        <3>2. ASSUME NEW i \in 1 .. Len(rxQueue')
              PROVE  PartOf(rxQueue'[i], Len(got) + i, devices, pages)
            <4>1. CASE i \in 1 .. Len(rxQueue)
                BY <2>2, <2>4, <4>1
            <4>2. CASE i = Len(rxQueue) + 1
                <5>1. /\ 1 \in 1 .. Len(rxAir) /\ rxQueue'[i] = rxAir[1]
                      /\ Len(got) + Len(rxQueue) + 1 = Len(got) + i
                    BY <2>2, <2>3, <4>2
                <5>2. PartOf(rxAir[1], Len(got) + Len(rxQueue) + 1, devices, pages)
                    BY <2>4, <5>1
                <5> QED
                    BY <5>1, <5>2
            <4> QED
                BY <2>2, <2>3, <4>1, <4>2
        <3> QED
            BY <3>1, <3>2
    <2>5. ASSUME pc = "gather", ~late
          PROVE  OneReply(got, rxQueue', rxAir', pages)
        <3>1. PICK devices \in 0 .. MaxPages * RecordsPerPage :
                    /\ \A i \in 1 .. Len(got) : PartOf(got[i], i, devices, pages)
                    /\ \A i \in 1 .. Len(rxQueue) : PartOf(rxQueue[i], Len(got) + i, devices, pages)
                    /\ \A i \in 1 .. Len(rxAir) : PartOf(rxAir[i], Len(got) + Len(rxQueue) + i, devices, pages)
            BY <2>5 DEF OneReply
        <3> QED
            BY <2>4, <2>5, <3>1 DEF OneReply
    <2> QED
        BY <2>1, <2>2, <2>3, <2>5, <1>0
<1>6. CASE \E every \in BOOLEAN : CallReopen(every)
    BY <1>1, <1>6 DEF CallReopen, airVars
<1>7. CASE CallSend
    BY <1>1, <1>7 DEF CallSend, airVars
<1>8. CASE CallPoll
    <2>1. pc' = "rxflush" /\ got' = <<>> /\ flushed' = 0 /\ UNCHANGED <<rxAir, rxQueue, late, pages>>
        BY <1>8 DEF CallPoll, airVars
    <2> QED
        BY <2>1, <1>0
<1>9. CASE CallClosed \/ Fails \/ ReplyRefused
    BY <1>2, <1>9 DEF CallClosed, Fails, ReplyRefused, airVars
<1>10. CASE Found \/ TxFlush \/ TxFlushed \/ Ask
    <2>1. /\ UNCHANGED <<rxAir, rxQueue, got, pages>> /\ pc' \notin {"rxflush", "request", "gather"}
        BY <1>10 DEF Found, TxFlush, TxFlushed, Ask, callVars, localVars, airVars
    <2>2. flushed' \in Nat
        BY <1>10 DEF Found, TxFlush, TxFlushed, Ask, callVars, localVars
    <2>3. late' \in BOOLEAN
        BY <1>10, Zenon DEF Found, TxFlush, TxFlushed, Ask
    <2> QED
        BY <1>1, <2>1, <2>2, <2>3
<1>11. CASE Connected
    <2>1. pages' \in 1 .. MaxPages
        BY <1>11, <1>0 DEF Connected
    <2> QED
        BY <1>2, <1>11, <2>1 DEF Connected
<1>12. CASE NotConnected
    <2>1. CASE Len(plan) > 1
        <3>1. pc' = "txflush" /\ UNCHANGED <<late, got, pages, rxAir, rxQueue>> /\ flushed' = 0
            BY <1>12, <2>1, Zenon DEF NotConnected
        <3> QED
            BY <1>1, <3>1
    <2>2. CASE ~(Len(plan) > 1)
        BY <1>2, <1>12, <2>2 DEF NotConnected
    <2> QED
        BY <2>1, <2>2
<1>13. CASE RxFlush
    <2>1. /\ pc = "rxflush" /\ UNCHANGED <<pc, late, got, pages, rxAir>> /\ flushed' = flushed + 1
          /\ rxQueue # <<>> /\ rxQueue' = Tail(rxQueue)
        BY <1>13 DEF RxFlush
    <2>2. rxQueue' \in Seq(Part) /\ Len(rxQueue') = Len(rxQueue) - 1
        BY <2>1
    <2> QED
        BY <2>1, <2>2, <1>0
<1>14. CASE RxFlushed
    <2>1. /\ pc = "rxflush" /\ pc' = "request" /\ UNCHANGED <<flushed, got, pages, rxAir, rxQueue>>
          /\ (rxQueue # <<>> => flushed = RxReads)
        BY <1>14 DEF RxFlushed, callVars, localVars, airVars
    <2>2. rxQueue = <<>>
        BY <2>1, <1>0
    <2>3. late' \in BOOLEAN /\ (~late' => rxAir = <<>>)
        BY <1>14, Zenon DEF RxFlushed
    <2> QED
        BY <2>1, <2>2, <2>3, <1>0
<1>15. CASE AskReceiver
    <2>1. pc = "request" /\ pc' = "gather" /\ UNCHANGED <<flushed, late, got, pages>> /\ rxQueue' = Stale(rxQueue)
        BY <1>15 DEF AskReceiver, callVars, localVars
    <2>2. rxQueue' \in Seq(Part) /\ Len(rxQueue') = Len(rxQueue) /\ got = <<>> /\ Len(got) = 0
        BY <2>1, StaleParts
    <2>3. Stale(rxAir) \in Seq(Part) /\ Len(Stale(rxAir)) = Len(rxAir)
        BY StaleParts
    <2>4. CASE rxAir' = Stale(rxAir)
        <3>1. ASSUME ~late
              PROVE  Len(rxAir') = 0 /\ Len(rxQueue') = 0
            BY <2>1, <2>2, <2>3, <2>4, <3>1
        <3>2. 0 \in 0 .. MaxPages * RecordsPerPage
            BY PagesAssumption
        <3>3. ASSUME ~late
              PROVE  OneReply(got, rxQueue', rxAir', pages)
            BY <2>2, <3>1, <3>2, <3>3 DEF OneReply
        <3> QED
            BY <2>1, <2>2, <2>3, <2>4, <3>3, <1>0
    <2>5. ASSUME Len(rxAir) < MaxAir, NEW devices \in Reports, NEW n \in 1 .. Len(ReplyTo(devices)),
                 rxAir' = Stale(rxAir) \o SubSeq(ReplyTo(devices), 1, n)
          PROVE  ReplyInv'
        <3> DEFINE r == SubSeq(ReplyTo(devices), 1, n)
        <3>1. /\ r \in Seq(Part) /\ Len(r) = n /\ n \in Nat /\ n <= MaxPages
              /\ devices \in 0 .. MaxPages * RecordsPerPage
              /\ \A i \in 1 .. n : PartOf(r[i], i, devices, pages)
            BY PartsOfAReply
        <3> HIDE DEF r
        <3>2. rxAir' \in Seq(Part) /\ Len(rxAir') = Len(rxAir) + n
            <4> DEFINE s == Stale(rxAir)
            <4>1. s \in Seq(Part) /\ Len(s) = Len(rxAir)
                BY <2>3
            <4>2. rxAir' = s \o r
                BY <2>5 DEF r
            <4> HIDE DEF s
            <4>3. r \in Seq(Part) /\ Len(r) = n
                BY <3>1
            <4>4. s \o r \in Seq(Part) /\ Len(s \o r) = Len(s) + Len(r)
                BY <4>1, <4>3, PartsJoined
            <4> QED
                BY <4>1, <4>2, <4>3, <4>4
        <3>3. ASSUME ~late
              PROVE  Len(rxQueue') = 0 /\ rxAir' = r
            <4>1. rxAir = <<>> /\ rxQueue = <<>>
                BY <2>1, <3>3
            <4>2. Stale(rxAir) = <<>>
                BY <2>3, <4>1
            <4> QED
                BY <2>2, <2>5, <3>1, <4>1, <4>2 DEF r
        <3>4. ASSUME ~late
              PROVE  OneReply(got, rxQueue', rxAir', pages)
            <4>1. \A i \in 1 .. Len(rxAir') : Len(got) + Len(rxQueue') + i = i /\ PartOf(rxAir'[i], i, devices, pages)
                BY <2>2, <3>1, <3>3, <3>4
            <4>2. \A i \in 1 .. Len(rxAir') : PartOf(rxAir'[i], Len(got) + Len(rxQueue') + i, devices, pages)
                BY <4>1
            <4> QED
                BY <2>2, <3>1, <3>3, <3>4, <4>2 DEF OneReply
        <3> QED
            BY <2>1, <2>2, <2>5, <3>1, <3>2, <3>4, <1>0
    <2> QED
        BY <1>15, <2>4, <2>5 DEF AskReceiver
<1>16. CASE Gather
    <2>1. /\ pc = "gather" /\ UNCHANGED <<pc, flushed, late, rxAir, pages>>
          /\ rxQueue # <<>> /\ rxQueue' = Tail(rxQueue) /\ got' = Append(got, Head(rxQueue))
        BY <1>16 DEF Gather
    <2>2. /\ rxQueue' \in Seq(Part) /\ got' \in Seq(Part)
          /\ Len(rxQueue') = Len(rxQueue) - 1 /\ Len(got') = Len(got) + 1
          /\ \A i \in 1 .. Len(rxQueue') : rxQueue'[i] = rxQueue[i + 1]
          /\ \A i \in 1 .. Len(got) : got'[i] = got[i]
          /\ got'[Len(got) + 1] = rxQueue[1]
        BY <2>1
    <2>3. Len(rxAir) \in Nat /\ Len(rxQueue) \in Nat /\ Len(got) \in Nat /\ Len(rxQueue) >= 1
        BY <2>1
    <2>4. ASSUME ~late
          PROVE  OneReply(got', rxQueue', rxAir, pages)
        <3>1. PICK d \in 0 .. MaxPages * RecordsPerPage :
                    /\ \A i \in 1 .. Len(got) : PartOf(got[i], i, d, pages)
                    /\ \A i \in 1 .. Len(rxQueue) : PartOf(rxQueue[i], Len(got) + i, d, pages)
                    /\ \A i \in 1 .. Len(rxAir) : PartOf(rxAir[i], Len(got) + Len(rxQueue) + i, d, pages)
            BY <2>1, <2>4 DEF OneReply
        <3>2. ASSUME NEW i \in 1 .. Len(got')
              PROVE  PartOf(got'[i], i, d, pages)
            <4>1. CASE i \in 1 .. Len(got)
                BY <2>2, <3>1, <4>1
            <4>2. CASE i = Len(got) + 1
                <5>1. 1 \in 1 .. Len(rxQueue) /\ got'[i] = rxQueue[1]
                    BY <2>2, <2>3, <4>2
                <5>2. PartOf(rxQueue[1], Len(got) + 1, d, pages)
                    BY <3>1, <5>1
                <5> QED
                    BY <4>2, <5>1, <5>2
            <4> QED
                BY <2>2, <2>3, <4>1, <4>2
        <3>3. ASSUME NEW i \in 1 .. Len(rxQueue')
              PROVE  PartOf(rxQueue'[i], Len(got') + i, d, pages)
            <4>1. /\ i + 1 \in 1 .. Len(rxQueue) /\ rxQueue'[i] = rxQueue[i + 1]
                  /\ Len(got) + (i + 1) = Len(got') + i
                BY <2>2, <2>3
            <4>2. PartOf(rxQueue[i + 1], Len(got) + (i + 1), d, pages)
                BY <3>1, <4>1
            <4> QED
                BY <4>1, <4>2
        <3>4. Len(got') + Len(rxQueue') = Len(got) + Len(rxQueue)
            BY <2>2, <2>3
        <3> QED
            BY <3>1, <3>2, <3>3, <3>4 DEF OneReply
    <2> QED
        BY <2>1, <2>2, <2>3, <2>4, <1>0
<1>17. CASE ReplyTaken
    <2>1. got # <<>> /\ pages' = PagesFor(got[1].reported)
        BY <1>17 DEF ReplyTaken, Readable
    <2>2. got[1] \in Part
        BY <2>1
    <2>3. got[1].reported \in 0 .. MaxPages * RecordsPerPage
        BY <2>2, PagesAssumption DEF Part
    <2>4. pages' \in 1 .. MaxPages
        BY <2>1, <2>3, PagesHoldTheDevices
    <2> QED
        BY <1>2, <1>17, <2>4 DEF ReplyTaken, airVars
<1>18. CASE WriteFrame
    <2>1. CASE CallReturns("ok")
        BY <1>2, <1>18, <2>1 DEF WriteFrame, airVars
    <2>2. CASE UNCHANGED <<pc, flushed, got, late>>
        BY <1>1, <1>18, <2>2 DEF WriteFrame, airVars
    <2> QED
        BY <1>18, <2>1, <2>2 DEF WriteFrame
<1> QED
    BY <1>3, <1>4, <1>5, <1>6, <1>7, <1>8, <1>9, <1>10, <1>11, <1>12, <1>13, <1>14, <1>15, <1>16, <1>17, <1>18
       DEF Next, Outside, Call, Transfer

\* The step that takes in a reply takes in this poll's.
LEMMA TakenInOrder ==
    ASSUME ReplyInv, [Next]_vars, pc = "gather", pc' = "idle", outcome' = "ok", ~late
    PROVE  \A i \in DOMAIN got : got[i].fresh /\ got[i].part = i /\ got[i].of = got[1].of
<1>1. got \in Seq(Part)
    BY DEF ReplyInv
<1>2. PICK d \in 0 .. MaxPages * RecordsPerPage : \A i \in 1 .. Len(got) : PartOf(got[i], i, d, pages)
    BY DEF ReplyInv, OneReply
<1>3. DOMAIN got = 1 .. Len(got) /\ Len(got) \in Nat
    BY <1>1
<1>4. ASSUME NEW i \in 1 .. Len(got)
      PROVE  got[i].fresh /\ got[i].part = i /\ got[i].of = got[1].of
    <2>1. 1 \in 1 .. Len(got)
        BY <1>3
    <2> QED
        BY <1>2, <2>1 DEF PartOf
<1> QED
    BY <1>3, <1>4

-----------------------------------------------------------------------------
(* The devices heard.                                                      *)

\* The pages asked for are those of the last reply on this connection.
HeardInv ==
    heard # None =>
        /\ heard.reported \in Reports /\ heard.before \in Reports \union {None}
        /\ pages = PagesFor(heard.reported)
        /\ heard.carried <= heard.reported
        /\ heard.before = heard.reported => heard.carried = heard.reported

\* What the state is besides: the call's own state within its bounds.
CallInv ==
    /\ at \in Channel \union {None} /\ plan \in Seq(Channel)
    /\ flushed \in 0 .. TxReads \union 0 .. RxReads /\ frame \in 0 .. Frames
    /\ Len(got) <= pages
    /\ outcome \in {"none", "ok", "failed"}

\* Every step keeps what was heard with the pages asked for.
LEMMA HeardIsKept ==
    ASSUME ReplyInv, HeardInv, [Next]_vars
    PROVE  HeardInv'
<1>1. CASE UNCHANGED <<heard, pages>>
    BY <1>1 DEF HeardInv
<1>2. CASE Connected
    BY <1>2 DEF Connected, HeardInv
<1>3. CASE ReplyTaken
    <2> DEFINE r == got[1].reported
    <2> DEFINE b == IF heard = None THEN None ELSE heard.reported
    <2>1. got \in Seq(Part) /\ got # <<>> /\ pages \in 1 .. MaxPages
        BY <1>3 DEF ReplyTaken, Readable, ReplyInv
    <2>2. got[1] \in Part
        BY <2>1
    <2>3. r \in Reports /\ r \in 0 .. MaxPages * RecordsPerPage
        BY <2>2, PagesAssumption DEF Part
    <2>4. pages' = PagesFor(r) /\ heard' = [reported |-> r, carried |-> Carried(r, pages), before |-> b]
        BY <1>3 DEF ReplyTaken
    <2>5. b \in Reports \union {None}
        BY DEF HeardInv
    <2>6. b = r => pages = PagesFor(r)
        BY <2>3, ChannelAssumption DEF HeardInv
    <2> HIDE DEF r, b
    <2>7. Carried(r, pages) <= r /\ (b = r => Carried(r, pages) = r)
        BY <2>1, <2>3, <2>6, CarriedAreReported, PagesHoldTheDevices
    <2>8. heard'.reported = r /\ heard'.carried = Carried(r, pages) /\ heard'.before = b
        BY <2>4
    <2> QED
        BY <2>3, <2>4, <2>5, <2>7, <2>8 DEF HeardInv
<1>4. UNCHANGED <<heard, pages>> \/ Connected \/ ReplyTaken
    BY DEF Next, vars, Outside, Call, Transfer, AnswerArrives, PartArrives, Moves, CallReopen, CallPoll, CallSend,
           CallClosed, Fails, Found, TxFlush, TxFlushed, Ask, NotConnected, RxFlush, RxFlushed, AskReceiver, Gather,
           ReplyRefused, WriteFrame
<1> QED
    BY <1>1, <1>2, <1>3, <1>4

\* Every step keeps a call's own state within its bounds.
LEMMA CallIsKept ==
    ASSUME ChannelInv, AnswerInv, ReplyInv, CallInv, [Next]_vars
    PROVE  CallInv'
<1> USE DEF CallInv
<1>0. /\ TxReads \in Nat /\ RxReads \in Nat /\ Frames \in Nat \ {0}
      /\ pages \in 1 .. MaxPages /\ MaxPages \in Nat /\ got \in Seq(Part) /\ Len(got) \in Nat
    BY ReadsAssumption, PagesAssumption DEF ReplyInv
<1>1. ASSUME NEW result \in {"ok", "failed"}, CallReturns(result), at' = at, pages' \in 1 .. MaxPages
      PROVE  CallInv'
    <2>1. plan' = <<>> /\ flushed' = 0 /\ got' = <<>> /\ frame' = 0 /\ outcome' = result
        BY <1>1 DEF CallReturns
    <2>2. plan' \in Seq(Channel) /\ Len(got') = 0
        BY <2>1
    <2> QED
        BY <1>0, <1>1, <2>1, <2>2
<1>2. CASE UNCHANGED vars \/ Outside
    BY <1>2 DEF vars, Outside, AnswerArrives, PartArrives, Moves, callVars, localVars
<1>3. ASSUME NEW every \in BOOLEAN, CallReopen(every)
      PROVE  CallInv'
    <2>1. plan' \in Seq(Channel)
        BY <1>3, PlansAreChannels DEF CallReopen, ChannelInv
    <2>2. flushed' = 0 /\ UNCHANGED <<frame, got, pages, at, outcome>>
        BY <1>3 DEF CallReopen
    <2> QED
        BY <1>0, <2>1, <2>2
<1>4. CASE CallPoll
    <2>1. flushed' = 0 /\ got' = <<>> /\ UNCHANGED <<plan, frame, pages, at, outcome>>
        BY <1>4 DEF CallPoll
    <2>2. Len(got') = 0
        BY <2>1
    <2> QED
        BY <1>0, <2>1, <2>2
<1>5. CASE CallSend
    BY <1>0, <1>5 DEF CallSend
<1>6. CASE CallClosed \/ Fails \/ ReplyRefused
    BY <1>0, <1>1, <1>6 DEF CallClosed, Fails, ReplyRefused
<1>7. CASE Found \/ TxFlushed \/ Ask \/ RxFlushed \/ AskReceiver
    BY <1>7 DEF Found, TxFlushed, Ask, RxFlushed, AskReceiver, callVars, localVars
<1>8. CASE TxFlush
    <2>1. /\ flushed' = flushed + 1 /\ flushed < TxReads
          /\ UNCHANGED <<plan, frame, got, pages, at, outcome>>
        BY <1>8 DEF TxFlush
    <2> QED
        BY <1>0, <2>1
<1>9. CASE RxFlush
    <2>1. /\ flushed' = flushed + 1 /\ flushed < RxReads
          /\ UNCHANGED <<plan, frame, got, pages, at, outcome>>
        BY <1>9 DEF RxFlush
    <2> QED
        BY <1>0, <2>1
<1>10. CASE Connected
    <2>1. pages' = 1 /\ CallReturns("ok") /\ at' = at
        BY <1>10 DEF Connected
    <2> QED
        BY <1>0, <1>1, <2>1
<1>11. CASE NotConnected
    <2>1. CASE Len(plan) > 1
        <3>1. plan' = Tail(plan) /\ flushed' = 0 /\ UNCHANGED <<frame, got, pages, at, outcome>>
            BY <1>11, <2>1, Zenon DEF NotConnected
        <3>2. Tail(plan) \in Seq(Channel)
            BY <2>1
        <3> QED
            BY <1>0, <3>1, <3>2
    <2>2. CASE ~(Len(plan) > 1)
        <3>1. CallReturns("failed") /\ UNCHANGED <<pages, at>>
            BY <1>11, <2>2 DEF NotConnected
        <3> QED
            BY <1>0, <1>1, <3>1
    <2> QED
        BY <2>1, <2>2
<1>12. CASE Gather
    <2>1. /\ rxQueue # <<>> /\ Len(got) < pages /\ got' = Append(got, Head(rxQueue))
          /\ UNCHANGED <<plan, flushed, frame, pages, at, outcome>>
        BY <1>12 DEF Gather
    <2>2. Len(got') = Len(got) + 1
        BY <1>0, <2>1
    <2> QED
        BY <1>0, <2>1, <2>2
<1>13. CASE ReplyTaken
    <2>1. got # <<>> /\ pages' = PagesFor(got[1].reported) /\ CallReturns("ok") /\ at' = at
        BY <1>13 DEF ReplyTaken, Readable
    <2>2. got[1] \in Part
        BY <1>0, <2>1
    <2>3. pages' \in 1 .. MaxPages
        BY <2>1, <2>2, PagesHoldTheDevices, PagesAssumption DEF Part
    <2> QED
        BY <1>1, <2>1, <2>3
<1>14. CASE WriteFrame
    <2>1. CASE CallReturns("ok")
        <3>1. UNCHANGED <<pages, at>>
            BY <1>14 DEF WriteFrame
        <3> QED
            BY <1>0, <1>1, <2>1, <3>1
    <2>2. CASE frame' = frame + 1 /\ UNCHANGED <<pc, outcome, scan, plan, flushed, got, late>>
        <3>1. frame < Frames /\ UNCHANGED <<pages, at>>
            BY <1>14 DEF WriteFrame
        <3> QED
            BY <1>0, <2>2, <3>1
    <2> QED
        BY <1>14, <2>1, <2>2 DEF WriteFrame
<1> QED
    BY <1>2, <1>3, <1>4, <1>5, <1>6, <1>7, <1>8, <1>9, <1>10, <1>11, <1>12, <1>13, <1>14 DEF Next, Call, Transfer

\* The inductive invariant.
DongleInv == ChannelInv /\ AnswerInv /\ ReplyInv /\ HeardInv /\ CallInv

\* The dongle begins with it.
LEMMA DongleInvInitially == Init => DongleInv
<1> SUFFICES ASSUME Init
             PROVE  DongleInv
    OBVIOUS
<1>1. /\ pc = "idle" /\ pages = 1 /\ plan = <<>> /\ flushed = 0 /\ got = <<>> /\ frame = 0
      /\ txAir = <<>> /\ txQueue = <<>> /\ rxAir = <<>> /\ rxQueue = <<>> /\ outcome = "none" /\ heard = None
      /\ at \in Channel
    BY DEF Init
<1>2. ChannelInv
    BY DEF Init, ChannelInv, Connecting, Exchanging
<1>3. /\ txAir \in Seq(Answer) /\ txQueue \in Seq(Answer) /\ Len(txAir) = 0 /\ Len(txQueue) = 0
      /\ rxAir \in Seq(Part) /\ rxQueue \in Seq(Part) /\ Len(rxAir) = 0 /\ Len(rxQueue) = 0
      /\ got \in Seq(Part) /\ Len(got) = 0 /\ plan \in Seq(Channel)
    BY <1>1
<1>4. late \in BOOLEAN
    BY Zenon DEF Init
<1>5. /\ MaxAir \in Nat /\ MaxPages \in Nat \ {0} /\ TxReads \in Nat /\ RxReads \in Nat /\ Frames \in Nat
    BY ReadsAssumption, PagesAssumption
<1>6. AnswerInv
    BY <1>1, <1>3, <1>4, <1>5 DEF AnswerInv
<1>7. ReplyInv
    BY <1>1, <1>3, <1>4, <1>5 DEF ReplyInv
<1>8. HeardInv
    BY <1>1 DEF HeardInv
<1>9. CallInv
    BY <1>1, <1>3, <1>5 DEF CallInv
<1> QED
    BY <1>2, <1>6, <1>7, <1>8, <1>9 DEF DongleInv

\* Every step of the dongle and its devices keeps it.
LEMMA DongleInvKept == DongleInv /\ [Next]_vars => DongleInv'
BY ChannelIsKept, AnswersAreKept, PartsAreKept, HeardIsKept, CallIsKept DEF DongleInv

\* It is more than the state being well formed.
LEMMA WellFormed == DongleInv => DongleTypeOK
BY DEF DongleInv, ChannelInv, AnswerInv, ReplyInv, CallInv, DongleTypeOK, Connecting, Exchanging

\* dongle.rs:253-259, frame.rs:119-121: a receiver that reports the same
\* number of devices twice in a row gets all of them into the second reply,
\* for any number of devices and records to a page.
THEOREM SteadyDevicesAreHeardCorrect == Spec => []SteadyDevicesAreHeard
<1>1. DongleInv => SteadyDevicesAreHeard
    BY WellFormed DEF DongleInv, HeardInv, SteadyDevicesAreHeard
<1> QED
    BY <1>1, DongleInvInitially, DongleInvKept, PTL DEF Spec

\* dongle.rs:88-96, 163-170: the channel a connect settles on is the one its
\* answer was for, whatever was left unread before, unless an answer was
\* still on its way when the flush before the request ended.
THEOREM AnsweredOnItsChannelCorrect == Spec => AnsweredOnItsChannel
<1>1. DongleInv /\ [Next]_vars => [~open /\ open' /\ ~late => Head(txQueue).for = channel']_vars
    BY ConnectedByItsAnswer DEF DongleInv
<1> QED
    BY <1>1, DongleInvInitially, DongleInvKept, PTL DEF Spec, AnsweredOnItsChannel

\* dongle.rs:101-122, 176-184: a poll that succeeds takes in the reply to its
\* own request from its first part on, in order and without a part of an
\* earlier one, unless one was still on its way when its flush ended.
THEOREM RepliesAreThisPollsCorrect == Spec => RepliesAreThisPolls
<1>1. DongleInv /\ [Next]_vars =>
        [pc = "gather" /\ pc' = "idle" /\ outcome' = "ok" /\ ~late =>
            \A i \in DOMAIN got : got[i].fresh /\ got[i].part = i /\ got[i].of = got[1].of]_vars
    BY TakenInOrder DEF DongleInv
<1> QED
    BY <1>1, DongleInvInitially, DongleInvKept, PTL DEF Spec, RepliesAreThisPolls

\* engine.rs:55-95, dongle.rs:245-272: the dongle keeps the contract of the
\* engine's trait: no success without handles, handles given up by a reopen
\* only, and the channel kept by a reopen that does not scan.
THEOREM KeepsLinkCorrect == Spec => KeepsLink
<1>1. Init => Relied!Init
    BY DEF Init, Relied!Init
<1>2. DongleInv /\ [Next]_vars => [Relied!Next]_(Relied!linkVars)
    BY StepsAreLink DEF DongleInv
<1> QED
    BY <1>1, <1>2, DongleInvInitially, DongleInvKept, PTL DEF Spec, KeepsLink, Relied!Spec
=============================================================================
