------------------------------- MODULE Dongle -------------------------------
(***************************************************************************)
(* The dongle pair: src/dongle.rs, with the parts of src/frame.rs and      *)
(* src/discovery.rs its exchanges use.  The worker makes one call at a     *)
(* time (reopen, poll, send_on) and a call is a run of transfers, any of   *)
(* which may fail.  What the transmitter and the receiver answer is on its *)
(* way for any time before it waits to be read, so a read that times out   *)
(* may be followed by its answer.                                          *)
(*                                                                         *)
(* An answer of the transmitter is what it was asked and whether it was    *)
(* there; a reply of the receiver is a row of parts, one for a page of     *)
(* records.                                                                *)
(***************************************************************************)
EXTENDS Integers, Sequences

CONSTANTS
    Channel, Default,    \* the channels, and DEFAULT_CHANNEL
    Others,              \* the channels after it, in the order they are tried
    Attempts,            \* RECONNECT_ATTEMPTS, and the tries on the default one
    TxReads, RxReads,    \* most frames a flush discards
    RecordsPerPage, MaxPages,
    Reports,             \* the numbers of devices a receiver may report
    Frames,              \* RF_CHUNKS
    MaxAir,              \* bound: answers or replies on their way at once
    None

ASSUME ChannelAssumption ==
    /\ Default \in Channel /\ Others \in Seq(Channel)
    /\ None \notin Channel \union Reports
    /\ Attempts \in Nat \ {0}
\* A flush discards more than can be left of an exchange: a request has one
\* answer (16 reads) or one reply of at most MaxPages parts (64 reads, 26 parts).
ASSUME ReadsAssumption ==
    /\ Frames \in Nat \ {0} /\ MaxAir \in Nat
    /\ TxReads \in Nat /\ TxReads > MaxAir
    /\ RxReads \in Nat /\ RxReads >= MaxAir - 1 + 2 * MaxPages
ASSUME PagesAssumption ==
    /\ RecordsPerPage \in Nat \ {0} /\ MaxPages \in Nat \ {0}
    /\ Reports \subseteq 0 .. MaxPages * RecordsPerPage

VARIABLES
    pc,       \* what the worker does next
    open,     \* Dongle.handles is there
    channel,  \* Dongle.channel
    pages,    \* Dongle.pages
    scan,     \* every_channel of the reopen under way
    plan,     \* the channels of the attempts still to make, the present one first
    flushed,  \* frames discarded by the flush under way
    got,      \* parts of the reply gathered so far
    frame,    \* frames of the payload written so far
    txAir, txQueue,  \* answers on their way, answers waiting to be read
    rxAir, rxQueue,  \* parts on their way, parts waiting to be read
    at,       \* the channel the transmitter is on, None while it is away
    late,     \* whether anything was still on its way when this call's flush ended
    outcome,  \* of the last call
    heard     \* of the last reply on this connection: devices reported, records
              \* carried, and devices reported by the reply before it

localVars == <<plan, flushed, got, frame>>
callVars == <<scan, localVars>>
airVars == <<txAir, txQueue, rxAir, rxQueue>>
vars == <<pc, open, channel, pages, callVars, airVars, at, late, outcome, heard>>

Answer == [for: Channel, there: BOOLEAN]
Part == [part: 1 .. MaxPages, of: 1 .. MaxPages, reported: Reports, fresh: BOOLEAN]

Least(a, b) == IF a < b THEN a ELSE b

PagesShortVariant(devices) == IF devices < RecordsPerPage THEN 1 ELSE devices \div RecordsPerPage

\* pages_for: as many as the devices fill, at least one.
PagesFor(devices) ==
    IF devices = 0 THEN 1 ELSE (devices + RecordsPerPage - 1) \div RecordsPerPage

\* The records a reply of so many pages carries.
Carried(devices, n) == Least(devices, n * RecordsPerPage)

Tries(c, n) == [i \in 1 .. n |-> c]

\* channel_scan with connect_attempts.
EveryChannel == Tries(Default, Attempts) \o Others

Init ==
    /\ pc = "idle"
    /\ open = TRUE
    /\ channel \in Channel /\ at = channel
    /\ pages = 1
    /\ scan = FALSE
    /\ plan = <<>> /\ flushed = 0 /\ got = <<>> /\ frame = 0
    /\ txAir = <<>> /\ txQueue = <<>> /\ rxAir = <<>> /\ rxQueue = <<>>
    /\ late = FALSE
    /\ outcome = "none"
    /\ heard = None

-----------------------------------------------------------------------------
(* Outside: the devices answer when they like.                             *)

AnswerArrives ==
    /\ txAir # <<>>
    /\ txQueue' = Append(txQueue, Head(txAir))
    /\ txAir' = Tail(txAir)
    /\ UNCHANGED <<pc, open, channel, pages, callVars, rxAir, rxQueue, at, late, outcome, heard>>

PartArrives ==
    /\ rxAir # <<>>
    /\ rxQueue' = Append(rxQueue, Head(rxAir))
    /\ rxAir' = Tail(rxAir)
    /\ UNCHANGED <<pc, open, channel, pages, callVars, txAir, txQueue, at, late, outcome, heard>>

\* The dongle is pulled out, put back, or paired anew on another channel.
Moves(c) ==
    /\ at' = c
    /\ UNCHANGED <<pc, open, channel, pages, callVars, airVars, late, outcome, heard>>

-----------------------------------------------------------------------------
(* The calls.                                                              *)

\* What a call has of its own goes with it.
CallReturns(result) ==
    /\ pc' = "idle"
    /\ outcome' = result
    /\ scan' = FALSE /\ plan' = <<>> /\ flushed' = 0 /\ got' = <<>> /\ frame' = 0 /\ late' = FALSE

ScanAlwaysVariant(every) ==
    /\ pc = "idle"
    /\ open' = FALSE
    /\ scan' = every
    /\ plan' = EveryChannel
    /\ flushed' = 0
    /\ pc' = "find"
    /\ UNCHANGED <<channel, pages, got, frame, airVars, at, late, outcome, heard>>

\* The handles go first.
CallReopen(every) ==
    /\ pc = "idle"
    /\ open' = FALSE
    /\ scan' = every
    /\ plan' = IF every THEN EveryChannel ELSE Tries(channel, Attempts)
    /\ flushed' = 0
    /\ pc' = "find"
    /\ UNCHANGED <<channel, pages, got, frame, airVars, at, late, outcome, heard>>

CallPoll ==
    /\ pc = "idle" /\ open
    /\ flushed' = 0
    /\ got' = <<>>
    /\ pc' = "rxflush"
    /\ UNCHANGED <<open, channel, pages, scan, plan, frame, airVars, at, late, outcome, heard>>

CallSend ==
    /\ pc = "idle" /\ open
    /\ frame' = 0
    /\ pc' = "frame"
    /\ UNCHANGED <<open, channel, pages, scan, plan, flushed, got, airVars, at, late, outcome, heard>>

\* poll and send_on without handles.
CallClosed ==
    /\ pc = "idle" /\ ~open
    /\ CallReturns("failed")
    /\ UNCHANGED <<open, channel, pages, airVars, at, heard>>

\* Any transfer of any call may fail, and so may finding or opening a device.
Fails ==
    /\ pc # "idle"
    /\ CallReturns("failed")
    /\ UNCHANGED <<open, channel, pages, airVars, at, heard>>

-----------------------------------------------------------------------------
(* open_with and connect_with.                                             *)

\* Both devices are found and opened.
Found ==
    /\ pc = "find"
    /\ pc' = "txflush"
    /\ UNCHANGED <<open, channel, pages, callVars, airVars, at, late, outcome, heard>>

TxFlush ==
    /\ pc = "txflush" /\ txQueue # <<>> /\ flushed < TxReads
    /\ txQueue' = Tail(txQueue)
    /\ flushed' = flushed + 1
    /\ UNCHANGED <<pc, open, channel, pages, scan, plan, got, frame, txAir, rxAir, rxQueue, at, late,
                   outcome, heard>>

\* Nothing is discarded.
NoTxFlushVariant ==
    /\ pc = "txflush"
    /\ late' = (txAir # <<>>)
    /\ pc' = "ask"
    /\ UNCHANGED <<open, channel, pages, callVars, airVars, at, outcome, heard>>

\* Nothing came for a while, or enough was discarded.
TxFlushed ==
    /\ pc = "txflush" /\ (txQueue # <<>> => flushed = TxReads)
    /\ late' = (txAir # <<>>)
    /\ pc' = "ask"
    /\ UNCHANGED <<open, channel, pages, callVars, airVars, at, outcome, heard>>

\* The request goes out; the transmitter answers it or keeps silent.
Ask ==
    /\ pc = "ask"
    /\ \/ UNCHANGED txAir
       \/ /\ at # None /\ Len(txAir) < MaxAir
          /\ txAir' = Append(txAir, [for |-> Head(plan), there |-> Head(plan) = at])
    /\ pc' = "answer"
    /\ UNCHANGED <<open, channel, pages, callVars, txQueue, rxAir, rxQueue, at, late, outcome, heard>>

\* parse_connect_reply takes an answer of a dongle that is on the channel.
Connected ==
    /\ pc = "answer" /\ txQueue # <<>> /\ Head(txQueue).there
    /\ txQueue' = Tail(txQueue)
    /\ open' = TRUE
    /\ channel' = Head(plan)
    /\ pages' = 1
    /\ heard' = None
    /\ CallReturns("ok")
    /\ UNCHANGED <<txAir, rxAir, rxQueue, at>>

\* The present attempt is made over and over.
SameAttemptVariant ==
    /\ pc = "answer"
    /\ \/ txQueue = <<>> /\ UNCHANGED txQueue
       \/ txQueue # <<>> /\ ~Head(txQueue).there /\ txQueue' = Tail(txQueue)
    /\ flushed' = 0
    /\ pc' = "txflush"
    /\ UNCHANGED <<open, channel, pages, scan, plan, got, frame, txAir, rxAir, rxQueue, at, late,
                   outcome, heard>>

\* Silence or another answer: the next attempt, or NoMaster after the last.
NotConnected ==
    /\ pc = "answer"
    /\ \/ txQueue = <<>> /\ UNCHANGED txQueue
       \/ txQueue # <<>> /\ ~Head(txQueue).there /\ txQueue' = Tail(txQueue)
    /\ IF Len(plan) > 1
       THEN /\ plan' = Tail(plan)
            /\ flushed' = 0
            /\ pc' = "txflush"
            /\ UNCHANGED <<scan, got, frame, late, outcome>>
       ELSE CallReturns("failed")
    /\ UNCHANGED <<open, channel, pages, txAir, rxAir, rxQueue, at, heard>>

-----------------------------------------------------------------------------
(* poll.                                                                   *)

RxFlush ==
    /\ pc = "rxflush" /\ rxQueue # <<>> /\ flushed < RxReads
    /\ rxQueue' = Tail(rxQueue)
    /\ flushed' = flushed + 1
    /\ UNCHANGED <<pc, open, channel, pages, scan, plan, got, frame, txAir, txQueue, rxAir, at, late,
                   outcome, heard>>

\* Nothing is discarded.
NoRxFlushVariant ==
    /\ pc = "rxflush"
    /\ late' = (rxAir # <<>>)
    /\ pc' = "request"
    /\ UNCHANGED <<open, channel, pages, callVars, airVars, at, outcome, heard>>

RxFlushed ==
    /\ pc = "rxflush" /\ (rxQueue # <<>> => flushed = RxReads)
    /\ late' = (rxAir # <<>>)
    /\ pc' = "request"
    /\ UNCHANGED <<open, channel, pages, callVars, airVars, at, outcome, heard>>

Stale(parts) == [i \in DOMAIN parts |-> [parts[i] EXCEPT !.fresh = FALSE]]

\* The reply of a receiver that hears so many devices.
ReplyTo(devices) ==
    LET n == PagesFor(Carried(devices, pages))
    IN  [i \in 1 .. n |-> [part |-> i, of |-> n, reported |-> devices, fresh |-> TRUE]]

\* The request goes out, and the reply to it sets off whole, in part or not
\* at all.
AskReceiver ==
    /\ pc = "request"
    /\ rxQueue' = Stale(rxQueue)
    /\ \/ rxAir' = Stale(rxAir)
       \/ /\ Len(rxAir) < MaxAir
          /\ \E devices \in Reports : \E n \in 1 .. Len(ReplyTo(devices)) :
                rxAir' = Stale(rxAir) \o SubSeq(ReplyTo(devices), 1, n)
    /\ pc' = "gather"
    /\ UNCHANGED <<open, channel, pages, callVars, txAir, txQueue, at, late, outcome, heard>>

\* A piece comes while the buffer has room.
Gather ==
    /\ pc = "gather" /\ rxQueue # <<>> /\ Len(got) < pages
    /\ got' = Append(got, Head(rxQueue))
    /\ rxQueue' = Tail(rxQueue)
    /\ UNCHANGED <<pc, open, channel, pages, scan, plan, flushed, frame, txAir, txQueue, rxAir, at, late,
                   outcome, heard>>

\* A pause, or a full buffer.
Gathered == pc = "gather" /\ (rxQueue # <<>> => Len(got) = pages)

\* parse_reply: the first part has the header, and what it promises, held to
\* what was asked for, is there.
Readable ==
    /\ got # <<>>
    /\ got[1].part = 1
    /\ Len(got) >= PagesFor(Carried(got[1].reported, pages))

ReplyTaken ==
    /\ Gathered /\ Readable
    /\ pages' = PagesFor(got[1].reported)
    /\ heard' = [reported |-> got[1].reported, carried |-> Carried(got[1].reported, pages),
                 before |-> IF heard = None THEN None ELSE heard.reported]
    /\ CallReturns("ok")
    /\ UNCHANGED <<open, channel, airVars, at>>

ReplyRefused ==
    /\ Gathered /\ ~Readable
    /\ CallReturns("failed")
    /\ UNCHANGED <<open, channel, pages, airVars, at, heard>>

-----------------------------------------------------------------------------
(* send.                                                                   *)

WriteFrame ==
    /\ pc = "frame" /\ frame < Frames
    /\ IF frame + 1 = Frames
       THEN CallReturns("ok")
       ELSE frame' = frame + 1 /\ UNCHANGED <<pc, outcome, scan, plan, flushed, got, late>>
    /\ UNCHANGED <<open, channel, pages, airVars, at, heard>>

-----------------------------------------------------------------------------

Outside == AnswerArrives \/ PartArrives \/ \E c \in Channel \union {None} : Moves(c)

Call == (\E every \in BOOLEAN : CallReopen(every)) \/ CallPoll \/ CallSend \/ CallClosed

Transfer ==
    \/ Fails
    \/ Found \/ TxFlush \/ TxFlushed \/ Ask \/ Connected \/ NotConnected
    \/ RxFlush \/ RxFlushed \/ AskReceiver \/ Gather \/ ReplyTaken \/ ReplyRefused
    \/ WriteFrame

Next == Outside \/ Call \/ Transfer

\* A transfer ends, by its time limit if not before.
Spec == Init /\ [][Next]_vars /\ WF_vars(Transfer)

-----------------------------------------------------------------------------
(* Properties.                                                             *)

\* dongle.rs:202-214: state is well formed; the pages asked for are never
\* none and never more than a request can ask for, and an attempt under way
\* has a channel.
DongleTypeOK ==
    /\ pc \in {"idle", "find", "txflush", "ask", "answer", "rxflush", "request", "gather", "frame"}
    /\ open \in BOOLEAN /\ scan \in BOOLEAN /\ late \in BOOLEAN
    /\ channel \in Channel /\ at \in Channel \union {None}
    /\ pages \in 1 .. MaxPages
    /\ plan \in Seq(Channel)
    /\ pc \in {"find", "txflush", "ask", "answer"} => plan # <<>> /\ ~open
    /\ pc \in {"rxflush", "request", "gather", "frame"} => open
    /\ flushed \in 0 .. TxReads \union 0 .. RxReads /\ frame \in 0 .. Frames
    /\ txAir \in Seq(Answer) /\ txQueue \in Seq(Answer)
    /\ rxAir \in Seq(Part) /\ rxQueue \in Seq(Part)
    /\ got \in Seq(Part) /\ Len(got) <= pages
    /\ outcome \in {"none", "ok", "failed"}

\* dongle.rs:88-96, 163-170: the channel a connect settles on is the one its
\* answer was for, however many answers of earlier attempts and of earlier
\* calls were left unread, unless one was still on its way when the flush
\* before the request ended.
AnsweredOnItsChannel ==
    [][~open /\ open' /\ ~late => Head(txQueue).for = channel']_vars

\* dongle.rs:101-122, 176-184: a poll that succeeds takes in the reply to its
\* own request, in order and without a piece of an earlier reply that was cut
\* short or abandoned, unless one was still on its way when its flush ended.
RepliesAreThisPolls ==
    [][pc = "gather" /\ pc' = "idle" /\ outcome' = "ok" /\ ~late =>
          \A i \in DOMAIN got : got[i].fresh /\ got[i].part = i /\ got[i].of = got[1].of]_vars

\* dongle.rs:253-259, frame.rs:119-121: a receiver that reports the same
\* number of devices twice in a row gets all of them into the second reply,
\* and a reply never carries more than it reports.
SteadyDevicesAreHeard ==
    DongleTypeOK /\ (heard # None =>
        /\ heard.carried <= heard.reported
        /\ heard.before = heard.reported => heard.carried = heard.reported)

\* dongle.rs:88-96, 101-122, 154-173: no call goes on for ever, whatever
\* comes in while it flushes, gathers or scans.
CallsReturn == pc # "idle" ~> pc = "idle"

\* engine.rs:55-95, dongle.rs:245-272: the dongle keeps what the engine relies
\* on; in particular a reopen that does not scan ends on the channel it began
\* on, and nothing succeeds between handles given up and a reopen.
Relied == INSTANCE Link
KeepsLink == Relied!Spec
=============================================================================
