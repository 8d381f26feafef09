------------------------------ MODULE Interface -----------------------------
(***************************************************************************)
(* The C interface (src/ffi.rs) with the engine's thread behind it: a host *)
(* opens a handle, takes log lines and closes it, while the worker writes  *)
(* lines, transfers and reopens the dongle of module Usb.                  *)
(*                                                                         *)
(* A host closes a handle once and calls nothing on it afterwards, as the  *)
(* functions demand.  Left out: what a state holds (module Plugin), the    *)
(* requests (module Engine), and the text of the last error, which is kept *)
(* for each thread apart.                                                  *)
(***************************************************************************)
EXTENDS Usb, Sequences

CONSTANTS
    Capacity,  \* LOG_CAPACITY
    MaxLines   \* bound: lines of one engine

ASSUME InterfaceAssumption == Capacity \in Nat \ {0} /\ MaxLines \in Nat

VARIABLES
    call,     \* the slow call a host is in: none, or the part of it under way
    handle,   \* the host has a Handle
    stop,     \* Shared.stop
    worker,   \* the engine's thread: none, running, ended
    log,      \* the Handle's log, a line being its number
    written,  \* history: lines the engine has written
    taken     \* history: the number of the last line taken

clientVars == <<call, handle, stop, worker, log, written, taken>>
vars == <<usbVars, clientVars>>

Init ==
    /\ UsbInit
    /\ call = "none" /\ handle = FALSE /\ stop = FALSE
    /\ worker = "none"
    /\ log = <<>> /\ written = 0 /\ taken = 0

-----------------------------------------------------------------------------
(* The log.                                                                *)

\* A mistake: a full log takes no more.
DropNewestVariant(lines, line) == IF Len(lines) >= Capacity THEN lines ELSE Append(lines, line)

\* log_sink's push: a full log gives up its oldest line.
Pushed(lines, line) == Append(IF Len(lines) >= Capacity THEN Tail(lines) ELSE lines, line)

WriteLine ==
    /\ log' = Pushed(log, written + 1)
    /\ written' = written + 1

LianliTakeLog ==
    /\ handle /\ log # <<>>
    /\ taken' = Head(log)
    /\ log' = Tail(log)
    /\ UNCHANGED <<usbVars, call, handle, stop, worker, written>>

-----------------------------------------------------------------------------
(* lianli_open and lianli_close.                                           *)

\* L-Connect is looked for before the dongle is touched.
LianliOpen ==
    /\ call = "none" /\ ~handle
    /\ CallRunning
    /\ call' = "service"
    /\ UNCHANGED <<handle, stop, worker, log, written, taken>>

OpenGoesOn ==
    /\ call = "service" /\ outcome = "clear"
    /\ CallOpen
    /\ call' = "dongle"
    /\ UNCHANGED <<handle, stop, worker, log, written, taken>>

\* ERR_LCONNECT, ERR_WINDOWS, ERR_DONGLE.
OpenRefused ==
    /\ step = "idle"
    /\ \/ call = "service" /\ outcome # "clear"
       \/ call = "dongle" /\ outcome # "ok"
    /\ call' = "none"
    /\ UNCHANGED <<usbVars, handle, stop, worker, log, written, taken>>

\* The engine starts on the dongle, and the handle is the host's.
Opened ==
    /\ step = "idle" /\ call = "dongle" /\ outcome = "ok"
    /\ call' = "none" /\ handle' = TRUE
    /\ worker' = "running" /\ stop' = FALSE
    /\ log' = <<>> /\ written' = 0 /\ taken' = 0
    /\ UNCHANGED usbVars

LianliClose ==
    /\ call = "none" /\ handle
    /\ handle' = FALSE /\ stop' = TRUE
    /\ call' = "close"
    /\ UNCHANGED <<usbVars, worker, log, written, taken>>

\* stop joins the thread; what the log still holds goes with the handle.
Closed ==
    /\ call = "close" /\ worker = "ended"
    /\ call' = "none"
    /\ worker' = "none"
    /\ log' = <<>> /\ written' = 0 /\ taken' = 0
    /\ UNCHANGED <<usbVars, handle, stop>>

-----------------------------------------------------------------------------
(* The engine's thread.                                                    *)

WorkerWrites ==
    /\ worker = "running" /\ step = "idle" /\ written < MaxLines
    /\ WriteLine
    /\ UNCHANGED <<usbVars, call, handle, stop, worker, taken>>

WorkerTransfers ==
    /\ worker = "running" /\ step = "idle"
    /\ Transfers
    /\ UNCHANGED clientVars

\* recover.
WorkerReopens ==
    /\ worker = "running"
    /\ CallOpen
    /\ UNCHANGED clientVars

\* After its last line the thread drops the dongle.
WorkerEnds ==
    /\ worker = "running" /\ stop
    /\ Dropped
    /\ WriteLine
    /\ worker' = "ended"
    /\ UNCHANGED <<call, handle, stop, taken>>

\* A call of the worker or of lianli_open goes on, and outside things happen.
Elsewhere ==
    /\ CallGoesOn \/ Outside \/ (step = "connect" /\ Transfers)
    /\ UNCHANGED clientVars

HostCalls == LianliTakeLog \/ LianliOpen \/ OpenGoesOn \/ OpenRefused \/ Opened \/ LianliClose \/ Closed

WorkerSteps == WorkerWrites \/ WorkerTransfers \/ WorkerReopens \/ WorkerEnds

Next == HostCalls \/ WorkerSteps \/ Elsewhere

Spec == Init /\ [][Next]_vars

-----------------------------------------------------------------------------
(* Properties.                                                             *)

InterfaceTypeOK ==
    /\ UsbTypeOK
    /\ call \in {"none", "service", "dongle", "close"}
    /\ handle \in BOOLEAN /\ stop \in BOOLEAN
    /\ worker \in {"none", "running", "ended"}
    /\ log \in Seq(Nat) /\ written \in Nat /\ taken \in 0 .. written

\* The thread there is at each part of a host's calls.
WorkerIsInCall ==
    /\ call \in {"service", "dongle"} => ~handle /\ worker = "none"
    /\ call = "close" => ~handle /\ stop /\ worker # "none"
    /\ call = "none" => (handle <=> worker # "none") /\ (handle => worker = "running" /\ ~stop)
    /\ worker # "running" =>
          DOMAIN devices = {} \/ call = "dongle"
    /\ step # "idle" => call \in {"service", "dongle"} \/ worker = "running"
    /\ call = "service" => step \in {"idle", "names"}
    /\ step = "names" => call = "service"
    /\ call = "dongle" /\ step = "idle" => (outcome = "ok" <=> DOMAIN devices # {})

\* ffi.rs:196-247; engine.rs:798-806: whichever call of an open failed, and
\* whatever the worker was doing when the host closed its handle, a host that
\* has no handle holds nothing of the dongles, so the next program, or the next
\* open, finds them free; while it has one, the thread that owns them runs.
DongleIsGivenBack ==
    /\ InterfaceTypeOK /\ HandlesAreOwned /\ WorkerIsInCall
    /\ call = "none" /\ ~handle =>
          files = [p \in Path |-> 0] /\ interfaces = {} /\ lists = 0

\* ffi.rs:158-169, 347-378: the log holds the newest lines not yet taken, all
\* of them, in order, as many as fit, however writes and takes interleave.
NewestAreKept ==
    LET n == IF written - taken < Capacity THEN written - taken ELSE Capacity IN
    log = [i \in 1 .. n |-> written - n + i]
=============================================================================
