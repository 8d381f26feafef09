-------------------------------- MODULE Usb --------------------------------
(***************************************************************************)
(* What the program holds of Windows: the lookup of the dongles            *)
(* (src/enumerate.rs) and of running programs (src/process.rs), an open    *)
(* device (src/device.rs), and the run of calls in which src/dongle.rs     *)
(* opens the pair, any of which may fail.  One thread at a time makes      *)
(* them.  What the transfers carry is the business of module Dongle.       *)
(***************************************************************************)
EXTENDS Integers

CONSTANTS
    None,
    Path,       \* device paths that may be listed
    RoleOf,     \* classify: the role a path names, if any
    Wait,       \* time limits reads are made under
    Timeout     \* device::TIMEOUT, of every write

Role == {"transmitter", "receiver"}
Pipe == {"in", "out"}
Limit == Wait \union {Timeout}

ASSUME UsbAssumption ==
    /\ RoleOf \in [Path -> Role \union {None}] /\ None \notin Role
    /\ None \notin Path /\ None \notin Limit

VARIABLES
    attached,    \* paths of devices that are there
    foreign,     \* paths whose interface another program has
    files,       \* per path, the file handles open
    interfaces,  \* paths whose WinUSB interface the program has
    lists,       \* device lists and process snapshots not yet closed
    limits,      \* per path and pipe, the limit the open interface has
    winusb,      \* what WinUsb::get found
    step,        \* what the call under way does next
    listed,      \* the paths on the device list
    paths,       \* per role, the path found
    role,        \* the role being opened
    devices,     \* per role, the Device there is: its path and the limits it remembers
    outcome      \* of the last call

outside == <<attached, foreign>>
held == <<files, interfaces, limits, devices>>
search == <<listed, paths, role>>
usbVars == <<outside, held, lists, winusb, step, search, outcome>>

NoDevice == [r \in {} |-> None]
NoLimit == [pipe \in Pipe |-> None]

UsbInit ==
    /\ attached \in SUBSET Path
    /\ foreign \in SUBSET attached
    /\ files = [p \in Path |-> 0]
    /\ interfaces = {}
    /\ lists = 0
    /\ limits = [p \in Path |-> NoLimit]
    /\ winusb = "unasked"
    /\ step = "idle"
    /\ listed = {} /\ paths = NoDevice /\ role = "transmitter"
    /\ devices = NoDevice
    /\ outcome = "none"

-----------------------------------------------------------------------------
(* Outside: devices come and go, and so does another program.              *)

Attach(p) ==
    /\ p \notin attached /\ attached' = attached \union {p}
    /\ UNCHANGED <<foreign, held, lists, winusb, step, search, outcome>>

Detach(p) ==
    /\ p \in attached /\ attached' = attached \ {p}
    /\ foreign' = foreign \ {p}
    /\ UNCHANGED <<held, lists, winusb, step, search, outcome>>

ForeignTakes(p) ==
    /\ p \in attached \ (foreign \union interfaces) /\ foreign' = foreign \union {p}
    /\ UNCHANGED <<attached, held, lists, winusb, step, search, outcome>>

ForeignLeaves(p) ==
    /\ p \in foreign /\ foreign' = foreign \ {p}
    /\ UNCHANGED <<attached, held, lists, winusb, step, search, outcome>>

Outside == \E p \in Path : Attach(p) \/ Detach(p) \/ ForeignTakes(p) \/ ForeignLeaves(p)

-----------------------------------------------------------------------------
(* Closing.                                                                *)

\* The files at these paths are closed, and all there is of devices dropped,
\* each with its interface, whose limits go with it, and its file.
Close(also) ==
    LET dropped == {devices[r].path : r \in DOMAIN devices} IN
    /\ files' = [p \in Path |-> IF p \in also \union dropped THEN files[p] - 1 ELSE files[p]]
    /\ interfaces' = interfaces \ dropped
    /\ limits' = [p \in Path |-> IF p \in dropped THEN NoLimit ELSE limits[p]]
    /\ devices' = NoDevice

CallReturns(result) ==
    /\ step' = "idle"
    /\ outcome' = result
    /\ listed' = {} /\ paths' = NoDevice /\ role' = "transmitter"

\* An error on the way leaves the call, and drops what it opened.
OpenFails(also) ==
    /\ Close(also)
    /\ CallReturns("failed")

-----------------------------------------------------------------------------
(* process::running.                                                       *)

CallRunning ==
    /\ step = "idle"
    /\ \/ lists' = lists + 1 /\ step' = "names" /\ UNCHANGED <<search, outcome>>
       \/ CallReturns("failed") /\ UNCHANGED lists
    /\ UNCHANGED <<outside, held, winusb>>

\* The snapshot is closed whether or not its walk came to the end.
NamesRead ==
    /\ step = "names"
    /\ lists' = lists - 1
    /\ \E result \in {"running", "clear", "failed"} : CallReturns(result)
    /\ UNCHANGED <<outside, held, winusb>>

-----------------------------------------------------------------------------
(* Dongle::open and reopen: find, open both, connect.                      *)

\* The handles there are go first.
CallOpen ==
    /\ step = "idle"
    /\ Close({})
    /\ step' = "list"
    /\ UNCHANGED <<outside, lists, winusb, search, outcome>>

ListMade ==
    /\ step = "list"
    /\ \/ lists' = lists + 1 /\ listed' = attached /\ step' = "walk"
          /\ UNCHANGED <<held, paths, role, outcome>>
       \/ OpenFails({}) /\ UNCHANGED lists
    /\ UNCHANGED <<outside, winusb>>

\* pair: exactly one path for each role.
Pair(found) == \A p \in listed, r \in Role : RoleOf[p] = r <=> found[r] = p

Found ==
    /\ step = "walk"
    /\ lists' = lists - 1
    /\ \E found \in [Role -> listed] : Pair(found) /\ paths' = found
    /\ listed' = {} /\ role' = "transmitter"
    /\ step' = "load"
    /\ UNCHANGED <<outside, held, winusb, outcome>>

\* An item cannot be read, or a role has no path or several.
NotFound ==
    /\ step = "walk"
    /\ lists' = lists - 1
    /\ OpenFails({})
    /\ UNCHANGED <<outside, winusb>>

\* WinUsb::get asks once; what it found then, it finds ever after.
Library ==
    /\ step = "load"
    /\ \/ winusb \in {"unasked", "loaded"} /\ winusb' = "loaded" /\ step' = "create"
          /\ UNCHANGED <<held, search, outcome>>
       \/ winusb \in {"unasked", "missing"} /\ winusb' = "missing" /\ OpenFails({})
    /\ UNCHANGED <<outside, lists>>

CreateFile ==
    /\ step = "create"
    /\ \/ /\ paths[role] \in attached
          /\ files' = [files EXCEPT ![paths[role]] = @ + 1]
          /\ step' = "initialize"
          /\ UNCHANGED <<interfaces, limits, devices, search, outcome>>
       \/ OpenFails({})
    /\ UNCHANGED <<outside, lists, winusb>>

\* WinUSB gives an interface to one handle at a time.
Initialized ==
    /\ step = "initialize"
    /\ paths[role] \in attached \ (foreign \union interfaces)
    /\ interfaces' = interfaces \union {paths[role]}
    /\ devices' = [r \in DOMAIN devices \union {role} |->
                     IF r = role THEN [path |-> paths[role], limit |-> NoLimit] ELSE devices[r]]
    /\ step' = "pipes"
    /\ UNCHANGED <<outside, files, limits, lists, winusb, search, outcome>>

\* A mistake: the file is left to a Device there is not yet.
LeaveFileVariant ==
    /\ step = "initialize"
    /\ OpenFails({})
    /\ UNCHANGED <<outside, lists, winusb>>

\* There is no Device yet that would close the file when dropped.
NotInitialized ==
    /\ step = "initialize"
    /\ OpenFails({paths[role]})
    /\ UNCHANGED <<outside, lists, winusb>>

\* A device's pipes are looked up and set to clear stalls and to part a read.
Pipes ==
    /\ step = "pipes"
    /\ \/ /\ IF role = "transmitter"
             THEN role' = "receiver" /\ step' = "load"
             ELSE step' = "connect" /\ UNCHANGED role
          /\ UNCHANGED <<held, listed, paths, outcome>>
       \/ OpenFails({})
    /\ UNCHANGED <<outside, lists, winusb>>

Connect ==
    /\ step = "connect"
    /\ \/ CallReturns("ok") /\ UNCHANGED held
       \/ OpenFails({})
    /\ UNCHANGED <<outside, lists, winusb>>

-----------------------------------------------------------------------------
(* Device::read and write.                                                 *)

Remember(r, pipe, limit) == devices' = [devices EXCEPT ![r].limit[pipe] = limit]

\* A mistake: the limit is remembered though it was refused.
RememberFirstVariant(r, pipe, limit) == Remember(r, pipe, limit) /\ UNCHANGED limits

SetRefused(r, pipe, limit) == UNCHANGED <<devices, limits>>

\* apply_timeout: a limit that is not the one remembered is set and then
\* remembered.  The transfer itself leaves nothing behind here.
Transfer(r, pipe, limit) ==
    /\ r \in DOMAIN devices
    /\ devices[r].limit[pipe] # limit
    /\ \/ limits' = [limits EXCEPT ![devices[r].path][pipe] = limit] /\ Remember(r, pipe, limit)
       \/ SetRefused(r, pipe, limit)
    /\ UNCHANGED <<outside, files, interfaces, lists, winusb, step, search, outcome>>

\* A connect uses the transmitter; a poll or a send needs the pair.
Transfers ==
    \E r \in Role :
        /\ step = "idle" \/ (step = "connect" /\ r = "transmitter")
        /\ \/ \E limit \in Wait : Transfer(r, "in", limit)
           \/ Transfer(r, "out", Timeout)

\* The dongle is dropped.
Dropped ==
    /\ step = "idle"
    /\ Close({})
    /\ UNCHANGED <<outside, lists, winusb, step, search, outcome>>

CallGoesOn ==
    \/ NamesRead
    \/ ListMade \/ Found \/ NotFound \/ Library \/ CreateFile \/ Initialized \/ NotInitialized
    \/ Pipes \/ Connect

UsbNext == Outside \/ CallRunning \/ CallOpen \/ CallGoesOn \/ Transfers \/ Dropped

UsbSpec == UsbInit /\ [][UsbNext]_usbVars

-----------------------------------------------------------------------------
(* Properties.                                                             *)

UsbTypeOK ==
    /\ attached \subseteq Path /\ foreign \subseteq attached
    /\ files \in [Path -> Int]
    /\ interfaces \subseteq Path
    /\ lists \in Int
    /\ limits \in [Path -> [Pipe -> Limit \union {None}]]
    /\ winusb \in {"unasked", "loaded", "missing"}
    /\ step \in {"idle", "names", "list", "walk", "load", "create", "initialize", "pipes", "connect"}
    /\ listed \subseteq Path
    /\ DOMAIN paths \subseteq Role /\ paths \in [DOMAIN paths -> Path]
    /\ role \in Role
    /\ DOMAIN devices \subseteq Role
    /\ devices \in [DOMAIN devices -> [path: Path, limit: [Pipe -> Limit \union {None}]]]
    /\ outcome \in {"none", "running", "clear", "failed", "ok"}

\* The devices there may be at each step: the pair or none between calls, those
\* opened so far during one.
DevicesAreInStep ==
    /\ step \in {"idle", "names"} => DOMAIN devices \in {{}, Role}
    /\ step \in {"list", "walk"} => DOMAIN devices = {}
    /\ step \in {"load", "create", "initialize"} =>
          DOMAIN devices = IF role = "transmitter" THEN {} ELSE {"transmitter"}
    /\ step = "pipes" => DOMAIN devices = IF role = "transmitter" THEN {role} ELSE Role
    /\ step = "connect" => DOMAIN devices = Role
    /\ step \in {"load", "create", "initialize", "pipes", "connect"} =>
          /\ DOMAIN paths = Role
          /\ \A r \in Role : RoleOf[paths[r]] = r
    /\ \A r \in DOMAIN devices : RoleOf[devices[r].path] = r

Owned == {devices[r].path : r \in DOMAIN devices}

\* device.rs:100-150, 287-294; enumerate.rs:110-127; process.rs:20-31;
\* dongle.rs:216-248: at whatever call an error strikes, the handles open in
\* Windows are those of the values the program has: none is left behind, which
\* would keep the interface from every later reopen, and none is closed twice;
\* between calls it has both dongles or neither.
HandlesAreOwned ==
    /\ DevicesAreInStep
    /\ interfaces = Owned
    /\ files = [p \in Path |->
                  IF p \in Owned \/ (step = "initialize" /\ p = paths[role]) THEN 1 ELSE 0]
    /\ lists = IF step \in {"names", "walk"} THEN 1 ELSE 0

\* device.rs:209-284: the limit a device remembers for a pipe is the one the
\* pipe has, though a setting may be refused and a new interface comes without
\* any; so a transfer that finds its limit remembered is made under it, and no
\* read waits for ever.
TransfersAreTimed ==
    \A r \in DOMAIN devices, pipe \in Pipe :
        devices[r].limit[pipe] # None => limits[devices[r].path][pipe] = devices[r].limit[pipe]
=============================================================================
