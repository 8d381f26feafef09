-------------------------- MODULE InterfaceProofs --------------------------
(***************************************************************************)
(* Theorems about what the program holds of Windows and about the C        *)
(* interface over it, for any paths, time limits and capacity of the log:  *)
(* whichever calls fail, no handle is left behind or closed twice, a limit *)
(* a device remembers is the one its pipe has, a host without a handle     *)
(* holds nothing of the dongle, and the log is the newest lines not taken. *)
(***************************************************************************)
EXTENDS Interface, TLAPS

-----------------------------------------------------------------------------
(* Module Usb.                                                             *)

UsbInv == UsbTypeOK /\ HandlesAreOwned /\ TransfersAreTimed

\* No device is there, and nothing of one is open.
AllFree ==
    /\ files = [p \in Path |-> 0] /\ interfaces = {} /\ devices = NoDevice
    /\ limits \in [Path -> [Pipe -> Limit \union {None}]]

\* The steps at which the program is in a call but has no device yet or any more.
Bare == {"idle", "names", "list", "walk"}

\* The paths of two devices differ, since each is of its own role.
LEMMA PathsDiffer ==
    ASSUME UsbInv, NEW r \in DOMAIN devices, NEW q \in DOMAIN devices, devices[r].path = devices[q].path
    PROVE  r = q
BY DEF UsbInv, HandlesAreOwned, DevicesAreInStep

\* Dropping the devices, and the file that has none yet, frees everything.
LEMMA CloseFreesAll ==
    ASSUME UsbInv, Close(IF step = "initialize" THEN {paths[role]} ELSE {})
    PROVE  AllFree'
<1> DEFINE also == IF step = "initialize" THEN {paths[role]} ELSE {}
<1>1. /\ files' = [p \in Path |-> IF p \in also \union Owned THEN files[p] - 1 ELSE files[p]]
      /\ interfaces' = interfaces \ Owned
      /\ limits' = [p \in Path |-> IF p \in Owned THEN NoLimit ELSE limits[p]]
      /\ devices' = NoDevice
    BY DEF Close, Owned
<1>2. \A p \in Path : files[p] = IF p \in also \union Owned THEN 1 ELSE 0
    BY DEF UsbInv, HandlesAreOwned
<1>3. files' = [p \in Path |-> 0]
    BY <1>1, <1>2
<1>4. interfaces' = {}
    BY <1>1 DEF UsbInv, HandlesAreOwned
<1>5. NoLimit \in [Pipe -> Limit \union {None}]
    BY DEF NoLimit
<1>6. limits' \in [Path -> [Pipe -> Limit \union {None}]]
    BY <1>1, <1>5 DEF UsbInv, UsbTypeOK
<1> QED
    BY <1>1, <1>3, <1>4, <1>6 DEF AllFree

\* With everything free the invariant is a matter of types and lists.
LEMMA FreeIsFine ==
    ASSUME AllFree', UsbTypeOK', step' \in Bare, lists' = IF step' \in {"names", "walk"} THEN 1 ELSE 0
    PROVE  UsbInv'
<1>1. DOMAIN devices' = {} /\ Owned' = {}
    BY DEF AllFree, NoDevice, Owned
<1>2. DevicesAreInStep'
    BY <1>1 DEF DevicesAreInStep, Bare
<1>3. HandlesAreOwned'
    BY <1>1, <1>2 DEF HandlesAreOwned, AllFree, Bare
<1>4. TransfersAreTimed'
    BY <1>1 DEF TransfersAreTimed
<1> QED
    BY <1>3, <1>4 DEF UsbInv

\* A call that returns with an error.
LEMMA OpenFailsKeeps ==
    ASSUME UsbInv, OpenFails(IF step = "initialize" THEN {paths[role]} ELSE {}),
           attached' = attached, foreign' = foreign, lists' = 0,
           winusb' \in {"unasked", "loaded", "missing"}
    PROVE  UsbInv'
<1>1. AllFree' /\ CallReturns("failed")
    BY CloseFreesAll DEF OpenFails
<1>2. UsbTypeOK'
    BY <1>1 DEF UsbTypeOK, AllFree, CallReturns, UsbInv, NoDevice, Role
<1> QED
    BY <1>1, <1>2, FreeIsFine DEF CallReturns, Bare

\* Steps that leave the handles and the course of a call alone.
LEMMA SameHandles ==
    ASSUME UsbInv, UNCHANGED <<held, lists, step, paths, role>>,
           attached' \subseteq Path, foreign' \subseteq attached',
           listed' \subseteq Path, winusb' \in {"unasked", "loaded", "missing"},
           outcome' \in {"none", "running", "clear", "failed", "ok"}
    PROVE  UsbInv'
<1>1. UsbTypeOK'
    BY DEF UsbInv, UsbTypeOK, held
<1>2. HandlesAreOwned'
    BY DEF UsbInv, HandlesAreOwned, DevicesAreInStep, Owned, held
<1>3. TransfersAreTimed'
    BY DEF UsbInv, TransfersAreTimed, held
<1> QED
    BY <1>1, <1>2, <1>3 DEF UsbInv

\* The look at the running programs.
LEMMA RunningKeeps ==
    ASSUME UsbInv, CallRunning \/ NamesRead
    PROVE  UsbInv'
<1>1. /\ step \in {"idle", "names"} /\ step' \in {"idle", "names"}
      /\ lists' = IF step' = "names" THEN 1 ELSE 0
    <2>1. lists = IF step = "names" THEN 1 ELSE 0
        BY DEF UsbInv, HandlesAreOwned, CallRunning, NamesRead
    <2> QED
        BY <2>1 DEF CallRunning, NamesRead, CallReturns
<1>2. UNCHANGED <<outside, held, winusb>>
    BY DEF CallRunning, NamesRead
<1>3. UsbTypeOK'
    <2>1. \/ UNCHANGED <<search, outcome>>
          \/ \E result \in {"running", "clear", "failed"} : CallReturns(result)
        BY DEF CallRunning, NamesRead
    <2>2. CASE UNCHANGED <<search, outcome>>
        BY <1>1, <1>2, <2>2 DEF UsbInv, UsbTypeOK, outside, held, search
    <2>3. ASSUME NEW result \in {"running", "clear", "failed"}, CallReturns(result)
          PROVE  UsbTypeOK'
        BY <1>1, <1>2, <2>3 DEF CallReturns, UsbInv, UsbTypeOK, outside, held, NoDevice, Role
    <2> QED
        BY <2>1, <2>2, <2>3
<1>4. HandlesAreOwned'
    <2>1. DevicesAreInStep'
        BY <1>1, <1>2 DEF UsbInv, HandlesAreOwned, DevicesAreInStep, held
    <2> QED
        BY <1>1, <1>2, <2>1 DEF UsbInv, HandlesAreOwned, Owned, held
<1>5. TransfersAreTimed'
    BY <1>2 DEF UsbInv, TransfersAreTimed, held
<1> QED
    BY <1>3, <1>4, <1>5 DEF UsbInv

\* From here on the pair is opened.
LEMMA CallOpenKeeps ==
    ASSUME UsbInv, CallOpen
    PROVE  UsbInv'
<1>1. AllFree'
    BY CloseFreesAll DEF CallOpen
<1>2. lists' = 0 /\ step' = "list"
    BY DEF CallOpen, UsbInv, HandlesAreOwned
<1>3. UsbTypeOK'
    BY <1>1, <1>2 DEF CallOpen, UsbInv, UsbTypeOK, AllFree, outside, search, NoDevice
<1> QED
    BY <1>1, <1>2, <1>3, FreeIsFine DEF Bare

\* The end of the dongle.
LEMMA DroppedKeeps ==
    ASSUME UsbInv, Dropped
    PROVE  UsbInv'
<1>1. AllFree'
    BY CloseFreesAll DEF Dropped
<1>2. lists' = 0 /\ step' = "idle"
    BY DEF Dropped, UsbInv, HandlesAreOwned
<1>3. UsbTypeOK'
    BY <1>1, <1>2 DEF Dropped, UsbInv, UsbTypeOK, AllFree, outside, search, NoDevice
<1> QED
    BY <1>1, <1>2, <1>3, FreeIsFine DEF Bare

\* The list of devices.
LEMMA ListMadeKeeps ==
    ASSUME UsbInv, ListMade
    PROVE  UsbInv'
<1>1. step = "list" /\ lists = 0 /\ DOMAIN devices = {}
    BY DEF ListMade, UsbInv, HandlesAreOwned, DevicesAreInStep
<1>2. CASE OpenFails({}) /\ UNCHANGED <<lists, outside, winusb>>
    BY <1>1, <1>2, OpenFailsKeeps DEF outside, UsbInv, UsbTypeOK
<1>3. CASE lists' = lists + 1 /\ listed' = attached /\ step' = "walk" /\ UNCHANGED <<held, paths, role, outcome, outside, winusb>>
    <2>1. UsbTypeOK'
        BY <1>3 DEF UsbInv, UsbTypeOK, held, outside
    <2>2. HandlesAreOwned'
        BY <1>1, <1>3 DEF UsbInv, HandlesAreOwned, DevicesAreInStep, Owned, held
    <2>3. TransfersAreTimed'
        BY <1>3 DEF UsbInv, TransfersAreTimed, held
    <2> QED
        BY <2>1, <2>2, <2>3 DEF UsbInv
<1> QED
    BY <1>2, <1>3 DEF ListMade

\* The walk of the list, and the paths it finds.
LEMMA WalkKeeps ==
    ASSUME UsbInv, Found \/ NotFound
    PROVE  UsbInv'
<1>1. step = "walk" /\ lists = 1 /\ DOMAIN devices = {}
    BY DEF Found, NotFound, UsbInv, HandlesAreOwned, DevicesAreInStep
<1>2. CASE NotFound
    BY <1>1, <1>2, OpenFailsKeeps DEF NotFound, outside, UsbInv, UsbTypeOK
<1>3. CASE Found
    <2>1. PICK found \in [Role -> listed] : Pair(found) /\ paths' = found
        BY <1>3 DEF Found
    <2>2. \A r \in Role : found[r] \in Path /\ RoleOf[found[r]] = r
        BY <2>1 DEF Pair, UsbInv, UsbTypeOK
    <2>3. lists' = 0 /\ step' = "load" /\ role' = "transmitter" /\ listed' = {}
          /\ UNCHANGED <<outside, held, winusb, outcome>>
        BY <1>1, <1>3 DEF Found
    <2>4. UsbTypeOK'
        BY <2>1, <2>2, <2>3 DEF UsbInv, UsbTypeOK, held, outside, Role
    <2>5. DevicesAreInStep'
        BY <1>1, <2>1, <2>2, <2>3 DEF UsbInv, HandlesAreOwned, DevicesAreInStep, held
    <2>6. HandlesAreOwned'
        BY <1>1, <2>3, <2>5 DEF UsbInv, HandlesAreOwned, Owned, held
    <2>7. TransfersAreTimed'
        BY <2>3 DEF UsbInv, TransfersAreTimed, held
    <2> QED
        BY <2>4, <2>6, <2>7 DEF UsbInv
<1> QED
    BY <1>2, <1>3

\* The library.
LEMMA LibraryKeeps ==
    ASSUME UsbInv, Library
    PROVE  UsbInv'
<1>1. step = "load" /\ lists = 0
    BY DEF Library, UsbInv, HandlesAreOwned
<1>2. CASE OpenFails({}) /\ winusb' = "missing"
    BY <1>1, <1>2, OpenFailsKeeps DEF Library, outside, UsbInv, UsbTypeOK
<1>3. CASE winusb' = "loaded" /\ step' = "create" /\ UNCHANGED <<held, search, outcome, outside, lists>>
    <2>1. UsbTypeOK'
        BY <1>3 DEF UsbInv, UsbTypeOK, held, outside, search
    <2>2. HandlesAreOwned'
        BY <1>1, <1>3 DEF UsbInv, HandlesAreOwned, DevicesAreInStep, Owned, held, search
    <2>3. TransfersAreTimed'
        BY <1>3 DEF UsbInv, TransfersAreTimed, held
    <2> QED
        BY <2>1, <2>2, <2>3 DEF UsbInv
<1> QED
    BY <1>2, <1>3 DEF Library

\* While a device is opened, its path is not that of the one there is.
LEMMA PathIsNew ==
    ASSUME UsbInv, step \in {"load", "create", "initialize"}
    PROVE  paths[role] \in Path /\ paths[role] \notin Owned /\ role \notin DOMAIN devices /\ role \in Role
<1>1. role \in Role /\ DOMAIN paths = Role /\ paths[role] \in Path /\ RoleOf[paths[role]] = role
    BY DEF UsbInv, UsbTypeOK, HandlesAreOwned, DevicesAreInStep
<1>2. role \notin DOMAIN devices
    BY DEF UsbInv, HandlesAreOwned, DevicesAreInStep
<1>3. \A r \in DOMAIN devices : RoleOf[devices[r].path] = r
    BY DEF UsbInv, HandlesAreOwned, DevicesAreInStep
<1> QED
    BY <1>1, <1>2, <1>3 DEF Owned

\* A file has no device yet.
LEMMA CreateFileKeeps ==
    ASSUME UsbInv, CreateFile
    PROVE  UsbInv'
<1>1. step = "create" /\ lists = 0 /\ UNCHANGED <<outside, lists, winusb>>
    BY DEF CreateFile, UsbInv, HandlesAreOwned
<1>2. CASE OpenFails({})
    BY <1>1, <1>2, OpenFailsKeeps DEF outside, UsbInv, UsbTypeOK
<1>3. CASE ~OpenFails({})
    <2>1. /\ files' = [files EXCEPT ![paths[role]] = @ + 1] /\ step' = "initialize"
          /\ UNCHANGED <<interfaces, limits, devices, search, outcome>>
        BY <1>3 DEF CreateFile
    <2>2. paths[role] \in Path /\ paths[role] \notin Owned
        BY <1>1, PathIsNew
    <2>3. UsbTypeOK'
        BY <1>1, <2>1, <2>2 DEF UsbInv, UsbTypeOK, outside, search
    <2>4. DevicesAreInStep'
        BY <1>1, <2>1 DEF UsbInv, HandlesAreOwned, DevicesAreInStep, search
    <2>5. files' = [p \in Path |-> IF p \in Owned \/ p = paths[role] THEN 1 ELSE 0]
        BY <1>1, <2>1, <2>2 DEF UsbInv, HandlesAreOwned
    <2>6. HandlesAreOwned'
        BY <1>1, <2>1, <2>4, <2>5 DEF UsbInv, HandlesAreOwned, Owned, search
    <2>7. TransfersAreTimed'
        BY <2>1 DEF UsbInv, TransfersAreTimed
    <2> QED
        BY <2>3, <2>6, <2>7 DEF UsbInv
<1> QED
    BY <1>2, <1>3

\* An interface makes the device that owns it and its file.
LEMMA InitializedKeeps ==
    ASSUME UsbInv, Initialized
    PROVE  UsbInv'
<1> DEFINE device == [path |-> paths[role], limit |-> NoLimit]
<1>1. /\ step = "initialize" /\ lists = 0 /\ step' = "pipes"
      /\ UNCHANGED <<outside, files, limits, lists, winusb, search, outcome>>
    BY DEF Initialized, UsbInv, HandlesAreOwned
<1>2. paths[role] \in Path /\ paths[role] \notin Owned /\ role \notin DOMAIN devices /\ role \in Role
    BY <1>1, PathIsNew
<1>3. /\ DOMAIN devices' = DOMAIN devices \union {role}
      /\ devices'[role] = device
      /\ \A r \in DOMAIN devices : devices'[r] = devices[r]
      /\ devices' = [r \in DOMAIN devices' |-> devices'[r]]
    BY <1>2 DEF Initialized
<1>4. Owned' = Owned \union {paths[role]}
    BY <1>2, <1>3 DEF Owned
<1>5. NoLimit \in [Pipe -> Limit \union {None}] /\ \A pipe \in Pipe : NoLimit[pipe] = None
    BY DEF NoLimit
<1>6. UsbTypeOK'
    <2>1. device \in [path: Path, limit: [Pipe -> Limit \union {None}]]
        BY <1>2, <1>5
    <2>2. devices' \in [DOMAIN devices' -> [path: Path, limit: [Pipe -> Limit \union {None}]]]
        BY <1>3, <2>1 DEF UsbInv, UsbTypeOK
    <2>3. interfaces' \subseteq Path /\ DOMAIN devices' \subseteq Role
        BY <1>2, <1>3 DEF Initialized, UsbInv, UsbTypeOK
    <2> QED
        BY <1>1, <2>2, <2>3 DEF UsbInv, UsbTypeOK, outside, search
<1>7. DevicesAreInStep'
    <2>1. DOMAIN paths = Role /\ \A r \in Role : RoleOf[paths[r]] = r
        BY <1>1 DEF UsbInv, HandlesAreOwned, DevicesAreInStep
    <2>2. DOMAIN devices = IF role = "transmitter" THEN {} ELSE {"transmitter"}
        BY <1>1 DEF UsbInv, HandlesAreOwned, DevicesAreInStep
    <2>3. \A r \in DOMAIN devices' : RoleOf[devices'[r].path] = r
        BY <1>2, <1>3, <2>1 DEF UsbInv, HandlesAreOwned, DevicesAreInStep
    <2> QED
        BY <1>1, <1>2, <1>3, <2>1, <2>2, <2>3 DEF DevicesAreInStep, search, Role
<1>8. HandlesAreOwned'
    <2>1. interfaces' = Owned'
        BY <1>4 DEF Initialized, UsbInv, HandlesAreOwned
    <2>2. files' = [p \in Path |-> IF p \in Owned' THEN 1 ELSE 0]
        BY <1>1, <1>4 DEF UsbInv, HandlesAreOwned
    <2> QED
        BY <1>1, <1>7, <2>1, <2>2 DEF HandlesAreOwned
<1>9. TransfersAreTimed'
    BY <1>1, <1>3, <1>5 DEF UsbInv, TransfersAreTimed
<1> QED
    BY <1>6, <1>8, <1>9 DEF UsbInv

\* Without it the file is closed by itself.
LEMMA NotInitializedKeeps ==
    ASSUME UsbInv, NotInitialized
    PROVE  UsbInv'
<1>1. step = "initialize" /\ lists = 0 /\ UNCHANGED <<outside, lists, winusb>> /\ OpenFails({paths[role]})
    BY DEF NotInitialized, UsbInv, HandlesAreOwned
<1> QED
    BY <1>1, OpenFailsKeeps DEF outside, UsbInv, UsbTypeOK

\* The pipes of one device, then the other device.
LEMMA PipesKeeps ==
    ASSUME UsbInv, Pipes
    PROVE  UsbInv'
<1>1. step = "pipes" /\ lists = 0 /\ UNCHANGED <<outside, lists, winusb>> /\ role \in Role
    BY DEF Pipes, UsbInv, UsbTypeOK, HandlesAreOwned
<1>2. CASE OpenFails({})
    BY <1>1, <1>2, OpenFailsKeeps DEF outside, UsbInv, UsbTypeOK
<1>3. CASE ~OpenFails({})
    <2>1. /\ UNCHANGED <<held, listed, paths, outcome>>
          /\ IF role = "transmitter" THEN role' = "receiver" /\ step' = "load" ELSE step' = "connect" /\ role' = role
        BY <1>3 DEF Pipes
    <2>2. DevicesAreInStep'
        <3>1. DOMAIN paths = Role /\ \A r \in Role : RoleOf[paths[r]] = r
            BY <1>1 DEF UsbInv, HandlesAreOwned, DevicesAreInStep
        <3>2. DOMAIN devices = IF role = "transmitter" THEN {"transmitter"} ELSE Role
            BY <1>1 DEF UsbInv, HandlesAreOwned, DevicesAreInStep
        <3>3. \A r \in DOMAIN devices : RoleOf[devices[r].path] = r
            BY DEF UsbInv, HandlesAreOwned, DevicesAreInStep
        <3> QED
            BY <2>1, <3>1, <3>2, <3>3 DEF DevicesAreInStep, held
    <2>3. UsbTypeOK'
        BY <1>1, <2>1 DEF UsbInv, UsbTypeOK, outside, held, Role
    <2>4. HandlesAreOwned'
        BY <1>1, <2>1, <2>2 DEF UsbInv, HandlesAreOwned, Owned, held
    <2>5. TransfersAreTimed'
        BY <2>1 DEF UsbInv, TransfersAreTimed, held
    <2> QED
        BY <2>3, <2>4, <2>5 DEF UsbInv
<1> QED
    BY <1>2, <1>3

\* The connect.
LEMMA ConnectKeeps ==
    ASSUME UsbInv, Connect
    PROVE  UsbInv'
<1>1. step = "connect" /\ lists = 0 /\ UNCHANGED <<outside, lists, winusb>>
    BY DEF Connect, UsbInv, HandlesAreOwned
<1>2. CASE OpenFails({})
    BY <1>1, <1>2, OpenFailsKeeps DEF outside, UsbInv, UsbTypeOK
<1>3. CASE CallReturns("ok") /\ UNCHANGED held
    <2>1. UsbTypeOK'
        BY <1>1, <1>3 DEF UsbInv, UsbTypeOK, CallReturns, outside, held, NoDevice, Role
    <2>2. HandlesAreOwned'
        BY <1>1, <1>3 DEF UsbInv, HandlesAreOwned, DevicesAreInStep, CallReturns, Owned, held
    <2>3. TransfersAreTimed'
        BY <1>3 DEF UsbInv, TransfersAreTimed, held
    <2> QED
        BY <2>1, <2>2, <2>3 DEF UsbInv
<1> QED
    BY <1>1, <1>2, <1>3 DEF Connect

\* A transfer sets the limit of one pipe of one device, and remembers the same.
LEMMA TransferKeeps ==
    ASSUME UsbInv, NEW r \in Role, NEW pipe \in Pipe, NEW limit \in Limit, Transfer(r, pipe, limit)
    PROVE  UsbInv'
<1>1. /\ r \in DOMAIN devices
      /\ UNCHANGED <<outside, files, interfaces, lists, winusb, step, search, outcome>>
    BY DEF Transfer
<1>2. CASE SetRefused(r, pipe, limit)
    BY <1>1, <1>2, SameHandles DEF SetRefused, outside, held, search, UsbInv, UsbTypeOK
<1>3. CASE limits' = [limits EXCEPT ![devices[r].path][pipe] = limit] /\ Remember(r, pipe, limit)
    <2> DEFINE path == devices[r].path
    <2>1. path \in Path /\ devices[r].limit \in [Pipe -> Limit \union {None}] /\ limits[path] \in [Pipe -> Limit \union {None}]
        BY <1>1 DEF UsbInv, UsbTypeOK
    <2>2. /\ DOMAIN devices' = DOMAIN devices
          /\ \A q \in DOMAIN devices : devices'[q].path = devices[q].path
          /\ \A q \in DOMAIN devices : q # r => devices'[q] = devices[q]
          /\ devices'[r].limit = [devices[r].limit EXCEPT ![pipe] = limit]
        BY <1>1, <1>3 DEF Remember, UsbInv, UsbTypeOK
    <2>3. UsbTypeOK'
        <3>1. limits' \in [Path -> [Pipe -> Limit \union {None}]]
            BY <1>3, <2>1 DEF UsbInv, UsbTypeOK
        <3>2. devices' \in [DOMAIN devices' -> [path: Path, limit: [Pipe -> Limit \union {None}]]]
            <4>1. devices \in [DOMAIN devices -> [path: Path, limit: [Pipe -> Limit \union {None}]]]
                BY DEF UsbInv, UsbTypeOK
            <4>2. [devices[r] EXCEPT !.limit = [devices[r].limit EXCEPT ![pipe] = limit]]
                     \in [path: Path, limit: [Pipe -> Limit \union {None}]]
                BY <1>1, <2>1, <4>1
            <4>3. devices' = [devices EXCEPT ![r] = [devices[r] EXCEPT !.limit = [devices[r].limit EXCEPT ![pipe] = limit]]]
                BY <1>3 DEF Remember
            <4> QED
                BY <1>1, <4>1, <4>2, <4>3
        <3> QED
            BY <1>1, <2>2, <3>1, <3>2 DEF UsbInv, UsbTypeOK, outside, search
    <2>4. HandlesAreOwned'
        <3>1. Owned' = Owned
            BY <2>2 DEF Owned
        <3>2. DevicesAreInStep'
            BY <1>1, <2>2 DEF UsbInv, HandlesAreOwned, DevicesAreInStep, search
        <3> QED
            BY <1>1, <3>1, <3>2 DEF UsbInv, HandlesAreOwned, search
    <2>5. TransfersAreTimed'
        <3> SUFFICES ASSUME NEW q \in DOMAIN devices', NEW p \in Pipe, devices'[q].limit[p] # None
                     PROVE  limits'[devices'[q].path][p] = devices'[q].limit[p]
            BY DEF TransfersAreTimed
        <3>1. q \in DOMAIN devices /\ devices[q].path \in Path /\ limits \in [Path -> [Pipe -> Limit \union {None}]]
            BY <2>2 DEF UsbInv, UsbTypeOK
        <3>2. CASE q = r /\ p = pipe
            BY <1>3, <2>1, <2>2, <3>1, <3>2
        <3>3. CASE q = r /\ p # pipe
            <4>1. devices'[q].limit[p] = devices[q].limit[p] /\ limits'[path][p] = limits[path][p]
                BY <1>3, <2>1, <2>2, <3>1, <3>3
            <4> QED
                BY <2>2, <3>1, <3>3, <4>1 DEF UsbInv, TransfersAreTimed
        <3>4. CASE q # r
            <4>1. devices[q].path # path
                BY <1>1, <3>1, <3>4, PathsDiffer
            <4>2. limits'[devices[q].path] = limits[devices[q].path] /\ devices'[q] = devices[q]
                BY <1>3, <2>1, <2>2, <3>1, <3>4, <4>1
            <4> QED
                BY <3>1, <4>2 DEF UsbInv, TransfersAreTimed
        <3> QED
            BY <3>2, <3>3, <3>4
    <2> QED
        BY <2>3, <2>4, <2>5 DEF UsbInv
<1> QED
    BY <1>2, <1>3 DEF Transfer

\* Every step keeps handles and limits in order.
LEMMA UsbIsKept ==
    ASSUME UsbInv, [UsbNext]_usbVars
    PROVE  UsbInv'
<1>1. CASE UNCHANGED usbVars
    BY <1>1, SameHandles DEF usbVars, outside, search, UsbInv, UsbTypeOK
<1>2. CASE Outside
    BY <1>2, SameHandles DEF Outside, Attach, Detach, ForeignTakes, ForeignLeaves, search, UsbInv, UsbTypeOK
<1>3. CASE CallRunning \/ NamesRead
    BY <1>3, RunningKeeps
<1>4. CASE CallOpen
    BY <1>4, CallOpenKeeps
<1>5. CASE CallGoesOn
    BY <1>5, RunningKeeps, ListMadeKeeps, WalkKeeps, LibraryKeeps, CreateFileKeeps, InitializedKeeps, NotInitializedKeeps,
       PipesKeeps, ConnectKeeps DEF CallGoesOn
<1>6. CASE Transfers
    <2>1. PICK r \in Role : (\E limit \in Wait : Transfer(r, "in", limit)) \/ Transfer(r, "out", Timeout)
        BY <1>6 DEF Transfers
    <2>2. Timeout \in Limit /\ Wait \subseteq Limit /\ "in" \in Pipe /\ "out" \in Pipe
        BY DEF Limit, Pipe
    <2> QED
        BY <2>1, <2>2, TransferKeeps
<1>7. CASE Dropped
    BY <1>7, DroppedKeeps
<1> QED
    BY <1>1, <1>2, <1>3, <1>4, <1>5, <1>6, <1>7 DEF UsbNext

\* At first nothing is held.
LEMMA UsbStarts == UsbInit => UsbInv
<1> SUFFICES ASSUME UsbInit PROVE UsbInv
    OBVIOUS
<1>1. UsbTypeOK
    BY DEF UsbInit, UsbTypeOK, NoDevice, NoLimit, Role
<1>2. HandlesAreOwned
    <2>1. DOMAIN devices = {} /\ Owned = {}
        BY DEF UsbInit, NoDevice, Owned
    <2> QED
        BY <2>1 DEF UsbInit, HandlesAreOwned, DevicesAreInStep
<1>3. TransfersAreTimed
    BY DEF UsbInit, TransfersAreTimed, NoDevice
<1> QED
    BY <1>1, <1>2, <1>3 DEF UsbInv

\* device.rs:100-150, 287-294; enumerate.rs:110-127; process.rs:20-31;
\* dongle.rs:216-248: at whatever call an error strikes, the handles open are
\* those of the devices there are, each once.
THEOREM HandlesCorrect == UsbSpec => []HandlesAreOwned
<1>1. UsbInv => HandlesAreOwned
    BY DEF UsbInv
<1> QED
    BY <1>1, UsbStarts, UsbIsKept, PTL DEF UsbSpec

\* device.rs:209-284: a limit a device remembers is the one its pipe has.
THEOREM TransfersCorrect == UsbSpec => []TransfersAreTimed
<1>1. UsbInv => TransfersAreTimed
    BY DEF UsbInv
<1> QED
    BY <1>1, UsbStarts, UsbIsKept, PTL DEF UsbSpec

-----------------------------------------------------------------------------
(* Hosts and worker over it.                                               *)

\* Every step of hosts and worker is a step of module Usb or leaves it alone.
LEMMA StepsAreUsb ==
    ASSUME [Next]_vars
    PROVE  [UsbNext]_usbVars
<1>1. CASE UNCHANGED vars
    BY <1>1 DEF vars
<1>2. CASE HostCalls
    BY <1>2 DEF HostCalls, LianliTakeLog, LianliOpen, OpenGoesOn, OpenRefused, Opened, LianliClose, Closed, UsbNext
<1>3. CASE WorkerSteps
    BY <1>3 DEF WorkerSteps, WorkerWrites, WorkerTransfers, WorkerReopens, WorkerEnds, UsbNext
<1>4. CASE Elsewhere
    BY <1>4 DEF Elsewhere, UsbNext
<1> QED
    BY <1>1, <1>2, <1>3, <1>4 DEF Next

-----------------------------------------------------------------------------
(* The log.                                                                *)

LogTypeOK ==
    /\ written \in Nat /\ taken \in 0 .. written
    /\ log \in Seq(Nat)

\* How many lines the log holds.
Kept == IF written - taken < Capacity THEN written - taken ELSE Capacity

LogInv == LogTypeOK /\ log = [i \in 1 .. Kept |-> written - Kept + i]

\* The lines in the log are numbered without a gap up to the newest.
LEMMA KeptType ==
    ASSUME LogInv
    PROVE  Kept \in Nat /\ Kept <= written /\ Len(log) = Kept /\ \A i \in 1 .. Kept : log[i] = written - Kept + i
BY InterfaceAssumption DEF LogInv, LogTypeOK, Kept

\* A new line pushes the oldest out of a full log.
LEMMA WriteKeepsLog ==
    ASSUME LogInv, WriteLine, taken' = taken
    PROVE  LogInv'
<1>1. Kept \in Nat /\ Kept <= written /\ Len(log) = Kept /\ \A i \in 1 .. Kept : log[i] = written - Kept + i
    BY KeptType
<1>2. written \in Nat /\ taken \in 0 .. written /\ log \in Seq(Nat) /\ written' = written + 1
    BY DEF LogInv, LogTypeOK, WriteLine
<1>3. CASE Kept < Capacity
    <2>1. Kept' = Kept + 1
        BY <1>1, <1>2, <1>3, InterfaceAssumption DEF Kept
    <2>2. log' = Append(log, written + 1)
        BY <1>1, <1>3, InterfaceAssumption DEF WriteLine, Pushed
    <2>3. log' \in Seq(Nat) /\ Len(log') = Kept + 1
        BY <1>1, <1>2, <2>2
    <2>4. \A i \in 1 .. Kept + 1 : log'[i] = written + 1 - (Kept + 1) + i
        BY <1>1, <1>2, <2>2
    <2>5. log' = [i \in 1 .. Kept' |-> written' - Kept' + i]
        BY <1>1, <1>2, <2>1, <2>3, <2>4
    <2> QED
        BY <1>2, <2>3, <2>5 DEF LogInv, LogTypeOK
<1>4. CASE ~(Kept < Capacity)
    <2>1. Kept = Capacity /\ Kept' = Capacity /\ Capacity \in Nat \ {0}
        BY <1>1, <1>2, <1>4, InterfaceAssumption DEF Kept
    <2>2. log' = Append(Tail(log), written + 1)
        BY <1>1, <2>1 DEF WriteLine, Pushed
    <2>3. Tail(log) \in Seq(Nat) /\ Len(Tail(log)) = Capacity - 1 /\ \A i \in 1 .. Capacity - 1 : Tail(log)[i] = log[i + 1]
        BY <1>1, <1>2, <2>1
    <2>4. log' \in Seq(Nat) /\ Len(log') = Capacity
        BY <1>2, <2>1, <2>2, <2>3
    <2>5. \A i \in 1 .. Capacity : log'[i] = written + 1 - Capacity + i
        <3> SUFFICES ASSUME NEW i \in 1 .. Capacity PROVE log'[i] = written + 1 - Capacity + i
            OBVIOUS
        <3>1. CASE i = Capacity
            BY <1>2, <2>1, <2>2, <2>3, <3>1
        <3>2. CASE i \in 1 .. Capacity - 1
            <4>1. log'[i] = Tail(log)[i]
                BY <2>2, <2>3, <3>2
            <4>2. Tail(log)[i] = log[i + 1] /\ i + 1 \in 1 .. Capacity
                BY <2>1, <2>3, <3>2
            <4> QED
                BY <1>1, <1>2, <2>1, <3>2, <4>1, <4>2
        <3> QED
            BY <2>1, <3>1, <3>2
    <2>6. log' = [i \in 1 .. Kept' |-> written' - Kept' + i]
        BY <1>2, <2>1, <2>4, <2>5
    <2> QED
        BY <1>2, <2>4, <2>6 DEF LogInv, LogTypeOK
<1> QED
    BY <1>3, <1>4

\* Taking a line takes the oldest.
LEMMA TakeKeepsLog ==
    ASSUME LogInv, LianliTakeLog
    PROVE  LogInv'
<1>1. Kept \in Nat /\ Kept <= written /\ Len(log) = Kept /\ \A i \in 1 .. Kept : log[i] = written - Kept + i
    BY KeptType
<1>2. written \in Nat /\ taken \in 0 .. written /\ log \in Seq(Nat) /\ written' = written
    BY DEF LogInv, LogTypeOK, LianliTakeLog
<1>3. Kept \in Nat \ {0} /\ log # <<>>
    BY <1>1, <1>2 DEF LianliTakeLog
<1>4. taken' = written - Kept + 1
    BY <1>1, <1>2, <1>3 DEF LianliTakeLog
<1>5. Kept' = Kept - 1
    BY <1>1, <1>2, <1>3, <1>4, InterfaceAssumption DEF Kept
<1>6. log' \in Seq(Nat) /\ Len(log') = Kept - 1 /\ \A i \in 1 .. Kept - 1 : log'[i] = log[i + 1]
    BY <1>1, <1>2, <1>3 DEF LianliTakeLog
<1>7. log' = [i \in 1 .. Kept' |-> written' - Kept' + i]
    BY <1>1, <1>2, <1>3, <1>5, <1>6
<1> QED
    BY <1>1, <1>2, <1>3, <1>4, <1>6, <1>7 DEF LogInv, LogTypeOK

\* A log that is made anew is empty.
LEMMA EmptyLog ==
    ASSUME log' = <<>>, written' = 0, taken' = 0
    PROVE  LogInv'
<1>1. Kept' = 0
    BY InterfaceAssumption DEF Kept
<1> QED
    BY <1>1 DEF LogInv, LogTypeOK

\* Every step keeps the log in order.
LEMMA LogIsKept ==
    ASSUME LogInv, [Next]_vars
    PROVE  LogInv'
<1>1. CASE UNCHANGED <<log, written, taken>>
    BY <1>1 DEF LogInv, LogTypeOK, Kept
<1>2. CASE WriteLine /\ taken' = taken
    BY <1>2, WriteKeepsLog
<1>3. CASE LianliTakeLog
    BY <1>3, TakeKeepsLog
<1>4. CASE Opened \/ Closed
    BY <1>4, EmptyLog DEF Opened, Closed
<1> QED
    BY <1>1, <1>2, <1>3, <1>4 DEF Next, HostCalls, WorkerSteps, Elsewhere, LianliOpen, OpenGoesOn, OpenRefused, LianliClose,
        WorkerWrites, WorkerTransfers, WorkerReopens, WorkerEnds, vars, clientVars

\* No line is there before the first.
LEMMA LogStarts == Init => LogInv
<1> SUFFICES ASSUME Init PROVE LogInv
    OBVIOUS
<1>1. log = <<>> /\ written = 0 /\ taken = 0 /\ Kept = 0
    BY InterfaceAssumption DEF Init, Kept
<1> QED
    BY <1>1 DEF LogInv, LogTypeOK

\* ffi.rs:158-169, 347-378: the log is the newest lines not yet taken, in order
\* and as many as fit.
THEOREM NewestCorrect == Spec => []NewestAreKept
<1>1. Init => LogInv
    BY LogStarts
<1>2. LogInv => NewestAreKept
    BY DEF LogInv, Kept, NewestAreKept
<1> QED
    BY <1>1, <1>2, LogIsKept, PTL DEF Spec

-----------------------------------------------------------------------------
(* The dongle.                                                             *)

ClientTypeOK ==
    /\ call \in {"none", "service", "dongle", "close"}
    /\ handle \in BOOLEAN /\ stop \in BOOLEAN
    /\ worker \in {"none", "running", "ended"}

ClientInv == UsbInv /\ ClientTypeOK /\ WorkerIsInCall

\* What a step of a call that goes on may change of what the host's call
\* depends on.
LEMMA CallGoesOnEffect ==
    ASSUME UsbInv, CallGoesOn \/ Outside \/ (step = "connect" /\ Transfers)
    PROVE  \/ UNCHANGED <<step, outcome>> /\ DOMAIN devices' = DOMAIN devices
           \/ step = "names" /\ step' = "idle" /\ devices' = devices
           \/ step \notin {"idle", "names"} /\ step' \notin {"idle", "names"}
           \/ step \notin {"idle", "names"} /\ step' = "idle" /\ (outcome' = "ok" <=> DOMAIN devices' # {})
<1>1. CASE Outside
    BY <1>1 DEF Outside, Attach, Detach, ForeignTakes, ForeignLeaves, held
<1>2. CASE Transfers
    BY <1>2 DEF Transfers, Transfer, SetRefused, Remember
<1>3. CASE NamesRead
    BY <1>3 DEF NamesRead, CallReturns, held
<1>4. ASSUME NEW also, OpenFails(also)
      PROVE  step' = "idle" /\ outcome' = "failed" /\ DOMAIN devices' = {}
    BY <1>4 DEF OpenFails, Close, CallReturns, NoDevice
<1>5. CASE Connect
    <2>1. step = "connect" /\ DOMAIN devices = Role
        BY <1>5 DEF Connect, UsbInv, HandlesAreOwned, DevicesAreInStep
    <2> QED
        BY <1>4, <1>5, <2>1 DEF Connect, CallReturns, held, Role
<1>6. CASE ListMade \/ Found \/ NotFound \/ Library \/ CreateFile \/ Initialized \/ NotInitialized \/ Pipes
    BY <1>4, <1>6 DEF ListMade, Found, NotFound, Library, CreateFile, Initialized, NotInitialized, Pipes
<1> QED
    BY <1>1, <1>2, <1>3, <1>5, <1>6 DEF CallGoesOn

\* Between calls there are both devices or none.
LEMMA IdleDevices ==
    ASSUME UsbInv, step \in {"idle", "names"}
    PROVE  DOMAIN devices = {} \/ DOMAIN devices = Role
BY DEF UsbInv, HandlesAreOwned, DevicesAreInStep

\* What a host calls agrees with the thread there is.
LEMMA HostCallsKeep ==
    ASSUME ClientInv, HostCalls
    PROVE  ClientTypeOK' /\ WorkerIsInCall'
<1>1. CASE LianliTakeLog
    BY <1>1 DEF LianliTakeLog, ClientInv, ClientTypeOK, WorkerIsInCall, usbVars, held, search
<1>2. CASE LianliOpen
    <2>1. devices' = devices /\ step = "idle" /\ step' \in {"idle", "names"} /\ call' = "service" /\ UNCHANGED <<handle, stop, worker>>
        BY <1>2 DEF LianliOpen, CallRunning, CallReturns, held
    <2>2. worker = "none" /\ ~handle /\ call = "none"
        BY <1>2 DEF LianliOpen, ClientInv, WorkerIsInCall
    <2> QED
        BY <2>1, <2>2 DEF ClientInv, ClientTypeOK, WorkerIsInCall
<1>3. CASE OpenGoesOn
    BY <1>3 DEF OpenGoesOn, CallOpen, ClientInv, ClientTypeOK, WorkerIsInCall
<1>4. CASE OpenRefused
    BY <1>4 DEF OpenRefused, ClientInv, ClientTypeOK, WorkerIsInCall, usbVars, held, search
<1>5. CASE Opened
    BY <1>5 DEF Opened, ClientInv, ClientTypeOK, WorkerIsInCall, usbVars, held, search
<1>6. CASE LianliClose
    BY <1>6 DEF LianliClose, ClientInv, ClientTypeOK, WorkerIsInCall, usbVars, held, search
<1>7. CASE Closed
    BY <1>7 DEF Closed, ClientInv, ClientTypeOK, WorkerIsInCall, usbVars, held, search
<1> QED
    BY <1>1, <1>2, <1>3, <1>4, <1>5, <1>6, <1>7 DEF HostCalls

\* So does what the thread does.
LEMMA WorkerStepsKeep ==
    ASSUME ClientInv, WorkerSteps
    PROVE  ClientTypeOK' /\ WorkerIsInCall'
<1>1. call \notin {"service", "dongle"} /\ worker = "running"
    BY DEF WorkerSteps, WorkerWrites, WorkerTransfers, WorkerReopens, WorkerEnds, ClientInv, WorkerIsInCall
<1>2. CASE WorkerWrites
    BY <1>1, <1>2 DEF WorkerWrites, ClientInv, ClientTypeOK, WorkerIsInCall, usbVars, held, search
<1>3. CASE WorkerTransfers
    <2>1. UNCHANGED <<step, outcome, clientVars>>
        BY <1>3 DEF WorkerTransfers, Transfers, Transfer
    <2> QED
        BY <1>1, <2>1 DEF ClientInv, ClientTypeOK, WorkerIsInCall, clientVars
<1>4. CASE WorkerReopens
    BY <1>1, <1>4 DEF WorkerReopens, CallOpen, ClientInv, ClientTypeOK, WorkerIsInCall, clientVars
<1>5. CASE WorkerEnds
    <2>1. call = "close" /\ step = "idle" /\ step' = "idle" /\ DOMAIN devices' = {} /\ worker' = "ended" /\ UNCHANGED <<call, handle, stop>>
        BY <1>1, <1>5 DEF WorkerEnds, Dropped, Close, NoDevice, ClientInv, ClientTypeOK, WorkerIsInCall
    <2> QED
        BY <2>1 DEF ClientInv, ClientTypeOK, WorkerIsInCall
<1> QED
    BY <1>2, <1>3, <1>4, <1>5 DEF WorkerSteps

\* Every step keeps handles, thread and calls in agreement.
LEMMA ClientIsKept ==
    ASSUME ClientInv, [Next]_vars
    PROVE  ClientInv'
<1>1. UsbInv'
    BY StepsAreUsb, UsbIsKept DEF ClientInv
<1>2. ClientTypeOK' /\ WorkerIsInCall'
    <2>1. CASE UNCHANGED vars
        BY <2>1 DEF vars, clientVars, usbVars, held, search, ClientInv, ClientTypeOK, WorkerIsInCall
    <2>2. CASE Elsewhere
        <3>1. UNCHANGED <<call, handle, stop, worker>>
            BY <2>2 DEF Elsewhere, clientVars
        <3>2. \/ UNCHANGED <<step, outcome>> /\ DOMAIN devices' = DOMAIN devices
              \/ step = "names" /\ step' = "idle" /\ devices' = devices
              \/ step \notin {"idle", "names"} /\ step' \notin {"idle", "names"}
              \/ step \notin {"idle", "names"} /\ step' = "idle" /\ (outcome' = "ok" <=> DOMAIN devices' # {})
            BY <2>2, CallGoesOnEffect DEF Elsewhere, ClientInv
        <3> QED
            BY <3>1, <3>2 DEF ClientInv, ClientTypeOK, WorkerIsInCall
    <2> QED
        BY <2>1, <2>2, HostCallsKeep, WorkerStepsKeep DEF Next
<1> QED
    BY <1>1, <1>2 DEF ClientInv

\* ffi.rs:196-247; engine.rs:798-806: a host without a handle holds nothing of
\* the dongles, whichever calls failed and wherever the worker was when the
\* host closed.
THEOREM DongleIsGivenBackCorrect == Spec => []DongleIsGivenBack
<1>1. Init => ClientInv
    <2> SUFFICES ASSUME Init PROVE ClientInv
        OBVIOUS
    <2>1. UsbInv
        BY UsbStarts DEF Init
    <2> QED
        BY <2>1 DEF Init, UsbInit, NoDevice, ClientInv, ClientTypeOK, WorkerIsInCall
<1>2. Init => LogInv
    BY LogStarts
<1>3. ClientInv /\ LogInv => DongleIsGivenBack
    <2> SUFFICES ASSUME ClientInv, LogInv PROVE DongleIsGivenBack
        OBVIOUS
    <2>1. InterfaceTypeOK /\ HandlesAreOwned /\ WorkerIsInCall
        BY DEF ClientInv, ClientTypeOK, UsbInv, LogInv, LogTypeOK, InterfaceTypeOK
    <2>2. ASSUME call = "none", ~handle
          PROVE  files = [p \in Path |-> 0] /\ interfaces = {} /\ lists = 0
        <3>1. worker = "none" /\ step = "idle" /\ DOMAIN devices = {}
            BY <2>1, <2>2 DEF WorkerIsInCall
        <3>2. Owned = {}
            BY <3>1 DEF Owned
        <3> QED
            BY <2>1, <3>1, <3>2 DEF HandlesAreOwned
    <2> QED
        BY <2>1, <2>2 DEF DongleIsGivenBack
<1> QED
    BY <1>1, <1>2, <1>3, ClientIsKept, LogIsKept, PTL DEF Spec

\* device.rs:209-284: the same holds of the limits devices remember, whoever
\* makes the calls.
THEOREM TransfersOfClients == Spec => []TransfersAreTimed
<1>1. Init => UsbInv
    BY UsbStarts DEF Init
<1>2. UsbInv /\ [Next]_vars => UsbInv'
    BY StepsAreUsb, UsbIsKept
<1>3. UsbInv => TransfersAreTimed
    BY DEF UsbInv
<1> QED
    BY <1>1, <1>2, <1>3, PTL DEF Spec
=============================================================================
