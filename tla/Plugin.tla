------------------------------- MODULE Plugin -------------------------------
(***************************************************************************)
(* The FanControl plugin: WirelessPlugin.cs with GroupMemory.cs.  Every    *)
(* call of the host runs under one lock, so a call is one step, except     *)
(* Initialize, which waits for the engine's first states: the engine goes  *)
(* on while it waits.  The host closes and reopens the plugin on every     *)
(* refresh, and may itself end at any time; the file stays.                *)
(*                                                                         *)
(* The engine is seen from outside: the groups its snapshot lists, each    *)
(* with its fans, and the requests it was handed.                          *)
(***************************************************************************)
EXTENDS Integers, FiniteSets, Functions

CONSTANTS
    Mac,
    FanCounts,  \* fans a group may have
    Values,     \* what a host may set a control to, in percent
    None

Groups == UNION {[s -> FanCounts] : s \in SUBSET Mac}

ASSUME PluginAssumption ==
    /\ FanCounts \subseteq 1 .. 4 /\ Values \subseteq Int
    /\ None \notin Values /\ None \notin Groups

VARIABLES
    pc,         \* "idle" or "waiting", in Initialize
    engine,     \* _engine is there
    hears,      \* the groups of the engine's snapshot now
    ticked,     \* the engine has ticked since its state was last read
    want,       \* what the engine was asked for, per group
    state,      \* _state.Groups
    lastCount,  \* lastCount of WaitForFirstState
    asked,      \* _asked
    loaded,     \* _loaded
    known,      \* GroupMemory._known, None before it is read
    file,       \* what can be read of its file
    controls    \* the groups the host has controls of

\* Kept by no code: what the host last said of each group, the groups the
\* present engine must have been asked for, the groups the host was ever
\* given, and whether the file was harmed since it was last written.
VARIABLES said, due, given, harmed

memoryVars == <<known, file, given, harmed>>
engineVars == <<hears, ticked>>
hostVars == <<asked, said, controls>>
vars == <<pc, engine, engineVars, want, state, lastCount, loaded, due, hostVars, memoryVars>>

Empty == [m \in {} |-> 0]

Clamped(value) == IF value < 0 THEN 0 ELSE IF value > 100 THEN 100 ELSE value

Overlay(f, g) == [m \in DOMAIN f \union DOMAIN g |-> IF m \in DOMAIN g THEN g[m] ELSE f[m]]

Init ==
    /\ pc = "idle" /\ engine = FALSE /\ loaded = FALSE
    /\ hears = Empty /\ ticked = FALSE
    /\ want = Empty /\ state = Empty /\ lastCount = -1
    /\ asked = Empty
    /\ known = None
    /\ file \in Groups
    /\ controls = {}
    /\ said = [m \in Mac |-> None]
    /\ due = {} /\ given = DOMAIN file /\ harmed = FALSE

-----------------------------------------------------------------------------
(* GroupMemory.                                                            *)

\* Loaded: read once, a file that cannot be read is an empty memory.
Loaded(readable) ==
    IF known # None THEN known ELSE IF readable THEN file ELSE Empty

\* What reading does to the groups owed to the host.
Owed(readable) == IF known # None \/ readable THEN given ELSE {}

\* The file is written when a group was added, but not for a changed count.
SaveAddedVariant(readable, memory) ==
    IF DOMAIN memory = DOMAIN Loaded(readable)
    THEN UNCHANGED file /\ harmed' = (harmed \/ ~(known # None \/ readable))
    ELSE file' = memory /\ harmed' = FALSE

\* Save, when something changed.  The file is written in place: a write that
\* fails may leave any part of it.
Save(readable, memory) ==
    IF memory = Loaded(readable)
    THEN UNCHANGED file /\ harmed' = (harmed \/ ~(known # None \/ readable))
    ELSE \/ file' = memory /\ harmed' = FALSE
         \/ /\ \E part \in SUBSET DOMAIN memory : file' \in {file, Restrict(memory, part)}
            /\ harmed' = TRUE

\* The groups heard now take the place of those remembered.
RememberHeardVariant(groups) ==
    \E readable \in BOOLEAN :
        /\ known' = groups
        /\ Save(readable, groups)
        /\ given' = Owed(readable)

\* Remember: groups are added, and a changed count is taken over.
Remember(groups) ==
    \E readable \in BOOLEAN : LET memory == Overlay(Loaded(readable), groups) IN
        /\ known' = memory
        /\ Save(readable, memory)
        /\ given' = Owed(readable)

-----------------------------------------------------------------------------
(* The engine and the file, from outside.                                  *)

EngineTicks ==
    /\ engine
    /\ hears' \in {g \in Groups : Cardinality({m \in Mac : (m \in DOMAIN g) # (m \in DOMAIN hears)}) <= 1}
    /\ ticked' = TRUE
    /\ UNCHANGED <<pc, engine, want, state, lastCount, loaded, due, hostVars, memoryVars>>

FileDeleted ==
    /\ file' = Empty
    /\ harmed' = TRUE
    /\ given' = {}
    /\ UNCHANGED <<pc, engine, engineVars, want, state, lastCount, loaded, due, hostVars, known>>

\* The host ends, without a call if it crashes.
HostRestarts ==
    /\ pc' = "idle" /\ engine' = FALSE /\ loaded' = FALSE
    /\ hears' = Empty /\ ticked' = FALSE
    /\ want' = Empty /\ state' = Empty /\ lastCount' = -1
    /\ asked' = Empty /\ said' = [m \in Mac |-> None] /\ controls' = {}
    /\ known' = None
    /\ due' = {}
    /\ given' = IF harmed THEN given \intersect DOMAIN file ELSE given
    /\ harmed' = FALSE
    /\ UNCHANGED file

-----------------------------------------------------------------------------
(* The calls of the host.                                                  *)

\* TearDown, without an engine nothing.
TearDown ==
    /\ hears' = Empty /\ ticked' = FALSE /\ want' = Empty
    /\ due' = {}
    /\ state' = IF engine THEN Empty ELSE state
    /\ loaded' = IF engine THEN FALSE ELSE loaded

InitializeOpens ==
    /\ pc = "idle"
    /\ TearDown
    /\ engine' = TRUE
    /\ lastCount' = -1
    /\ controls' = {}
    /\ pc' = "waiting"
    /\ UNCHANGED <<asked, said, memoryVars>>

\* A read that gives the wait another round: no tick, no group, or not as
\* many as before.
WaitOn ==
    /\ pc = "waiting"
    /\ state' = hears
    /\ ticked' = FALSE
    /\ IF ticked
       THEN lastCount' = Cardinality(DOMAIN hears)
       ELSE UNCHANGED lastCount
    /\ ~(ticked /\ DOMAIN hears # {} /\ Cardinality(DOMAIN hears) = lastCount)
    /\ IF loaded THEN Remember(hears) ELSE UNCHANGED memoryVars
    /\ UNCHANGED <<pc, engine, hears, want, loaded, due, hostVars>>

\* Before the wait, when no group is known yet.
ReapplyFirstVariant(groups) ==
    /\ want' = Empty
    /\ due' = DOMAIN groups

\* ReapplyAsked: the groups of the state get what was last asked for them.
ReapplyAsked(groups) ==
    /\ want' = [m \in DOMAIN asked \intersect DOMAIN groups |-> Clamped(asked[m])]
    /\ due' = DOMAIN groups

\* The same number of groups on two ticks, or the wait runs out.
WaitEnds ==
    /\ pc = "waiting"
    /\ \/ ticked /\ DOMAIN hears # {} /\ Cardinality(DOMAIN hears) = lastCount /\ state' = hears
       \/ UNCHANGED state
    /\ ticked' = FALSE
    /\ Remember(state')
    /\ ReapplyAsked(state')
    /\ lastCount' = -1
    /\ pc' = "idle"
    /\ UNCHANGED <<engine, hears, loaded, hostVars>>

\* A control for every group heard now or remembered, whether or not the
\* Initialize before it found an engine.
Load ==
    /\ pc = "idle"
    /\ \E readable \in BOOLEAN :
        /\ known' = Loaded(readable)
        /\ controls' = DOMAIN state \union DOMAIN Loaded(readable)
        /\ given' = Owed(readable) \union controls'
        /\ harmed' = (harmed \/ ~(known # None \/ readable))
    /\ loaded' = TRUE
    /\ UNCHANGED <<pc, engine, engineVars, want, state, lastCount, due, asked, said, file>>

\* Update, as the host calls it between Load and Close; a failed read keeps
\* the last state.
Update ==
    /\ pc = "idle" /\ engine /\ loaded
    /\ state' = hears
    /\ ticked' = FALSE
    /\ Remember(hears)
    /\ UNCHANGED <<pc, engine, hears, want, lastCount, loaded, due, hostVars>>

\* Close, and an Initialize whose engine does not open.
Close ==
    /\ pc = "idle"
    /\ TearDown
    /\ engine' = FALSE
    /\ controls' = {}
    /\ UNCHANGED <<pc, lastCount, asked, said, memoryVars>>

Ask(m, value) ==
    /\ pc = "idle" /\ m \in controls
    /\ asked' = Overlay(asked, [k \in {m} |-> value])
    /\ want' = IF engine THEN Overlay(want, [k \in {m} |-> Clamped(value)]) ELSE want
    /\ due' = IF engine THEN due \union {m} ELSE due
    /\ said' = [said EXCEPT ![m] = value]
    /\ UNCHANGED <<pc, engine, engineVars, state, lastCount, loaded, controls, memoryVars>>

\* What was asked for is kept for the next refresh.
KeepAskedVariant(m) ==
    /\ pc = "idle" /\ m \in controls
    /\ want' = Restrict(want, DOMAIN want \ {m})
    /\ said' = [said EXCEPT ![m] = None]
    /\ UNCHANGED <<pc, engine, engineVars, state, lastCount, loaded, due, asked, controls, memoryVars>>

Release(m) ==
    /\ pc = "idle" /\ m \in controls
    /\ asked' = Restrict(asked, DOMAIN asked \ {m})
    /\ want' = Restrict(want, DOMAIN want \ {m})
    /\ said' = [said EXCEPT ![m] = None]
    /\ UNCHANGED <<pc, engine, engineVars, state, lastCount, loaded, due, controls, memoryVars>>

-----------------------------------------------------------------------------

Outside == EngineTicks \/ FileDeleted \/ HostRestarts

Calls ==
    \/ InitializeOpens \/ WaitOn \/ WaitEnds
    \/ Load \/ Update \/ Close
    \/ \E m \in Mac : (\E value \in Values : Ask(m, value)) \/ Release(m)

Next == Outside \/ Calls

Spec == Init /\ [][Next]_vars

-----------------------------------------------------------------------------
(* Properties.                                                             *)

\* WirelessPlugin.cs:145-159, 256-290: whatever refreshes, failed openings and
\* releases lie between, the engine is never asked for anything but what the
\* host last said of a group, and for nothing once the host released it.
OnlyTheLastSaid ==
    \A m \in DOMAIN want : engine /\ said[m] # None /\ want[m] = Clamped(said[m])

\* WirelessPlugin.cs:145-159: a refresh loses no percentage of a group heard
\* at its end, and a request made since reaches the engine.
AskedIsHandedOver ==
    pc = "idle" /\ engine =>
        \A m \in due \intersect DOMAIN asked : m \in DOMAIN want /\ want[m] = Clamped(asked[m])

\* GroupMemory.cs:62-101: the file holds what is remembered, fan counts
\* included, unless it was harmed since it was last written.
FileHoldsMemory == known # None /\ ~harmed => file = known

\* GroupMemory.cs:9-21, WirelessPlugin.cs:204-235: every group the host was ever
\* given a control of gets one at every later load, in this run of the host or
\* another, as long as the file is read and written without failure and not
\* deleted; so the host's configuration never names a control that is missing.
GivenOnceGivenAlways == [][Load => given' \subseteq controls']_vars
=============================================================================
