---------------------------- MODULE PluginProofs ----------------------------
(***************************************************************************)
(* Theorems about the plugin, for any groups, fan counts and values: what  *)
(* the engine is asked for is what the host last said, and a control once  *)
(* given is given again.                                                   *)
(***************************************************************************)
EXTENDS Plugin, TLAPS

-----------------------------------------------------------------------------
(* Requests.                                                               *)

\* What is kept across refreshes is what the host last said; only a present
\* engine was asked for anything, and only for what is kept.
RequestInv ==
    /\ said \in [Mac -> Values \union {None}]
    /\ DOMAIN asked = {m \in Mac : said[m] # None}
    /\ \A m \in DOMAIN asked : asked[m] = said[m]
    /\ DOMAIN want \subseteq DOMAIN asked
    /\ \A m \in DOMAIN want : engine /\ want[m] = Clamped(asked[m])

\* And it was asked for all that is kept of the groups it must know about.
HandedInv == RequestInv /\ AskedIsHandedOver

\* A request.
LEMMA AskKeeps ==
    ASSUME HandedInv, NEW m \in Mac, NEW value \in Values, Ask(m, value)
    PROVE  HandedInv'
<1>1. /\ DOMAIN asked' = DOMAIN asked \union {m} /\ asked'[m] = value
      /\ \A k \in DOMAIN asked : k # m => asked'[k] = asked[k]
    BY DEF Ask, Overlay
<1>2. engine => /\ DOMAIN want' = DOMAIN want \union {m} /\ want'[m] = Clamped(value)
                /\ \A k \in DOMAIN want : k # m => want'[k] = want[k]
    BY DEF Ask, Overlay
<1>3. said' = [said EXCEPT ![m] = value] /\ value # None /\ engine' = engine /\ pc' = pc
    BY PluginAssumption DEF Ask
<1>4. ~engine => want' = want /\ DOMAIN want = {} /\ due' = due
    BY DEF Ask, HandedInv, RequestInv
<1>5. engine => due' = due \union {m}
    BY DEF Ask
<1>6. RequestInv'
    <2>1. said' \in [Mac -> Values \union {None}] /\ said'[m] = value /\ \A k \in Mac : k # m => said'[k] = said[k]
        BY <1>3 DEF HandedInv, RequestInv
    <2>2. DOMAIN asked' = {k \in Mac : said'[k] # None} /\ \A k \in DOMAIN asked' : asked'[k] = said'[k]
        BY <1>1, <1>3, <2>1 DEF HandedInv, RequestInv
    <2>3. CASE engine
        BY <1>1, <1>2, <1>3, <2>1, <2>2, <2>3 DEF HandedInv, RequestInv
    <2>4. CASE ~engine
        BY <1>1, <1>3, <1>4, <2>1, <2>2, <2>4 DEF HandedInv, RequestInv
    <2> QED
        BY <2>3, <2>4
<1>7. AskedIsHandedOver'
    <2>1. CASE engine
        BY <1>1, <1>2, <1>3, <1>5, <2>1 DEF HandedInv, AskedIsHandedOver, Ask
    <2>2. CASE ~engine
        BY <1>3, <2>2 DEF AskedIsHandedOver
    <2> QED
        BY <2>1, <2>2
<1> QED
    BY <1>6, <1>7 DEF HandedInv

\* A reset.
LEMMA ReleaseKeeps ==
    ASSUME HandedInv, NEW m \in Mac, Release(m)
    PROVE  HandedInv'
<1>1. /\ DOMAIN asked' = DOMAIN asked \ {m} /\ \A k \in DOMAIN asked' : asked'[k] = asked[k]
      /\ DOMAIN want' = DOMAIN want \ {m} /\ \A k \in DOMAIN want' : want'[k] = want[k]
    BY DEF Release, Restrict
<1>2. said' = [said EXCEPT ![m] = None] /\ UNCHANGED <<engine, pc, due>>
    BY DEF Release
<1> QED
    BY <1>1, <1>2 DEF HandedInv, RequestInv, AskedIsHandedOver

\* The end of the wait asks a fresh engine for what is kept.
LEMMA WaitEndsKeeps ==
    ASSUME HandedInv, engine, WaitEnds
    PROVE  HandedInv'
<1>1. /\ want' = [m \in DOMAIN asked \intersect DOMAIN state' |-> Clamped(asked[m])]
      /\ due' = DOMAIN state'
      /\ UNCHANGED <<engine, asked, said>>
    BY DEF WaitEnds, ReapplyAsked, hostVars
<1> QED
    BY <1>1 DEF HandedInv, RequestInv, AskedIsHandedOver

\* Without an engine nothing has been asked of it.
LEMMA NothingAsked ==
    ASSUME HandedInv, want' = Empty, due' = {}, UNCHANGED <<asked, said>>
    PROVE  HandedInv'
BY DEF HandedInv, RequestInv, AskedIsHandedOver, Empty

\* Every step keeps requests in order.
LEMMA HandedIsKept ==
    ASSUME HandedInv, pc = "waiting" => engine, [Next]_vars
    PROVE  HandedInv'
<1>1. CASE UNCHANGED <<asked, said, want, due, engine, pc>>
    BY <1>1 DEF HandedInv, RequestInv, AskedIsHandedOver
<1>2. CASE HostRestarts
    <2>1. want' = Empty /\ due' = {} /\ asked' = Empty /\ said' = [m \in Mac |-> None]
        BY <1>2 DEF HostRestarts
    <2> QED
        BY <2>1 DEF HandedInv, RequestInv, AskedIsHandedOver, Empty
<1>3. CASE InitializeOpens \/ Close
    BY <1>3, NothingAsked DEF InitializeOpens, Close, TearDown
<1>4. CASE WaitEnds
    BY <1>4, WaitEndsKeeps DEF WaitEnds
<1>5. CASE \E m \in Mac : (\E value \in Values : Ask(m, value)) \/ Release(m)
    BY <1>5, AskKeeps, ReleaseKeeps
<1>6. CASE EngineTicks \/ FileDeleted \/ WaitOn \/ Load \/ Update
    BY <1>1, <1>6 DEF EngineTicks, FileDeleted, WaitOn, Load, Update, hostVars
<1> QED
    BY <1>1, <1>2, <1>3, <1>4, <1>5, <1>6 DEF Next, Outside, Calls, vars, hostVars

\* So they are in order at all times.
LEMMA RequestsAlways == Spec => [](HandedInv /\ (pc = "waiting" => engine))
<1>1. Init => HandedInv /\ (pc = "waiting" => engine)
    BY DEF Init, HandedInv, RequestInv, AskedIsHandedOver, Empty
<1>2. (pc = "waiting" => engine) /\ [Next]_vars => (pc = "waiting" => engine)'
    BY DEF Next, Outside, Calls, EngineTicks, FileDeleted, HostRestarts, InitializeOpens, WaitOn, WaitEnds, Load, Update,
       Close, Ask, Release, vars
<1> QED
    BY <1>1, <1>2, HandedIsKept, PTL DEF Spec

\* WirelessPlugin.cs:145-159, 256-290: the engine is asked for what the host
\* last said and not released, and nothing else.
THEOREM OnlyTheLastSaidCorrect == Spec => []OnlyTheLastSaid
<1>1. HandedInv => OnlyTheLastSaid
    BY DEF HandedInv, RequestInv, OnlyTheLastSaid
<1> QED
    BY <1>1, RequestsAlways, PTL

\* WirelessPlugin.cs:145-159: no percentage asked of a group that the refresh
\* heard is lost by it.
THEOREM AskedIsHandedOverCorrect == Spec => []AskedIsHandedOver
<1>1. HandedInv => AskedIsHandedOver
    BY DEF HandedInv
<1> QED
    BY <1>1, RequestsAlways, PTL

-----------------------------------------------------------------------------
(* The memory.                                                             *)

\* What the host was given is in memory, or in the file before it is read; and
\* between calls every group shown is in memory.
MemoryInv ==
    /\ file \in Groups /\ known \in Groups \union {None}
    /\ hears \in Groups /\ state \in Groups
    /\ FileHoldsMemory
    /\ given \subseteq IF known # None THEN DOMAIN known ELSE DOMAIN file
    /\ pc = "idle" => DOMAIN state \subseteq IF known # None THEN DOMAIN known ELSE {}

\* No groups are groups.
LEMMA EmptyIsGroups == Empty \in Groups /\ DOMAIN Empty = {}
BY DEF Empty, Groups

\* So are groups with others added.
LEMMA OverlayType ==
    ASSUME NEW f \in Groups, NEW g \in Groups
    PROVE  Overlay(f, g) \in Groups /\ DOMAIN Overlay(f, g) = DOMAIN f \union DOMAIN g
<1>1. DOMAIN f \subseteq Mac /\ f \in [DOMAIN f -> FanCounts] /\ DOMAIN g \subseteq Mac /\ g \in [DOMAIN g -> FanCounts]
    BY DEF Groups
<1>2. Overlay(f, g) \in [DOMAIN f \union DOMAIN g -> FanCounts]
    BY <1>1 DEF Overlay
<1> QED
    BY <1>1, <1>2 DEF Groups, Overlay

\* And a part of them.
LEMMA RestrictType ==
    ASSUME NEW f \in Groups, NEW part \in SUBSET DOMAIN f
    PROVE  Restrict(f, part) \in Groups
<1>1. part \in SUBSET Mac /\ Restrict(f, part) \in [part -> FanCounts]
    BY DEF Groups, Restrict
<1> QED
    BY <1>1 DEF Groups

\* Remembering groups keeps file, memory and what is owed in agreement, and the
\* groups are in memory.
LEMMA RememberKeeps ==
    ASSUME MemoryInv, NEW groups \in Groups, Remember(groups)
    PROVE  /\ file' \in Groups /\ known' \in Groups /\ known' # None
           /\ FileHoldsMemory'
           /\ given' \subseteq DOMAIN known'
           /\ DOMAIN groups \subseteq DOMAIN known'
           /\ known # None => DOMAIN known \subseteq DOMAIN known'
<1>1. PICK readable \in BOOLEAN :
          /\ known' = Overlay(Loaded(readable), groups)
          /\ Save(readable, Overlay(Loaded(readable), groups))
          /\ given' = Owed(readable)
    BY DEF Remember
<1> DEFINE memory == Overlay(Loaded(readable), groups)
<1>2. Loaded(readable) \in Groups
    BY EmptyIsGroups DEF Loaded, MemoryInv
<1>3. memory \in Groups /\ DOMAIN memory = DOMAIN Loaded(readable) \union DOMAIN groups
    BY <1>2, OverlayType
<1>4. memory # None
    BY <1>3, PluginAssumption
<1>5. given' \subseteq DOMAIN Loaded(readable)
    BY <1>1 DEF Owed, Loaded, MemoryInv
<1>6. file' \in Groups /\ (~harmed' => file' = memory)
    <2>1. CASE memory = Loaded(readable)
        <3>1. file' = file /\ harmed' = (harmed \/ ~(known # None \/ readable))
            BY <1>1, <2>1 DEF Save
        <3>2. ~harmed' => Loaded(readable) = file
            BY <3>1 DEF Loaded, MemoryInv, FileHoldsMemory
        <3> QED
            BY <2>1, <3>1, <3>2 DEF MemoryInv
    <2>2. CASE memory # Loaded(readable)
        <3>1. \/ file' = memory /\ harmed' = FALSE
              \/ (\E part \in SUBSET DOMAIN memory : file' \in {file, Restrict(memory, part)}) /\ harmed' = TRUE
            BY <1>1, <2>2 DEF Save
        <3> QED
            BY <1>3, <3>1, RestrictType DEF MemoryInv
    <2> QED
        BY <2>1, <2>2
<1>7. known # None => DOMAIN known \subseteq DOMAIN memory
    BY <1>3 DEF Loaded
<1> QED
    BY <1>1, <1>3, <1>4, <1>5, <1>6, <1>7 DEF FileHoldsMemory

\* A load gives a control for each group it owes one.
LEMMA LoadKeeps ==
    ASSUME MemoryInv, Load
    PROVE  MemoryInv' /\ given' \subseteq controls'
<1>1. PICK readable \in BOOLEAN :
          /\ known' = Loaded(readable)
          /\ controls' = DOMAIN state \union DOMAIN Loaded(readable)
          /\ given' = Owed(readable) \union controls'
          /\ harmed' = (harmed \/ ~(known # None \/ readable))
    BY DEF Load
<1>2. Loaded(readable) \in Groups /\ Loaded(readable) # None
    BY EmptyIsGroups, PluginAssumption DEF Loaded, MemoryInv
<1>3. Owed(readable) \subseteq DOMAIN Loaded(readable)
    BY DEF Owed, Loaded, MemoryInv
<1>4. DOMAIN state \subseteq DOMAIN Loaded(readable)
    BY DEF Load, Loaded, MemoryInv
<1>5. ~harmed' => file = Loaded(readable)
    BY <1>1 DEF Loaded, MemoryInv, FileHoldsMemory
<1>6. UNCHANGED <<file, hears, state, pc>>
    BY DEF Load, engineVars
<1> QED
    BY <1>1, <1>2, <1>3, <1>4, <1>5, <1>6 DEF MemoryInv, FileHoldsMemory

\* Every step keeps file and memory in order.
LEMMA MemoryIsKept ==
    ASSUME MemoryInv, [Next]_vars
    PROVE  MemoryInv' /\ (Load => given' \subseteq controls')
<1>1. CASE UNCHANGED memoryVars /\ hears' \in Groups /\ UNCHANGED <<state, pc>> /\ ~Load
    BY <1>1 DEF memoryVars, MemoryInv, FileHoldsMemory
<1>2. CASE FileDeleted /\ ~Load
    BY <1>2, EmptyIsGroups DEF FileDeleted, engineVars, MemoryInv, FileHoldsMemory
<1>3. CASE HostRestarts /\ ~Load
    BY <1>3, EmptyIsGroups DEF HostRestarts, MemoryInv, FileHoldsMemory
<1>4. CASE (InitializeOpens \/ Close) /\ ~Load
    <2>1. /\ UNCHANGED memoryVars /\ hears' = Empty /\ (state' = state \/ state' = Empty)
          /\ pc' = "idle" => pc = "idle"
        BY <1>4 DEF InitializeOpens, Close, TearDown
    <2>2. state' \in Groups /\ hears' \in Groups /\ DOMAIN state' \subseteq DOMAIN state
        BY <2>1, EmptyIsGroups DEF MemoryInv
    <2> QED
        BY <1>4, <2>1, <2>2 DEF memoryVars, MemoryInv, FileHoldsMemory
<1>5. CASE WaitOn /\ ~Load
    <2>1. state' = hears /\ pc' = "waiting" /\ hears' = hears /\ hears \in Groups
        BY <1>5 DEF WaitOn, MemoryInv
    <2>2. CASE Remember(hears)
        BY <1>5, <2>1, <2>2, RememberKeeps DEF MemoryInv
    <2>3. CASE UNCHANGED memoryVars
        BY <1>5, <2>1, <2>3 DEF memoryVars, MemoryInv, FileHoldsMemory
    <2> QED
        BY <1>5, <2>2, <2>3 DEF WaitOn
<1>6. CASE (WaitEnds \/ Update) /\ ~Load
    <2>1. state' \in Groups /\ hears' = hears /\ Remember(state')
        BY <1>6 DEF WaitEnds, Update, MemoryInv
    <2> QED
        BY <1>6, <2>1, RememberKeeps DEF MemoryInv
<1>7. CASE Load
    BY <1>7, LoadKeeps
<1>8. CASE EngineTicks \/ \E m \in Mac : (\E value \in Values : Ask(m, value)) \/ Release(m)
    <2>1. UNCHANGED memoryVars /\ hears' \in Groups /\ UNCHANGED <<state, pc>>
        BY <1>8 DEF EngineTicks, Ask, Release, engineVars, MemoryInv
    <2> QED
        BY <1>1, <1>7, <2>1
<1>9. CASE UNCHANGED vars /\ ~Load
    BY <1>1, <1>9 DEF vars, engineVars, MemoryInv
<1> QED
    BY <1>2, <1>3, <1>4, <1>5, <1>6, <1>7, <1>8, <1>9 DEF Next, Outside, Calls

\* So they are in order at all times.
LEMMA MemoryAlways == Spec => []MemoryInv
<1>1. Init => MemoryInv
    BY EmptyIsGroups DEF Init, MemoryInv, FileHoldsMemory
<1>2. MemoryInv /\ [Next]_vars => MemoryInv'
    BY MemoryIsKept
<1> QED
    BY <1>1, <1>2, PTL DEF Spec

\* GroupMemory.cs:62-101: file and memory agree unless the file was harmed.
THEOREM FileCorrect == Spec => []FileHoldsMemory
<1>1. MemoryInv => FileHoldsMemory
    BY DEF MemoryInv
<1> QED
    BY <1>1, MemoryAlways, PTL

\* GroupMemory.cs:9-21, WirelessPlugin.cs:204-235: a group the host was once
\* given a control of is among the controls of every later load.
THEOREM GivenCorrect == Spec => GivenOnceGivenAlways
<1>1. MemoryInv /\ [Next]_vars => [Load => given' \subseteq controls']_vars
    BY MemoryIsKept
<1> QED
    BY <1>1, MemoryAlways, PTL DEF Spec, GivenOnceGivenAlways
=============================================================================
