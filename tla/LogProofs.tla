----------------------------- MODULE LogProofs -----------------------------
(***************************************************************************)
(* Theorems about ticks and log lines, for any length of a tick, any       *)
(* lateness shorter than one, any limits and any number of groups: no two  *)
(* heartbeats in a row are passed over, and lines tell what happened,      *)
(* wholly, and no oftener than they may.                                   *)
(***************************************************************************)
EXTENDS Log, TLAPS

-----------------------------------------------------------------------------
(* Heartbeats.                                                             *)

\* The last heartbeat is so old that another gap makes it due.
OneGapToGo == beat # None => beat >= Interval \/ beat >= Tick - Late + behind

\* A start that passed a heartbeat over was late after one that was not.
CadenceInv ==
    /\ behind \in 0 .. Late
    /\ beat \in 0 .. Interval \union {None}
    /\ skipped \in 0 .. 1
    /\ step = "heartbeat" /\ skipped = 0 => OneGapToGo
    /\ step = "heartbeat" /\ skipped = 1 => BeatDue
    /\ step # "heartbeat" /\ skipped = 1 => OneGapToGo

\* A gap is never shorter than a tick less the lateness of its start.
LEMMA GapIsLong ==
    ASSUME NEW b \in Int, behind = b, NEW work \in Nat, NEW late \in Nat
    PROVE  Gap(work, late) \in Int /\ Gap(work, late) >= Tick - b + late
BY CadenceAssumption DEF Gap

\* The work of a tick leaves the time of its start alone.
LEMMA WorkKeepsCadence ==
    ASSUME CadenceInv, step # "heartbeat", step' # "heartbeat",
           Forget \/ UNCHANGED <<behind, beat, skipped>>
    PROVE  CadenceInv'
<1>1. CASE Forget
    BY <1>1 DEF CadenceInv, Forget, OneGapToGo
<1>2. CASE UNCHANGED <<behind, beat, skipped>>
    BY <1>2 DEF CadenceInv, OneGapToGo
<1> QED
    BY <1>1, <1>2

\* So does a heartbeat, sent, refused or passed over.
LEMMA HeartbeatKeepsCadence ==
    ASSUME CadenceInv, HeartbeatSent \/ HeartbeatRefused \/ HeartbeatTooSoon
    PROVE  CadenceInv'
<1>1. CASE HeartbeatSent
    BY <1>1, CadenceAssumption DEF CadenceInv, HeartbeatSent, OneGapToGo
<1>2. CASE HeartbeatRefused
    BY <1>2, CadenceAssumption DEF CadenceInv, HeartbeatRefused, OneGapToGo
<1>3. CASE HeartbeatTooSoon
    <2>1. skipped = 0 /\ skipped' = 1
        BY <1>3 DEF CadenceInv, HeartbeatTooSoon
    <2> QED
        BY <1>3, <2>1 DEF CadenceInv, HeartbeatTooSoon, OneGapToGo
<1> QED
    BY <1>1, <1>2, <1>3

\* After a sleep a heartbeat is due, or will be after the next.
LEMMA SleepKeepsCadence ==
    ASSUME CadenceInv, step = "sleep", NEW work \in Work, NEW late \in 0 .. Late, Sleep(work, late)
    PROVE  CadenceInv'
<1>1. work \in Nat /\ late \in Nat /\ behind \in Int
    BY CadenceAssumption DEF CadenceInv
<1>2. Gap(work, late) \in Int /\ Gap(work, late) >= Tick - behind + late
    BY <1>1, GapIsLong
<1>3. CASE beat = None
    BY <1>3 DEF Sleep, CadenceInv, OneGapToGo, BeatDue
<1>4. CASE beat # None
    <2>1. beat \in 0 .. Interval /\ beat' = AtMost(Interval, beat + Gap(work, late))
        BY <1>4 DEF Sleep, CadenceInv
    <2> DEFINE gap == Gap(work, late)
    <2>2. gap \in Int /\ gap >= Tick - behind + late /\ behind \in 0 .. Late
        BY <1>2 DEF CadenceInv
    <2>3. beat' \in 0 .. Interval /\ (beat' >= Interval \/ beat' >= Tick - Late + late)
        BY <2>1, <2>2, CadenceAssumption DEF AtMost
    <2>4. skipped = 1 => beat' >= Interval
        <3>1. skipped = 1 => beat >= Interval \/ beat >= Tick - Late + behind
            BY <1>4 DEF CadenceInv, OneGapToGo
        <3> QED
            BY <2>1, <2>2, <3>1, CadenceAssumption DEF AtMost
    <2>5. behind' = late /\ step' = "heartbeat" /\ skipped' = skipped
        BY DEF Sleep
    <2> QED
        BY <2>3, <2>4, <2>5 DEF CadenceInv, OneGapToGo, BeatDue
<1> QED
    BY <1>3, <1>4

\* Every step of the log keeps the cadence.
LEMMA CadenceIsKept ==
    ASSUME CadenceInv, [Next]_vars
    PROVE  CadenceInv'
<1>1. CASE UNCHANGED cadenceVars
    BY <1>1 DEF CadenceInv, cadenceVars, OneGapToGo, BeatDue
<1>2. CASE Heartbeat
    BY <1>2, HeartbeatKeepsCadence DEF Heartbeat
<1>3. CASE PollReceiver \/ SameTargets \/ Flush \/ Stop \/ \E m \in Mac, new \in Target : SetTarget(m, new)
    BY <1>3, WorkKeepsCadence DEF PollReceiver, SameTargets, Flush, Stop, SetTarget
<1>4. CASE Recover
    BY <1>4, WorkKeepsCadence DEF Recover
<1>5. CASE \E work \in Work, late \in 0 .. Late : SleepOn(work, late)
    BY <1>5, SleepKeepsCadence DEF SleepOn
<1>6. CASE \E m \in Mac : Release(m)
    BY <1>1, <1>6 DEF Release
<1> QED
    BY <1>1, <1>2, <1>3, <1>4, <1>5, <1>6 DEF Next, Worker, vars

\* engine.rs:259-264, 750-766: however late sleeps end, a heartbeat is never
\* passed over by two starts in a row.
THEOREM SkipsCorrect == Spec => []SkipsAreSingle
<1>1. LogInit => CadenceInv
    BY CadenceAssumption DEF LogInit, CadenceInit, CadenceInv, OneGapToGo
<1>2. CadenceInv => SkipsAreSingle
    BY DEF CadenceInv, SkipsAreSingle
<1> QED
    BY <1>1, <1>2, CadenceIsKept, PTL DEF Spec

-----------------------------------------------------------------------------
(* Lines.                                                                  *)

HistoryTypeOK ==
    /\ untold \in [Subject -> Nat]
    /\ shown \in [Mac -> Target \union {None}]
    /\ quiet \in [Mac -> 0 .. ChangeEvery \union {None}]

\* The time a group was quiet is the age of its entry, so a line that waits
\* for the one waits for the other.
QuietIsAge == \A m \in Mac : quiet[m] # None => m \in DOMAIN changes /\ quiet[m] = changes[m].age

LogInv == LinesAreTrue /\ HistoryTypeOK /\ QuietIsAge

\* Texts and groups are told apart, and neither is None.
LEMMA SubjectsDiffer ==
    /\ Message \subseteq Subject /\ Mac \subseteq Subject
    /\ \A f \in Message : f \notin Mac /\ f # None
    /\ \A m \in Mac : m \notin Message /\ m # None
BY LogAssumption DEF Subject

\* The log starts empty.
LEMMA LogStarts == LogInit => LogInv
<1> SUFFICES ASSUME LogInit PROVE LogInv
    OBVIOUS
<1>1. LogTypeOK
    BY LogAssumption DEF LogInit, CadenceInit, LogTypeOK, NoEntry
<1>2. HeldIsUntold
    BY SubjectsDiffer DEF LogInit, HeldIsUntold, NoEntry
<1>3. LastLineIsTarget
    BY DEF LogInit, LastLineIsTarget
<1>4. HistoryTypeOK /\ QuietIsAge
    BY LogAssumption DEF LogInit, HistoryTypeOK, QuietIsAge
<1> QED
    BY <1>1, <1>2, <1>3, <1>4 DEF LogInv, LinesAreTrue

\* A failure, told or held back.
LEMMA FailKeepsLog ==
    ASSUME LogInv, NEW message \in Message, Fail(message), UNCHANGED <<changes, target>>,
           step' \in {"poll", "drive"}
    PROVE  LogInv'
<1>1. message \in Subject /\ message \notin Mac /\ message # None
    BY SubjectsDiffer
<1> DEFINE entry == failures[message]
<1>2. message \in DOMAIN failures => entry \in [age: 0 .. RepeatEvery, held: Nat] /\ untold[message] = entry.held
    BY DEF LogInv, LinesAreTrue, LogTypeOK, HeldIsUntold
<1>3. message \notin DOMAIN failures => untold[message] = 0
    BY DEF LogInv, LinesAreTrue, HeldIsUntold
<1>4. PICK new \in [age: 0 .. RepeatEvery, held: Nat], written \in SUBSET {Line(message, n, None) : n \in Nat} :
          /\ failures' = Put(failures, message, new)
          /\ Tell(message, written)
          /\ new.held = IF written = {} THEN untold[message] + 1 ELSE 0
    <2>1. CASE message \notin DOMAIN failures
        <3>1. Put(failures, message, [age |-> 0, held |-> 0]) = failures' /\ Tell(message, {Line(message, 1, None)})
            BY <2>1 DEF Fail, FailAgain, FailFirst
        <3>2. {Line(message, 1, None)} \in SUBSET {Line(message, n, None) : n \in Nat}
            OBVIOUS
        <3>3. [age |-> 0, held |-> 0] \in [age: 0 .. RepeatEvery, held: Nat]
            BY LogAssumption
        <3> QED
            BY <3>1, <3>2, <3>3
    <2>2. CASE message \in DOMAIN failures /\ entry.age >= RepeatEvery
        <3>1. Put(failures, message, [age |-> 0, held |-> 0]) = failures' /\ Tell(message, {Line(message, entry.held + 1, None)})
            BY <2>2 DEF Fail, FailAgain, FailFirst
        <3>2. {Line(message, entry.held + 1, None)} \in SUBSET {Line(message, n, None) : n \in Nat}
            BY <1>2, <2>2
        <3>3. [age |-> 0, held |-> 0] \in [age: 0 .. RepeatEvery, held: Nat]
            BY LogAssumption
        <3> QED
            BY <3>1, <3>2, <3>3
    <2>3. CASE message \in DOMAIN failures /\ ~(entry.age >= RepeatEvery)
        <3>1. Put(failures, message, [entry EXCEPT !.held = @ + 1]) = failures' /\ Tell(message, {})
            BY <2>3 DEF Fail, FailAgain, FailFirst
        <3>2. [entry EXCEPT !.held = @ + 1] \in [age: 0 .. RepeatEvery, held: Nat]
              /\ [entry EXCEPT !.held = @ + 1].held = untold[message] + 1
            BY <1>2, <2>3
        <3> QED
            BY <3>1, <3>2
    <2> QED
        BY <2>1, <2>2, <2>3
<1>5. \A l \in written : l.of = message
    BY DEF Line
<1>6. {l.of : l \in written} = IF written = {} THEN {} ELSE {message}
    BY <1>5
<1>7. /\ untold' = [untold EXCEPT ![message] = new.held]
      /\ quiet' = quiet /\ shown' = shown
    <2>1. untold[message] \in Nat /\ untold \in [Subject -> Nat]
        BY <1>1 DEF LogInv, HistoryTypeOK
    <2>2. untold' = [untold EXCEPT ![message] = new.held]
        <3>1. CASE written = {}
            <4>1. untold' = [s \in Subject |-> untold[s] + IF s = message THEN 1 ELSE 0]
                BY <1>4, <1>6, <3>1 DEF Tell
            <4>2. \A s \in Subject : untold[s] \in Nat
                BY <2>1
            <4>3. new.held = untold[message] + 1
                BY <1>4, <3>1
            <4>4. untold' = [s \in Subject |-> IF s = message THEN new.held ELSE untold[s]]
                BY <4>1, <4>2, <4>3
            <4> QED
                BY <2>1, <4>4
        <3>2. CASE written # {}
            <4>1. untold' = [s \in Subject |-> IF s = message THEN 0 ELSE untold[s] + 0]
                BY <1>4, <1>6, <3>2 DEF Tell
            <4>2. \A s \in Subject : untold[s] \in Nat
                BY <2>1
            <4>3. new.held = 0
                BY <1>4, <3>2
            <4>4. untold' = [s \in Subject |-> IF s = message THEN new.held ELSE untold[s]]
                BY <4>1, <4>2, <4>3
            <4> QED
                BY <2>1, <4>4
        <3> QED
            BY <3>1, <3>2
    <2>3. quiet' = quiet /\ shown' = shown
        BY <1>1, <1>4, <1>6 DEF Tell, LogInv, HistoryTypeOK
    <2> QED
        BY <2>2, <2>3
<1>8. LogTypeOK'
    <2>1. DOMAIN failures' = DOMAIN failures \union {message}
          /\ failures' \in [DOMAIN failures' -> [age: 0 .. RepeatEvery, held: Nat]]
        BY <1>4 DEF Put, LogInv, LinesAreTrue, LogTypeOK
    <2> QED
        BY <2>1 DEF LogInv, LinesAreTrue, LogTypeOK
<1>9. HeldIsUntold'
    BY <1>1, <1>4, <1>7, SubjectsDiffer DEF Put, LogInv, LinesAreTrue, HeldIsUntold, HistoryTypeOK
<1>10. LastLineIsTarget' /\ QuietIsAge'
    BY <1>7 DEF LogInv, LinesAreTrue, LastLineIsTarget, QuietIsAge
<1>11. HistoryTypeOK'
    BY <1>1, <1>4, <1>7 DEF LogInv, HistoryTypeOK
<1> QED
    BY <1>8, <1>9, <1>10, <1>11 DEF LogInv, LinesAreTrue

\* A group whose target stays, or is given up.
LEMMA SameKeepsLog ==
    ASSUME LogInv, UNCHANGED <<failures, changes>>, Untold,
           UNCHANGED target \/ \E m \in Mac : target' = [target EXCEPT ![m] = None],
           step' \in {"heartbeat", "poll", "drive", "recover", "flush", "sleep", "done"}
    PROVE  LogInv'
<1>1. untold' = untold /\ quiet' = quiet /\ shown' = shown
    <2>1. /\ untold' = [s \in Subject |-> untold[s] + IF s = None THEN 1 ELSE 0]
          /\ quiet' = [m \in Mac |-> quiet[m]]
          /\ shown' = [m \in Mac |-> shown[m]]
        BY DEF Untold, Tell
    <2>2. untold \in [Subject -> Nat] /\ \A s \in Subject : s # None /\ untold[s] \in Nat
        BY LogAssumption DEF LogInv, HistoryTypeOK
    <2> QED
        BY <2>1, <2>2 DEF LogInv, HistoryTypeOK
<1>2. target' \in [Mac -> Target \union {None}] /\ \A m \in Mac : target'[m] # None => target'[m] = target[m]
    BY DEF LogInv, LinesAreTrue, LogTypeOK
<1> QED
    BY <1>1, <1>2 DEF LogInv, LinesAreTrue, LogTypeOK, HeldIsUntold, LastLineIsTarget, HistoryTypeOK, QuietIsAge

\* What a change is told as, if it is told.
LEMMA LogChangeEffect ==
    ASSUME LogInv, NEW m \in Mac, NEW new \in Target, LogChange(m, new)
    PROVE  \E entry \in [age: 0 .. ChangeEvery, held: Nat, pending: Target \union {None}] :
              /\ changes' = Put(changes, m, entry)
              /\ \/ /\ m \in DOMAIN changes /\ changes[m].age < ChangeEvery
                    /\ entry.age = changes[m].age /\ entry.held = untold[m] + 1 /\ entry.pending = new
                    /\ Tell(m, {})
                 \/ /\ m \in DOMAIN changes => ~(changes[m].age < ChangeEvery)
                    /\ entry.age = 0 /\ entry.held = 0 /\ entry.pending = None
                    /\ Tell(m, {Line(m, untold[m] + 1, new)})
<1>1. m \in DOMAIN changes =>
          changes[m] \in [age: 0 .. ChangeEvery, held: Nat, pending: Target \union {None}] /\ untold[m] = changes[m].held
    BY DEF LogInv, LinesAreTrue, LogTypeOK, HeldIsUntold
<1>2. m \notin DOMAIN changes => untold[m] = 0
    BY DEF LogInv, LinesAreTrue, HeldIsUntold
<1>3. CASE m \in DOMAIN changes /\ changes[m].age < ChangeEvery
    <2> DEFINE entry == [age |-> changes[m].age, held |-> changes[m].held + 1, pending |-> new]
    <2>1. changes' = Put(changes, m, entry) /\ Tell(m, {})
        BY <1>3 DEF LogChange, ChangeHeld
    <2>2. /\ entry \in [age: 0 .. ChangeEvery, held: Nat, pending: Target \union {None}]
          /\ entry.age = changes[m].age /\ entry.held = untold[m] + 1 /\ entry.pending = new
        <3>1. changes[m].age \in 0 .. ChangeEvery /\ changes[m].held \in Nat /\ untold[m] = changes[m].held
            BY <1>1, <1>3
        <3> QED
            BY <3>1
    <2> QED
        BY <1>3, <2>1, <2>2
<1>4. CASE ~(m \in DOMAIN changes /\ changes[m].age < ChangeEvery)
    <2> DEFINE entry == [age |-> 0, held |-> 0, pending |-> None]
    <2>1. changes' = Put(changes, m, entry) /\ Tell(m, {Line(m, 1 + IF m \in DOMAIN changes THEN changes[m].held ELSE 0, new)})
        BY <1>4 DEF LogChange, ChangeLogged
    <2>2. 1 + (IF m \in DOMAIN changes THEN changes[m].held ELSE 0) = untold[m] + 1
        BY <1>1, <1>2
    <2>3. entry \in [age: 0 .. ChangeEvery, held: Nat, pending: Target \union {None}]
        BY LogAssumption
    <2> QED
        BY <1>4, <2>1, <2>2, <2>3
<1> QED
    BY <1>3, <1>4

\* A change, told or held back.
LEMMA SetTargetKeepsLog ==
    ASSUME LogInv, NEW m \in Mac, NEW new \in Target, SetTarget(m, new)
    PROVE  LogInv'
<1>1. m \in Subject /\ m \notin Message /\ m # None /\ new # None
    BY SubjectsDiffer, LogAssumption
<1>2. LogChange(m, new) /\ failures' = failures /\ step' = "recover"
      /\ target' = [target EXCEPT ![m] = new]
    BY DEF SetTarget
<1>3. PICK entry \in [age: 0 .. ChangeEvery, held: Nat, pending: Target \union {None}] :
          /\ changes' = Put(changes, m, entry)
          /\ \/ /\ m \in DOMAIN changes /\ changes[m].age < ChangeEvery
                /\ entry.age = changes[m].age /\ entry.held = untold[m] + 1 /\ entry.pending = new
                /\ Tell(m, {})
             \/ /\ m \in DOMAIN changes => ~(changes[m].age < ChangeEvery)
                /\ entry.age = 0 /\ entry.held = 0 /\ entry.pending = None
                /\ Tell(m, {Line(m, untold[m] + 1, new)})
    BY <1>2, LogChangeEffect
<1>4. untold \in [Subject -> Nat] /\ untold[m] \in Nat /\ shown \in [Mac -> Target \union {None}]
      /\ quiet \in [Mac -> 0 .. ChangeEvery \union {None}]
    BY <1>1 DEF LogInv, HistoryTypeOK
<1>5. /\ untold' = [untold EXCEPT ![m] = entry.held]
      /\ entry.pending # None => entry.pending = new /\ shown' = shown /\ quiet' = quiet /\ m \in DOMAIN changes /\ entry.age = changes[m].age
      /\ entry.pending = None => /\ shown' = [shown EXCEPT ![m] = new]
                                 /\ quiet' = [quiet EXCEPT ![m] = 0]
                                 /\ entry.age = 0
    <2>1. CASE Tell(m, {}) /\ entry.held = untold[m] + 1 /\ entry.pending = new /\ m \in DOMAIN changes /\ entry.age = changes[m].age
        <3>1. /\ untold' = [s \in Subject |-> untold[s] + IF s = m THEN 1 ELSE 0]
              /\ quiet' = [k \in Mac |-> quiet[k]] /\ shown' = [k \in Mac |-> shown[k]]
            BY <2>1 DEF Tell
        <3>2. untold' = [s \in Subject |-> IF s = m THEN entry.held ELSE untold[s]]
            BY <2>1, <3>1, <1>4
        <3> QED
            BY <1>1, <1>4, <2>1, <3>1, <3>2
    <2>2. CASE Tell(m, {Line(m, untold[m] + 1, new)}) /\ entry.held = 0 /\ entry.pending = None /\ entry.age = 0
        <3> DEFINE written == {Line(m, untold[m] + 1, new)}
        <3>1. {l.of : l \in written} = {m} /\ (CHOOSE l \in written : l.of = m).named = new
            BY DEF Line
        <3>2. /\ untold' = [s \in Subject |-> IF s \in {m} THEN 0 ELSE untold[s] + IF s = m THEN 1 ELSE 0]
              /\ quiet' = [k \in Mac |-> IF k \in {m} THEN 0 ELSE quiet[k]]
            BY <2>2, <3>1 DEF Tell
        <3>3. shown' = [k \in Mac |-> IF k \in {m} THEN (CHOOSE l \in written : l.of = k).named ELSE shown[k]]
            BY <2>2, <3>1 DEF Tell
        <3>4. shown' = [k \in Mac |-> IF k = m THEN new ELSE shown[k]]
            BY <3>1, <3>3
        <3>5. untold' = [s \in Subject |-> IF s = m THEN entry.held ELSE untold[s]]
            BY <2>2, <3>2, <1>4
        <3> QED
            BY <1>4, <2>2, <3>2, <3>4, <3>5
    <2> QED
        BY <1>3, <2>1, <2>2
<1>6. LogTypeOK'
    <2>1. DOMAIN changes' = DOMAIN changes \union {m}
          /\ changes' \in [DOMAIN changes' -> [age: 0 .. ChangeEvery, held: Nat, pending: Target \union {None}]]
        BY <1>3 DEF Put, LogInv, LinesAreTrue, LogTypeOK
    <2>2. target' \in [Mac -> Target \union {None}]
        BY <1>2 DEF LogInv, LinesAreTrue, LogTypeOK
    <2> QED
        BY <1>2, <2>1, <2>2 DEF LogInv, LinesAreTrue, LogTypeOK
<1>7. changes' = [k \in DOMAIN changes \union {m} |-> IF k = m THEN entry ELSE changes[k]]
    BY <1>3 DEF Put
<1>8. HeldIsUntold'
    BY <1>1, <1>2, <1>4, <1>5, <1>7, SubjectsDiffer DEF LogInv, LinesAreTrue, HeldIsUntold
<1>9. LastLineIsTarget'
    BY <1>1, <1>2, <1>4, <1>5, <1>7 DEF LogInv, LinesAreTrue, LastLineIsTarget, LogTypeOK
<1>10. QuietIsAge'
    BY <1>4, <1>5, <1>7 DEF LogInv, QuietIsAge
<1>11. HistoryTypeOK'
    <2>1. entry.held \in Nat /\ 0 \in 0 .. ChangeEvery
        BY LogAssumption
    <2> QED
        BY <1>1, <1>4, <1>5, <2>1 DEF HistoryTypeOK
<1> QED
    BY <1>6, <1>8, <1>9, <1>10, <1>11 DEF LogInv, LinesAreTrue

\* What the end of a tick tells.
LEMMA FlushedLines ==
    ASSUME LogInv
    PROVE  /\ {l.of : l \in ChangeLines \union FailureLines} = ChangesUp \union {f \in FailuresUp : failures[f].held > 0}
           /\ \A m \in ChangesUp : (CHOOSE l \in ChangeLines \union FailureLines : l.of = m).named = changes[m].pending
           /\ \A l \in ChangeLines \union FailureLines :
                 /\ l.of \in Subject /\ l.count = untold[l.of]
                 /\ l.of \in Mac => l.of \in DOMAIN changes /\ changes[l.of].age >= ChangeEvery
<1>1. ChangesUp \subseteq Mac /\ ChangesUp \subseteq DOMAIN changes /\ FailuresUp \subseteq Message /\ FailuresUp \subseteq DOMAIN failures
    BY DEF ChangesUp, FailuresUp, LogInv, LinesAreTrue, LogTypeOK
<1>2. \A l \in ChangeLines : l.of \in ChangesUp /\ l = Line(l.of, changes[l.of].held, changes[l.of].pending)
    BY DEF ChangeLines, Line
<1>3. \A l \in FailureLines : l.of \in FailuresUp /\ failures[l.of].held > 0 /\ l.count = failures[l.of].held
    BY DEF FailureLines, Line
<1>4. ASSUME NEW m \in ChangesUp
      PROVE  \E l \in ChangeLines : l.of = m
    <2> DEFINE l == Line(m, changes[m].held, changes[m].pending)
    <2>1. l \in ChangeLines
        BY DEF ChangeLines
    <2>2. l.of = m
        BY DEF Line
    <2> HIDE DEF l
    <2> QED
        BY <2>1, <2>2
<1>5. ASSUME NEW f \in FailuresUp, failures[f].held > 0
      PROVE  \E l \in FailureLines : l.of = f
    <2> DEFINE l == Line(f, failures[f].held, None)
    <2>1. l \in FailureLines
        BY <1>5 DEF FailureLines
    <2>2. l.of = f
        BY DEF Line
    <2> HIDE DEF l
    <2> QED
        BY <2>1, <2>2
<1>6. {l.of : l \in ChangeLines \union FailureLines} = ChangesUp \union {f \in FailuresUp : failures[f].held > 0}
    BY <1>2, <1>3, <1>4, <1>5
<1>7. ASSUME NEW m \in ChangesUp
      PROVE  (CHOOSE l \in ChangeLines \union FailureLines : l.of = m).named = changes[m].pending
    <2>1. PICK l \in ChangeLines \union FailureLines : l.of = m /\ l = (CHOOSE k \in ChangeLines \union FailureLines : k.of = m)
        BY <1>4
    <2>2. l \in ChangeLines
        BY <1>1, <1>3, <2>1, SubjectsDiffer
    <2> QED
        BY <1>2, <2>1, <2>2 DEF Line
<1>8. \A m \in ChangesUp : changes[m].age >= ChangeEvery /\ changes[m].held = untold[m]
    BY <1>1 DEF ChangesUp, LogInv, LinesAreTrue, HeldIsUntold
<1>9. \A f \in FailuresUp : failures[f].held = untold[f] /\ f \notin Mac
    BY <1>1, SubjectsDiffer DEF LogInv, LinesAreTrue, HeldIsUntold
<1>10. \A l \in ChangeLines : l.of \in Subject /\ l.count = untold[l.of]
                               /\ l.of \in DOMAIN changes /\ changes[l.of].age >= ChangeEvery
    BY <1>1, <1>2, <1>8, SubjectsDiffer DEF Line
<1>11. \A l \in FailureLines : l.of \in Subject /\ l.count = untold[l.of] /\ l.of \notin Mac
    BY <1>1, <1>3, <1>9, SubjectsDiffer
<1> QED
    BY <1>6, <1>7, <1>10, <1>11

\* The end of a tick tells what has been held back long enough.
LEMMA FlushKeepsLog ==
    ASSUME LogInv, Flush
    PROVE  LogInv'
<1>1. /\ changes' = ChangesFlushed
      /\ failures' = [f \in DOMAIN failures \ FailuresUp |-> failures[f]]
      /\ Tell(None, ChangeLines \union FailureLines)
      /\ step' = "sleep" /\ target' = target
    BY DEF Flush
<1> DEFINE about == ChangesUp \union {f \in FailuresUp : failures[f].held > 0}
<1>2. /\ untold' = [s \in Subject |-> IF s \in about THEN 0 ELSE untold[s] + IF s = None THEN 1 ELSE 0]
      /\ quiet' = [m \in Mac |-> IF m \in about THEN 0 ELSE quiet[m]]
      /\ shown' = [m \in Mac |-> IF m \in about THEN (CHOOSE l \in ChangeLines \union FailureLines : l.of = m).named ELSE shown[m]]
    BY <1>1, FlushedLines DEF Tell
<1>3. ChangesUp \subseteq Mac /\ ChangesUp \subseteq DOMAIN changes /\ FailuresUp \subseteq Message /\ FailuresUp \subseteq DOMAIN failures
    BY DEF ChangesUp, FailuresUp, LogInv, LinesAreTrue, LogTypeOK
<1>4. \A m \in Mac : m \in about <=> m \in ChangesUp
    BY <1>3, SubjectsDiffer
<1>5. \A f \in Message : f \in about <=> f \in FailuresUp /\ failures[f].held > 0
    BY <1>3, SubjectsDiffer
<1>6. untold' = [s \in Subject |-> IF s \in about THEN 0 ELSE untold[s]]
    <2>1. \A s \in Subject : s # None /\ untold[s] \in Nat
        BY LogAssumption DEF LogInv, HistoryTypeOK
    <2> QED
        BY <1>2, <2>1
<1>7. /\ quiet' = [m \in Mac |-> IF m \in ChangesUp THEN 0 ELSE quiet[m]]
      /\ shown' = [m \in Mac |-> IF m \in ChangesUp THEN changes[m].pending ELSE shown[m]]
    BY <1>2, <1>4, FlushedLines
<1>8. /\ DOMAIN changes' = DOMAIN changes
      /\ \A m \in ChangesUp : changes'[m] = [age |-> 0, held |-> 0, pending |-> None]
      /\ \A m \in DOMAIN changes : m \notin ChangesUp => changes'[m] = changes[m]
    BY <1>1, <1>3 DEF ChangesFlushed
<1>9. LogTypeOK'
    <2>1. changes' \in [DOMAIN changes' -> [age: 0 .. ChangeEvery, held: Nat, pending: Target \union {None}]]
        <3>1. [age |-> 0, held |-> 0, pending |-> None] \in [age: 0 .. ChangeEvery, held: Nat, pending: Target \union {None}]
            BY LogAssumption
        <3> QED
            BY <1>1, <3>1 DEF ChangesFlushed, LogInv, LinesAreTrue, LogTypeOK
    <2>2. DOMAIN failures' \subseteq Message /\ failures' \in [DOMAIN failures' -> [age: 0 .. RepeatEvery, held: Nat]]
        BY <1>1 DEF LogInv, LinesAreTrue, LogTypeOK
    <2> QED
        BY <1>1, <1>8, <2>1, <2>2 DEF LogInv, LinesAreTrue, LogTypeOK
<1>10. HeldIsUntold'
    <2>1. ASSUME NEW f \in Message
          PROVE  untold'[f] = IF f \in DOMAIN failures' THEN failures'[f].held ELSE 0
        <3>1. untold[f] = IF f \in DOMAIN failures THEN failures[f].held ELSE 0
            BY DEF LogInv, LinesAreTrue, HeldIsUntold
        <3>2. f \in DOMAIN failures => failures[f].held \in Nat
            BY DEF LogInv, LinesAreTrue, LogTypeOK
        <3>3. untold'[f] = IF f \in FailuresUp /\ failures[f].held > 0 THEN 0 ELSE untold[f]
            BY <1>5, <1>6, SubjectsDiffer
        <3> QED
            BY <1>1, <1>3, <3>1, <3>2, <3>3
    <2>2. ASSUME NEW m \in Mac
          PROVE  untold'[m] = IF m \in DOMAIN changes' THEN changes'[m].held ELSE 0
        <3>1. untold[m] = IF m \in DOMAIN changes THEN changes[m].held ELSE 0
            BY DEF LogInv, LinesAreTrue, HeldIsUntold
        <3>2. untold'[m] = IF m \in ChangesUp THEN 0 ELSE untold[m]
            BY <1>4, <1>6, SubjectsDiffer
        <3> QED
            BY <1>3, <1>8, <3>1, <3>2
    <2> QED
        BY <2>1, <2>2 DEF HeldIsUntold
<1>11. LastLineIsTarget'
    <2>1. \A m \in ChangesUp : changes[m].pending # None /\ changes'[m].pending = None
        BY <1>8 DEF ChangesUp
    <2> QED
        BY <1>1, <1>3, <1>7, <1>8, <2>1 DEF LogInv, LinesAreTrue, LastLineIsTarget
<1>12. QuietIsAge'
    BY <1>3, <1>7, <1>8 DEF LogInv, QuietIsAge
<1>13. HistoryTypeOK'
    <2>1. \A m \in ChangesUp : changes[m].pending \in Target \union {None}
        BY <1>3 DEF LogInv, LinesAreTrue, LogTypeOK
    <2>2. 0 \in 0 .. ChangeEvery
        BY LogAssumption
    <2> QED
        BY <1>6, <1>7, <2>1, <2>2 DEF LogInv, HistoryTypeOK
<1> QED
    BY <1>9, <1>10, <1>11, <1>12, <1>13 DEF LogInv, LinesAreTrue

\* While the worker sleeps entries and silences age alike.
LEMMA SleepKeepsLog ==
    ASSUME LogInv, behind \in Int, NEW work \in Work, NEW late \in 0 .. Late, SleepOn(work, late), Gap(work, late) \in Nat
    PROVE  LogInv'
<1> DEFINE gap == Gap(work, late)
<1>1. /\ failures' = [f \in DOMAIN failures |-> [failures[f] EXCEPT !.age = AtMost(RepeatEvery, @ + gap)]]
      /\ changes' = [m \in DOMAIN changes |-> [changes[m] EXCEPT !.age = AtMost(ChangeEvery, @ + gap)]]
      /\ quiet' = [m \in Mac |-> IF quiet[m] = None THEN None ELSE AtMost(ChangeEvery, quiet[m] + gap)]
      /\ target' = target /\ untold' = untold /\ shown' = shown /\ step' = "heartbeat"
    BY DEF SleepOn, Later, Sleep
<1> HIDE DEF gap
<1>2. ASSUME NEW limit \in Nat, NEW n \in 0 .. limit
      PROVE  AtMost(limit, n + gap) \in 0 .. limit
    BY DEF AtMost, gap
<1>3. DOMAIN failures' = DOMAIN failures /\ \A f \in DOMAIN failures :
          /\ failures'[f] \in [age: 0 .. RepeatEvery, held: Nat]
          /\ failures'[f].held = failures[f].held
    BY <1>1, <1>2, LogAssumption DEF LogInv, LinesAreTrue, LogTypeOK
<1>4. DOMAIN changes' = DOMAIN changes /\ \A m \in DOMAIN changes :
          /\ changes'[m] \in [age: 0 .. ChangeEvery, held: Nat, pending: Target \union {None}]
          /\ changes'[m].held = changes[m].held
          /\ changes'[m].pending = changes[m].pending
          /\ changes'[m].age = AtMost(ChangeEvery, changes[m].age + gap)
    BY <1>1, <1>2, LogAssumption DEF LogInv, LinesAreTrue, LogTypeOK
<1>5. LogTypeOK'
    <2>1. failures' \in [DOMAIN failures' -> [age: 0 .. RepeatEvery, held: Nat]]
        BY <1>1, <1>3
    <2>2. changes' \in [DOMAIN changes' -> [age: 0 .. ChangeEvery, held: Nat, pending: Target \union {None}]]
        BY <1>1, <1>4
    <2> QED
        BY <1>1, <1>3, <1>4, <2>1, <2>2 DEF LogInv, LinesAreTrue, LogTypeOK
<1>6. HeldIsUntold' /\ LastLineIsTarget'
    BY <1>1, <1>3, <1>4 DEF LogInv, LinesAreTrue, HeldIsUntold, LastLineIsTarget
<1>7. QuietIsAge'
    BY <1>1, <1>4 DEF LogInv, QuietIsAge
<1>8. HistoryTypeOK'
    BY <1>1, <1>2, LogAssumption DEF LogInv, HistoryTypeOK
<1> QED
    BY <1>5, <1>6, <1>7, <1>8 DEF LogInv, LinesAreTrue

\* Every step keeps the lines true.
LEMMA LogIsKept ==
    ASSUME LogInv, CadenceInv, [Next]_vars
    PROVE  LogInv'
<1>1. CASE UNCHANGED vars
    BY <1>1 DEF vars, logVars, toldVars, cadenceVars, LogInv, LinesAreTrue, LogTypeOK, HeldIsUntold, LastLineIsTarget,
        HistoryTypeOK, QuietIsAge
<1>2. CASE Heartbeat
    <2>1. step' = "poll"
        BY <1>2 DEF Heartbeat, HeartbeatSent, HeartbeatRefused, HeartbeatTooSoon
    <2>2. CASE UNCHANGED logVars /\ Untold
        BY <2>1, <2>2, SameKeepsLog DEF logVars
    <2>3. CASE Fail(Beat) /\ UNCHANGED <<changes, target>>
        BY <2>1, <2>3, FailKeepsLog DEF Message
    <2> QED
        BY <1>2, <2>2, <2>3 DEF Heartbeat
<1>3. CASE PollReceiver
    <2>1. CASE UNCHANGED failures /\ Untold
        BY <1>3, <2>1, SameKeepsLog DEF PollReceiver
    <2>2. CASE Fail(Poll)
        BY <1>3, <2>2, FailKeepsLog DEF PollReceiver, Message
    <2> QED
        BY <1>3, <2>1, <2>2 DEF PollReceiver
<1>4. CASE SameTargets \/ Recover \/ Stop
    BY <1>4, SameKeepsLog DEF SameTargets, Recover, Stop, logVars
<1>5. CASE \E m \in Mac, new \in Target : SetTarget(m, new)
    BY <1>5, SetTargetKeepsLog
<1>6. CASE Flush
    BY <1>6, FlushKeepsLog
<1>7. CASE \E work \in Work, late \in 0 .. Late : SleepOn(work, late)
    <2>1. PICK work \in Work, late \in 0 .. Late : SleepOn(work, late)
        BY <1>7
    <2>2. behind \in 0 .. Late /\ work \in Nat
        BY CadenceAssumption DEF CadenceInv
    <2>3. Gap(work, late) \in Nat
        BY <2>2, CadenceAssumption DEF Gap
    <2> QED
        BY <2>1, <2>2, <2>3, SleepKeepsLog
<1>8. CASE \E m \in Mac : Release(m)
    BY <1>8, SameKeepsLog DEF Release, cadenceVars
<1> QED
    BY <1>1, <1>2, <1>3, <1>4, <1>5, <1>6, <1>7, <1>8 DEF Next, Worker

\* So lines and cadence are in order at all times.
LEMMA LogAlways == Spec => [](LogInv /\ CadenceInv)
<1>1. LogInit => LogInv /\ CadenceInv
    BY LogStarts, CadenceAssumption DEF LogInit, CadenceInit, CadenceInv, OneGapToGo
<1>2. LogInv /\ CadenceInv /\ [Next]_vars => LogInv' /\ CadenceInv'
    BY LogIsKept, CadenceIsKept
<1> QED
    BY <1>1, <1>2, PTL DEF Spec

\* engine.rs:324-357, 511-558: what a text or a group has held back is what
\* happened since its last line, and the last line about a driven group names
\* its target or the target waits to be told.
THEOREM LinesTrue == Spec => []LinesAreTrue
BY LogAlways, PTL DEF LogInv

\* engine.rs:40-42, 324-357, 511-558: a line stands for all that happened since
\* the line before, and lines about one group's target are ChangeEvery apart.
THEOREM LinesWholeAndSpaced == Spec => LinesAreWholeAndSpaced
<1> DEFINE Fair(l) ==
              /\ l.count = untold[l.of] + IF event' = l.of THEN 1 ELSE 0
              /\ l.of \in Mac /\ quiet[l.of] # None => quiet[l.of] >= ChangeEvery
<1>1. ASSUME LogInv, CadenceInv, [Next]_vars, ~UNCHANGED vars, NEW l \in lines'
      PROVE  Fair(l)
    <2>1. ASSUME NEW message \in Message, Fail(message)
          PROVE  Fair(l)
        <3>1. lines' = {} \/ lines' = {Line(message, untold[message] + 1, None)}
            <4>1. untold[message] = IF message \in DOMAIN failures THEN failures[message].held ELSE 0
                BY <1>1 DEF LogInv, LinesAreTrue, HeldIsUntold
            <4>2. CASE message \in DOMAIN failures
                BY <2>1, <4>1, <4>2 DEF Fail, FailAgain, FailFirst, Tell
            <4>3. CASE message \notin DOMAIN failures
                BY <2>1, <4>1, <4>3 DEF Fail, FailAgain, FailFirst, Tell
            <4> QED
                BY <4>2, <4>3
        <3>2. event' = message
            BY <2>1 DEF Fail, FailAgain, FailFirst, Tell
        <3> QED
            BY <1>1, <3>1, <3>2, SubjectsDiffer DEF Line
    <2>2. ASSUME NEW m \in Mac, NEW new \in Target, SetTarget(m, new)
          PROVE  Fair(l)
        <3>1. LogChange(m, new)
            BY <2>2 DEF SetTarget
        <3>2. /\ event' = m
              /\ lines' = {} \/ (lines' = {Line(m, untold[m] + 1, new)} /\ (m \in DOMAIN changes => ~(changes[m].age < ChangeEvery)))
            BY <3>1, LogChangeEffect, <1>1 DEF Tell
        <3>3. quiet[m] # None => m \in DOMAIN changes /\ quiet[m] = changes[m].age
            BY <1>1 DEF LogInv, QuietIsAge
        <3>4. m \in DOMAIN changes => changes[m].age \in 0 .. ChangeEvery
            BY <1>1 DEF LogInv, LinesAreTrue, LogTypeOK
        <3>5. l.of = m /\ l.count = untold[m] + 1
            BY <1>1, <3>2 DEF Line
        <3>6. quiet[m] # None => quiet[m] >= ChangeEvery
            BY <1>1, <3>2, <3>3, <3>4, LogAssumption
        <3> QED
            BY <3>2, <3>5, <3>6
    <2>3. ASSUME Flush
          PROVE  Fair(l)
        <3>1. l \in ChangeLines \union FailureLines /\ event' = None
            BY <1>1, <2>3 DEF Flush, Tell
        <3>2. /\ l.of \in Subject /\ l.count = untold[l.of]
              /\ l.of \in Mac => l.of \in DOMAIN changes /\ changes[l.of].age >= ChangeEvery
            BY <1>1, <3>1, FlushedLines
        <3>3. l.of # None /\ untold[l.of] \in Nat
            BY <1>1, <3>2, LogAssumption DEF LogInv, HistoryTypeOK
        <3>4. l.count = untold[l.of] + IF event' = l.of THEN 1 ELSE 0
            BY <3>1, <3>2, <3>3
        <3>5. l.of \in Mac /\ quiet[l.of] # None => quiet[l.of] >= ChangeEvery
            BY <1>1, <3>2 DEF LogInv, QuietIsAge
        <3> QED
            BY <3>4, <3>5
    <2>4. CASE Untold \/ \E work \in Work, late \in 0 .. Late : SleepOn(work, late)
        BY <1>1, <2>4 DEF Untold, Tell, SleepOn
    <2> QED
        BY <1>1, <2>1, <2>2, <2>3, <2>4 DEF Next, Worker, Heartbeat, PollReceiver, SameTargets, Recover, Stop, Release, Message
<1>2. LogInv /\ CadenceInv /\ [Next]_vars => [\A l \in lines' : Fair(l)]_vars
    BY <1>1
<1> HIDE DEF Fair
<1> QED
    BY <1>2, LogAlways, PTL DEF Spec, LinesAreWholeAndSpaced, Fair

=============================================================================
