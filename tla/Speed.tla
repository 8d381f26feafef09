------------------------------- MODULE Speed -------------------------------
(***************************************************************************)
(* The duties of a speed command: src/speed.rs, with the percentage and    *)
(* fan count src/engine.rs starts from.  A device is what decides them: its *)
(* type, the first non-zero byte of its fan types, how many fans it has    *)
(* and whether they chain from the right.                                  *)
(***************************************************************************)
EXTENDS Integers

Slots == 1 .. 4           \* FANS_PER_GROUP
Byte == 0 .. 255
FanDuties == [Slots -> Byte]

\* Device types that stand on their own; any other has the fan model its fan
\* types name.
Strips == 1 .. 9 \union {65, 88}
Coolers == {10, 11}
StandAlone == Strips \union Coolers \union {66}

Device == [kind: Byte, model: Byte, fans: 0 .. 4, right: BOOLEAN]

\* Rounded to the nearest duty, and back to the nearest percentage.
DutyFromPercent(percent) == ((IF percent > 100 THEN 100 ELSE percent) * 255 + 50) \div 100

PercentFromDuty(duty) == (duty * 100 + 127) \div 255

\* The least percentage the fans of a device run at.
MinPercent(device) ==
    IF device.kind \in Strips THEN 0
    ELSE IF device.kind \in Coolers \union {66} THEN 10
    ELSE IF device.model \in 20 .. 26 \union 59 .. 62 THEN 14
    ELSE IF device.model \in 28 .. 31 \union 36 .. 39 \union 51 .. 58 THEN 11
    ELSE IF device.model = 63 THEN 8
    ELSE 10

MinDuty(device) == (MinPercent(device) * 255) \div 100

SkipsDuties(device) ==
    device.kind \notin StandAlone /\ device.model \in 40 .. 42 \union {126, 127}

\* The duty of a slot with a fan: raised to the least the fans run at, moved
\* off the duties a CL fan skips.
Allowed(device, duty) ==
    LET raised == IF duty > 0 /\ duty < MinDuty(device) THEN MinDuty(device) ELSE duty
    IN  IF ~SkipsDuties(device) THEN raised
        ELSE IF raised \in {153, 154} THEN 152
        ELSE IF raised = 155 THEN 156
        ELSE raised

Pumps(device, slot) == slot = 4 /\ device.kind \in Coolers

InOrder(device, duties) ==
    [slot \in Slots |->
        IF slot <= device.fans \/ Pumps(device, slot) THEN Allowed(device, duties[slot]) ELSE 0]

\* A chain from the right takes the slots of its fans in reverse.
Prepared(device, duties) ==
    [slot \in Slots |->
        IF device.right /\ slot <= device.fans
        THEN InOrder(device, duties)[device.fans + 1 - slot]
        ELSE InOrder(device, duties)[slot]]

\* The duties drive sends a device for a percentage.
Commanded(device, percent) ==
    Prepared(device, [slot \in Slots |->
                         IF slot <= device.fans THEN DutyFromPercent(percent) ELSE 0])

\* One slot that matches is enough.
AnySlotVariant(reported, sent) == \E slot \in Slots : reported[slot] = sent[slot]

\* Reported duties that count as the ones sent: exactly so up to 10, within
\* 5 above.
Matches(reported, sent) ==
    \A slot \in Slots :
        IF sent[slot] <= 10 THEN reported[slot] = sent[slot]
        ELSE reported[slot] - sent[slot] \in -5 .. 5
============================================================================
