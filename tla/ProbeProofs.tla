----------------------------- MODULE ProbeProofs ----------------------------
(***************************************************************************)
(* Theorems about the commands of the probe, for any groups, any duties    *)
(* they may be found at, any percentages and any losses on the way: what a *)
(* command that ends well leaves the fans at, and that every put back is   *)
(* tried.                                                                  *)
(***************************************************************************)
EXTENDS Probe, TLAPS

-----------------------------------------------------------------------------
(* The inductive invariant.                                                *)

Applying == {"beat", "send", "poll", "judge"}
BeforeSession == {"check", "tick", "engine", "stop", "open", "greet"}

Recorded == [Groups -> FanDuties \union {None}]

\* The types of the state.
ProbeTyped ==
    /\ command \in {"set", "run", "run --leave"}
    /\ step \in BeforeSession \union Applying \union {"choose", "done"}
    /\ fan \in [Groups -> FanDuties] /\ last \in Recorded /\ aim \in Recorded
    /\ heard \in Recorded /\ target \in Recorded /\ back \in Recorded
    /\ sent \in [Groups -> BOOLEAN]
    /\ todo \subseteq Groups
    /\ failed \in BOOLEAN

\* Nothing is heard or aimed at before the session's first poll; apply is at
\* a group heard and on record; what was sent is the target.
SessionInv ==
    /\ step \in BeforeSession => heard = Silent /\ target = Silent /\ \A g \in Groups : ~sent[g]
    /\ step # "done" => result = "none"
    /\ step \in Applying =>
          /\ now \in Groups
          /\ heard[now] # None /\ target[now] # None /\ back[now] # None
          /\ part \in {"echo", "wanted", "hold", "restore", "confirm"}
          /\ (part = "confirm" <=> command # "set")
    /\ step \in {"poll", "judge"} => sent[now]
    /\ \A g \in Groups : sent[g] => target[g] # None /\ last[g] = target[g]

PutBack(g) == last[g] = Back(g) /\ Matches(fan[g], Back(g))

\* What run has still to put back, is putting back and has put back.
RunInv ==
    /\ \A g \in todo : back[g] # None
    /\ step \in {"check", "tick", "engine"} => todo = {}
    /\ step \in {"stop", "open", "greet"} => \A g \in Groups : back[g] # None => g \in todo
    /\ \A g \in Groups : target[g] # None => g \notin todo /\ back[g] # None /\ target[g] = Back(g)
    /\ \A g \in Groups : heard[g] # None =>
          heard[g] = fan[g] \/ (target[g] # None /\ fan[g] = target[g])
    /\ step \in {"choose"} \union Applying /\ ~failed =>
          \A g \in Groups : back[g] # None /\ g \notin todo /\ ~(step \in Applying /\ g = now) => PutBack(g)

\* The group of set in part p: F is what it was found at, B what a put back
\* sends, W its target, H what is heard of it and R what it runs at.
PartInv(p, wrong, F, B, W, H, R) ==
    /\ p = "echo" => W = B /\ ((R = F /\ H = F) \/ (R = B /\ H \in {F, B}))
    /\ p = "wanted" =>
          \/ H = F /\ Matches(F, B) /\ R \in {F, B, W}
          \/ H = B /\ R \in {B, W}
          \/ H = W /\ R = W
    /\ p = "hold" => (Near(R, B) /\ Near(W, B)) \/ (H = W /\ R = W)
    /\ p = "restore" => W = B /\ (~wrong => Near(R, B) \/ H = R)

\* set has one group at a time.
SetInv ==
    /\ todo = {} /\ step \notin {"tick", "engine", "stop", "open"}
    /\ step \in BeforeSession \union {"choose"} =>
          /\ ~failed /\ back = Silent /\ target = Silent
          /\ \A g \in Groups : heard[g] # None => heard[g] = fan[g]
    /\ step \in Applying =>
          /\ \A g \in Groups \ {now} : back[g] = None /\ target[g] = None
          /\ part \in {"echo", "wanted", "hold"} => ~failed
          /\ PartInv(part, failed, back[now], Back(now), target[now], heard[now], fan[now])

ProbeInv ==
    /\ ProbeTyped
    /\ SessionInv
    /\ command = "set" => SetInv
    /\ command # "set" => RunInv
    /\ OkMeansPutBack /\ PutBackIsTried

-----------------------------------------------------------------------------
(* Duties.                                                                 *)

\* speed.rs: a percentage is a duty of one byte.
LEMMA DutyIsAByte ==
    ASSUME NEW percent \in 0 .. 100
    PROVE  DutyFromPercent(percent) \in Byte
BY DEF DutyFromPercent, Byte

\* What a device allows is one byte again.
LEMMA AllowedIsAByte ==
    ASSUME NEW device \in Device, NEW duty \in Byte
    PROVE  Allowed(device, duty) \in Byte
<1>1. MinPercent(device) \in {0, 8, 10, 11, 14}
    BY DEF MinPercent
<1>2. MinDuty(device) \in Byte
    BY <1>1 DEF MinDuty, Byte
<1> QED
    BY <1>2 DEF Allowed, Byte

\* Duties prepared for a device are duties.
LEMMA PreparedAreDuties ==
    ASSUME NEW device \in Device, NEW duties \in FanDuties
    PROVE  Prepared(device, duties) \in FanDuties
<1>1. ASSUME NEW slot \in Slots
      PROVE  InOrder(device, duties)[slot] \in Byte
    <2>1. Allowed(device, duties[slot]) \in Byte
        BY AllowedIsAByte DEF FanDuties
    <2> QED
        BY <2>1 DEF InOrder, Byte
<1>2. ASSUME NEW slot \in Slots
      PROVE  Prepared(device, duties)[slot] \in Byte
    <2>1. CASE device.right /\ slot <= device.fans
        <3>1. device.fans + 1 - slot \in Slots
            BY <2>1 DEF Device, Slots
        <3>2. Prepared(device, duties)[slot] = InOrder(device, duties)[device.fans + 1 - slot]
            BY <2>1 DEF Prepared
        <3> QED
            BY <1>1, <3>1, <3>2
    <2>2. CASE ~(device.right /\ slot <= device.fans)
        <3>1. Prepared(device, duties)[slot] = InOrder(device, duties)[slot]
            BY <2>2, Zenon DEF Prepared
        <3> QED
            BY <1>1, <3>1
    <2> QED
        BY <2>1, <2>2
<1>3. Prepared(device, duties) = [slot \in Slots |-> Prepared(device, duties)[slot]]
    BY DEF Prepared
<1> HIDE DEF Prepared
<1> QED
    BY <1>2, <1>3 DEF FanDuties

\* What apply prepares for a group, from a percentage, from full speed or
\* from duties on record.
LEMMA GroupDuties ==
    ASSUME NEW g \in Groups
    PROVE  /\ \A duties \in FanDuties : Prepared(DeviceOf[g], duties) \in FanDuties
           /\ \A p \in Percents : Duties(g)[p] \in FanDuties
           /\ Full \in FanDuties
<1>1. DeviceOf[g] \in Device /\ Percents \subseteq 0 .. 100
    BY ProbeAssumption
<1>2. ASSUME NEW p \in Percents
      PROVE  Duties(g)[p] \in FanDuties
    <2>1. DutyFromPercent(p) \in Byte /\ 0 \in Byte
        BY <1>1, DutyIsAByte DEF Byte
    <2>2. Duties(g)[p] = [slot \in Slots |-> IF slot <= DeviceOf[g].fans THEN DutyFromPercent(p) ELSE 0]
        BY DEF Duties
    <2> QED
        BY <2>1, <2>2 DEF FanDuties
<1>3. Full \in FanDuties
    <2>1. DutyFromPercent(100) \in Byte
        BY DutyIsAByte
    <2> QED
        BY <2>1 DEF Full, FanDuties
<1> QED
    BY <1>1, <1>2, <1>3, PreparedAreDuties

\* Duties match themselves.
LEMMA MatchThemselves ==
    ASSUME NEW d \in FanDuties
    PROVE  Matches(d, d) /\ Near(d, d)
BY DEF Matches, Near, FanDuties, Byte

\* Two duties that the same report acknowledges are near each other.
LEMMA MatchedAreNear ==
    ASSUME NEW h \in FanDuties, NEW a \in FanDuties, NEW b \in FanDuties, Matches(h, a), Matches(h, b)
    PROVE  Near(a, b)
<1> SUFFICES ASSUME NEW slot \in Slots
             PROVE  a[slot] - b[slot] \in -10 .. 10
    BY DEF Near
<1>1. h[slot] \in 0 .. 255 /\ a[slot] \in 0 .. 255 /\ b[slot] \in 0 .. 255
    BY DEF FanDuties, Byte
<1>2. h[slot] - a[slot] \in -5 .. 5 /\ h[slot] - b[slot] \in -5 .. 5
    BY <1>1 DEF Matches
<1>3. ASSUME NEW x \in 0 .. 255, NEW y \in 0 .. 255, NEW z \in 0 .. 255, x - y \in -5 .. 5, x - z \in -5 .. 5
      PROVE  y - z \in -10 .. 10
    BY <1>3
<1> QED
    BY <1>1, <1>2, <1>3

-----------------------------------------------------------------------------
(* The end of a part.                                                      *)

\* What beginning to apply does, to the group and to no other.
LEMMA Begun ==
    ASSUME ProbeTyped, NEW g \in Groups, NEW duties \in FanDuties, NEW which, StartApply(g, duties, which)
    PROVE  /\ target' \in Recorded /\ sent' \in [Groups -> BOOLEAN]
           /\ target'[g] = Prepared(DeviceOf[g], duties) /\ target'[g] \in FanDuties /\ target'[g] # None
           /\ sent'[g] => sent[g] /\ target[g] = target'[g]
           /\ \A k \in Groups \ {g} : target'[k] = target[k] /\ sent'[k] = sent[k]
           /\ now' = g /\ part' = which /\ step' = "beat"
<1> DEFINE prepared == Prepared(DeviceOf[g], duties)
<1>1. /\ target' = [target EXCEPT ![g] = prepared]
      /\ sent' = [sent EXCEPT ![g] = @ /\ target[g] = prepared]
      /\ now' = g /\ part' = which /\ step' = "beat"
    BY Zenon DEF StartApply
<1>2. prepared \in FanDuties /\ prepared # None
    BY GroupDuties, ProbeAssumption
<1> HIDE DEF prepared
<1>3. target \in [Groups -> FanDuties \union {None}] /\ sent \in [Groups -> BOOLEAN]
    BY DEF ProbeTyped, Recorded
<1>4. /\ target' \in Recorded /\ target'[g] = prepared
      /\ \A k \in Groups \ {g} : target'[k] = target[k]
    BY <1>1, <1>2, <1>3 DEF Recorded
<1>5. /\ sent' \in [Groups -> BOOLEAN] /\ (sent'[g] => sent[g] /\ target[g] = prepared)
      /\ \A k \in Groups \ {g} : sent'[k] = sent[k]
    BY <1>1, <1>3, Zenon
<1> QED
    BY <1>1, <1>2, <1>4, <1>5 DEF prepared

\* What every end of a part leaves alone or as it has to be, once it is known
\* what became of the targets.
LEMMA PartEndsKeeps ==
    ASSUME ProbeInv, step \in Applying, NEW ok \in BOOLEAN, PartEnds(ok), UNCHANGED <<fan, heard>>,
           last' \in Recorded, \A k \in Groups \ {now} : last'[k] = last[k],
           last'[now] \in {last[now], target[now]},
           ok => last' = last /\ sent[now] /\ (part # "hold" => Matches(heard[now], target[now]))
    PROVE  ProbeInv'
<1> DEFINE F == back[now]
           B == Back(now)
           W == target[now]
           H == heard[now]
           R == fan[now]
<1>1. /\ ProbeTyped /\ SessionInv /\ UNCHANGED <<command, aim, back, todo>>
      /\ now \in Groups /\ F # None /\ W # None /\ H # None /\ result = "none"
      /\ part \in {"echo", "wanted", "hold", "restore", "confirm"} /\ (part = "confirm" <=> command # "set")
      /\ \A g \in Groups : sent[g] => target[g] # None /\ last[g] = target[g]
    BY DEF ProbeInv, SessionInv, Applying, PartEnds
<1>2. F \in FanDuties /\ B \in FanDuties /\ W \in FanDuties /\ H \in FanDuties /\ R \in FanDuties
    BY <1>1, GroupDuties DEF ProbeTyped, Recorded, Back
<1>3. \A g \in Groups : Back(g)' = Back(g)
    BY <1>1 DEF Back
<1>4. ok => last[now] = W
    BY <1>1
<1> HIDE DEF F, B, W, H, R
<1>5. ASSUME NEW duties \in FanDuties, NEW which \in {"wanted", "restore"}, StartApply(now, duties, which),
             result' = result, failed' \in BOOLEAN, part # "confirm",
             which = "wanted" => ~failed',
             PartInv(which, failed', F, B, Prepared(DeviceOf[now], duties), H, R)
      PROVE  ProbeInv'
    <2>1. /\ target' \in Recorded /\ sent' \in [Groups -> BOOLEAN]
          /\ target'[now] = Prepared(DeviceOf[now], duties) /\ target'[now] # None
          /\ sent'[now] => sent[now] /\ target[now] = target'[now]
          /\ \A k \in Groups \ {now} : target'[k] = target[k] /\ sent'[k] = sent[k]
          /\ now' = now /\ part' = which /\ step' = "beat"
        BY <1>1, <1>5, Begun
    <2>2. ProbeTyped'
        BY <1>1, <1>5, <2>1 DEF ProbeTyped, Applying
    <2>3. SessionInv'
        <3>1. ASSUME NEW g \in Groups, sent'[g]
              PROVE  target'[g] # None /\ last'[g] = target'[g]
            <4>1. CASE g = now
                BY <1>1, <2>1, <3>1, <4>1 DEF W
            <4>2. CASE g # now
                BY <1>1, <2>1, <3>1, <4>2
            <4> QED
                BY <4>1, <4>2
        <3> QED
            BY <1>1, <1>5, <2>1, <3>1 DEF SessionInv, BeforeSession, Applying, F, H
    <2>4. SetInv'
        <3>1. SetInv
            BY <1>1, <1>5 DEF ProbeInv
        <3>2. \A g \in Groups \ {now} : back'[g] = None /\ target'[g] = None
            BY <1>1, <2>1, <3>1 DEF SetInv
        <3>3. PartInv(part', failed', back'[now'], Back(now)', target'[now'], heard'[now'], fan'[now'])
            BY <1>1, <1>3, <1>5, <2>1 DEF F, B, H, R
        <3> QED
            BY <1>1, <1>5, <2>1, <3>1, <3>2, <3>3 DEF SetInv, BeforeSession, Applying
    <2>5. OkMeansPutBack' /\ PutBackIsTried'
        BY <1>1, <1>5, <2>1 DEF OkMeansPutBack, PutBackIsTried
    <2> QED
        BY <1>1, <1>5, <2>2, <2>3, <2>4, <2>5 DEF ProbeInv
<1>6. ASSUME SetGoesOn(ok, now)
      PROVE  ProbeInv'
    <2>1. SetInv /\ part \in {"echo", "wanted", "hold"} /\ ~failed
        BY <1>1, <1>6 DEF ProbeInv, SetGoesOn, SetInv
    <2>2. PartInv(part, failed, F, B, W, H, R)
        BY <2>1 DEF SetInv, F, B, W, H, R
    <2>3. CASE /\ part = "echo" /\ ok /\ UNCHANGED <<failed, result>>
               /\ \E p \in Percents : StartApply(now, Duties(now)[p], "wanted")
        <3>1. PICK p \in Percents : StartApply(now, Duties(now)[p], "wanted")
            BY <2>3
        <3> DEFINE V == Prepared(DeviceOf[now], Duties(now)[p])
        <3>2. Duties(now)[p] \in FanDuties
            BY <1>1, GroupDuties
        <3>3. Matches(H, B)
            BY <2>2, <2>3 DEF PartInv, H, W
        <3> HIDE DEF V
        <3>4. PartInv("wanted", failed', F, B, V, H, R)
            BY <2>2, <2>3, <3>3 DEF PartInv
        <3> QED
            BY <1>1, <1>5, <2>1, <2>3, <3>1, <3>2, <3>4 DEF V, ProbeTyped
    <2>4. CASE /\ part = "wanted" /\ ok /\ part' = "hold" /\ step' = "beat"
               /\ UNCHANGED <<target, sent, now, failed, result>>
        <3>1. Matches(H, W)
            BY <2>4 DEF H, W
        <3>2. (Near(R, B) /\ Near(W, B)) \/ (H = W /\ R = W)
            <4>1. CASE H = F /\ Matches(F, B) /\ R \in {F, B, W}
                <5>1. Near(F, B) /\ Near(W, B) /\ Near(B, B)
                    BY <1>2, <3>1, <4>1, MatchThemselves, MatchedAreNear
                <5> QED
                    BY <4>1, <5>1
            <4>2. CASE H = B /\ R \in {B, W}
                <5>1. Near(W, B) /\ Near(B, B)
                    BY <1>2, <3>1, <4>2, MatchThemselves, MatchedAreNear
                <5> QED
                    BY <4>2, <5>1
            <4> QED
                BY <2>2, <2>4, <4>1, <4>2 DEF PartInv
        <3>3. PartInv("hold", failed, F, B, W, H, R)
            BY <3>2 DEF PartInv
        <3>4. ProbeTyped' /\ SessionInv'
            BY <1>1, <2>4 DEF ProbeTyped, SessionInv, BeforeSession, Applying, F, W, H
        <3>5. SetInv'
            BY <1>1, <1>3, <2>1, <2>4, <3>3 DEF SetInv, BeforeSession, Applying, F, B, W, H, R
        <3> QED
            BY <1>1, <2>1, <2>4, <3>4, <3>5 DEF ProbeInv, OkMeansPutBack, PutBackIsTried
    <2>5. CASE /\ part = "hold" \/ (part = "wanted" /\ ~ok)
               /\ StartApply(now, F, "restore") /\ failed' = ~ok /\ result' = result
        <3>1. ~failed' => Near(R, B) \/ H = R
            BY <2>2, <2>5 DEF PartInv
        <3>2. Prepared(DeviceOf[now], F) = B
            BY DEF F, B, Back
        <3>3. PartInv("restore", failed', F, B, B, H, R)
            BY <3>1 DEF PartInv
        <3>4. failed' \in BOOLEAN
            BY <2>5, Zenon
        <3> QED
            BY <1>1, <1>2, <1>5, <2>5, <3>2, <3>3, <3>4
    <2> QED
        BY <1>6, <2>3, <2>4, <2>5 DEF SetGoesOn, F
<1>7. ASSUME SetEnds(ok)
      PROVE  ProbeInv'
    <2>1. /\ SetInv /\ ((part = "echo" /\ ~ok) \/ part = "restore")
          /\ step' = "done" /\ result' = IF ok /\ ~failed THEN "ok" ELSE "failed"
          /\ now' = None /\ UNCHANGED <<target, sent, failed>>
        BY <1>1, <1>7 DEF ProbeInv, SetEnds, End
    <2>2. PartInv(part, failed, F, B, W, H, R)
        BY <2>1 DEF SetInv, F, B, W, H, R
    <2>3. W = B /\ \A g \in Groups \ {now} : back[g] = None /\ target[g] = None
        BY <2>1, <2>2 DEF SetInv, PartInv
    <2>4. ProbeTyped'
        BY <1>1, <2>1 DEF ProbeTyped
    <2>5. SessionInv'
        BY <1>1, <2>1 DEF SessionInv, BeforeSession, Applying
    <2>6. SetInv'
        BY <1>1, <2>1 DEF SetInv, BeforeSession, Applying
    <2>7. PutBackIsTried'
        BY <1>1, <1>3, <2>1, <2>3 DEF PutBackIsTried, SetInv, B, W
    <2>8. OkMeansPutBack'
        <3> SUFFICES ASSUME result' = "ok" PROVE OkMeansPutBack'
            BY DEF OkMeansPutBack
        <3>1. ok /\ ~failed /\ part = "restore"
            BY <2>1
        <3>2. last'[now] = B
            BY <1>4, <2>3, <3>1
        <3>3. Near(R, B)
            <4>1. Matches(H, B)
                BY <2>3, <3>1 DEF H, W
            <4>2. Near(R, B) \/ H = R
                BY <2>2, <3>1 DEF PartInv
            <4> QED
                BY <1>2, <4>1, <4>2, MatchThemselves, MatchedAreNear
        <3> QED
            BY <1>1, <1>3, <2>1, <2>3, <3>1, <3>2, <3>3 DEF OkMeansPutBack, B, R
    <2> QED
        BY <1>1, <2>1, <2>4, <2>5, <2>6, <2>7, <2>8 DEF ProbeInv
<1>8. ASSUME RunGoesOn(ok)
      PROVE  ProbeInv'
    <2>1. /\ RunInv /\ command # "set" /\ failed' = (failed \/ ~ok) /\ step' = "choose"
          /\ now' = None /\ UNCHANGED <<target, sent, result>>
        BY <1>1, <1>8, Zenon DEF ProbeInv, RunGoesOn
    <2>2. ProbeTyped'
        <3>1. failed' \in BOOLEAN
            BY <2>1, Zenon
        <3> QED
            BY <1>1, <2>1, <3>1 DEF ProbeTyped
    <2>3. SessionInv'
        BY <1>1, <2>1 DEF SessionInv, BeforeSession, Applying
    <2>4. RunInv'
        <3>1. ASSUME ~failed', NEW g \in Groups, back'[g] # None, g \notin todo'
              PROVE  PutBack(g)'
            <4>1. ok /\ ~failed
                BY <2>1, <3>1
            <4>2. CASE g # now
                <5>1. PutBack(g)
                    BY <1>1, <2>1, <3>1, <4>1, <4>2 DEF RunInv
                <5> QED
                    BY <1>3, <3>1, <4>1, <5>1 DEF PutBack
            <4>3. CASE g = now
                <5>1. W = B /\ (H = R \/ R = W)
                    BY <1>1, <2>1 DEF RunInv, W, B, H, R
                <5>2. Matches(H, W)
                    BY <1>1, <2>1, <4>1, <1>8 DEF RunGoesOn, H, W
                <5>3. Matches(R, B)
                    BY <1>2, <5>1, <5>2, MatchThemselves
                <5> QED
                    BY <1>3, <1>4, <4>1, <4>3, <5>1, <5>3 DEF PutBack, B, R
            <4> QED
                BY <4>2, <4>3
        <3> QED
            BY <1>1, <1>3, <2>1, <3>1 DEF RunInv, BeforeSession, Applying
    <2> QED
        BY <1>1, <2>1, <2>2, <2>3, <2>4 DEF ProbeInv, OkMeansPutBack, PutBackIsTried
<1> QED
    BY <1>6, <1>7, <1>8 DEF PartEnds

-----------------------------------------------------------------------------
(* Every step keeps the invariant.                                         *)

\* Nothing is known and nothing was sent.
LEMMA Initially == Init => ProbeInv
<1> SUFFICES ASSUME Init PROVE ProbeInv
    OBVIOUS
<1>1. ProbeTyped
    BY ProbeAssumption, Zenon DEF Init, ProbeTyped, Recorded, Silent, BeforeSession, Applying
<1>2. \A g \in Groups : Silent[g] = None
    BY DEF Silent
<1>3. SessionInv
    BY <1>2 DEF Init, SessionInv, BeforeSession, Applying
<1>4. SetInv /\ RunInv
    BY <1>2 DEF Init, SetInv, RunInv, BeforeSession, Applying
<1> QED
    BY <1>1, <1>3, <1>4 DEF Init, ProbeInv, OkMeansPutBack, PutBackIsTried

\* A command that fails before it chose a group.
LEMMA FailuresKeep ==
    ASSUME ProbeInv, Refused \/ NoTick \/ NotGreeted
    PROVE  ProbeInv'
<1>1. /\ step' = "done" /\ result' = "failed" /\ now' = None
      /\ UNCHANGED <<command, aim, fan, last, heard, target, sent, back, todo, failed>>
      /\ step \in {"check", "tick", "open", "greet"} \/ (step = "choose" /\ command = "set")
    BY DEF Refused, NoTick, NotGreeted, End, radio, session
<1>2. ProbeTyped' /\ SessionInv'
    BY <1>1 DEF ProbeInv, ProbeTyped, SessionInv, BeforeSession, Applying
<1>3. command = "set" => SetInv'
    BY <1>1 DEF ProbeInv, SetInv, BeforeSession, Applying
<1>4. command # "set" => RunInv'
    <2>1. \A g \in Groups : Back(g)' = Back(g)
        BY <1>1 DEF Back
    <2> QED
        BY <1>1, <2>1 DEF ProbeInv, RunInv, BeforeSession, Applying
<1>5. PutBackIsTried'
    <2>1. CASE step = "choose" /\ command = "set"
        <3>1. todo = {} /\ \A g \in Groups : back[g] = None
            BY <2>1 DEF ProbeInv, SetInv, Silent
        <3> QED
            BY <1>1, <3>1 DEF PutBackIsTried
    <2>2. CASE step \in {"check", "tick", "open", "greet"}
        <3>1. heard = Silent
            BY <2>2 DEF ProbeInv, SessionInv, BeforeSession
        <3> QED
            BY <1>1, <3>1 DEF PutBackIsTried, Silent
    <2> QED
        BY <1>1, <2>1, <2>2
<1> QED
    BY <1>1, <1>2, <1>3, <1>4, <1>5 DEF ProbeInv, OkMeansPutBack

\* The engine of run, and the opening of the session: no target of the
\* session's is there yet.
LEMMA EngineKeeps ==
    ASSUME ProbeInv,
           \/ EngineOpens \/ FirstSnapshot \/ LastSnapshot \/ EngineStopped \/ SessionOpens
           \/ \E g \in Groups : EngineAims(g) \/ EngineSends(g)
    PROVE  ProbeInv'
<1>1. /\ step \in BeforeSession /\ step' \in BeforeSession
      /\ UNCHANGED <<command, heard, target, sent, failed, result>>
    BY DEF EngineOpens, FirstSnapshot, LastSnapshot, EngineStopped, SessionOpens, EngineAims, EngineSends,
           BeforeSession, session
<1>2. /\ heard = Silent /\ target = Silent /\ result = "none"
      /\ \A g \in Groups : ~sent[g] /\ Silent[g] = None
    BY <1>1 DEF ProbeInv, SessionInv, BeforeSession, Silent
<1>3. ProbeTyped /\ aim \in Recorded /\ back \in Recorded /\ fan \in [Groups -> FanDuties] /\ last \in Recorded
    BY DEF ProbeInv, ProbeTyped
<1>4. /\ fan' \in [Groups -> FanDuties] /\ last' \in Recorded
      /\ ~(\E g \in Groups : EngineSends(g)) => UNCHANGED <<fan, last>>
    <2>1. ASSUME NEW g \in Groups, EngineSends(g)
          PROVE  fan' \in [Groups -> FanDuties] /\ last' \in Recorded
        <3>1. fan' \in {fan, [fan EXCEPT ![g] = aim[g]]} /\ last' = [last EXCEPT ![g] = aim[g]] /\ aim[g] # None
            BY <2>1 DEF EngineSends
        <3> QED
            BY <1>3, <3>1 DEF Recorded
    <2>2. ~(\E g \in Groups : EngineSends(g)) => UNCHANGED <<fan, last>>
        BY DEF EngineOpens, FirstSnapshot, LastSnapshot, EngineStopped, SessionOpens, EngineAims, radio
    <2> QED
        BY <1>3, <2>1, <2>2
<1>5. aim' \in Recorded
    <2>1. ASSUME NEW g \in Groups, EngineAims(g)
          PROVE  aim' \in Recorded
        <3>1. PICK duties \in {Duties(g)[p] : p \in Percents} \union {Full} :
                  aim' = [aim EXCEPT ![g] = Prepared(DeviceOf[g], duties)]
            BY <2>1 DEF EngineAims
        <3>2. Prepared(DeviceOf[g], duties) \in FanDuties
            BY GroupDuties
        <3> QED
            BY <1>3, <3>1, <3>2 DEF Recorded
    <2>2. ~(\E g \in Groups : EngineAims(g)) => aim' = aim
        BY DEF EngineOpens, FirstSnapshot, LastSnapshot, EngineStopped, SessionOpens, EngineSends
    <2> QED
        BY <1>3, <2>1, <2>2
<1>6. back' \in Recorded /\ (command = "set" => back' = back /\ todo' = todo /\ step' \in {"check", "greet"})
    <2>1. ASSUME FirstSnapshot
          PROVE  back' \in Recorded
        <3>1. PICK known \in SUBSET Groups :
                  back' = [g \in Groups |-> IF g \in known THEN fan[g] ELSE None]
            BY <2>1 DEF FirstSnapshot
        <3> QED
            BY <1>3, <3>1 DEF Recorded
    <2>2. ~FirstSnapshot => back' \in {back, aim}
        BY DEF EngineOpens, LastSnapshot, EngineStopped, SessionOpens, EngineAims, EngineSends
    <2>3. command = "set" => back' = back /\ todo' = todo /\ step' \in {"check", "greet"}
        <3> SUFFICES ASSUME command = "set" PROVE back' = back /\ todo' = todo /\ step' \in {"check", "greet"}
            OBVIOUS
        <3>1. step \in {"check", "greet"}
            BY <1>1 DEF ProbeInv, SetInv, BeforeSession
        <3> QED
            BY <3>1 DEF EngineOpens, FirstSnapshot, LastSnapshot, EngineStopped, SessionOpens, EngineAims, EngineSends
    <2> QED
        BY <1>3, <2>1, <2>2, <2>3
<1>7. command # "set" =>
          /\ todo' \subseteq Groups /\ \A g \in todo' : back'[g] # None
          /\ step' \in {"check", "tick", "engine"} => todo' = {}
          /\ step' \in {"stop", "open", "greet"} => \A g \in Groups : back'[g] # None => g \in todo'
    <2> SUFFICES ASSUME command # "set", RunInv, ProbeTyped
                 PROVE  /\ todo' \subseteq Groups /\ \A g \in todo' : back'[g] # None
                        /\ step' \in {"check", "tick", "engine"} => todo' = {}
                        /\ step' \in {"stop", "open", "greet"} => \A g \in Groups : back'[g] # None => g \in todo'
        BY <1>3 DEF ProbeInv
    <2>1. CASE LastSnapshot
        BY <2>1 DEF LastSnapshot
    <2>2. CASE EngineOpens \/ FirstSnapshot
        BY <2>2 DEF EngineOpens, FirstSnapshot, RunInv
    <2>3. CASE EngineStopped \/ SessionOpens
        BY <2>3 DEF EngineStopped, SessionOpens, RunInv, ProbeTyped
    <2>4. CASE \E g \in Groups : EngineAims(g) \/ EngineSends(g)
        BY <2>4 DEF EngineAims, EngineSends, RunInv, ProbeTyped
    <2> QED
        BY <2>1, <2>2, <2>3, <2>4
<1>8. ProbeTyped'
    <2>1. command = "set" => todo' = {}
        BY <1>6 DEF ProbeInv, SetInv
    <2> QED
        BY <1>1, <1>3, <1>4, <1>5, <1>6, <1>7, <2>1 DEF ProbeTyped
<1>9. SessionInv'
    BY <1>1, <1>2 DEF SessionInv, BeforeSession, Applying
<1>10. command' = "set" => SetInv'
    <2>1. SetInv /\ command = "set" => /\ todo' = {} /\ ~failed' /\ back' = Silent /\ step' \in {"check", "greet"}
        BY <1>1, <1>6 DEF SetInv
    <2> QED
        BY <1>1, <1>2, <2>1 DEF ProbeInv, SetInv, BeforeSession, Applying
<1>11. command' # "set" => RunInv'
    BY <1>1, <1>2, <1>7 DEF RunInv, BeforeSession, Applying
<1> QED
    BY <1>1, <1>2, <1>8, <1>9, <1>10, <1>11 DEF ProbeInv, OkMeansPutBack, PutBackIsTried, BeforeSession

\* The first poll: what is heard is what runs.
LEMMA GreetedKeeps ==
    ASSUME ProbeInv, Greeted
    PROVE  ProbeInv'
<1>1. /\ step = "greet" /\ step' = "choose" /\ Heard
      /\ UNCHANGED <<command, aim, fan, last, target, sent, back, todo, failed, result>>
    BY DEF Greeted, radio
<1>2. /\ ProbeTyped /\ heard = Silent /\ target = Silent /\ result = "none"
      /\ \A g \in Groups : ~sent[g] /\ Silent[g] = None
    BY <1>1 DEF ProbeInv, SessionInv, BeforeSession, Silent
<1>3. heard' \in Recorded /\ \A g \in Groups : heard'[g] # None => heard'[g] = fan[g]
    <2>1. PICK known \in SUBSET Groups : heard' = [g \in Groups |-> IF g \in known THEN fan[g] ELSE heard[g]]
        BY <1>1 DEF Heard
    <2>2. fan \in [Groups -> FanDuties]
        BY <1>2 DEF ProbeTyped
    <2> QED
        BY <1>2, <2>1, <2>2 DEF Recorded
<1>4. ProbeTyped'
    BY <1>1, <1>2, <1>3 DEF ProbeTyped
<1>5. SessionInv'
    BY <1>1, <1>2 DEF SessionInv, BeforeSession, Applying
<1>6. command' = "set" => SetInv'
    <2>1. command = "set" => todo = {} /\ ~failed /\ back = Silent
        BY <1>1 DEF ProbeInv, SetInv, BeforeSession
    <2> QED
        BY <1>1, <1>2, <1>3, <2>1 DEF SetInv, BeforeSession, Applying
<1>7. command' # "set" => RunInv'
    <2>1. command # "set" => /\ \A g \in todo : back[g] # None
                             /\ \A g \in Groups : back[g] # None => g \in todo
        BY <1>1 DEF ProbeInv, RunInv
    <2> QED
        BY <1>1, <1>2, <1>3, <2>1 DEF RunInv, BeforeSession, Applying
<1> QED
    BY <1>1, <1>2, <1>4, <1>5, <1>6, <1>7 DEF ProbeInv, OkMeansPutBack, PutBackIsTried

\* set begins with what its group was found at.
LEMMA ChosenKeeps ==
    ASSUME ProbeInv, NEW g \in Groups, Chosen(g)
    PROVE  ProbeInv'
<1>1. /\ step = "choose" /\ command = "set" /\ heard[g] # None
      /\ back' = [back EXCEPT ![g] = heard[g]] /\ StartApply(g, heard[g], "echo")
      /\ UNCHANGED <<command, aim, fan, last, heard, todo, failed, result>>
    BY DEF Chosen, radio
<1>2. /\ ProbeTyped /\ result = "none" /\ todo = {} /\ ~failed /\ heard[g] = fan[g]
      /\ \A k \in Groups : back[k] = None /\ target[k] = None
      /\ \A k \in Groups : sent[k] => target[k] # None /\ last[k] = target[k]
    BY <1>1 DEF ProbeInv, SessionInv, SetInv, Silent
<1>3. heard[g] \in FanDuties
    BY <1>1, <1>2 DEF ProbeTyped, Recorded
<1>4. /\ target' \in Recorded /\ sent' \in [Groups -> BOOLEAN]
      /\ target'[g] = Prepared(DeviceOf[g], heard[g]) /\ target'[g] # None
      /\ sent'[g] => sent[g] /\ target[g] = target'[g]
      /\ \A k \in Groups \ {g} : target'[k] = target[k] /\ sent'[k] = sent[k]
      /\ now' = g /\ part' = "echo" /\ step' = "beat"
    BY <1>1, <1>2, <1>3, Begun
<1>5. back' \in Recorded /\ back'[g] = heard[g] /\ \A k \in Groups \ {g} : back'[k] = None
    BY <1>1, <1>2, <1>3 DEF ProbeTyped, Recorded
<1>6. Back(g)' = target'[g]
    BY <1>4, <1>5 DEF Back
<1>7. ProbeTyped'
    BY <1>1, <1>2, <1>4, <1>5 DEF ProbeTyped, Applying
<1>8. SessionInv'
    BY <1>1, <1>2, <1>4, <1>5 DEF SessionInv, BeforeSession, Applying
<1>9. SetInv'
    <2>1. PartInv("echo", failed', back'[g], Back(g)', target'[g], heard'[g], fan'[g])
        BY <1>1, <1>2, <1>5, <1>6 DEF PartInv
    <2>2. PartInv(part', failed', back'[now'], Back(now)', target'[now'], heard'[now'], fan'[now'])
        BY <1>4, <2>1
    <2> QED
        BY <1>1, <1>2, <1>4, <1>5, <2>2 DEF SetInv, BeforeSession, Applying
<1> QED
    BY <1>1, <1>2, <1>4, <1>7, <1>8, <1>9 DEF ProbeInv, OkMeansPutBack, PutBackIsTried

\* run takes its next group, if it was heard, or counts it as a failure.
LEMMA NextGroupKeeps ==
    ASSUME ProbeInv, NEW g \in Groups, NextGroup(g)
    PROVE  ProbeInv'
<1>1. /\ step = "choose" /\ g \in todo /\ todo' = todo \ {g}
      /\ UNCHANGED <<command, aim, fan, last, heard, back, result>>
    BY DEF NextGroup, radio
<1>2. /\ ProbeTyped /\ RunInv /\ command # "set" /\ result = "none" /\ back[g] # None
      /\ \A k \in Groups : sent[k] => target[k] # None /\ last[k] = target[k]
    BY <1>1 DEF ProbeInv, SessionInv, SetInv, RunInv
<1>3. \A k \in Groups : Back(k)' = Back(k) /\ (PutBack(k)' <=> PutBack(k))
    BY <1>1 DEF Back, PutBack
<1>4. CASE heard[g] # None
    <2>1. StartApply(g, back[g], "confirm") /\ failed' = failed
        BY <1>4 DEF NextGroup
    <2>2. back[g] \in FanDuties
        BY <1>2 DEF ProbeTyped, Recorded
    <2>3. /\ target' \in Recorded /\ sent' \in [Groups -> BOOLEAN]
          /\ target'[g] = Back(g) /\ target'[g] # None
          /\ sent'[g] => sent[g] /\ target[g] = target'[g]
          /\ \A k \in Groups \ {g} : target'[k] = target[k] /\ sent'[k] = sent[k]
          /\ now' = g /\ part' = "confirm" /\ step' = "beat"
        BY <1>2, <2>1, <2>2, Begun DEF Back
    <2>4. ProbeTyped'
        BY <1>1, <1>2, <2>1, <2>3 DEF ProbeTyped, Applying
    <2>5. SessionInv'
        BY <1>1, <1>2, <1>4, <2>3 DEF SessionInv, BeforeSession, Applying
    <2>6. RunInv'
        <3>1. target[g] = None /\ (heard[g] # None => heard[g] = fan[g])
            BY <1>1, <1>2 DEF RunInv
        <3>2. \A k \in Groups : target'[k] # None =>
                  k \notin todo' /\ back'[k] # None /\ target'[k] = Back(k)'
            BY <1>1, <1>2, <1>3, <2>3 DEF RunInv
        <3>3. \A k \in Groups : heard'[k] # None =>
                  heard'[k] = fan'[k] \/ (target'[k] # None /\ fan'[k] = target'[k])
            BY <1>1, <1>2, <2>3, <3>1 DEF RunInv
        <3>4. ~failed' => \A k \in Groups \ {g} : back'[k] # None /\ k \notin todo' => PutBack(k)'
            BY <1>1, <1>2, <1>3, <2>1 DEF RunInv, Applying
        <3> QED
            BY <1>1, <1>2, <2>3, <3>2, <3>3, <3>4 DEF RunInv, BeforeSession, Applying
    <2> QED
        BY <1>1, <1>2, <2>3, <2>4, <2>5, <2>6 DEF ProbeInv, OkMeansPutBack, PutBackIsTried
<1>5. CASE heard[g] = None
    <2>1. failed' = TRUE /\ UNCHANGED <<target, sent, now, part, step>>
        BY <1>5 DEF NextGroup
    <2>2. ProbeTyped'
        BY <1>1, <1>2, <2>1 DEF ProbeTyped
    <2>3. SessionInv'
        BY <1>1, <1>2, <2>1 DEF ProbeInv, SessionInv, BeforeSession, Applying
    <2>4. RunInv'
        BY <1>1, <1>2, <1>3, <2>1 DEF RunInv, BeforeSession, Applying
    <2> QED
        BY <1>1, <1>2, <2>1, <2>2, <2>3, <2>4 DEF ProbeInv, OkMeansPutBack, PutBackIsTried
<1> QED
    BY <1>4, <1>5

\* run ends when no group is left to put back.
LEMMA RunEndsKeeps ==
    ASSUME ProbeInv, RunEnds
    PROVE  ProbeInv'
<1>1. /\ step = "choose" /\ command # "set" /\ todo = {} /\ step' = "done" /\ now' = None
      /\ result' = (IF failed THEN "failed" ELSE "ok")
      /\ UNCHANGED <<command, aim, fan, last, heard, target, sent, back, todo, failed>>
    BY DEF RunEnds, End, radio, session
<1>2. ProbeTyped' /\ SessionInv'
    BY <1>1 DEF ProbeInv, ProbeTyped, SessionInv, BeforeSession, Applying
<1>3. RunInv /\ \A k \in Groups : Back(k)' = Back(k)
    BY <1>1 DEF ProbeInv, Back
<1>4. RunInv'
    BY <1>1, <1>3 DEF RunInv, BeforeSession, Applying
<1>5. OkMeansPutBack'
    <2>1. ~failed => \A k \in Groups : back[k] # None => PutBack(k)
        BY <1>1, <1>3 DEF RunInv, Applying
    <2> QED
        BY <1>1, <1>3, <2>1 DEF OkMeansPutBack, PutBack
<1>6. PutBackIsTried'
    BY <1>1, <1>3 DEF PutBackIsTried, RunInv
<1> QED
    BY <1>1, <1>2, <1>4, <1>5, <1>6 DEF ProbeInv

-----------------------------------------------------------------------------
(* The loop of apply and hold.                                             *)

\* The part goes on: the next step of its loop, with nothing changed.
LEMMA LoopKeeps ==
    ASSUME ProbeInv, step \in Applying, step' \in Applying,
           step' \in {"poll", "judge"} => sent[now],
           UNCHANGED <<command, aim, radio, session, back, todo, now, part, failed, result>>
    PROVE  ProbeInv'
<1>1. UNCHANGED <<command, aim, fan, last, heard, target, sent, back, todo, now, part, failed, result>>
    BY DEF radio, session
<1>2. /\ \A k \in Groups : Back(k)' = Back(k) /\ (PutBack(k)' <=> PutBack(k))
      /\ Back(now)' = Back(now)
    BY <1>1 DEF Back, PutBack
<1>3. ProbeTyped' /\ SessionInv'
    BY <1>1 DEF ProbeInv, ProbeTyped, SessionInv, BeforeSession, Applying
<1>4. command' = "set" => SetInv'
    BY <1>1, <1>2 DEF ProbeInv, SetInv, BeforeSession, Applying
<1>5. command' # "set" => RunInv'
    BY <1>1, <1>2 DEF ProbeInv, RunInv, BeforeSession, Applying
<1>6. result = "none" /\ result' = "none" /\ step' # "done"
    BY <1>1 DEF ProbeInv, SessionInv, Applying
<1> QED
    BY <1>3, <1>4, <1>5, <1>6 DEF ProbeInv, OkMeansPutBack, PutBackIsTried

\* A payload that reaches the fans, or is lost.
LEMMA SendKeeps ==
    ASSUME ProbeInv, Send
    PROVE  ProbeInv'
<1>1. /\ step = "send" /\ step' = "poll" /\ fan' \in {fan, [fan EXCEPT ![now] = target[now]]}
      /\ last' = [last EXCEPT ![now] = target[now]] /\ sent' = [sent EXCEPT ![now] = TRUE]
      /\ UNCHANGED <<command, aim, heard, target, back, todo, now, part, failed, result>>
    BY DEF Send, turn
<1>2. /\ ProbeTyped /\ now \in Groups /\ target[now] # None /\ result = "none"
      /\ \A k \in Groups : sent[k] => target[k] # None /\ last[k] = target[k]
    BY <1>1 DEF ProbeInv, SessionInv, Applying
<1>3. target[now] \in FanDuties
    BY <1>2 DEF ProbeTyped, Recorded
<1>4. /\ fan' \in [Groups -> FanDuties] /\ last' \in Recorded
      /\ fan'[now] \in {fan[now], target[now]} /\ last'[now] = target[now]
      /\ \A k \in Groups \ {now} : fan'[k] = fan[k] /\ last'[k] = last[k]
    BY <1>1, <1>2, <1>3 DEF ProbeTyped, Recorded
<1>5. /\ sent' \in [Groups -> BOOLEAN] /\ sent'[now]
      /\ \A k \in Groups \ {now} : sent'[k] = sent[k]
    BY <1>1, <1>2, Zenon DEF ProbeTyped
<1>6. /\ \A k \in Groups : Back(k)' = Back(k)
      /\ Back(now)' = Back(now)
      /\ \A k \in Groups \ {now} : PutBack(k)' <=> PutBack(k)
    BY <1>1, <1>4 DEF Back, PutBack
<1>7. ProbeTyped'
    BY <1>1, <1>2, <1>4, <1>5 DEF ProbeTyped, Applying
<1>8. SessionInv'
    <2>1. \A k \in Groups : sent'[k] => target'[k] # None /\ last'[k] = target'[k]
        BY <1>1, <1>2, <1>4, <1>5
    <2> QED
        BY <1>1, <1>5, <2>1 DEF ProbeInv, SessionInv, BeforeSession, Applying
<1>9. ASSUME command = "set"
      PROVE  SetInv'
    <2> DEFINE F == back[now]
               B == Back(now)
               W == target[now]
               H == heard[now]
               R == fan[now]
    <2>1. SetInv /\ PartInv(part, failed, F, B, W, H, R)
        BY <1>1, <1>9 DEF ProbeInv, SetInv, Applying
    <2>2. B \in FanDuties
        BY <1>1, <1>2, GroupDuties DEF ProbeInv, SessionInv, ProbeTyped, Recorded, Back, Applying
    <2>3. Near(B, B)
        BY <2>2, MatchThemselves
    <2> HIDE DEF F, B, W, H, R
    <2>4. PartInv(part, failed, F, B, W, H, R) /\ PartInv(part, failed, F, B, W, H, W)
        BY <2>1, <2>3 DEF PartInv
    <2>5. PartInv(part', failed', back'[now'], Back(now)', target'[now'], heard'[now'], fan'[now'])
        BY <1>1, <1>4, <1>6, <2>4 DEF F, B, W, H, R
    <2> QED
        BY <1>1, <2>1, <2>5 DEF SetInv, BeforeSession, Applying
<1>10. ASSUME command # "set"
       PROVE  RunInv'
    <2>1. RunInv
        BY <1>10 DEF ProbeInv
    <2>2. \A k \in Groups : heard'[k] # None =>
              heard'[k] = fan'[k] \/ (target'[k] # None /\ fan'[k] = target'[k])
        BY <1>1, <1>2, <1>4, <2>1 DEF RunInv
    <2>3. ~failed' => \A k \in Groups \ {now} : back'[k] # None /\ k \notin todo' => PutBack(k)'
        BY <1>1, <1>6, <2>1 DEF RunInv, Applying
    <2> QED
        BY <1>1, <1>6, <2>1, <2>2, <2>3 DEF RunInv, BeforeSession, Applying
<1> QED
    BY <1>1, <1>2, <1>7, <1>8, <1>9, <1>10 DEF ProbeInv, OkMeansPutBack, PutBackIsTried

\* What a poll hears is what runs by then.
LEMMA PollHearsKeeps ==
    ASSUME ProbeInv, PollHears
    PROVE  ProbeInv'
<1>1. /\ step = "poll" /\ step' = "judge" /\ Heard
      /\ UNCHANGED <<command, aim, fan, last, target, sent, back, todo, now, part, failed, result>>
    BY DEF PollHears, radio
<1>2. /\ ProbeTyped /\ now \in Groups /\ heard[now] # None /\ result = "none" /\ sent[now]
    BY <1>1 DEF ProbeInv, SessionInv, Applying
<1>3. /\ heard' \in Recorded /\ heard'[now] # None
      /\ \A g \in Groups : heard'[g] \in {heard[g], fan[g]}
    <2>1. PICK known \in SUBSET Groups : heard' = [g \in Groups |-> IF g \in known THEN fan[g] ELSE heard[g]]
        BY <1>1 DEF Heard
    <2>2. fan \in [Groups -> FanDuties] /\ heard \in Recorded /\ None \notin FanDuties
        BY <1>2, ProbeAssumption DEF ProbeTyped
    <2> QED
        BY <1>2, <2>1, <2>2 DEF Recorded
<1>4. ProbeTyped'
    BY <1>1, <1>2, <1>3 DEF ProbeTyped, Applying
<1>5. SessionInv'
    BY <1>1, <1>2, <1>3 DEF ProbeInv, SessionInv, BeforeSession, Applying
<1>6. /\ \A k \in Groups : Back(k)' = Back(k) /\ (PutBack(k)' <=> PutBack(k))
      /\ Back(now)' = Back(now)
    BY <1>1 DEF Back, PutBack
<1>7. ASSUME command = "set"
      PROVE  SetInv'
    <2> DEFINE F == back[now]
               B == Back(now)
               W == target[now]
               H == heard[now]
               R == fan[now]
    <2>1. SetInv /\ PartInv(part, failed, F, B, W, H, R)
        BY <1>1, <1>7 DEF ProbeInv, SetInv, Applying
    <2> HIDE DEF F, B, W, H, R
    <2>2. PartInv(part, failed, F, B, W, R, R)
        BY <2>1 DEF PartInv
    <2>3. PartInv(part', failed', back'[now'], Back(now)', target'[now'], heard'[now'], fan'[now'])
        BY <1>1, <1>2, <1>3, <1>6, <2>1, <2>2 DEF F, B, W, H, R
    <2> QED
        BY <1>1, <2>1, <2>3 DEF SetInv, BeforeSession, Applying
<1>8. ASSUME command # "set"
      PROVE  RunInv'
    <2>1. RunInv
        BY <1>8 DEF ProbeInv
    <2>2. \A k \in Groups : heard'[k] # None =>
              heard'[k] = fan'[k] \/ (target'[k] # None /\ fan'[k] = target'[k])
        BY <1>1, <1>3, <2>1 DEF RunInv
    <2> QED
        BY <1>1, <1>6, <2>1, <2>2 DEF RunInv, BeforeSession, Applying
<1> QED
    BY <1>1, <1>2, <1>4, <1>5, <1>7, <1>8 DEF ProbeInv, OkMeansPutBack, PutBackIsTried

\* The steps of apply and hold.
LEMMA ApplyKeeps ==
    ASSUME ProbeInv,
           Beat \/ Send \/ SendFails \/ NotDue \/ PollHears \/ PollFails \/ Acknowledged \/ OnceMore \/ TimeIsUp
    PROVE  ProbeInv'
<1>1. CASE Beat
    <2>1. step = "beat" /\ UNCHANGED <<fan, last, heard>>
        BY <1>1 DEF Beat, radio
    <2>2. CASE PartEnds(FALSE)
        BY <2>1, <2>2, PartEndsKeeps DEF Applying, ProbeInv, ProbeTyped
    <2>3. CASE /\ step' = "send"
               /\ UNCHANGED <<command, owner, aim, target, sent, back, todo, turn, failed, result>>
        BY <2>1, <2>3, LoopKeeps DEF Applying, radio, session, turn
    <2> QED
        BY <1>1, <2>2, <2>3 DEF Beat
<1>2. CASE SendFails
    <2>1. /\ step = "send" /\ last' = [last EXCEPT ![now] = target[now]] /\ PartEnds(FALSE)
          /\ UNCHANGED <<fan, heard>>
        BY <1>2 DEF SendFails
    <2>2. last \in Recorded /\ target \in Recorded /\ now \in Groups
        BY <2>1 DEF ProbeInv, ProbeTyped, SessionInv, Applying
    <2>3. /\ last' \in Recorded /\ last'[now] = target[now]
          /\ \A k \in Groups \ {now} : last'[k] = last[k]
        BY <2>1, <2>2 DEF Recorded
    <2> QED
        BY <2>1, <2>3, PartEndsKeeps DEF Applying
<1>3. CASE NotDue
    BY <1>3, LoopKeeps DEF NotDue, Due, Applying, turn
<1>4. CASE PollFails
    <2>1. step = "poll" /\ PartEnds(FALSE) /\ UNCHANGED <<fan, last, heard>>
        BY <1>4 DEF PollFails, radio
    <2> QED
        BY <2>1, PartEndsKeeps DEF Applying, ProbeInv, ProbeTyped
<1>5. CASE Acknowledged
    <2>1. /\ step = "judge" /\ part # "hold" /\ Matches(heard[now], target[now]) /\ PartEnds(TRUE)
          /\ UNCHANGED <<fan, last, heard>> /\ sent[now]
        BY <1>5 DEF Acknowledged, radio, ProbeInv, SessionInv
    <2> QED
        BY <2>1, PartEndsKeeps DEF Applying, ProbeInv, ProbeTyped
<1>6. CASE OnceMore
    <2>1. sent[now]
        BY <1>6 DEF OnceMore, ProbeInv, SessionInv
    <2> QED
        BY <1>6, <2>1, LoopKeeps DEF OnceMore, Applying, turn
<1>7. CASE TimeIsUp
    <2>1. step = "judge" /\ PartEnds(part = "hold") /\ UNCHANGED <<fan, last, heard>> /\ sent[now]
        BY <1>7 DEF TimeIsUp, radio, ProbeInv, SessionInv
    <2>2. (part = "hold") \in BOOLEAN
        OBVIOUS
    <2> QED
        BY <2>1, <2>2, PartEndsKeeps DEF Applying, ProbeInv, ProbeTyped
<1> QED
    BY <1>1, <1>2, <1>3, <1>4, <1>5, <1>6, <1>7, SendKeeps, PollHearsKeeps

-----------------------------------------------------------------------------
(* The theorems.                                                           *)

\* Every step of a command keeps the invariant.
LEMMA StepsKeep == ProbeInv /\ [Next]_vars => ProbeInv'
<1> SUFFICES ASSUME ProbeInv, [Next]_vars PROVE ProbeInv'
    OBVIOUS
<1>1. CASE Next
    BY <1>1, FailuresKeep, EngineKeeps, GreetedKeeps, ChosenKeeps, NextGroupKeeps, RunEndsKeeps, ApplyKeeps
       DEF Next
<1>2. CASE UNCHANGED vars
    <2>1. UNCHANGED <<command, step, aim, fan, last, heard, target, sent, back, todo, now, part, failed, result>>
        BY <1>2 DEF vars, radio, session, turn
    <2>2. \A k \in Groups : Back(k)' = Back(k) /\ (PutBack(k)' <=> PutBack(k))
        BY <2>1 DEF Back, PutBack
    <2>3. Back(now)' = Back(now)
        BY <2>1 DEF Back
    <2>4. ProbeTyped' /\ SessionInv' /\ OkMeansPutBack' /\ PutBackIsTried'
        BY <2>1, <2>2 DEF ProbeInv, ProbeTyped, SessionInv, OkMeansPutBack, PutBackIsTried
    <2>5. (command # "set" => RunInv') /\ (command = "set" => SetInv')
        BY <2>1, <2>2, <2>3 DEF ProbeInv, RunInv, SetInv
    <2> QED
        BY <2>1, <2>4, <2>5 DEF ProbeInv
<1> QED
    BY <1>1, <1>2

\* probe.rs:360-367, 525-535: whatever the groups were found at, and whatever
\* was lost or heard late on the way, a set or run that ends well has put every
\* group on record back, and nothing was sent to it since.
THEOREM OkMeansPutBackCorrect == Spec => []OkMeansPutBack
<1>1. ProbeInv => OkMeansPutBack
    BY DEF ProbeInv
<1> QED
    BY <1>1, Initially, StepsKeep, PTL DEF Spec

\* probe.rs:360-364, 524-529: once the session has heard a group, a failure
\* passes over no group of run and leaves set no target but the old duties.
THEOREM PutBackIsTriedCorrect == Spec => []PutBackIsTried
<1>1. ProbeInv => PutBackIsTried
    BY DEF ProbeInv
<1> QED
    BY <1>1, Initially, StepsKeep, PTL DEF Spec

=============================================================================
