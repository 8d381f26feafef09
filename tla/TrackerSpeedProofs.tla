------------------------- MODULE TrackerSpeedProofs -------------------------
(***************************************************************************)
(* What the arithmetic of speed commands guarantees for every device and   *)
(* every percentage, and what the tracker makes of a history of sightings  *)
(* and sends, for any number of devices, identities and shapes and any     *)
(* number of sightings that must agree.                                    *)
(***************************************************************************)
EXTENDS TrackerSpeed, TrackerProofs

-----------------------------------------------------------------------------
(* Duties.                                                                 *)

\* A percentage survives its conversion to a duty and back.
THEOREM RoundTrip ==
    ASSUME NEW percent \in 0 .. 100
    PROVE  PercentFromDuty(DutyFromPercent(percent)) = percent
BY DEF PercentFromDuty, DutyFromPercent

\* No minimum is above 14 percent.
LEMMA MinimumIsLow ==
    ASSUME NEW device \in Device
    PROVE  MinDuty(device) \in 0 .. 35
<1>1. MinPercent(device) \in {0, 8, 10, 11, 14}
    BY DEF MinPercent
<1> QED
    BY <1>1 DEF MinDuty

\* From 30 percent up a duty is never raised, and moving it off the duties CL
\* fans skip does not show in the percentage.
LEMMA AllowedReadsBack ==
    ASSUME NEW device \in Device, NEW percent \in 30 .. 100
    PROVE  PercentFromDuty(Allowed(device, DutyFromPercent(percent))) = percent
<1> DEFINE duty == DutyFromPercent(percent)
<1>1. duty \in 77 .. 255 /\ duty # 154 /\ duty # 155 /\ PercentFromDuty(duty) = percent
    BY RoundTrip DEF DutyFromPercent
<1>2. duty = 153 => percent = 60
    BY DEF DutyFromPercent
<1>3. PercentFromDuty(152) = 60
    BY DEF PercentFromDuty
<1>4. Allowed(device, duty) = IF SkipsDuties(device) /\ duty = 153 THEN 152 ELSE duty
    BY <1>1, MinimumIsLow DEF Allowed
<1> QED
    BY <1>1, <1>2, <1>3, <1>4

\* Every fan of a group gets a duty that reads back as the percentage asked
\* for, whatever its model and whichever way its fans chain; slots without a
\* fan get none.
THEOREM CommandReadsBack ==
    ASSUME NEW device \in Device, NEW percent \in 30 .. 100, NEW slot \in Slots
    PROVE  IF slot <= device.fans
           THEN PercentFromDuty(Commanded(device, percent)[slot]) = percent
           ELSE Commanded(device, percent)[slot] = 0
<1>0. device.fans \in 0 .. 4 /\ Allowed(device, 0) = 0
    BY DEF Device, Allowed, SkipsDuties
<1> DEFINE wanted == [k \in Slots |-> IF k <= device.fans THEN DutyFromPercent(percent) ELSE 0]
<1>1. Commanded(device, percent) = Prepared(device, wanted)
    BY DEF Commanded
<1>2. ASSUME NEW k \in Slots, k <= device.fans
      PROVE  InOrder(device, wanted)[k] = Allowed(device, DutyFromPercent(percent))
    BY <1>2 DEF InOrder
<1>3. CASE slot <= device.fans
    <2>1. device.fans + 1 - slot \in Slots /\ device.fans + 1 - slot <= device.fans
        BY <1>0, <1>3 DEF Slots
    <2>2. Prepared(device, wanted)[slot] = Allowed(device, DutyFromPercent(percent))
        BY <1>2, <1>3, <2>1 DEF Prepared
    <2> QED
        BY <1>1, <1>3, <2>2, AllowedReadsBack
<1>4. CASE ~(slot <= device.fans)
    BY <1>0, <1>1, <1>4 DEF Prepared, InOrder
<1> QED
    BY <1>3, <1>4

\* Duties that count as applied read within two percent of those sent.
THEOREM MatchesAreNear ==
    ASSUME NEW reported \in FanDuties, NEW sent \in FanDuties, Matches(reported, sent), NEW slot \in Slots
    PROVE  PercentFromDuty(reported[slot]) - PercentFromDuty(sent[slot]) \in -2 .. 2
<1>1. reported[slot] \in 0 .. 255 /\ sent[slot] \in 0 .. 255
    BY DEF FanDuties, Byte
<1>2. reported[slot] - sent[slot] \in -5 .. 5
    BY <1>1 DEF Matches
<1>3. ASSUME NEW r \in 0 .. 255, NEW s \in 0 .. 255, r - s \in -5 .. 5
      PROVE  PercentFromDuty(r) - PercentFromDuty(s) \in -2 .. 2
    BY <1>3 DEF PercentFromDuty
<1> QED
    BY <1>1, <1>2, <1>3

-----------------------------------------------------------------------------
(* Sightings and sends.                                                    *)

\* Steps of the history are steps of the tracker.
LEMMA HistorySteps == [HNext]_historyVars => [Next]_trackerVars
BY DEF HNext, Next, HObserve, HSweep, HSetTarget, HClearTarget, HSent, historyVars, trackerVars

\* A run of sightings and the vote a device keeps tell the same story.
Follows(run, vote, kept) ==
    /\ vote = None => run.of = kept
    /\ vote # None => run.of = vote.for /\ run.n = vote.n

Followed(m) ==
    /\ Follows(runs[m].idn, groups[m].idnVote, groups[m].idn)
    /\ Follows(runs[m].shp, groups[m].shpVote, groups[m].shp)

WireHolds(m) == groups[m].age # None => wire[m] = groups[m].target

AskHolds(m) ==
    groups[m].target # None =>
        asked[m] \in Asks /\ groups[m].target = Prepare[asked[m].shp][asked[m].percent]

\* The inductive invariant: a run longer than the vote it belongs to, a record
\* of a send that was another one's, or a target prepared from what was asked
\* before the last, would each break a property later on.
HistoryInv ==
    /\ TypeOK
    /\ DOMAIN runs = DOMAIN groups /\ DOMAIN wire = DOMAIN groups /\ DOMAIN asked = DOMAIN groups
    /\ \A m \in DOMAIN groups : Followed(m) /\ WireHolds(m) /\ AskHolds(m)

-----------------------------------------------------------------------------

\* One sighting: run and vote stay in step, and a value is given up only for
\* one that Agree sightings in a row named.
LEMMA RunsFollow ==
    ASSUME NEW S, None \notin [for: S, n: Int],
           NEW vote \in Vote(S), NEW kept \in S, NEW seen \in S, NEW run,
           Follows(run, vote, kept)
    PROVE  /\ Follows(Longer(run, seen), NextVote(vote, kept, seen), Settled(vote, kept, seen))
           /\ Settled(vote, kept, seen) # kept =>
                  Longer(run, seen) = [of |-> Settled(vote, kept, seen), n |-> Agree]
<1>1. CASE seen = kept
    BY <1>1 DEF NextVote, Settled, Follows, Longer
<1>2. CASE seen # kept /\ vote # None /\ vote.for = seen
    <2>1. vote.n \in 1 .. Agree - 1
        BY <1>2 DEF Vote
    <2>2. Longer(run, seen) = [of |-> seen, n |-> CapAt(vote.n + 1, Agree)]
        BY <1>2 DEF Longer, Follows
    <2>3. CASE vote.n + 1 >= Agree
        <3>1. CapAt(vote.n + 1, Agree) = Agree
            BY <2>1, <2>3, CountAssumption DEF CapAt
        <3>2. Settled(vote, kept, seen) = seen /\ NextVote(vote, kept, seen) = None
            BY <1>2, <2>3 DEF Settled, NextVote
        <3> QED
            BY <2>2, <3>1, <3>2 DEF Follows
    <2>4. CASE ~(vote.n + 1 >= Agree)
        <3>1. CapAt(vote.n + 1, Agree) = vote.n + 1
            BY <2>1, <2>4, CountAssumption DEF CapAt
        <3>2. Settled(vote, kept, seen) = kept /\ NextVote(vote, kept, seen) = [for |-> seen, n |-> vote.n + 1]
            BY <1>2, <2>4 DEF Settled, NextVote
        <3>3. NextVote(vote, kept, seen) # None
            BY <2>1, <3>2
        <3> QED
            BY <2>2, <3>1, <3>2, <3>3 DEF Follows
    <2> QED
        BY <2>3, <2>4
<1>3. CASE seen # kept /\ ~(vote # None /\ vote.for = seen)
    <2>1. Settled(vote, kept, seen) = kept /\ NextVote(vote, kept, seen) = [for |-> seen, n |-> 1]
        BY <1>3 DEF Settled, NextVote
    <2>2. NextVote(vote, kept, seen) # None
        BY <2>1
    <2>3. Longer(run, seen) = [of |-> seen, n |-> 1]
        BY <1>3 DEF Longer, Follows
    <2> QED
        BY <2>1, <2>2, <2>3 DEF Follows
<1> QED
    BY <1>1, <1>2, <1>3

\* What a sighting leaves of a device's target and sends.
LEMMA SightingKeepsSends ==
    ASSUME NEW g \in Group, NEW seen
    PROVE  TakeSighting(g, seen).age = g.age /\ TakeSighting(g, seen).target = g.target
BY DEF TakeSighting, Group

\* What a sighting of a device online makes of its votes.
LEMMA SightingVotes ==
    ASSUME NEW g \in Group, NEW seen, Online(g)
    PROVE  /\ TakeSighting(g, seen).idn = Settled(g.idnVote, g.idn, seen.idn)
           /\ TakeSighting(g, seen).idnVote = NextVote(g.idnVote, g.idn, seen.idn)
           /\ TakeSighting(g, seen).shp = Settled(g.shpVote, g.shp, seen.shp)
           /\ TakeSighting(g, seen).shpVote = NextVote(g.shpVote, g.shp, seen.shp)
BY DEF TakeSighting, Group

\* What a sighting of a device that was offline does: it is believed at once.
LEMMA SightingReturns ==
    ASSUME NEW g \in Group, NEW seen, ~Online(g)
    PROVE  /\ TakeSighting(g, seen).idn = seen.idn /\ TakeSighting(g, seen).idnVote = None
           /\ TakeSighting(g, seen).shp = seen.shp /\ TakeSighting(g, seen).shpVote = None
BY DEF TakeSighting, Group

\* A device heard that was known before.
LEMMA HeardAgain ==
    ASSUME HistoryInv, NEW reply \in Replies, HObserve(reply),
           NEW m \in DOMAIN groups, m \in DOMAIN reply
    PROVE  /\ Followed(m)' /\ WireHolds(m)' /\ AskHolds(m)'
           /\ Online(groups[m]) =>
                /\ groups'[m].idn # groups[m].idn => runs'[m].idn = [of |-> groups'[m].idn, n |-> Agree]
                /\ groups'[m].shp # groups[m].shp => runs'[m].shp = [of |-> groups'[m].shp, n |-> Agree]
<1> DEFINE g == groups[m]
           seen == reply[m]
<1>1. g \in Group /\ seen \in Sighting
    BY DEF HistoryInv, TypeOK, Replies
<1>2. /\ g.idn \in Identity /\ g.shp \in Shape /\ seen.idn \in Identity /\ seen.shp \in Shape
      /\ g.idnVote \in Vote(Identity) /\ g.shpVote \in Vote(Shape)
    BY <1>1 DEF Group, Sighting
<1>3. m \in DOMAIN groups' /\ groups'[m] = TakeSighting(g, seen)
    BY DEF HObserve, Observe
<1>4. /\ runs'[m].idn = Longer(runs[m].idn, seen.idn)
      /\ runs'[m].shp = Longer(runs[m].shp, seen.shp)
      /\ wire'[m] = wire[m] /\ asked'[m] = asked[m]
    BY <1>3 DEF HObserve
<1>5. Followed(m) /\ WireHolds(m) /\ AskHolds(m)
    BY DEF HistoryInv
<1> HIDE DEF g, seen
<1>6. WireHolds(m)' /\ AskHolds(m)'
    BY <1>1, <1>3, <1>4, <1>5, SightingKeepsSends DEF WireHolds, AskHolds, g
<1>7. CASE Online(g)
    <2>1. /\ Follows(runs[m].idn, g.idnVote, g.idn)
          /\ Follows(runs[m].shp, g.shpVote, g.shp)
        BY <1>5 DEF Followed, g
    <2>2. /\ Follows(runs'[m].idn, groups'[m].idnVote, groups'[m].idn)
          /\ groups'[m].idn # g.idn => runs'[m].idn = [of |-> groups'[m].idn, n |-> Agree]
        <3>1. None \notin [for: Identity, n: Int]
            BY NoneAssumption
        <3> QED
            BY <1>1, <1>2, <1>3, <1>4, <1>7, <2>1, <3>1, SightingVotes, RunsFollow
    <2>3. /\ Follows(runs'[m].shp, groups'[m].shpVote, groups'[m].shp)
          /\ groups'[m].shp # g.shp => runs'[m].shp = [of |-> groups'[m].shp, n |-> Agree]
        <3>1. None \notin [for: Shape, n: Int]
            BY NoneAssumption
        <3> QED
            BY <1>1, <1>2, <1>3, <1>4, <1>7, <2>1, <3>1, SightingVotes, RunsFollow
    <2> QED
        BY <1>6, <2>2, <2>3 DEF Followed, Follows, g
<1>8. CASE ~Online(g)
    <2>1. Followed(m)'
        BY <1>1, <1>3, <1>4, <1>8, SightingReturns DEF Followed, Follows, Longer
    <2> QED
        BY <1>6, <1>8, <2>1 DEF g
<1> QED
    BY <1>7, <1>8

\* A step that leaves a device's record of values and its history alone.
LEMMA NothingSeen ==
    ASSUME HistoryInv, NEW m \in DOMAIN groups, runs'[m] = runs[m],
           groups'[m].idn = groups[m].idn, groups'[m].idnVote = groups[m].idnVote,
           groups'[m].shp = groups[m].shp, groups'[m].shpVote = groups[m].shpVote
    PROVE  Followed(m)'
BY DEF HistoryInv, Followed, Follows

LEMMA HistoryIsKept == HistoryInv /\ [HNext]_historyVars => HistoryInv'
<1> SUFFICES ASSUME HistoryInv, [HNext]_historyVars PROVE HistoryInv'
    OBVIOUS
<1>0. TypeOK /\ TypeOK' /\ \A m \in DOMAIN groups : groups[m] \in Group
    BY HistorySteps, TypeStep DEF HistoryInv, TypeOK
<1>1. ASSUME NEW reply \in Replies, HObserve(reply) PROVE HistoryInv'
    <2>1. DOMAIN runs' = DOMAIN groups' /\ DOMAIN wire' = DOMAIN groups' /\ DOMAIN asked' = DOMAIN groups'
        BY <1>1 DEF HObserve
    <2>2. ASSUME NEW m \in DOMAIN groups' PROVE Followed(m)' /\ WireHolds(m)' /\ AskHolds(m)'
        <3>1. CASE m \in DOMAIN reply /\ m \in DOMAIN groups
            BY <1>1, <3>1, HeardAgain
        <3>2. CASE m \in DOMAIN reply /\ m \notin DOMAIN groups
            <4>1. groups'[m] = NewGroup(reply[m])
                BY <1>1, <3>2 DEF HObserve, Observe
            <4>2. runs'[m] = [idn |-> [of |-> reply[m].idn, n |-> 1],
                              shp |-> [of |-> reply[m].shp, n |-> 1]]
                BY <1>1, <3>2 DEF HObserve
            <4> QED
                BY <4>1, <4>2 DEF NewGroup, Followed, Follows, WireHolds, AskHolds
        <3>3. CASE m \notin DOMAIN reply
            <4>1. m \in DOMAIN groups /\ groups'[m] = groups[m]
                BY <1>1, <3>3 DEF HObserve, Observe
            <4>2. runs'[m] = runs[m] /\ wire'[m] = wire[m] /\ asked'[m] = asked[m]
                BY <1>1, <3>3, <4>1 DEF HObserve
            <4> QED
                BY <4>1, <4>2, NothingSeen DEF HistoryInv, WireHolds, AskHolds
        <3> QED
            BY <3>1, <3>2, <3>3
    <2> QED
        BY <1>0, <2>1, <2>2 DEF HistoryInv
<1>2. CASE HSweep
    <2>1. DOMAIN runs' = DOMAIN groups' /\ DOMAIN wire' = DOMAIN groups' /\ DOMAIN asked' = DOMAIN groups'
        BY <1>2 DEF HSweep
    <2>2. ASSUME NEW m \in DOMAIN groups' PROVE Followed(m)' /\ WireHolds(m)' /\ AskHolds(m)'
        <3>1. m \in DOMAIN groups /\ groups'[m] = groups[m]
            BY <1>2 DEF HSweep, Sweep
        <3>2. runs'[m] = runs[m] /\ wire'[m] = wire[m] /\ asked'[m] = asked[m]
            BY <1>2 DEF HSweep
        <3> QED
            BY <3>1, <3>2, NothingSeen DEF HistoryInv, WireHolds, AskHolds
    <2> QED
        BY <1>0, <2>1, <2>2 DEF HistoryInv
<1>3. ASSUME DOMAIN groups' = DOMAIN groups, UNCHANGED runs, DOMAIN wire' = DOMAIN wire,
             DOMAIN asked' = DOMAIN asked,
             \A m \in DOMAIN groups :
                /\ groups'[m].idn = groups[m].idn /\ groups'[m].idnVote = groups[m].idnVote
                /\ groups'[m].shp = groups[m].shp /\ groups'[m].shpVote = groups[m].shpVote
                /\ WireHolds(m)' /\ AskHolds(m)'
      PROVE  HistoryInv'
    BY <1>0, <1>3, NothingSeen DEF HistoryInv
<1>4. ASSUME NEW k \in Mac, NEW percent \in Percent, HSetTarget(k, percent)
      PROVE  HistoryInv'
    <2>1. /\ DOMAIN groups' = DOMAIN groups /\ UNCHANGED <<runs, wire>>
          /\ k \in DOMAIN groups
          /\ asked' = [asked EXCEPT ![k] = [percent |-> percent, shp |-> groups[k].shp]]
        BY <1>4 DEF HSetTarget, SetTarget
    <2>2. ASSUME NEW m \in DOMAIN groups
          PROVE  /\ groups'[m].idn = groups[m].idn /\ groups'[m].idnVote = groups[m].idnVote
                 /\ groups'[m].shp = groups[m].shp /\ groups'[m].shpVote = groups[m].shpVote
                 /\ groups'[m].age # None => groups'[m].age = groups[m].age /\ groups'[m].target = groups[m].target
        BY <1>0, <1>4 DEF HSetTarget, SetTarget, Group
    <2>3. groups'[k].target = Prepare[groups[k].shp][percent] /\ groups[k].shp \in Shape
        BY <1>0, <1>4, <2>1 DEF HSetTarget, SetTarget, Group
    <2>4. ASSUME NEW m \in DOMAIN groups, m # k
          PROVE  groups'[m].target = groups[m].target
        BY <1>0, <1>4, <2>4 DEF HSetTarget, SetTarget, Group
    <2>5. ASSUME NEW m \in DOMAIN groups PROVE AskHolds(m)'
        <3>1. CASE m = k
            BY <2>1, <2>3, <3>1 DEF HistoryInv, AskHolds, Asks
        <3>2. CASE m # k
            <4>1. asked'[m] = asked[m] /\ groups'[m].target = groups[m].target
                BY <2>1, <2>4, <3>2 DEF HistoryInv
            <4> QED
                BY <4>1 DEF HistoryInv, AskHolds
        <3> QED
            BY <3>1, <3>2
    <2>6. ASSUME NEW m \in DOMAIN groups PROVE WireHolds(m)'
        BY <2>1, <2>2 DEF HistoryInv, WireHolds
    <2> QED
        BY <1>3, <2>1, <2>2, <2>5, <2>6
<1>5. ASSUME NEW k \in Mac, HClearTarget(k) PROVE HistoryInv'
    <2>1. /\ DOMAIN groups' = DOMAIN groups /\ UNCHANGED <<runs, wire>>
          /\ asked' = [m \in DOMAIN groups |-> IF m = k THEN None ELSE asked[m]]
        BY <1>5 DEF HClearTarget, ClearTarget
    <2>2. ASSUME NEW m \in DOMAIN groups
          PROVE  /\ groups'[m].idn = groups[m].idn /\ groups'[m].idnVote = groups[m].idnVote
                 /\ groups'[m].shp = groups[m].shp /\ groups'[m].shpVote = groups[m].shpVote
                 /\ groups'[m].age # None => groups'[m].age = groups[m].age /\ groups'[m].target = groups[m].target
        BY <1>0, <1>5 DEF HClearTarget, ClearTarget, Group
    <2>3. ASSUME NEW m \in DOMAIN groups
          PROVE  groups'[m].target = IF m = k THEN None ELSE groups[m].target
        BY <1>0, <1>5 DEF HClearTarget, ClearTarget, Group
    <2>4. ASSUME NEW m \in DOMAIN groups PROVE WireHolds(m)' /\ AskHolds(m)'
        BY <2>1, <2>2, <2>3 DEF HistoryInv, WireHolds, AskHolds
    <2>5. DOMAIN asked' = DOMAIN asked
        BY <2>1 DEF HistoryInv
    <2> QED
        BY <1>3, <2>1, <2>2, <2>4, <2>5
<1>6. ASSUME NEW k \in Mac, HSent(k) PROVE HistoryInv'
    <2>1. DOMAIN groups' = DOMAIN groups /\ UNCHANGED <<runs, asked>> /\ DOMAIN wire' = DOMAIN wire
        BY <1>6 DEF HSent, Sent
    <2>2. ASSUME NEW m \in DOMAIN groups
          PROVE  /\ groups'[m].idn = groups[m].idn /\ groups'[m].idnVote = groups[m].idnVote
                 /\ groups'[m].shp = groups[m].shp /\ groups'[m].shpVote = groups[m].shpVote
                 /\ groups'[m].target = groups[m].target
                 /\ m # k => groups'[m].age = groups[m].age
        BY <1>0, <1>6 DEF HSent, Sent, Group
    <2>3. \A m \in DOMAIN groups : wire'[m] = IF m = k THEN groups[k].target ELSE wire[m]
        BY <1>6 DEF HSent, HistoryInv
    <2> QED
        BY <1>3, <2>1, <2>2, <2>3 DEF HistoryInv, WireHolds, AskHolds
<1>7. ASSUME NEW time \in Lapses, Elapse(time), UNCHANGED <<runs, wire, asked>> PROVE HistoryInv'
    <2>1. DOMAIN groups' = DOMAIN groups
        BY <1>7 DEF Elapse
    <2>2. ASSUME NEW m \in DOMAIN groups
          PROVE  /\ groups'[m].idn = groups[m].idn /\ groups'[m].idnVote = groups[m].idnVote
                 /\ groups'[m].shp = groups[m].shp /\ groups'[m].shpVote = groups[m].shpVote
                 /\ groups'[m].target = groups[m].target
                 /\ groups'[m].age # None => groups[m].age # None
        BY <1>0, <1>7 DEF Elapse, Older, Group
    <2> QED
        BY <1>3, <1>7, <2>1, <2>2 DEF HistoryInv, WireHolds, AskHolds
<1>8. CASE UNCHANGED historyVars
    BY <1>0, <1>8 DEF HistoryInv, Followed, Follows, WireHolds, AskHolds, historyVars
<1> QED
    BY <1>1, <1>2, <1>4, <1>5, <1>6, <1>7, <1>8 DEF HNext

LEMMA HistoryAlways == HSpec => []HistoryInv
<1>1. HInit => HistoryInv
    BY DEF HInit, Init, HistoryInv, TypeOK
<1> QED
    BY <1>1, HistoryIsKept, PTL DEF HSpec

\* groups.rs:142-157, 165-181: once Agree sightings in a row name a value, that
\* is the value held, for any number of devices and values.
THEOREM AgreementCorrect == HSpec => []AgreementIsHeeded
<1>1. HistoryInv => AgreementIsHeeded
    <2> SUFFICES ASSUME HistoryInv, NEW m \in DOMAIN groups
                 PROVE  /\ runs[m].idn.n >= Agree => groups[m].idn = runs[m].idn.of
                        /\ runs[m].shp.n >= Agree => groups[m].shp = runs[m].shp.of
        BY DEF AgreementIsHeeded
    <2>1. /\ groups[m].idnVote # None => groups[m].idnVote.n \in 1 .. Agree - 1
          /\ groups[m].shpVote # None => groups[m].shpVote.n \in 1 .. Agree - 1
        BY DEF HistoryInv, TypeOK, Group, Vote
    <2>2. Followed(m)
        BY DEF HistoryInv
    <2> QED
        BY <2>1, <2>2, CountAssumption DEF Followed, Follows
<1> QED
    BY <1>1, HistoryAlways, PTL

\* groups.rs:110-121, 288-321: a device that counts as sent to was last sent
\* the target it has now.
THEOREM WireCorrect == HSpec => []WireHoldsTarget
<1>1. HistoryInv => WireHoldsTarget
    BY DEF HistoryInv, WireHolds, WireHoldsTarget
<1> QED
    BY <1>1, HistoryAlways, PTL

\* groups.rs:54-56, 142-157: an online device changes only to what the last
\* Agree sightings all named.
THEOREM ChangesCorrect == HSpec => ChangesAreAgreed
<1> DEFINE Agreed ==
       \A m \in DOMAIN groups \intersect DOMAIN groups' :
        Online(groups[m]) =>
            /\ groups'[m].idn # groups[m].idn => runs'[m].idn = [of |-> groups'[m].idn, n |-> Agree]
            /\ groups'[m].shp # groups[m].shp => runs'[m].shp = [of |-> groups'[m].shp, n |-> Agree]
<1>1. HistoryInv /\ [HNext]_historyVars => [Agreed]_historyVars
    <2> SUFFICES ASSUME HistoryInv, HNext,
                        NEW m \in DOMAIN groups \intersect DOMAIN groups', Online(groups[m])
                 PROVE  /\ groups'[m].idn # groups[m].idn => runs'[m].idn = [of |-> groups'[m].idn, n |-> Agree]
                        /\ groups'[m].shp # groups[m].shp => runs'[m].shp = [of |-> groups'[m].shp, n |-> Agree]
        OBVIOUS
    <2>1. ASSUME NEW reply \in Replies, HObserve(reply)
          PROVE  /\ groups'[m].idn # groups[m].idn => runs'[m].idn = [of |-> groups'[m].idn, n |-> Agree]
                 /\ groups'[m].shp # groups[m].shp => runs'[m].shp = [of |-> groups'[m].shp, n |-> Agree]
        <3>1. CASE m \in DOMAIN reply
            BY <2>1, <3>1, HeardAgain
        <3>2. CASE m \notin DOMAIN reply
            BY <2>1, <3>2 DEF HObserve, Observe
        <3> QED
            BY <3>1, <3>2
    <2>2. CASE ~\E reply \in Replies : HObserve(reply)
        <3>1. groups[m] \in Group
            BY DEF HistoryInv, TypeOK
        <3>2. CASE HSweep
            BY <3>2 DEF HSweep, Sweep
        <3>3. CASE \E k \in Mac, percent \in Percent : HSetTarget(k, percent)
            BY <3>1, <3>3 DEF HSetTarget, SetTarget, Group
        <3>4. CASE \E k \in Mac : HClearTarget(k)
            BY <3>1, <3>4 DEF HClearTarget, ClearTarget, Group
        <3>5. CASE \E k \in Mac : HSent(k)
            BY <3>1, <3>5 DEF HSent, Sent, Group
        <3>6. CASE \E time \in Lapses : Elapse(time)
            <4>1. \E time \in Lapses : groups'[m] = Older(groups[m], time)
                BY <3>6 DEF Elapse
            <4> QED
                BY <3>1, <4>1 DEF Older, Group
        <3> QED
            BY <2>2, <3>2, <3>3, <3>4, <3>5, <3>6 DEF HNext
    <2> QED
        BY <2>1, <2>2
<1> QED
    BY <1>1, HistoryAlways, PTL DEF HSpec, ChangesAreAgreed

-----------------------------------------------------------------------------
(* Targets and acknowledgements.                                           *)

\* engine.rs:488-495; groups.rs:288-301; speed.rs:88-115: the target a device
\* has reads on each of its fans as the percentage last asked for it, and a
\* device released since has none, after any sequence of operations.
THEOREM TargetsCorrect == HSpec => []TargetsReadAsAsked
<1>1. HistoryInv => TargetsReadAsAsked
    <2> SUFFICES ASSUME HistoryInv, NEW m \in DOMAIN groups, groups[m].target # None
                 PROVE  asked[m] # None /\ ReadsAs(groups[m].target, asked[m].shp, asked[m].percent)
        BY DEF TargetsReadAsAsked
    <2>1. asked[m] \in Asks /\ groups[m].target = Prepare[asked[m].shp][asked[m].percent]
        BY DEF HistoryInv, AskHolds
    <2>2. asked[m].shp \in Shape /\ asked[m].percent \in Percent
        BY <2>1 DEF Asks
    <2>3. /\ asked[m].shp \in Device /\ asked[m].percent \in 30 .. 100
          /\ groups[m].target = Commanded(asked[m].shp, asked[m].percent)
        BY <2>1, <2>2, SpeedAssumption
    <2>4. \A device \in Device, percent \in 30 .. 100 : ReadsAs(Commanded(device, percent), device, percent)
        BY CommandReadsBack DEF ReadsAs
    <2>5. ReadsAs(groups[m].target, asked[m].shp, asked[m].percent)
        BY <2>3, <2>4
    <2> QED
        BY <2>1, <2>5, AskAssumption
<1> QED
    BY <1>1, HistoryAlways, PTL

\* groups.rs:100-106; speed.rs:152-161: a group that counts as acknowledged
\* reports every fan within two percent of its target.
THEOREM AcksCorrect == HSpec => []AcksAreNear
<1>1. AcksAreNear
    <2> SUFFICES ASSUME NEW m \in DOMAIN groups, Acknowledged(groups[m]), NEW slot \in Slots
                 PROVE  PercentFromDuty(groups[m].duty[slot]) - PercentFromDuty(groups[m].target[slot]) \in -2 .. 2
        BY DEF AcksAreNear
    <2>1. <<groups[m].duty, groups[m].target>> \in Acks
        BY DEF Acknowledged, Applied
    <2>2. /\ groups[m].duty \in FanDuties /\ groups[m].target \in FanDuties
          /\ Matches(groups[m].duty, groups[m].target)
        BY <2>1, SpeedAssumption
    <2> QED
        BY <2>2, MatchesAreNear
<1> QED
    BY <1>1, PTL
============================================================================
