--------------------------- MODULE TrackerProofs ----------------------------
(***************************************************************************)
(* Theorems about the tracker, for any set of addresses, identities and    *)
(* shapes and any windows: its types, and that the slot order is a total   *)
(* order of the devices listed in which nobody overtakes anybody.          *)
(***************************************************************************)
EXTENDS Tracker, FiniteSetTheorems, TLAPS

-----------------------------------------------------------------------------
(* One device.                                                             *)

\* A vote stays a vote.
LEMMA NextVoteType ==
    ASSUME NEW S, NEW vote \in Vote(S), NEW kept \in S, NEW seen \in S
    PROVE  NextVote(vote, kept, seen) \in Vote(S)
<1>1. CASE seen = kept
    BY <1>1 DEF NextVote, Vote
<1>2. CASE seen # kept /\ vote # None /\ vote.for = seen
    <2>1. NextVote(vote, kept, seen) = IF vote.n + 1 >= Agree THEN None ELSE [for |-> seen, n |-> vote.n + 1]
        BY <1>2 DEF NextVote
    <2>2. vote.n \in 1 .. Agree - 1
        BY <1>2 DEF Vote
    <2> QED
        BY <2>1, <2>2, CountAssumption DEF Vote
<1>3. CASE seen # kept /\ ~(vote # None /\ vote.for = seen)
    <2>1. NextVote(vote, kept, seen) = [for |-> seen, n |-> 1]
        BY <1>3 DEF NextVote
    <2>2. 1 \in 1 .. Agree - 1
        BY CountAssumption
    <2> QED
        BY <2>1, <2>2 DEF Vote
<1> QED
    BY <1>1, <1>2, <1>3

\* A sighting keeps a record well formed.
LEMMA TakeSightingType ==
    ASSUME NEW g \in Group, NEW seen \in Sighting
    PROVE  TakeSighting(g, seen) \in Group
<1>1. /\ NextVote(g.idnVote, g.idn, seen.idn) \in Vote(Identity)
      /\ NextVote(g.shpVote, g.shp, seen.shp) \in Vote(Shape)
    BY NextVoteType DEF Group, Sighting
<1>2. /\ Settled(g.idnVote, g.idn, seen.idn) \in Identity
      /\ Settled(g.shpVote, g.shp, seen.shp) \in Shape
    BY DEF Settled, Group, Sighting
<1>3. seen.duty \in Duty /\ seen.idn \in Identity /\ seen.shp \in Shape
    BY DeviceAssumption DEF Sighting
<1>4. 0 \in 0 .. ForgetAfter /\ 0 \in 0 .. MaxUnack
    BY TimeAssumption, CountAssumption
<1> DEFINE changed ==
            IF Online(g)
            THEN [g EXCEPT !.duty = seen.duty, !.silence = 0,
                           !.idn = Settled(g.idnVote, g.idn, seen.idn),
                           !.idnVote = NextVote(g.idnVote, g.idn, seen.idn),
                           !.shp = Settled(g.shpVote, g.shp, seen.shp),
                           !.shpVote = NextVote(g.shpVote, g.shp, seen.shp)]
            ELSE [g EXCEPT !.duty = seen.duty, !.silence = 0,
                           !.idn = seen.idn, !.idnVote = None,
                           !.shp = seen.shp, !.shpVote = None]
<1>5. changed \in Group
    BY <1>1, <1>2, <1>3, <1>4 DEF Group, Vote
<1>6. TakeSighting(g, seen) = [changed EXCEPT !.unack = IF Acknowledged(changed) THEN 0 ELSE @]
    BY DEF TakeSighting
<1> HIDE DEF changed
<1> QED
    BY <1>4, <1>5, <1>6 DEF Group

LEMMA NewGroupType ==
    ASSUME NEW seen \in Sighting
    PROVE  NewGroup(seen) \in Group
BY DeviceAssumption, TimeAssumption, CountAssumption DEF NewGroup, Sighting, Group, Vote

\* Time keeps a record well formed.
LEMMA OlderType ==
    ASSUME NEW g \in Group, NEW time \in Nat
    PROVE  Older(g, time) \in Group
<1>1. CapAt(g.silence + time, ForgetAfter) \in 0 .. ForgetAfter
    BY TimeAssumption DEF Group, CapAt
<1>2. ASSUME g.age # None PROVE CapAt(g.age + time, Keepalive) \in 0 .. Keepalive
    BY <1>2, TimeAssumption DEF Group, CapAt
<1> QED
    BY <1>1, <1>2 DEF Group, Older

\* The order rebuilt only names devices known or listed before.
LEMMA RebuiltType ==
    ASSUME NEW gs, DOMAIN gs \subseteq Mac, order \subseteq Mac \X Mac
    PROVE  Rebuilt(gs) \subseteq Mac \X Mac
BY DEF Rebuilt, Listed

-----------------------------------------------------------------------------

LEMMA TypeStep == TypeOK /\ [Next]_trackerVars => TypeOK'
<1> SUFFICES ASSUME TypeOK, [Next]_trackerVars PROVE TypeOK'
    OBVIOUS
<1>0. /\ DOMAIN groups \subseteq Mac
      /\ \A m \in DOMAIN groups : groups[m] \in Group
      /\ order \subseteq Mac \X Mac
    BY DEF TypeOK
<1>1. ASSUME NEW reply \in Replies, Observe(reply) PROVE TypeOK'
    <2>1. PICK heard \in SUBSET Mac : reply \in [heard -> Sighting]
        BY DEF Replies
    <2>2. DOMAIN groups' = DOMAIN groups \union heard
        BY <1>1, <2>1 DEF Observe
    <2>3. ASSUME NEW m \in DOMAIN groups' PROVE groups'[m] \in Group
        <3>1. CASE m \notin heard
            BY <3>1, <1>0, <1>1, <2>1, <2>2 DEF Observe
        <3>2. CASE m \in heard /\ m \in DOMAIN groups
            <4>1. groups'[m] = TakeSighting(groups[m], reply[m])
                BY <3>2, <1>1, <2>1 DEF Observe
            <4> QED
                BY <4>1, <3>2, <1>0, <2>1, TakeSightingType
        <3>3. CASE m \in heard /\ m \notin DOMAIN groups
            <4>1. groups'[m] = NewGroup(reply[m])
                BY <3>3, <1>1, <2>1 DEF Observe
            <4> QED
                BY <4>1, <3>3, <2>1, NewGroupType
        <3> QED
            BY <3>1, <3>2, <3>3
    <2>4. groups' \in [DOMAIN groups' -> Group]
        BY <2>3, <1>1 DEF Observe
    <2>5. order' \subseteq Mac \X Mac
        BY <1>0, <1>1, <2>2, RebuiltType DEF Observe
    <2> QED
        BY <1>0, <2>2, <2>4, <2>5 DEF TypeOK
<1>2. CASE Sweep
    <2>1. DOMAIN groups' \subseteq DOMAIN groups
        BY <1>2 DEF Sweep
    <2>2. groups' \in [DOMAIN groups' -> Group]
        BY <1>0, <1>2 DEF Sweep
    <2>3. order' \subseteq Mac \X Mac
        BY <1>0, <1>2, <2>1, RebuiltType DEF Sweep
    <2> QED
        BY <1>0, <2>1, <2>2, <2>3 DEF TypeOK
<1>3. ASSUME NEW m \in Mac, NEW percent \in Percent, SetTarget(m, percent) PROVE TypeOK'
    <2>1. groups[m].shp \in Shape
        BY <1>0, <1>3 DEF SetTarget, Group
    <2>2. Prepare[groups[m].shp][percent] \in Duty
        BY <2>1, DeviceAssumption
    <2>3. 0 \in 0 .. MaxUnack
        BY CountAssumption
    <2> QED
        BY <1>0, <1>3, <2>2, <2>3 DEF SetTarget, TypeOK, Group
<1>4. ASSUME NEW m \in Mac, ClearTarget(m) PROVE TypeOK'
    <2>1. 0 \in 0 .. MaxUnack
        BY CountAssumption
    <2> QED
        BY <1>0, <1>4, <2>1 DEF ClearTarget, TypeOK, Group
<1>5. ASSUME NEW m \in Mac, Sent(m) PROVE TypeOK'
    <2>1. 0 \in 0 .. Keepalive
        BY TimeAssumption
    <2>2. CapAt(groups[m].unack + 1, MaxUnack) \in 0 .. MaxUnack
        BY <1>0, <1>5, CountAssumption DEF Sent, CapAt, Group
    <2> QED
        BY <1>0, <1>5, <2>1, <2>2 DEF Sent, TypeOK, Group
<1>6. ASSUME NEW time \in Lapses, Elapse(time) PROVE TypeOK'
    <2>1. time \in Nat
        BY TimeAssumption
    <2>2. \A m \in DOMAIN groups : Older(groups[m], time) \in Group
        BY <1>0, <2>1, OlderType
    <2> QED
        BY <1>0, <1>6, <2>2 DEF Elapse, TypeOK
<1>7. CASE UNCHANGED trackerVars
    BY <1>7 DEF TypeOK, trackerVars
<1> QED
    BY <1>1, <1>2, <1>3, <1>4, <1>5, <1>6, <1>7 DEF Next

\* Every record stays well formed: votes below Agree, ages within their
\* windows, targets prepared duties; the order names known addresses only.
THEOREM TypeCorrect == Spec => []TypeOK
<1>1. Init => TypeOK
    BY DEF Init, TypeOK
<1> QED
    BY <1>1, TypeStep, PTL DEF Spec

-----------------------------------------------------------------------------
(* The order.                                                              *)

\* What the three parts of a rebuilt order say about two addresses.
LEMMA RebuiltPairs ==
    ASSUME NEW gs, DOMAIN gs \subseteq Mac, order \subseteq Mac \X Mac,
           NEW a, NEW b
    PROVE  LET online == {m \in DOMAIN gs : Online(gs[m])} IN
           <<a, b>> \in Rebuilt(gs) <=>
                \/ a \in online /\ a \in Listed /\ b \in online /\ b \in Listed /\ <<a, b>> \in order
                \/ a \in online /\ a \in Listed /\ b \in online /\ b \notin Listed
                \/ a \in online /\ a \notin Listed /\ b \in online /\ b \notin Listed /\ a <= b
BY DEF Rebuilt

\* Rebuilding a total order gives a total order of exactly the devices online,
\* which agrees with the old one on those that stay.
LEMMA RebuiltTotal ==
    ASSUME NEW gs, DOMAIN gs \subseteq Mac, order \subseteq Mac \X Mac, OrderIsTotal,
           order' = Rebuilt(gs)
    PROVE  /\ Listed' = {m \in DOMAIN gs : Online(gs[m])}
           /\ OrderIsTotal'
<1> DEFINE online == {m \in DOMAIN gs : Online(gs[m])}
           pair(a, b) ==
                \/ a \in online /\ a \in Listed /\ b \in online /\ b \in Listed /\ <<a, b>> \in order
                \/ a \in online /\ a \in Listed /\ b \in online /\ b \notin Listed
                \/ a \in online /\ a \notin Listed /\ b \in online /\ b \notin Listed /\ a <= b
<1>1. \A a, b : <<a, b>> \in order' <=> pair(a, b)
    BY RebuiltPairs
<1>2. online \subseteq Mac
    OBVIOUS
<1>3. \A a \in online : a \in Int
    BY <1>2, AddressAssumption
<1>12. online = {m \in DOMAIN gs : Online(gs[m])}
    OBVIOUS
<1>4. \A a \in Listed : <<a, a>> \in order
    BY DEF Listed
<1> HIDE DEF online
<1>5. Listed' = {m \in Mac : <<m, m>> \in order'}
    BY DEF Listed
<1>6. Listed' = online
    BY <1>1, <1>2, <1>3, <1>4, <1>5
<1>7. \A p \in order' : p[1] \in Listed' /\ p[2] \in Listed'
    <2>1. order' \subseteq Mac \X Mac
        BY RebuiltType
    <2>2. ASSUME NEW p \in order' PROVE p[1] \in online /\ p[2] \in online
        <3>1. p = <<p[1], p[2]>>
            BY <2>1
        <3>2. pair(p[1], p[2])
            BY <1>1, <3>1
        <3> QED
            BY <3>2
    <2> QED
        BY <1>6, <2>2
<1>8. ASSUME NEW a \in online, NEW b \in online PROVE pair(a, b) \/ pair(b, a)
    <2>1. CASE a \in Listed /\ b \in Listed
        BY <2>1 DEF OrderIsTotal
    <2>2. CASE a \in Listed /\ b \notin Listed
        BY <2>2
    <2>3. CASE a \notin Listed /\ b \in Listed
        BY <2>3
    <2>4. CASE a \notin Listed /\ b \notin Listed
        <3>1. a <= b \/ b <= a
            BY <1>3
        <3> QED
            BY <2>4, <3>1
    <2> QED
        BY <2>1, <2>2, <2>3, <2>4
<1>9. ASSUME NEW a \in online, NEW b \in online, pair(a, b), pair(b, a) PROVE a = b
    <2>1. CASE a \in Listed /\ b \in Listed
        BY <1>9, <2>1 DEF OrderIsTotal
    <2>2. CASE a \notin Listed /\ b \notin Listed
        <3>1. a <= b /\ b <= a
            BY <1>9, <2>2
        <3> QED
            BY <1>3, <3>1
    <2> QED
        BY <1>9, <2>1, <2>2
<1>10. ASSUME NEW a \in online, NEW b \in online, NEW c \in online, pair(a, b), pair(b, c)
       PROVE  pair(a, c)
    <2>1. CASE a \in Listed /\ c \in Listed
        BY <1>10, <2>1 DEF OrderIsTotal
    <2>2. CASE a \in Listed /\ c \notin Listed
        BY <2>2
    <2>3. CASE a \notin Listed
        <3>1. /\ b \notin Listed /\ c \notin Listed
              /\ a <= b /\ b <= c
            BY <1>10, <2>3
        <3> QED
            BY <1>3, <2>3, <3>1
    <2> QED
        BY <2>1, <2>2, <2>3
<1>11. OrderIsTotal'
    <2> HIDE DEF pair
    <2> QED
        BY <1>1, <1>6, <1>7, <1>8, <1>9, <1>10 DEF OrderIsTotal
<1> QED
    BY <1>6, <1>11, <1>12

\* Steps that leave the order alone leave it total.
LEMMA SameOrder ==
    ASSUME OrderBase, TypeOK', UNCHANGED order, DOMAIN groups' = DOMAIN groups,
           \A m \in DOMAIN groups : Online(groups'[m]) => Online(groups[m])
    PROVE  OrderBase'
BY DEF OrderBase, OrderIsTotal, OnlineAreListed, Listed

LEMMA OrderStep == OrderBase /\ [Next]_trackerVars => OrderBase'
<1> SUFFICES ASSUME OrderBase, [Next]_trackerVars PROVE OrderBase'
    OBVIOUS
<1>0. TypeOK /\ TypeOK'
    BY TypeStep DEF OrderBase
<1>1. ASSUME DOMAIN groups' \subseteq Mac, order' = Rebuilt(groups') PROVE OrderBase'
    <2>1. order \subseteq Mac \X Mac /\ OrderIsTotal
        BY DEF OrderBase, TypeOK
    <2>2. /\ Listed' = {m \in DOMAIN groups' : Online(groups'[m])}
          /\ OrderIsTotal'
        BY <1>1, <2>1, RebuiltTotal
    <2> QED
        BY <1>0, <2>2 DEF OrderBase, OnlineAreListed
<1>2. CASE \E reply \in Replies : Observe(reply)
    BY <1>0, <1>1, <1>2 DEF Observe, TypeOK
<1>3. CASE Sweep
    BY <1>0, <1>1, <1>3 DEF Sweep, TypeOK
<1>4. ASSUME NEW m \in Mac, NEW percent \in Percent, SetTarget(m, percent) PROVE OrderBase'
    <2>1. \A k \in DOMAIN groups : groups'[k].silence = groups[k].silence
        BY <1>0, <1>4 DEF SetTarget, TypeOK, Group
    <2> QED
        BY <1>0, <1>4, <2>1, SameOrder DEF SetTarget, Online, TypeOK
<1>5. ASSUME NEW m \in Mac, ClearTarget(m) PROVE OrderBase'
    <2>1. \A k \in DOMAIN groups : groups'[k].silence = groups[k].silence
        BY <1>0, <1>5 DEF ClearTarget, TypeOK, Group
    <2> QED
        BY <1>0, <1>5, <2>1, SameOrder DEF ClearTarget, Online, TypeOK
<1>6. ASSUME NEW m \in Mac, Sent(m) PROVE OrderBase'
    <2>1. \A k \in DOMAIN groups : groups'[k].silence = groups[k].silence
        BY <1>0, <1>6 DEF Sent, TypeOK, Group
    <2> QED
        BY <1>0, <1>6, <2>1, SameOrder DEF Sent, Online, TypeOK
<1>7. ASSUME NEW time \in Lapses, Elapse(time) PROVE OrderBase'
    <2>1. time \in Nat
        BY TimeAssumption
    <2>2. ASSUME NEW m \in DOMAIN groups, Online(groups'[m]) PROVE Online(groups[m])
        <3>1. groups'[m].silence = CapAt(groups[m].silence + time, ForgetAfter)
            BY <1>0, <1>7 DEF Elapse, Older, TypeOK, Group
        <3>2. groups[m].silence \in 0 .. ForgetAfter
            BY <1>0 DEF TypeOK, Group
        <3> QED
            BY <2>1, <2>2, <3>1, <3>2, TimeAssumption DEF Online, CapAt
    <2> QED
        BY <1>0, <1>7, <2>2, SameOrder DEF Elapse
<1>8. CASE UNCHANGED trackerVars
    BY <1>0, <1>8, SameOrder DEF trackerVars
<1> QED
    BY <1>2, <1>3, <1>4, <1>5, <1>6, <1>7, <1>8 DEF Next

LEMMA OrderStart == Init => OrderBase
<1> SUFFICES ASSUME Init PROVE OrderBase
    OBVIOUS
<1>1. TypeOK
    BY DEF Init, TypeOK
<1>2. Listed = {}
    BY DEF Init, Listed
<1> QED
    BY <1>1, <1>2 DEF Init, OrderBase, OrderIsTotal, OnlineAreListed

\* In a total order of finitely many devices the number of those no later than a
\* device tells it from the others.
LEMMA SlotsFromOrder == OrderBase => SlotsAreApart
<1> SUFFICES ASSUME OrderBase, NEW m \in BoundListed
             PROVE  /\ Slot(m) \in 1 .. Cardinality(BoundListed)
                    /\ \A k \in BoundListed : Slot(k) = Slot(m) => k = m
    BY DEF SlotsAreApart
<1> DEFINE upto(a) == {k \in BoundListed : <<k, a>> \in order}
<1>1. IsFiniteSet(BoundListed)
    BY AddressAssumption, FS_Subset DEF BoundListed, Listed
<1>2. \A a \in BoundListed : upto(a) \subseteq BoundListed /\ a \in upto(a)
    BY DEF BoundListed, Listed
<1>3. ASSUME NEW a \in BoundListed
      PROVE  /\ Slot(a) = Cardinality(upto(a)) /\ IsFiniteSet(upto(a))
             /\ Cardinality(upto(a)) \in 1 .. Cardinality(BoundListed)
    <2>1. {k \in Listed : Bound(groups[k]) /\ <<k, a>> \in order} = upto(a)
        BY DEF BoundListed
    <2>2. Slot(a) = Cardinality(upto(a))
        BY <2>1 DEF Slot, BoundListed
    <2>3. IsFiniteSet(upto(a)) /\ Cardinality(upto(a)) <= Cardinality(BoundListed)
        BY <1>1, <1>2, FS_Subset
    <2>4. Cardinality(upto(a)) \in Nat /\ Cardinality(BoundListed) \in Nat /\ Cardinality(upto(a)) # 0
        BY <1>1, <1>2, <2>3, FS_CardinalityType, FS_EmptySet
    <2> QED
        BY <2>2, <2>3, <2>4
<1>4. ASSUME NEW a \in BoundListed, NEW b \in BoundListed, <<a, b>> \in order, Slot(a) = Slot(b)
      PROVE  a = b
    <2>1. upto(a) \subseteq upto(b)
        BY <1>4 DEF OrderBase, OrderIsTotal, BoundListed
    <2>2. upto(a) = upto(b)
        BY <1>3, <1>4, <2>1, FS_Subset
    <2>3. b \in upto(a)
        BY <1>2, <2>2
    <2> QED
        BY <1>4, <2>3 DEF OrderBase, OrderIsTotal, BoundListed
<1>5. ASSUME NEW k \in BoundListed, Slot(k) = Slot(m) PROVE k = m
    <2>1. <<k, m>> \in order \/ <<m, k>> \in order
        BY DEF OrderBase, OrderIsTotal, BoundListed
    <2> HIDE DEF upto
    <2> QED
        BY <1>4, <1>5, <2>1
<1> QED
    BY <1>3, <1>5

\* The slot order is a total order of the devices listed, each of them known,
\* every device online among them, and each group has a slot of its own.
THEOREM OrderCorrect == Spec => []OrderInv
<1>1. OrderBase => OrderInv
    BY SlotsFromOrder DEF OrderBase, OrderInv
<1> QED
    BY <1>1, OrderStart, OrderStep, PTL DEF Spec

\* Nobody overtakes anybody, newcomers go last, by ascending address.
THEOREM PlacesCorrect == Spec => PlacesAreKept
<1> DEFINE Kept_ ==
       /\ \A a, b \in Listed \intersect Listed' :
            <<a, b>> \in order <=> <<a, b>> \in order'
       /\ \A a \in Listed \intersect Listed', b \in Listed' \ Listed :
            <<b, a>> \notin order'
       /\ \A a, b \in Listed' \ Listed :
            <<a, b>> \in order' <=> a <= b
<1>1. OrderBase /\ [Next]_trackerVars => [Kept_]_trackerVars
    <2> SUFFICES ASSUME OrderBase, Next PROVE Kept_
        BY DEF trackerVars
    <2>1. CASE UNCHANGED order
        BY <2>1 DEF Listed
    <2>2. ASSUME order' = Rebuilt(groups') PROVE Kept_
        <3>1. TypeOK'
            BY TypeStep DEF OrderBase
        <3>2. /\ DOMAIN groups' \subseteq Mac
              /\ order \subseteq Mac \X Mac /\ OrderIsTotal
            BY <3>1 DEF OrderBase, TypeOK
        <3>3. Listed' = {m \in DOMAIN groups' : Online(groups'[m])}
            BY <2>2, <3>2, RebuiltTotal
        <3>4. \A a, b : <<a, b>> \in order' <=>
                \/ a \in Listed' /\ a \in Listed /\ b \in Listed' /\ b \in Listed /\ <<a, b>> \in order
                \/ a \in Listed' /\ a \in Listed /\ b \in Listed' /\ b \notin Listed
                \/ a \in Listed' /\ a \notin Listed /\ b \in Listed' /\ b \notin Listed /\ a <= b
            BY <2>2, <3>2, <3>3, RebuiltPairs
        <3> QED
            BY <3>4
    <2> QED
        BY <2>1, <2>2 DEF Next, Observe, Sweep, SetTarget, ClearTarget, Sent, Elapse
<1> QED
    BY <1>1, OrderStart, OrderStep, PTL DEF Spec, PlacesAreKept

-----------------------------------------------------------------------------
(* Records.                                                                *)

\* A device's votes are against what it holds, and its send record is empty
\* without a target.
GoodRecord(g) ==
    /\ g.idnVote # None => g.idnVote.for # g.idn
    /\ g.shpVote # None => g.shpVote.for # g.shp
    /\ g.target = None => g.age = None
    /\ g.age = None => g.unack = 0

\* A vote after a sighting is against the value held after it.
LEMMA VoteAgainstKept ==
    ASSUME NEW S, NEW vote \in Vote(S), NEW kept \in S, NEW seen \in S,
           vote # None => vote.for # kept
    PROVE  NextVote(vote, kept, seen) # None =>
               NextVote(vote, kept, seen).for # Settled(vote, kept, seen)
<1>1. CASE seen = kept
    BY <1>1 DEF NextVote
<1>2. CASE seen # kept /\ vote # None /\ vote.for = seen
    BY <1>2 DEF NextVote, Settled
<1>3. CASE seen # kept /\ ~(vote # None /\ vote.for = seen)
    BY <1>3 DEF NextVote, Settled
<1> QED
    BY <1>1, <1>2, <1>3

LEMMA TakeSightingRecord ==
    ASSUME NEW g \in Group, GoodRecord(g), NEW seen \in Sighting
    PROVE  GoodRecord(TakeSighting(g, seen))
<1> DEFINE after == TakeSighting(g, seen)
<1>1. /\ after.target = g.target /\ after.age = g.age
      /\ after.unack = g.unack \/ after.unack = 0
    BY DEF TakeSighting, Group
<1>2. /\ after.idnVote # None => after.idnVote.for # after.idn
      /\ after.shpVote # None => after.shpVote.for # after.shp
    <2>1. CASE Online(g)
        <3>1. /\ after.idn = Settled(g.idnVote, g.idn, seen.idn)
              /\ after.idnVote = NextVote(g.idnVote, g.idn, seen.idn)
              /\ after.shp = Settled(g.shpVote, g.shp, seen.shp)
              /\ after.shpVote = NextVote(g.shpVote, g.shp, seen.shp)
            BY <2>1 DEF TakeSighting, Group
        <3>2. /\ g.idn \in Identity /\ g.shp \in Shape
              /\ seen.idn \in Identity /\ seen.shp \in Shape
              /\ g.idnVote \in Vote(Identity) /\ g.shpVote \in Vote(Shape)
            BY DEF Group, Sighting
        <3> HIDE DEF after
        <3> QED
            BY <3>1, <3>2, VoteAgainstKept DEF GoodRecord
    <2>2. CASE ~Online(g)
        BY <2>2 DEF TakeSighting, Group
    <2> QED
        BY <2>1, <2>2
<1> HIDE DEF after
<1>3. GoodRecord(after)
    BY <1>1, <1>2 DEF GoodRecord
<1> QED
    BY <1>3 DEF after

LEMMA RecordsStep == TypeOK /\ RecordsAgree /\ [Next]_trackerVars => RecordsAgree'
<1> SUFFICES ASSUME TypeOK, RecordsAgree, [Next]_trackerVars, NEW m \in DOMAIN groups'
             PROVE  GoodRecord(groups'[m])
    BY DEF RecordsAgree, GoodRecord
<1>0. \A k \in DOMAIN groups : groups[k] \in Group /\ GoodRecord(groups[k])
    BY DEF TypeOK, RecordsAgree, GoodRecord
<1>1. ASSUME NEW reply \in Replies, Observe(reply) PROVE GoodRecord(groups'[m])
    <2>1. PICK heard \in SUBSET Mac : reply \in [heard -> Sighting]
        BY DEF Replies
    <2>2. CASE m \notin heard
        BY <1>0, <1>1, <2>1, <2>2 DEF Observe
    <2>3. CASE m \in heard /\ m \in DOMAIN groups
        <3>1. groups'[m] = TakeSighting(groups[m], reply[m])
            BY <1>1, <2>1, <2>3 DEF Observe
        <3> QED
            BY <1>0, <2>1, <2>3, <3>1, TakeSightingRecord
    <2>4. CASE m \in heard /\ m \notin DOMAIN groups
        BY <1>1, <2>1, <2>4 DEF Observe, NewGroup, GoodRecord
    <2> QED
        BY <2>2, <2>3, <2>4
<1>2. CASE Sweep
    BY <1>0, <1>2 DEF Sweep
<1>3. ASSUME NEW k \in Mac, NEW percent \in Percent, SetTarget(k, percent) PROVE GoodRecord(groups'[m])
    <2>1. Prepare[groups[k].shp][percent] # None
        BY <1>0, <1>3, DeviceAssumption, NoneAssumption DEF SetTarget, Group
    <2> QED
        BY <1>0, <1>3, <2>1 DEF SetTarget, GoodRecord, Group
<1>4. ASSUME NEW k \in Mac, ClearTarget(k) PROVE GoodRecord(groups'[m])
    BY <1>0, <1>4 DEF ClearTarget, GoodRecord, Group
<1>5. ASSUME NEW k \in Mac, Sent(k) PROVE GoodRecord(groups'[m])
    BY <1>0, <1>5, NoneAssumption DEF Sent, GoodRecord, Group
<1>6. ASSUME NEW time \in Lapses, Elapse(time) PROVE GoodRecord(groups'[m])
    <2>1. groups'[m] = Older(groups[m], time) /\ m \in DOMAIN groups
        BY <1>6 DEF Elapse
    <2>2. groups[m].age # None => CapAt(groups[m].age + time, Keepalive) \in Int
        BY <1>0, <2>1, TimeAssumption DEF CapAt, Group
    <2> QED
        BY <1>0, <2>1, <2>2, NoneAssumption DEF Older, GoodRecord, Group
<1>7. CASE UNCHANGED trackerVars
    BY <1>0, <1>7 DEF trackerVars
<1> QED
    BY <1>1, <1>2, <1>3, <1>4, <1>5, <1>6, <1>7 DEF Next

\* No vote is ever open for the value already held, and a device without a
\* target has no record of a send.
THEOREM RecordsCorrect == Spec => []RecordsAgree
<1>1. Init => TypeOK /\ RecordsAgree
    BY DEF Init, TypeOK, RecordsAgree
<1> QED
    BY <1>1, TypeStep, RecordsStep, PTL DEF Spec

\* A device bound to the dongle is forgotten only after ForgetAfter unheard.
THEOREM ForgettingCorrect == Spec => ForgottenWhenSilent
<1> DEFINE Silent ==
       \A m \in DOMAIN groups \ DOMAIN groups' :
           /\ ~Online(groups[m])
           /\ Bound(groups[m]) => groups[m].silence >= ForgetAfter
<1>1. TypeOK /\ [Next]_trackerVars => [Silent]_trackerVars
    <2> SUFFICES ASSUME TypeOK, Next PROVE Silent
        BY DEF trackerVars
    <2>1. CASE Sweep
        <3>1. \A m \in DOMAIN groups : groups[m].silence \in Int
            BY TimeAssumption DEF TypeOK, Group
        <3> QED
            BY <2>1, <3>1, TimeAssumption DEF Sweep, Kept
    <2>2. CASE ~Sweep
        BY <2>2 DEF Next, Observe, SetTarget, ClearTarget, Sent, Elapse
    <2> QED
        BY <2>1, <2>2
<1>2. Init => TypeOK
    BY DEF Init, TypeOK
<1> QED
    BY <1>1, <1>2, TypeStep, PTL DEF Spec, ForgottenWhenSilent
============================================================================
