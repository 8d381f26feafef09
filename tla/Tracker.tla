------------------------------ MODULE Tracker ------------------------------
(***************************************************************************)
(* What the engine knows of the devices it hears: src/groups.rs.            *)
(*                                                                         *)
(* `groups` is the tracker's list of devices, as a function of the         *)
(* addresses known.  `order` is its list of online addresses, as the       *)
(* relation "is listed no later than": a reflexive total order on the      *)
(* addresses listed, from which the slot of a device in a speed command is *)
(* counted.                                                                *)
(*                                                                         *)
(* Instants are kept as ages: `silence` is the time since last_seen, `age` *)
(* the time since last_sent.  Elapse lets time pass; an age stops growing  *)
(* once no comparison in the code can tell it from a greater one           *)
(* (ForgetAfter and Keepalive are those bounds).                           *)
(*                                                                         *)
(* A device record is abstracted to three values: its identity (master,    *)
(* channel, receiver), its shape (kind, fan count, side, models) and the   *)
(* duties it reports.  Speeds and motherboard readings decide nothing.     *)
(***************************************************************************)
EXTENDS Integers, FiniteSets

CONSTANTS
    Mac,           \* device addresses; their order is that of integers
    Identity,      \* who a device belongs to and how it is addressed
    Shape,         \* what a device is
    Duty,          \* duties, four to a device, as one value
    Reported,      \* those of them that devices report
    Percent,       \* what set_target is asked for, before it is prepared
    Master,        \* dongle addresses
    Home,          \* the dongle the tracker was made for (master_mac)
    OwnerOf,       \* the master an identity names
    FanShapes,     \* shapes with fans to drive
    Prepare,       \* shape and percentage to the duties that go on the wire
    Acks,          \* pairs of a reported and a sent duty that count as applied
    None,          \* Option::None
    OfflineAfter, ForgetAfter, AckWindow, Keepalive,
    Lapses,        \* the amounts of time that pass at once
    Agree,         \* sightings that change an identity or a shape
    MaxUnack       \* bound: the count of unacknowledged sends stops here

ASSUME AddressAssumption == Mac \subseteq Int /\ IsFiniteSet(Mac)
ASSUME DeviceAssumption ==
    /\ Home \in Master
    /\ OwnerOf \in [Identity -> Master]
    /\ FanShapes \subseteq Shape
    /\ Prepare \in [Shape -> [Percent -> Duty]]
    /\ Reported \subseteq Duty
    /\ Acks \subseteq Duty \X Duty
ASSUME NoneAssumption == None \notin Duty \union Int \union [for: Identity, n: Int] \union [for: Shape, n: Int]
ASSUME TimeAssumption ==
    /\ AckWindow \in Nat /\ OfflineAfter \in Nat /\ ForgetAfter \in Nat /\ Keepalive \in Nat
    /\ AckWindow <= OfflineAfter
    /\ OfflineAfter < ForgetAfter
    /\ Lapses \subseteq Nat
ASSUME CountAssumption == Agree \in Nat /\ Agree >= 2 /\ MaxUnack \in Nat

VARIABLES
    groups,  \* the devices known
    order    \* who is listed no later than whom

trackerVars == <<groups, order>>

CapAt(n, bound) == IF n < bound THEN n ELSE bound

Sighting == [idn: Identity, shp: Shape, duty: Reported]

\* A vote for a value other than the one held: how many sightings in a row.
Vote(S) == [for: S, n: 1 .. Agree - 1] \union {None}

Group == [idn: Identity, shp: Shape, duty: Duty, silence: 0 .. ForgetAfter,
          target: Duty \union {None}, age: 0 .. Keepalive \union {None},
          unack: 0 .. MaxUnack, idnVote: Vote(Identity), shpVote: Vote(Shape)]

-----------------------------------------------------------------------------
(* One device.                                                             *)

Online(g) == g.silence <= OfflineAfter
Bound(g) == OwnerOf[g.idn] = Home
HasFans(g) == g.shp \in FanShapes

Applied(g) == <<g.duty, g.target>> \in Acks

Acknowledged(g) ==
    /\ g.target # None
    /\ g.silence <= AckWindow
    /\ Applied(g)

\* Variants: definitions named ...Variant are ways the code could be wrong.
\* No behaviour uses them; each shows that some property tells it from the
\* definition that follows it.

\* That the target was never sent is no reason to send it.
DueWhenDifferentVariant(g) == g.target # None /\ ~Applied(g)

Due(g) ==
    /\ g.target # None
    /\ g.age # None /\ Applied(g) => g.age >= Keepalive

NewGroup(seen) ==
    [idn |-> seen.idn, shp |-> seen.shp, duty |-> seen.duty, silence |-> 0,
     target |-> None, age |-> None, unack |-> 0, idnVote |-> None, shpVote |-> None]

\* The vote after a sighting of `seen` by a device that holds `kept`.
NextVote(vote, kept, seen) ==
    IF seen = kept THEN None
    ELSE IF vote # None /\ vote.for = seen
         THEN IF vote.n + 1 >= Agree THEN None ELSE [for |-> seen, n |-> vote.n + 1]
         ELSE [for |-> seen, n |-> 1]

\* Sightings that disagree with the value held count together, whatever they name.
LooseSettledVariant(vote, kept, seen) ==
    IF seen # kept /\ vote # None /\ vote.n + 1 >= Agree THEN seen ELSE kept

\* One sighting more than it takes.
SlowSettledVariant(vote, kept, seen) ==
    IF seen # kept /\ vote # None /\ vote.for = seen /\ vote.n >= Agree THEN seen ELSE kept

\* The value held after that sighting: the new one once Agree sightings agree.
Settled(vote, kept, seen) ==
    IF seen # kept /\ vote # None /\ vote.for = seen /\ vote.n + 1 >= Agree
    THEN seen
    ELSE kept

TakeSighting(g, seen) ==
    LET changed ==
            IF Online(g)
            THEN [g EXCEPT !.duty = seen.duty, !.silence = 0,
                           !.idn = Settled(g.idnVote, g.idn, seen.idn),
                           !.idnVote = NextVote(g.idnVote, g.idn, seen.idn),
                           !.shp = Settled(g.shpVote, g.shp, seen.shp),
                           !.shpVote = NextVote(g.shpVote, g.shp, seen.shp)]
            ELSE [g EXCEPT !.duty = seen.duty, !.silence = 0,
                           !.idn = seen.idn, !.idnVote = None,
                           !.shp = seen.shp, !.shpVote = None]
    IN  [changed EXCEPT !.unack = IF Acknowledged(changed) THEN 0 ELSE @]

-----------------------------------------------------------------------------
(* The order and what is read off it.                                      *)

Listed == {m \in Mac : <<m, m>> \in order}

\* Every device online joins, the ones already listed too.
JoinTwiceVariant(gs) ==
    LET online  == {m \in DOMAIN gs : Online(gs[m])}
        staying == online \intersect Listed
    IN  {p \in order : p[1] \in staying /\ p[2] \in staying}
          \union (staying \X online)
          \union {p \in online \X online : p[1] <= p[2]}

\* The whole list is sorted, not the newcomers alone.
SortAllVariant(gs) ==
    LET online == {m \in DOMAIN gs : Online(gs[m])}
    IN  {p \in online \X online : p[1] <= p[2]}

\* rebuild: those listed and online stay as they are, those online and not
\* listed join behind them by ascending address.
Rebuilt(gs) ==
    LET online  == {m \in DOMAIN gs : Online(gs[m])}
        staying == online \intersect Listed
        joining == online \ Listed
    IN  {p \in order : p[1] \in staying /\ p[2] \in staying}
          \union (staying \X joining)
          \union {p \in joining \X joining : p[1] <= p[2]}

\* Online fan groups bound to the dongle: Tracker::fans.
Fans == {m \in Listed : Bound(groups[m]) /\ HasFans(groups[m])}

\* The first in slot order of a set of listed devices.
FirstOf(S) == CHOOSE m \in S : \A k \in S : <<m, k>> \in order

Slot(m) ==
    IF m \in Listed /\ Bound(groups[m])
    THEN Cardinality({k \in Listed : Bound(groups[k]) /\ <<k, m>> \in order})
    ELSE 1

-----------------------------------------------------------------------------
(* The operations.                                                         *)

Init ==
    /\ groups = [m \in {} |-> None]
    /\ order = {}

\* A reply names each device it lists once: `reply` maps those addresses to
\* what was seen of them.
Replies == UNION {[heard -> Sighting] : heard \in SUBSET Mac}

Observe(reply) ==
    /\ groups' = [m \in DOMAIN groups \union DOMAIN reply |->
                    IF m \notin DOMAIN reply THEN groups[m]
                    ELSE IF m \in DOMAIN groups THEN TakeSighting(groups[m], reply[m])
                    ELSE NewGroup(reply[m])]
    /\ order' = Rebuilt(groups')

OnlineOnlyVariant(g) == Online(g)

Kept(g) == Online(g) \/ (Bound(g) /\ g.silence < ForgetAfter)

Sweep ==
    /\ groups' = [m \in {k \in DOMAIN groups : Kept(groups[k])} |-> groups[m]]
    /\ order' = Rebuilt(groups')

\* A changed target keeps the time the old one was sent.
KeepSentVariant(m, percent) ==
    /\ m \in DOMAIN groups
    /\ groups' = [groups EXCEPT ![m].target = Prepare[groups[m].shp][percent]]
    /\ UNCHANGED order

\* A device that already reports the duties asked for keeps the target it has.
KeepAppliedVariant(m, percent) ==
    /\ m \in DOMAIN groups
    /\ LET prepared == Prepare[groups[m].shp][percent] IN
       groups' = IF <<groups[m].duty, prepared>> \in Acks
                 THEN groups
                 ELSE [groups EXCEPT ![m].target = prepared, ![m].age = None, ![m].unack = 0]
    /\ UNCHANGED order

SetTarget(m, percent) ==
    /\ m \in DOMAIN groups
    /\ LET prepared == Prepare[groups[m].shp][percent] IN
       groups' = IF groups[m].target = prepared
                 THEN groups
                 ELSE [groups EXCEPT ![m].target = prepared, ![m].age = None, ![m].unack = 0]
    /\ UNCHANGED order

ClearTarget(m) ==
    /\ groups' = IF m \in DOMAIN groups
                 THEN [groups EXCEPT ![m].target = None, ![m].age = None, ![m].unack = 0]
                 ELSE groups
    /\ UNCHANGED order

Sent(m) ==
    /\ m \in DOMAIN groups
    /\ groups[m].target # None
    /\ groups' = [groups EXCEPT ![m].age = 0, ![m].unack = CapAt(@ + 1, MaxUnack)]
    /\ UNCHANGED order

Older(g, time) ==
    [g EXCEPT !.silence = CapAt(@ + time, ForgetAfter),
              !.age = IF @ = None THEN None ELSE CapAt(@ + time, Keepalive)]

Elapse(time) ==
    /\ groups' = [m \in DOMAIN groups |-> Older(groups[m], time)]
    /\ UNCHANGED order

Next ==
    \/ \E reply \in Replies : Observe(reply)
    \/ Sweep
    \/ \E m \in Mac, percent \in Percent : SetTarget(m, percent)
    \/ \E m \in Mac : ClearTarget(m)
    \/ \E m \in Mac : Sent(m)
    \/ \E time \in Lapses : Elapse(time)

Spec == Init /\ [][Next]_trackerVars
-----------------------------------------------------------------------------
(* Properties.                                                             *)

\* Every device known is a well-formed record.
TypeOK ==
    /\ DOMAIN groups \subseteq Mac
    /\ groups \in [DOMAIN groups -> Group]
    /\ order \subseteq Mac \X Mac

\* groups.rs:142-157, 165-181: a vote is open only against the value held,
\* and target, last_sent and unacknowledged are reset together (295-299,
\* 309-312): a device without a target has never been sent it, and sends
\* are counted only once one went out.
RecordsAgree ==
    \A m \in DOMAIN groups : LET g == groups[m] IN
        /\ g.idnVote # None => g.idnVote.for # g.idn
        /\ g.shpVote # None => g.shpVote.for # g.shp
        /\ g.target = None => g.age = None
        /\ g.age = None => g.unack = 0

\* groups.rs:241-257: the order is a total order of the devices listed, each
\* listed once, and those are exactly known devices.
OrderIsTotal ==
    /\ \A p \in order : p[1] \in Listed /\ p[2] \in Listed
    /\ \A a, b \in Listed :
        /\ <<a, b>> \in order \/ <<b, a>> \in order
        /\ <<a, b>> \in order /\ <<b, a>> \in order => a = b
    /\ \A a, b, c \in Listed :
        <<a, b>> \in order /\ <<b, c>> \in order => <<a, c>> \in order

\* groups.rs:241-271: whoever is online is listed, and whoever is listed is
\* known, so no lookup behind online(), fans() or slot() comes back empty.
OnlineAreListed ==
    /\ Listed \subseteq DOMAIN groups
    /\ \A m \in DOMAIN groups : Online(groups[m]) => m \in Listed

\* The order and the records are in step: the inductive part of OrderInv.
OrderBase == TypeOK /\ OrderIsTotal /\ OnlineAreListed

BoundListed == {m \in Listed : Bound(groups[m])}

\* groups.rs:278-284, speed.rs:143-150: no two listed devices bound to the
\* dongle have one slot, and none has a slot beyond their number: two groups
\* that answer to the same slot would take each other's duties.
SlotsAreApart ==
    \A m \in BoundListed :
        /\ Slot(m) \in 1 .. Cardinality(BoundListed)
        /\ \A k \in BoundListed : Slot(k) = Slot(m) => k = m

\* groups.rs:241-284: whatever devices do, the order and the records stay in
\* step, and each group to be driven has a slot of its own.
OrderInv == OrderBase /\ SlotsAreApart

\* groups.rs:6-12: devices keep the order they were first listed in.  Of two
\* devices that stay listed neither overtakes the other, newcomers go behind
\* all who stay, and newcomers of one reply go by ascending address.
PlacesAreKept ==
    [][/\ \A a, b \in Listed \intersect Listed' :
            <<a, b>> \in order <=> <<a, b>> \in order'
       /\ \A a \in Listed \intersect Listed', b \in Listed' \ Listed :
            <<b, a>> \notin order'
       /\ \A a, b \in Listed' \ Listed :
            <<a, b>> \in order' <=> a <= b]_trackerVars

\* groups.rs:221-239: a device bound to the dongle loses its record, and with
\* it its place and its target, only after ForgetAfter unheard; one that was
\* never bound does not outlive its going offline at a sweep.
ForgottenWhenSilent ==
    [][\A m \in DOMAIN groups \ DOMAIN groups' :
        /\ ~Online(groups[m])
        /\ Bound(groups[m]) => groups[m].silence >= ForgetAfter]_trackerVars
============================================================================
