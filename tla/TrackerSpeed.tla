---------------------------- MODULE TrackerSpeed ----------------------------
(***************************************************************************)
(* The tracker with the duties of module Speed: a shape is a device as     *)
(* speed commands see it, Prepare is what drive and prepare make of a      *)
(* percentage, and Acks is what acknowledged accepts.                      *)
(***************************************************************************)
EXTENDS TrackerHistory, Speed

ASSUME SpeedAssumption ==
    /\ Shape \subseteq Device
    /\ Percent \subseteq 30 .. 100  \* FLOOR_PERCENT and FAILSAFE_PERCENT bound what is asked
    /\ FanShapes = {s \in Shape : s.kind = 0 /\ s.fans > 0}
    /\ \A s \in Shape, p \in Percent : Prepare[s][p] = Commanded(s, p)
    /\ Acks \subseteq {pair \in FanDuties \X FanDuties : Matches(pair[1], pair[2])}
    /\ \A r \in Reported, s \in Shape, p \in Percent :
          Matches(r, Prepare[s][p]) => <<r, Prepare[s][p]>> \in Acks

\* Duties that every fan of a device reads as a percentage, and that name none
\* for a slot without a fan.
ReadsAs(duties, device, percent) ==
    \A slot \in Slots :
        IF slot <= device.fans THEN PercentFromDuty(duties[slot]) = percent ELSE duties[slot] = 0

\* engine.rs:488-495; groups.rs:288-301; speed.rs:88-115: whatever targets,
\* releases, sightings and sends went before, the target a device has reads on
\* each of its fans as the very percentage last asked for it, raised, moved and
\* turned around as its duties may be; one that was released since, or never
\* asked for, has none.  (A device that turns out to be another one keeps what
\* was prepared for its former shape until it is asked again.)
TargetsReadAsAsked ==
    \A m \in DOMAIN groups :
        groups[m].target # None =>
            asked[m] # None /\ ReadsAs(groups[m].target, asked[m].shp, asked[m].percent)

\* groups.rs:100-106; speed.rs:11-17, 152-161: a group that counts as
\* acknowledged, to which a stop sends nothing more, reports every fan within
\* two percent of its target, whatever it was sent before.
AcksAreNear ==
    \A m \in DOMAIN groups : LET g == groups[m] IN
        Acknowledged(g) => \A slot \in Slots :
            PercentFromDuty(g.duty[slot]) - PercentFromDuty(g.target[slot]) \in -2 .. 2
============================================================================
