--------------------------- MODULE TrackerHistory ---------------------------
(***************************************************************************)
(* The tracker with three history variables the code does not keep: how    *)
(* many sightings in a row named the same identity and the same shape,     *)
(* counted apart from the votes of src/groups.rs, the duties that last     *)
(* went out to each device, and the percentage last asked for.             *)
(***************************************************************************)
EXTENDS Tracker

\* What is asked for, with the shape of the device it was asked of.
Asks == [percent: Percent, shp: Shape]

ASSUME AskAssumption == None \notin Asks

VARIABLES
    runs,  \* per known device, the last identity and shape seen and how often in a row
    wire,  \* per known device, the duties last sent, None before the first
    asked  \* per known device, what was last asked for, None before the first and
           \* after a release

historyVars == <<groups, order, runs, wire, asked>>

Longer(run, seen) ==
    [of |-> seen, n |-> IF run.of = seen THEN CapAt(run.n + 1, Agree) ELSE 1]

HInit ==
    /\ Init
    /\ runs = [m \in {} |-> None]
    /\ wire = [m \in {} |-> None]
    /\ asked = [m \in {} |-> None]

HObserve(reply) ==
    /\ Observe(reply)
    /\ runs' = [m \in DOMAIN groups' |->
                  IF m \notin DOMAIN reply THEN runs[m]
                  ELSE IF m \in DOMAIN groups
                       THEN [idn |-> Longer(runs[m].idn, reply[m].idn),
                             shp |-> Longer(runs[m].shp, reply[m].shp)]
                       ELSE [idn |-> [of |-> reply[m].idn, n |-> 1],
                             shp |-> [of |-> reply[m].shp, n |-> 1]]]
    /\ wire' = [m \in DOMAIN groups' |-> IF m \in DOMAIN groups THEN wire[m] ELSE None]
    /\ asked' = [m \in DOMAIN groups' |-> IF m \in DOMAIN groups THEN asked[m] ELSE None]

HSweep ==
    /\ Sweep
    /\ runs' = [m \in DOMAIN groups' |-> runs[m]]
    /\ wire' = [m \in DOMAIN groups' |-> wire[m]]
    /\ asked' = [m \in DOMAIN groups' |-> asked[m]]

HSetTarget(m, percent) ==
    /\ SetTarget(m, percent)
    /\ asked' = [asked EXCEPT ![m] = [percent |-> percent, shp |-> groups[m].shp]]
    /\ UNCHANGED <<runs, wire>>

HClearTarget(m) ==
    /\ ClearTarget(m)
    /\ asked' = [k \in DOMAIN groups |-> IF k = m THEN None ELSE asked[k]]
    /\ UNCHANGED <<runs, wire>>

HSent(m) ==
    /\ Sent(m)
    /\ wire' = [wire EXCEPT ![m] = groups[m].target]
    /\ UNCHANGED <<runs, asked>>

HNext ==
    \/ \E reply \in Replies : HObserve(reply)
    \/ HSweep
    \/ \E m \in Mac, percent \in Percent : HSetTarget(m, percent)
    \/ \E m \in Mac : HClearTarget(m) \/ HSent(m)
    \/ \E time \in Lapses : Elapse(time) /\ UNCHANGED <<runs, wire, asked>>

HSpec == HInit /\ [][HNext]_historyVars

-----------------------------------------------------------------------------

\* groups.rs:54-56, 142-157: a garbled record must not change who an online
\* device belongs to or what it is: either changes only when the last Agree
\* sightings, none of a third value in between, all named the new one.
ChangesAreAgreed ==
    [][\A m \in DOMAIN groups \intersect DOMAIN groups' :
        Online(groups[m]) =>
            /\ groups'[m].idn # groups[m].idn => runs'[m].idn = [of |-> groups'[m].idn, n |-> Agree]
            /\ groups'[m].shp # groups[m].shp => runs'[m].shp = [of |-> groups'[m].shp, n |-> Agree]
      ]_historyVars

\* groups.rs:142-157, 165-181: the other way round, a device that really was
\* rebound or rebuilt is not held to its old self for ever: once Agree
\* sightings in a row name a value, that is the value held.
AgreementIsHeeded ==
    \A m \in DOMAIN groups :
        /\ runs[m].idn.n >= Agree => groups[m].idn = runs[m].idn.of
        /\ runs[m].shp.n >= Agree => groups[m].shp = runs[m].shp.of

\* groups.rs:110-121, 288-321: whatever sequence of targets, releases,
\* sightings and sends went before, a device that counts as sent to was last
\* sent the target it has now; so a changed target is always due at once.
WireHoldsTarget ==
    \A m \in DOMAIN groups :
        groups[m].age # None => wire[m] = groups[m].target
============================================================================
