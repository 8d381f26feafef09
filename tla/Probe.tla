-------------------------------- MODULE Probe -------------------------------
(***************************************************************************)
(* The commands set and run of src/bin/probe.rs: what they send to the     *)
(* groups, and how they put them back.  The session has a tracker of its   *)
(* own, of which only what these commands use is here; the engine of run   *)
(* is what module Engine lets a host see of it.  Time passes in any way    *)
(* between two steps, so a limit may be reached at any turn of a loop.     *)
(*                                                                         *)
(* Left out: discover, which sends nothing, and all that is printed.       *)
(***************************************************************************)
EXTENDS Speed

CONSTANTS
    None,
    Groups,    \* the groups that may be heard
    DeviceOf,  \* what each is
    First,     \* the duties a group may be found at
    Percents   \* percentages that may be asked for

ASSUME ProbeAssumption ==
    /\ DeviceOf \in [Groups -> Device]
    /\ \A g \in Groups : DeviceOf[g].kind = 0 /\ DeviceOf[g].fans > 0
    /\ First \subseteq [Groups -> FanDuties]
    /\ Percents \subseteq 0 .. 100
    /\ None \notin Groups \union FanDuties

VARIABLES
    command,  \* set, run, or run --leave
    step,     \* what it does next
    owner,    \* who has the dongle open: none, the engine, the session
    fan,      \* the duties each group runs at
    aim,      \* the engine's targets
    heard,    \* the session's tracker: the duties last reported
    target,   \* its targets
    sent,     \* whether its last_sent is there
    back,     \* the duties each group is to be put back to
    todo,     \* groups run has still to put back
    now,      \* the group apply or hold is at
    part,     \* which apply, or hold, it is
    fresh,    \* whether the last poll heard that group
    failed,   \* an earlier part failed
    result,
    last      \* history: the duties last sent to each group, or in vain

radio == <<fan, last>>
session == <<heard, target, sent>>
turn == <<now, part, fresh>>
vars == <<command, step, owner, aim, radio, session, back, todo, turn, failed, result>>

Duties(g) == [p \in Percents |-> [slot \in Slots |->
                 IF slot <= DeviceOf[g].fans THEN DutyFromPercent(p) ELSE 0]]

Full == [slot \in Slots |-> DutyFromPercent(100)]

Silent == [g \in Groups |-> None]

Init ==
    /\ command \in {"set", "run", "run --leave"}
    /\ step = "check"
    /\ owner = "none"
    /\ fan \in First /\ last = Silent
    /\ aim = Silent
    /\ heard = Silent /\ target = Silent /\ sent = [g \in Groups |-> FALSE]
    /\ back = Silent /\ todo = {}
    /\ now = None /\ part = "none" /\ fresh = FALSE
    /\ failed = FALSE
    /\ result = "none"

End(how) ==
    /\ step' = "done" /\ owner' = "none" /\ result' = how
    /\ now' = None /\ part' = "none" /\ fresh' = FALSE

-----------------------------------------------------------------------------
(* run's engine.                                                           *)

\* L-Connect runs or cannot be looked for, or the dongle does not open.
Refused ==
    /\ step \in {"check", "open"}
    /\ End("failed")
    /\ UNCHANGED <<command, aim, radio, session, back, todo, failed>>

EngineOpens ==
    /\ step = "check" /\ command # "set"
    /\ owner' = "engine" /\ step' = "tick"
    /\ UNCHANGED <<command, aim, radio, session, back, todo, turn, failed, result>>

\* The first snapshot after a tick: the groups heard by then, and their duties.
FirstSnapshot ==
    /\ step = "tick"
    /\ \E known \in SUBSET Groups :
          back' = [g \in Groups |-> IF g \in known THEN fan[g] ELSE None]
    /\ step' = "engine"
    /\ UNCHANGED <<command, owner, aim, radio, session, todo, turn, failed, result>>

NoTick ==
    /\ step = "tick"
    /\ End("failed")
    /\ UNCHANGED <<command, aim, radio, session, back, todo, failed>>

\* The engine gives a group what was asked for, or full speed, and sends it.
EngineAims(g) ==
    /\ owner = "engine" /\ step \in {"engine", "stop"}
    /\ \E duties \in {Duties(g)[p] : p \in Percents} \union {Full} :
          aim' = [aim EXCEPT ![g] = Prepared(DeviceOf[g], duties)]
    /\ UNCHANGED <<command, step, owner, radio, session, back, todo, turn, failed, result>>

EngineSends(g) ==
    /\ owner = "engine" /\ step \in {"engine", "stop"} /\ aim[g] # None
    /\ fan' \in {fan, [fan EXCEPT ![g] = aim[g]]}
    /\ last' = [last EXCEPT ![g] = aim[g]]
    /\ UNCHANGED <<command, step, owner, aim, session, back, todo, turn, failed, result>>

\* The time is over or the user quits: the last snapshot, and what is to be
\* put back.
LastSnapshot ==
    /\ step = "engine"
    /\ IF command = "run --leave" THEN back' = aim ELSE UNCHANGED back
    /\ todo' = {g \in Groups : back'[g] # None}
    /\ step' = "stop"
    /\ UNCHANGED <<command, owner, aim, radio, session, turn, failed, result>>

EngineStopped ==
    /\ step = "stop"
    /\ owner' = "none" /\ step' = "open"
    /\ UNCHANGED <<command, aim, radio, session, back, todo, turn, failed, result>>

-----------------------------------------------------------------------------
(* A session.                                                              *)

SessionOpens ==
    /\ step = "open" \/ (step = "check" /\ command = "set")
    /\ owner' = "session" /\ step' = "greet"
    /\ UNCHANGED <<command, aim, radio, session, back, todo, turn, failed, result>>

\* A poll hears some of the groups.
Heard ==
    \E known \in SUBSET Groups :
        /\ heard' = [g \in Groups |-> IF g \in known THEN fan[g] ELSE heard[g]]
        /\ fresh' = (now \in known)

\* The first heartbeat and the first poll.
Greeted ==
    /\ step = "greet"
    /\ Heard
    /\ step' = "choose"
    /\ UNCHANGED <<command, owner, aim, radio, target, sent, back, todo, now, part, failed, result>>

\* They fail, or no group or several answer to the prefix given to set.
NotGreeted ==
    /\ step = "greet" \/ (step = "choose" /\ command = "set")
    /\ End("failed")
    /\ UNCHANGED <<command, aim, radio, session, back, todo, failed>>

\* apply begins: a target that is new is due at once.
StartApply(g, duties, which) ==
    LET prepared == Prepared(DeviceOf[g], duties) IN
    /\ target' = [target EXCEPT ![g] = prepared]
    /\ sent' = [sent EXCEPT ![g] = @ /\ target[g] = prepared]
    /\ now' = g /\ part' = which
    /\ step' = "beat"

Chosen(g) ==
    /\ step = "choose" /\ command = "set" /\ heard[g] # None
    /\ back' = [back EXCEPT ![g] = heard[g]]
    /\ StartApply(g, heard[g], "echo")
    /\ UNCHANGED <<command, owner, aim, radio, heard, todo, fresh, failed, result>>

-----------------------------------------------------------------------------
(* What follows a part of set or run.                                      *)

\* apply(wanted), then hold, then apply(before) whatever became of them.
SetGoesOn(ok, g) ==
    \/ /\ part = "echo" /\ ok
       /\ \E p \in Percents : StartApply(g, Duties(g)[p], "wanted")
       /\ UNCHANGED <<owner, failed, result>>
    \/ /\ part = "wanted" /\ ok
       /\ part' = "hold" /\ step' = "beat"
       /\ UNCHANGED <<owner, target, sent, now, failed, result>>
    \/ /\ part = "hold" \/ (part = "wanted" /\ ~ok)
       /\ StartApply(g, back[g], "restore")
       /\ failed' = ~ok
       /\ UNCHANGED <<owner, result>>

\* A mistake: a restore that went well hides that the part before it failed.
ForgetHeldVariant(ok) ==
    /\ (part = "echo" /\ ~ok) \/ part = "restore"
    /\ End(IF ok THEN "ok" ELSE "failed")
    /\ UNCHANGED <<target, sent, failed>>

\* echo failed, or the restore is over: held?, then restored.
SetEnds(ok) ==
    /\ (part = "echo" /\ ~ok) \/ part = "restore"
    /\ End(IF ok /\ ~failed THEN "ok" ELSE "failed")
    /\ UNCHANGED <<target, sent, failed>>

\* A mistake: a group that is not put back ends the run.
StopAtFirstVariant(ok) ==
    /\ part = "confirm"
    /\ IF ok
       THEN /\ now' = None /\ part' = "none" /\ fresh' = FALSE /\ step' = "choose"
            /\ UNCHANGED <<owner, result>>
       ELSE End("failed")
    /\ UNCHANGED <<target, sent, failed>>

RunGoesOn(ok) ==
    /\ part = "confirm"
    /\ failed' = (failed \/ ~ok)
    /\ now' = None /\ part' = "none" /\ fresh' = FALSE
    /\ step' = "choose"
    /\ UNCHANGED <<owner, target, sent, result>>

\* The part under way returns Ok or Err.
PartEnds(ok) ==
    /\ \/ SetGoesOn(ok, now) /\ UNCHANGED fresh
       \/ SetEnds(ok)
       \/ RunGoesOn(ok)
    /\ UNCHANGED <<command, aim, back, todo>>

\* run's next group: applied if the poll heard it, a failure if not.
NextGroup(g) ==
    /\ step = "choose" /\ g \in todo
    /\ todo' = todo \ {g}
    /\ IF heard[g] # None
       THEN /\ StartApply(g, back[g], "confirm")
            /\ UNCHANGED failed
       ELSE /\ failed' = TRUE
            /\ UNCHANGED <<target, sent, now, part, step>>
    /\ UNCHANGED <<command, owner, aim, radio, heard, back, fresh, result>>

RunEnds ==
    /\ step = "choose" /\ command # "set" /\ todo = {}
    /\ End(IF failed THEN "failed" ELSE "ok")
    /\ UNCHANGED <<command, aim, radio, session, back, todo, failed>>

-----------------------------------------------------------------------------
(* The loop of apply and hold.                                             *)

\* The heartbeat goes out, is not due, or fails.
Beat ==
    /\ step = "beat"
    /\ \/ step' = "send"
          /\ UNCHANGED <<command, owner, aim, target, sent, back, todo, turn, failed, result>>
       \/ PartEnds(FALSE)
    /\ UNCHANGED <<radio, heard>>

Due == ~sent[now] \/ ~Matches(heard[now], target[now])

\* The payload reaches the fans, or is lost in the air.
Send ==
    /\ step = "send"
    /\ fan' \in {fan, [fan EXCEPT ![now] = target[now]]}
    /\ last' = [last EXCEPT ![now] = target[now]]
    /\ sent' = [sent EXCEPT ![now] = TRUE]
    /\ step' = "poll"
    /\ UNCHANGED <<command, owner, aim, heard, target, back, todo, turn, failed, result>>

\* A send that fails may have got some of its frames out.
SendFails ==
    /\ step = "send"
    /\ last' = [last EXCEPT ![now] = target[now]]
    /\ PartEnds(FALSE)
    /\ UNCHANGED <<fan, heard>>

NotDue ==
    /\ step = "send" /\ ~Due
    /\ step' = "poll"
    /\ UNCHANGED <<command, owner, aim, radio, session, back, todo, turn, failed, result>>

PollHears ==
    /\ step = "poll"
    /\ Heard
    /\ step' = "judge"
    /\ UNCHANGED <<command, owner, aim, radio, target, sent, back, todo, now, part, failed, result>>

PollFails ==
    /\ step = "poll"
    /\ PartEnds(FALSE)
    /\ UNCHANGED <<radio, heard>>

\* A report that is not of this poll counts while it is younger than ACK_WINDOW.
Acknowledged ==
    /\ step = "judge" /\ part # "hold"
    /\ Matches(heard[now], target[now])
    /\ PartEnds(TRUE)
    /\ UNCHANGED <<radio, heard>>

\* Not acknowledged yet; or the time of hold is not over.
OnceMore ==
    /\ step = "judge"
    /\ part # "hold" => ~fresh \/ ~Matches(heard[now], target[now])
    /\ step' = "beat"
    /\ UNCHANGED <<command, owner, aim, radio, session, back, todo, turn, failed, result>>

\* ACK_LIMIT has passed, or the time of hold is over.
TimeIsUp ==
    /\ step = "judge"
    /\ part # "hold" => ~fresh \/ ~Matches(heard[now], target[now])
    /\ PartEnds(part = "hold")
    /\ UNCHANGED <<radio, heard>>

Next ==
    \/ Refused \/ EngineOpens \/ FirstSnapshot \/ NoTick \/ LastSnapshot \/ EngineStopped
    \/ SessionOpens \/ Greeted \/ NotGreeted \/ RunEnds
    \/ \E g \in Groups : EngineAims(g) \/ EngineSends(g) \/ Chosen(g) \/ NextGroup(g)
    \/ Beat \/ Send \/ SendFails \/ NotDue \/ PollHears \/ PollFails
    \/ Acknowledged \/ OnceMore \/ TimeIsUp

Spec == Init /\ [][Next]_vars

-----------------------------------------------------------------------------
(* Properties.                                                             *)

\* The duties a put back sends for those on record.
Back(g) == Prepared(DeviceOf[g], back[g])

\* Within twice what an acknowledgement allows.
Near(run, meant) == \A slot \in Slots : run[slot] - meant[slot] \in -10 .. 10

\* probe.rs:360-367, 525-535: a command that ends well has put every group on
\* record back, whatever was lost on the way and however old a report may be: it
\* was the last thing sent to the group, and the group runs at it.  It is what
\* prepare makes of the duties on record, so a chain from the right whose fans
\* differed ends up turned around.  A report from before set's change may
\* acknowledge both the change and its end, when it lies between the two;
\* then they are near each other, and the group runs at one of them.
OkMeansPutBack ==
    result = "ok" => \A g \in Groups : back[g] # None =>
        /\ last[g] = Back(g)
        /\ IF command = "set" THEN Near(fan[g], Back(g)) ELSE Matches(fan[g], Back(g))

\* probe.rs:360-364, 524-529: once the session has heard a group, no failure of
\* one part keeps the others from being put back: no group of run is passed
\* over, and whatever set did in between, it leaves no other target than the
\* old duties.
PutBackIsTried ==
    step = "done" /\ heard # Silent =>
        /\ todo = {}
        /\ \A g \in Groups : back[g] # None /\ target[g] # None => target[g] = Back(g)
=============================================================================
