------------------------------- MODULE Combat -------------------------------
(***************************************************************************)
(* Units of one shard that fight: the commands and abilities of Unit, its  *)
(* bleeding, the projectiles of attacks, removal and return, and what a    *)
(* restart of the cluster keeps of them (Unit, Ability, Projectile, their  *)
(* snapshots).                                                             *)
(*                                                                         *)
(* In a physics frame every node ticks once. A tick of a unit executes     *)
(* its command again and again while time of the tick is left. All units   *)
(* are player characters, and enemies: each has the passive VampireStatus. *)
(* The abilities are the attack at a target, the sacrifice of health and   *)
(* the recall. Where units are is left out: whether a target is in range,  *)
(* and how long it takes to get there, is open.                            *)
(***************************************************************************)
EXTENDS Integers

CONSTANTS
    Units,             \* ids of the player characters
    None,
    TickTime,          \* Const.TickInterval
    UseTime,           \* UseTime[slot]
    Cooldown,          \* Cooldown[slot]
    MaxHealth,
    StableHealth,      \* what the vampire status drains the health to
    AttackDamage,
    HealthCost,        \* what a sacrifice costs
    Lifesteal,         \* what an attack gives back to its user
    BleedingTime,
    BleedingInterval,
    BleedingDamage,
    MaxFlight          \* bound: frames a projectile flies

Slots == {"Attack", "Sacrifice", "Recall"}

\* The attack speed is bounded: no two shots of a unit are of the same age.
\* AddStatus refuses shorter intervals.
ASSUME CombatAssumption ==
    /\ None \notin Units
    /\ TickTime \in Nat \ {0}
    /\ UseTime \in [Slots -> Nat] /\ Cooldown \in [Slots -> Nat]
    /\ UseTime["Attack"] + Cooldown["Attack"] >= 2 * TickTime
    /\ {MaxHealth, AttackDamage, HealthCost, BleedingTime, BleedingDamage} \subseteq Nat \ {0}
    /\ Lifesteal \in Nat
    /\ StableHealth \in 1..MaxHealth
    /\ BleedingInterval \in Nat /\ BleedingInterval >= TickTime
    /\ MaxFlight \in Nat

MaxIterations == 5

VARIABLES
    units,             \* the units, by id; a unit that is "absent" is no object
    projectiles,       \* the projectiles in the world
    toTick,            \* units that have not ticked in this frame
    ticking,           \* the unit that executes its command, or None
    left,              \* remainingDeltaTime
    iterations,        \* of ExecuteCommands
    work,              \* history: what a unit has been doing without a break
    rest,              \* history: the time since an ability took effect
    effect             \* history: the effect of the last step, or None

frameVars == <<toTick, ticking, left, iterations>>
historyVars == <<work, rest, effect>>
vars == <<units, projectiles, frameVars, historyVars>>

Commands(u) ==
    {[slot |-> "Attack", target |-> t, repeat |-> TRUE] : t \in Units \ {u}} \cup
    {[slot |-> s, target |-> None, repeat |-> FALSE] : s \in {"Sacrifice", "Recall"}}

NoWork == [slot |-> None, target |-> None, time |-> 0]

\* The longest rest that matters.
Rested == Cooldown

NewUnit ==
    [where    |-> "live",
     isDead   |-> FALSE,
     health   |-> MaxHealth,
     cooldown |-> [s \in Slots |-> 0],
     progress |-> None,
     bleeding |-> None,
     command  |-> None]

IsLive(u) == units[u].where = "live"

Init ==
    /\ units = [u \in Units |-> NewUnit]
    /\ projectiles = {}
    /\ toTick = {}
    /\ ticking = None
    /\ left = 0
    /\ iterations = 0
    /\ work = [u \in Units |-> NoWork]
    /\ rest = [u \in Units |-> Rested]
    /\ effect = None

Lesser(m, n) == IF m < n THEN m ELSE n
Greater(m, n) == IF m < n THEN n ELSE m

----------------------------------------------------------------------------
(* What happens to a unit. *)

\* Die and Remove, at the health 0.
\* Faulty variant: also when the unit is no longer in the world.
HealthChangedAnyway(unit, delta) ==
    LET health == Lesser(MaxHealth, Greater(0, unit.health + delta))
    IN  [unit EXCEPT !.health = health,
                     !.isDead = @ \/ health = 0,
                     !.where = IF health = 0 THEN "removed" ELSE @]
HealthChanged(unit, delta) ==
    LET health == Lesser(MaxHealth, Greater(0, unit.health + delta))
    IN  IF unit.where # "live" THEN unit
        ELSE [unit EXCEPT !.health = health,
                          !.isDead = @ \/ health = 0,
                          !.where = IF health = 0 THEN "removed" ELSE @]

\* AddStatus of a BleedingStatus, which refreshes the one that is there.
BleedingAdded(unit, source) ==
    IF unit.where # "live" THEN unit
    ELSE IF unit.bleeding = None
    THEN [unit EXCEPT !.bleeding =
            [source |-> source, remaining |-> BleedingTime, countdown |-> BleedingInterval]]
    ELSE [unit EXCEPT !.bleeding.source = source,
                      !.bleeding.remaining = Greater(@, BleedingTime)]

\* ProcessStatuses. RemoveStatus does nothing to a unit that died of it.
StatusesProcessed(unit) ==
    LET old == unit.bleeding
        delta == Lesser(TickTime, old.remaining)
        isDue == old.countdown <= delta
        hurt == IF isDue THEN HealthChanged(unit, -BleedingDamage) ELSE unit
        new == [old EXCEPT !.remaining = @ - delta,
                           !.countdown = @ - delta + (IF isDue THEN BleedingInterval ELSE 0)]
    IN  IF old = None THEN unit
        ELSE IF new.remaining > 0 THEN [hurt EXCEPT !.bleeding = new]
        ELSE IF hurt.where = "live" THEN [hurt EXCEPT !.bleeding = None]
        ELSE hurt

CooldownsDecreased(unit) ==
    [unit EXCEPT !.cooldown = [s \in Slots |-> Greater(0, @[s] - TickTime)]]

----------------------------------------------------------------------------
(* Between two frames. *)

BetweenFrames == toTick = {} /\ ticking = None /\ \A p \in projectiles : p.hasTicked

\* SetCommand, for an ability, or for anything else (None). A command for the
\* ability in use changes nothing, not even its target.
\* Faulty variant: the use begins again.
SetCommandAnew(u, command) ==
    /\ BetweenFrames /\ IsLive(u)
    /\ units' = [units EXCEPT ![u].command = command, ![u].progress = None]
    /\ UNCHANGED <<projectiles, frameVars, historyVars>>
SetCommand(u, command) ==
    /\ BetweenFrames /\ IsLive(u)
    /\ LET previous == units[u].command
           isSame == previous # None /\ command # None /\ previous.slot = command.slot
       IN  units' = IF isSame THEN units
                    ELSE [units EXCEPT ![u].command = command, ![u].progress = None]
    /\ UNCHANGED <<projectiles, frameVars, historyVars>>

\* SpawnPlayerCharacter: a removed character that still exists comes back as
\* it was. Nobody deploys a dead one (CampaignPersistence).
\* Faulty variant: the dead come back, too.
SpawnAnyway(u) ==
    /\ BetweenFrames /\ ~ IsLive(u)
    /\ units' = [units EXCEPT ![u] = IF @.where = "absent" THEN NewUnit
                                     ELSE [@ EXCEPT !.where = "live"]]
    /\ UNCHANGED <<projectiles, frameVars, historyVars>>
Spawn(u) ==
    /\ BetweenFrames /\ ~ IsLive(u) /\ ~ units[u].isDead
    /\ units' = [units EXCEPT ![u] = IF @.where = "absent" THEN NewUnit
                                     ELSE [@ EXCEPT !.where = "live"]]
    /\ UNCHANGED <<projectiles, frameVars, historyVars>>

\* The garbage collector takes a removed unit that nothing refers to.
Collect(u) ==
    /\ BetweenFrames
    /\ units[u].where = "removed"
    /\ \A p \in projectiles : u \notin {p.user, p.target}
    /\ \A v \in Units \ {u} : units[v].bleeding # None => units[v].bleeding.source # u
    /\ units' = [units EXCEPT ![u] = [NewUnit EXCEPT !.where = "absent", !.isDead = units[u].isDead]]
    /\ rest' = [rest EXCEPT ![u] = Rested]
    /\ UNCHANGED <<projectiles, frameVars, work, effect>>

\* The world is saved and loaded: a snapshot holds neither the commands of a
\* unit nor whether a projectile has hit. One with a removed unit can not be
\* loaded, because the statuses of the unit refer to itself. (MaxFlight
\* bounds how long a projectile that hits again and again may live.)
Restart ==
    /\ BetweenFrames
    /\ \A p \in projectiles : p.age <= MaxFlight
    /\ \A u \in Units : units[u].where # "removed"
    /\ units' = [u \in Units |-> [units[u] EXCEPT !.command = None]]
    /\ projectiles' = {[p EXCEPT !.didHit = FALSE] : p \in projectiles}
    /\ UNCHANGED <<frameVars, historyVars>>

----------------------------------------------------------------------------
(* A frame. *)

StartFrame ==
    /\ BetweenFrames
    /\ toTick' = {u \in Units : IsLive(u)}
    /\ projectiles' = {[p EXCEPT !.hasTicked = FALSE] : p \in projectiles}
    /\ rest' = [u \in Units |-> [s \in Slots |-> Lesser(Rested[s], rest[u][s] + TickTime)]]
    /\ UNCHANGED <<units, ticking, left, iterations, work, effect>>

\* The vampire status drains a part of the unstable health.
Drained(unit) == {[unit EXCEPT !.health = h] : h \in Lesser(unit.health, StableHealth)..unit.health}

\* Unit.Tick up to ExecuteCommands, of a unit that is still in the world. The
\* vampire status leaves it no regeneration of health.
BeginTick(u) ==
    /\ ticking = None
    /\ u \in toTick
    /\ toTick' = toTick \ {u}
    /\ \E drained \in Drained(units[u]) :
          LET processed == StatusesProcessed(drained)
          IN  IF ~ IsLive(u) THEN UNCHANGED <<units, ticking, left, iterations>>
              ELSE IF processed.where # "live"
              THEN /\ units' = [units EXCEPT ![u] = processed]
                   /\ UNCHANGED <<ticking, left, iterations>>
              ELSE /\ units' = [units EXCEPT ![u] = CooldownsDecreased(processed)]
                   /\ ticking' = u
                   /\ left' = TickTime
                   /\ iterations' = 0
    /\ UNCHANGED <<projectiles, historyVars>>

\* The command it executes.
Current == units[ticking].command

\* The command is given up, or waits for the next tick if it is repeated.
GiveUp ==
    /\ units' = [units EXCEPT ![ticking].progress = None,
                              ![ticking].command = IF @.repeat THEN @ ELSE None]
    /\ left' = IF Current.repeat THEN 0 ELSE left
    /\ work' = [work EXCEPT ![ticking] = NoWork]
    /\ effect' = None
    /\ UNCHANGED <<projectiles, rest>>

\* GetAbilityContext finds no target.
LoseTarget ==
    /\ units' = [units EXCEPT ![ticking].progress = None, ![ticking].command = None]
    /\ work' = [work EXCEPT ![ticking] = NoWork]
    /\ effect' = None
    /\ UNCHANGED <<projectiles, left, rest>>

\* The target is out of range: the unit moves or turns as far as it gets.
Approach ==
    /\ Current.target # None
    /\ left' \in 0..left - 1
    /\ units' = [units EXCEPT ![ticking].progress = None]
    /\ work' = [work EXCEPT ![ticking] = NoWork]
    /\ effect' = None
    /\ UNCHANGED <<projectiles, rest>>

\* The progress of the use, begun now or before.
Progress ==
    LET progress == units[ticking].progress
    IN  IF progress # None /\ progress.slot = Current.slot THEN progress
        ELSE [slot |-> Current.slot, remaining |-> UseTime[Current.slot]]

\* History: time spent on the present command, after a break or without one.
Worked(time, hadBreak) ==
    LET before == work[ticking]
        goesOn == ~ hadBreak /\ before.slot = Current.slot /\ before.target = Current.target
    IN  [slot   |-> Current.slot,
         target |-> Current.target,
         time   |-> Lesser(UseTime[Current.slot], time + (IF goesOn THEN before.time ELSE 0))]

\* TakeEffect.
Affected(unit) ==
    CASE Current.slot = "Sacrifice" -> HealthChanged(unit, -HealthCost)
      [] Current.slot = "Recall" -> [unit EXCEPT !.where = "removed"]
      [] OTHER -> unit

Shots ==
    IF Current.slot # "Attack" THEN {}
    ELSE {[user |-> ticking, target |-> Current.target, age |-> 0, didHit |-> FALSE,
           hasTicked |-> TRUE]}

\* TriggerAbilityEffect.
TriggerAbilityEffect(time, hadBreak) ==
    LET affected == Affected(units[ticking])
    IN  /\ units' = [units EXCEPT ![ticking] =
               [affected EXCEPT !.cooldown[Current.slot] = Cooldown[Current.slot],
                                !.progress = None,
                                !.command = IF @.repeat THEN @ ELSE None]]
        /\ projectiles' = projectiles \cup Shots
        /\ work' = [work EXCEPT ![ticking] = NoWork]
        /\ rest' = [rest EXCEPT ![ticking][Current.slot] = left']
        /\ effect' = [slot   |-> Current.slot,
                      worked |-> Worked(time, hadBreak).time,
                      rested |-> rest[ticking][Current.slot] - left',
                      killed |-> affected.isDead]

\* The ability is used for what is left of the tick. The unit may have
\* arrived within the tick, but not in the middle of a use, which goes on as
\* far as 1.5 times the range, and the angle: no unit is so fast.
Use ==
    \E time \in 1..left :
        /\ time < left => Current.target # None /\ units[ticking].progress = None
        /\ IF time < Progress.remaining
           THEN /\ units' = [units EXCEPT ![ticking].progress = [Progress EXCEPT !.remaining = @ - time]]
                /\ left' = 0
                /\ work' = [work EXCEPT ![ticking] = Worked(time, time < left)]
                /\ effect' = None
                /\ UNCHANGED <<projectiles, rest>>
           ELSE /\ left' = time - Progress.remaining
                /\ TriggerAbilityEffect(Progress.remaining, time < left)

\* Ability.ValidateCost.
\* Faulty variant: only before the use.
CanPayAtFirst ==
    Current.slot = "Sacrifice" /\ units[ticking].progress = None => units[ticking].health > HealthCost
CanPay == Current.slot = "Sacrifice" => units[ticking].health > HealthCost

\* One iteration of ExecuteCommands.
ExecuteCommand ==
    /\ ticking # None
    /\ Current # None /\ left > 0 /\ iterations < MaxIterations
    /\ iterations' = iterations + 1
    /\ IF Current.target # None /\ ~ IsLive(Current.target) THEN LoseTarget
       ELSE IF units[ticking].cooldown[Current.slot] > 0 \/ ~ CanPay THEN GiveUp
       ELSE Approach \/ Use
    /\ UNCHANGED <<toTick, ticking>>

EndTick ==
    /\ ticking # None
    /\ Current = None \/ left = 0 \/ iterations = MaxIterations
    /\ ticking' = None
    /\ left' = 0
    /\ iterations' = 0
    /\ work' = IF iterations = 0 THEN [work EXCEPT ![ticking] = NoWork] ELSE work
    /\ effect' = None
    /\ UNCHANGED <<units, projectiles, toTick, rest>>

\* Projectile.Tick. OnProjectileHit: DealAttackDamageTo, and the user's
\* VampireStatus. A projectile that has hit is removed in the next frame.
Hit(p) ==
    LET hurt == [units EXCEPT ![p.target] = HealthChanged(@, -AttackDamage)]
        restored == [hurt EXCEPT ![p.user] = HealthChanged(@, Lifesteal)]
    IN  [restored EXCEPT ![p.target] = BleedingAdded(@, p.user)]

TickProjectile(p) ==
    /\ ticking = None
    /\ ~ p.hasTicked
    /\ \/ /\ p.didHit
          /\ projectiles' = projectiles \ {p}
          /\ UNCHANGED units
       \/ /\ ~ p.didHit /\ p.age < MaxFlight
          /\ projectiles' = (projectiles \ {p}) \cup {[p EXCEPT !.hasTicked = TRUE, !.age = @ + 1]}
          /\ UNCHANGED units
       \/ /\ ~ p.didHit
          /\ projectiles' = (projectiles \ {p}) \cup
                {[p EXCEPT !.hasTicked = TRUE, !.age = @ + 1, !.didHit = TRUE]}
          /\ units' = Hit(p)
    /\ UNCHANGED <<frameVars, historyVars>>

----------------------------------------------------------------------------

Next ==
    \/ \E u \in Units :
          \/ \E c \in Commands(u) \cup {None} : SetCommand(u, c)
          \/ Spawn(u)
          \/ Collect(u)
          \/ BeginTick(u)
    \/ Restart
    \/ StartFrame
    \/ ExecuteCommand
    \/ EndTick
    \/ \E p \in projectiles : TickProjectile(p)

Spec == Init /\ [][Next]_vars

\* Frames follow each other, and in each of them everything ticks.
Fairness ==
    /\ WF_vars(StartFrame)
    /\ \A u \in Units : WF_vars(BeginTick(u))
    /\ WF_vars(ExecuteCommand)
    /\ WF_vars(EndTick)
    /\ WF_vars(\E p \in projectiles : TickProjectile(p))

FairSpec == Spec /\ Fairness

----------------------------------------------------------------------------
(* What must hold. *)

Command ==
    [slot : {"Attack"}, target : Units, repeat : BOOLEAN] \cup
    [slot : {"Sacrifice", "Recall"}, target : {None}, repeat : {FALSE}]

UnitState ==
    [where    : {"live", "removed", "absent"},
     isDead   : BOOLEAN,
     health   : 0..MaxHealth,
     cooldown : [Slots -> Nat],
     progress : {None} \cup [slot : Slots, remaining : Nat],
     bleeding : {None} \cup [source : Units, remaining : Nat, countdown : Int],
     command  : {None} \cup Command]

ProjectileState ==
    [user : Units, target : Units, age : Nat, didHit : BOOLEAN,
     hasTicked : BOOLEAN]

\* Health, death and presence of a unit agree.
TypeOK ==
    /\ units \in [Units -> UnitState]
    /\ \A u \in Units :
          units[u].where # "absent" => (units[u].isDead <=> units[u].health = 0)
    /\ \A u \in Units : IsLive(u) => ~ units[u].isDead
    /\ projectiles \subseteq ProjectileState
    /\ toTick \subseteq Units
    /\ ticking \in Units \cup {None}
    /\ left \in 0..TickTime
    /\ iterations \in 0..MaxIterations

\* An ability takes effect only after its whole use time was spent on it, at
\* one target and without a break, at most a tick before its cooldown is over
\* (which is counted down at the start of a tick, all of whose time is there
\* to be used), and its cost never kills: whatever is ordered meanwhile, and
\* across recalls and restarts (Unit.cs:365-450, 532-547).
EffectsAreEarned ==
    effect # None =>
        /\ effect.worked = UseTime[effect.slot]
        /\ effect.rested >= Cooldown[effect.slot] - TickTime
        /\ ~ effect.killed

\* What still hits a unit that is out of the world, a projectile or a status,
\* leaves no trace on it: it comes back as it went (Unit.cs:575, 632, 704,
\* 711).
FrozenWhileRemoved ==
    [][\A u \in Units :
          units[u].where = "removed" /\ units'[u].where = "removed" => units'[u] = units[u]]_vars

IsRecalling(u) ==
    IsLive(u) /\ units[u].command # None /\ units[u].command.slot = "Recall"

\* A recall comes to its end, however often the player orders it again
\* meanwhile (Unit.cs:537-541).
RecallSettles == \A u \in Units : IsRecalling(u) ~> ~ IsRecalling(u)
=============================================================================
