---------------------------- MODULE CombatProofs ----------------------------
(***************************************************************************)
(* Proofs about Combat, for any number of units and any times and costs    *)
(* that CombatAssumption admits: its type invariant, that what is done to  *)
(* a removed unit leaves no trace on it, and that every effect of an       *)
(* ability was earned.                                                     *)
(***************************************************************************)
EXTENDS Combat, TLAPS

(***************************************************************************)
(* The inductive invariant.                                                *)
(***************************************************************************)
Work == [slot : Slots \cup {None}, target : Units \cup {None}, time : Nat]

Effects == [slot : Slots, worked : Nat, rested : Int, killed : BOOLEAN]

Sound(unit) ==
    /\ unit \in UnitState
    /\ unit.where # "absent" => (unit.isDead <=> unit.health = 0)
    /\ unit.where = "live" => ~ unit.isDead

\* The progress of a use is that of the present command, and was worked for.
ProgressIsWork(unit, worked) ==
    unit.progress # None /\ unit.command # None =>
        /\ unit.progress.slot = unit.command.slot
        /\ worked.slot = unit.command.slot
        /\ worked.target = unit.command.target
        /\ worked.time + unit.progress.remaining >= UseTime[unit.command.slot]

\* The time of the tick that a unit still has to take in this frame: its rest
\* counts it already, its cooldowns do not.
Owed(u) == IF u \in toTick THEN TickTime ELSE 0

\* A cooldown is not over before its time.
CooldownIsRest(unit, rested, owed) ==
    \A s \in Slots :
        \/ rested[s] >= Cooldown[s]
        \/ rested[s] + unit.cooldown[s] >= Cooldown[s] + owed

\* A unit that is no object comes back as a new one.
AbsentIsNew(unit) ==
    unit.where = "absent" => \A s \in Slots : unit.cooldown[s] = 0

UnitInv(unit, worked, rested, owed) ==
    /\ Sound(unit)
    /\ worked \in Work
    /\ rested \in [Slots -> Nat]
    /\ ProgressIsWork(unit, worked)
    /\ CooldownIsRest(unit, rested, owed)
    /\ AbsentIsNew(unit)

\* A unit that executes a command is in the world, and has begun its turn.
TurnIsOrderly ==
    ticking # None =>
        /\ ticking \notin toTick
        /\ Current # None => IsLive(ticking)
        /\ iterations = 0 => left > 0

Shapes ==
    /\ units \in [Units -> UnitState]
    /\ work \in [Units -> Work]
    /\ rest \in [Units -> [Slots -> Nat]]

FrameOK ==
    /\ projectiles \subseteq ProjectileState
    /\ toTick \subseteq Units
    /\ ticking \in Units \cup {None}
    /\ left \in 0..TickTime
    /\ iterations \in 0..MaxIterations

CombatInv ==
    /\ Shapes
    /\ \A u \in Units : UnitInv(units[u], work[u], rest[u], Owed(u))
    /\ FrameOK
    /\ TurnIsOrderly
    /\ effect # None => effect \in Effects
    /\ EffectsAreEarned

----------------------------------------------------------------------------
(* What happens to a unit keeps it well-formed and leaves what it is doing. *)

SameWork(new, old) ==
    /\ new.progress = old.progress
    /\ new.command = old.command
    /\ new.cooldown = old.cooldown
    /\ new.where = "absent" => old.where = "absent"

\* A change of the health keeps a unit sound, and its work; one that is not
\* in the world stays as it is (Unit.cs:571-588).
LEMMA HealthChangedSound ==
    ASSUME NEW unit, Sound(unit), NEW delta \in Int
    PROVE  /\ Sound(HealthChanged(unit, delta))
           /\ SameWork(HealthChanged(unit, delta), unit)
           /\ unit.where # "live" => HealthChanged(unit, delta) = unit
  <1>1. CASE unit.where # "live"
    BY <1>1 DEF HealthChanged, SameWork
  <1>2. CASE unit.where = "live"
    <2> DEFINE health == Lesser(MaxHealth, Greater(0, unit.health + delta))
               new == [unit EXCEPT !.health = health,
                                   !.isDead = @ \/ health = 0,
                                   !.where = IF health = 0 THEN "removed" ELSE @]
    <2>1. health \in 0..MaxHealth
      BY CombatAssumption DEF Lesser, Greater, Sound, UnitState
    <2>2. new = HealthChanged(unit, delta)
      BY <1>2 DEF HealthChanged
    <2> HIDE DEF health
    <2>3. Sound(new) /\ SameWork(new, unit)
      BY <1>2, <2>1 DEF Sound, UnitState, SameWork
    <2> QED BY <1>2, <2>2, <2>3
  <1> QED BY <1>1, <1>2

\* Bleeding keeps a unit sound, and its work; one that is not in the world
\* stays as it is (Unit.cs:620-700).
LEMMA BleedingAddedSound ==
    ASSUME NEW unit, Sound(unit), NEW source \in Units
    PROVE  /\ Sound(BleedingAdded(unit, source))
           /\ SameWork(BleedingAdded(unit, source), unit)
           /\ unit.where # "live" => BleedingAdded(unit, source) = unit
  <1>1. CASE unit.where # "live"
    BY <1>1 DEF BleedingAdded, SameWork
  <1>2. CASE unit.where = "live" /\ unit.bleeding = None
    BY <1>2, CombatAssumption DEF BleedingAdded, SameWork, Sound, UnitState
  <1>3. CASE unit.where = "live" /\ unit.bleeding # None
    <2>1. unit.bleeding \in [source : Units, remaining : Nat, countdown : Int]
      BY <1>3 DEF Sound, UnitState
    <2>2. Greater(unit.bleeding.remaining, BleedingTime) \in Nat
      BY <2>1, CombatAssumption DEF Greater
    <2> QED BY <1>3, <2>1, <2>2 DEF BleedingAdded, SameWork, Sound, UnitState
  <1> QED BY <1>1, <1>2, <1>3

\* A tick of the statuses keeps a unit sound, and its work (Unit.cs:137-171).
LEMMA StatusesProcessedSound ==
    ASSUME NEW unit, Sound(unit)
    PROVE  /\ Sound(StatusesProcessed(unit))
           /\ SameWork(StatusesProcessed(unit), unit)
  <1> DEFINE old == unit.bleeding
             delta == Lesser(TickTime, old.remaining)
             isDue == old.countdown <= delta
             hurt == IF isDue THEN HealthChanged(unit, -BleedingDamage) ELSE unit
             new == [old EXCEPT !.remaining = @ - delta,
                                !.countdown = @ - delta + (IF isDue THEN BleedingInterval ELSE 0)]
  <1>1. CASE old = None
    BY <1>1 DEF StatusesProcessed, SameWork
  <1>2. CASE old # None
    <2>1. old \in [source : Units, remaining : Nat, countdown : Int]
      BY <1>2 DEF Sound, UnitState
    <2>2. delta \in Nat /\ delta <= old.remaining
      BY <2>1, CombatAssumption DEF Lesser
    <2>3. new \in [source : Units, remaining : Nat, countdown : Int]
      <3>1. old.remaining - delta \in Nat
        BY <2>1, <2>2
      <3>2. old.countdown - delta + (IF isDue THEN BleedingInterval ELSE 0) \in Int
        BY <2>1, <2>2, CombatAssumption
      <3> HIDE DEF delta, isDue, old
      <3> QED BY <2>1, <3>1, <3>2
    <2>4. Sound(hurt) /\ SameWork(hurt, unit)
      <3>1. -BleedingDamage \in Int
        BY CombatAssumption
      <3> QED BY <3>1, HealthChangedSound DEF SameWork
    <2>5. StatusesProcessed(unit) \in {hurt, [hurt EXCEPT !.bleeding = new], [hurt EXCEPT !.bleeding = None]}
      BY <1>2 DEF StatusesProcessed
    <2> HIDE DEF hurt, new, old
    <2>6. ASSUME NEW b \in {None, new}
          PROVE  Sound([hurt EXCEPT !.bleeding = b]) /\ SameWork([hurt EXCEPT !.bleeding = b], unit)
      BY <2>3, <2>4 DEF Sound, UnitState, SameWork
    <2> QED BY <2>4, <2>5, <2>6
  <1> QED BY <1>1, <1>2

----------------------------------------------------------------------------
(* What keeps the invariant of one unit. *)

LEMMA SameWorkInv ==
    ASSUME NEW old, NEW worked, NEW rested, NEW owed, UnitInv(old, worked, rested, owed),
           NEW new, Sound(new), SameWork(new, old)
    PROVE  UnitInv(new, worked, rested, owed)
  BY DEF UnitInv, SameWork, ProgressIsWork, CooldownIsRest, AbsentIsNew

\* The use is broken off, and the command may change.
LEMMA BrokenOffInv ==
    ASSUME NEW old, NEW worked, NEW rested, NEW owed, UnitInv(old, worked, rested, owed),
           NEW command \in {None} \cup Command, NEW worked2 \in Work,
           NEW new, new = [old EXCEPT !.progress = None, !.command = command]
    PROVE  UnitInv(new, worked2, rested, owed)
  BY DEF UnitInv, Sound, UnitState, ProgressIsWork, CooldownIsRest, AbsentIsNew

\* Without a command there is no use.
LEMMA IdleInv ==
    ASSUME NEW old, NEW worked, NEW rested, NEW owed, UnitInv(old, worked, rested, owed),
           NEW worked2 \in Work
    PROVE  /\ UnitInv([old EXCEPT !.command = None], worked2, rested, owed)
           /\ old.command = None => UnitInv(old, worked2, rested, owed)
  BY DEF UnitInv, Sound, UnitState, ProgressIsWork, CooldownIsRest, AbsentIsNew

\* A tick of the cooldowns (Unit.cs:120-129) takes the time that was owed.
LEMMA CooldownsDecreasedInv ==
    ASSUME NEW old, NEW worked, NEW rested, UnitInv(old, worked, rested, TickTime)
    PROVE  UnitInv(CooldownsDecreased(old), worked, rested, 0)
  <1> USE CombatAssumption
  <1> DEFINE cooldown == [s \in Slots |-> Greater(0, old.cooldown[s] - TickTime)]
  <1>1. CooldownsDecreased(old) = [old EXCEPT !.cooldown = cooldown]
    BY DEF CooldownsDecreased
  <1>2. old \in UnitState /\ old.cooldown \in [Slots -> Nat]
    BY DEF UnitInv, Sound, UnitState
  <1>3. cooldown \in [Slots -> Nat]
    BY <1>2 DEF Greater
  <1>4. \A s \in Slots : /\ cooldown[s] + TickTime >= old.cooldown[s]
                         /\ old.cooldown[s] = 0 => cooldown[s] = 0
    BY <1>2 DEF Greater
  <1>5. rested \in [Slots -> Nat]
    BY DEF UnitInv
  <1> HIDE DEF cooldown
  <1>6. CooldownIsRest([old EXCEPT !.cooldown = cooldown], rested, 0)
    <2> SUFFICES ASSUME NEW s \in Slots
                 PROVE  \/ rested[s] >= Cooldown[s]
                        \/ rested[s] + cooldown[s] >= Cooldown[s]
      BY <1>2, <1>3 DEF CooldownIsRest, UnitState
    <2>1. \/ rested[s] >= Cooldown[s]
          \/ rested[s] + old.cooldown[s] >= Cooldown[s] + TickTime
      BY DEF UnitInv, CooldownIsRest
    <2>2. cooldown[s] \in Nat /\ old.cooldown[s] \in Nat /\ rested[s] \in Nat
      BY <1>2, <1>3, <1>5
    <2>3. Cooldown[s] \in Nat /\ TickTime \in Nat
      OBVIOUS
    <2>4. cooldown[s] + TickTime >= old.cooldown[s]
      BY <1>4
    <2> QED BY <2>1, <2>2, <2>3, <2>4
  <1>7. Sound([old EXCEPT !.cooldown = cooldown])
    BY <1>2, <1>3 DEF UnitInv, Sound, UnitState
  <1> QED BY <1>1, <1>2, <1>3, <1>4, <1>6, <1>7 DEF UnitInv, ProgressIsWork, AbsentIsNew, UnitState

\* The rest of all units grows as a frame starts.
LEMMA FrameStartInv ==
    ASSUME NEW old, NEW worked, NEW rested, NEW owed \in Nat, UnitInv(old, worked, rested, owed),
           NEW owed2 \in {0, TickTime}
    PROVE  UnitInv(old, worked, [s \in Slots |-> Lesser(Rested[s], rested[s] + TickTime)], owed2)
  <1> USE CombatAssumption DEF Rested
  <1> DEFINE rested2 == [s \in Slots |-> Lesser(Rested[s], rested[s] + TickTime)]
  <1>1. rested \in [Slots -> Nat] /\ old.cooldown \in [Slots -> Nat]
    BY DEF UnitInv, Sound, UnitState
  <1>2. rested2 \in [Slots -> Nat]
    BY <1>1 DEF Lesser
  <1>3. CooldownIsRest(old, rested2, owed2)
    <2> SUFFICES ASSUME NEW s \in Slots
                 PROVE  \/ rested2[s] >= Cooldown[s]
                        \/ rested2[s] + old.cooldown[s] >= Cooldown[s] + owed2
      BY DEF CooldownIsRest
    <2>1. \/ rested[s] >= Cooldown[s]
          \/ rested[s] + old.cooldown[s] >= Cooldown[s] + owed
      BY DEF UnitInv, CooldownIsRest
    <2>2. rested2[s] \in {Cooldown[s], rested[s] + TickTime}
      BY DEF Lesser
    <2>3. old.cooldown[s] \in Nat /\ rested[s] \in Nat /\ Cooldown[s] \in Nat /\ TickTime \in Nat
      BY <1>1
    <2>4. rested[s] >= Cooldown[s] => rested2[s] >= Cooldown[s]
      BY <2>3 DEF Lesser
    <2> HIDE DEF rested2
    <2> QED BY <2>1, <2>2, <2>3, <2>4
  <1> QED BY <1>2, <1>3 DEF UnitInv

\* What an iteration of ExecuteCommands adds to the use of an ability that is
\* not over, and what was spent on one that is (Unit.cs:389-411).
LEMMA UseGoesOnInv ==
    ASSUME NEW old, NEW worked, NEW rested, NEW owed, UnitInv(old, worked, rested, owed),
           old.command # None,
           NEW progress \in [slot : Slots, remaining : Nat], progress.slot = old.command.slot,
           NEW worked2 \in Work, worked2.slot = old.command.slot, worked2.target = old.command.target,
           worked2.time + progress.remaining >= UseTime[old.command.slot]
    PROVE  UnitInv([old EXCEPT !.progress = progress], worked2, rested, owed)
  <1> DEFINE new == [old EXCEPT !.progress = progress]
  <1>1. old \in UnitState
    BY DEF UnitInv, Sound
  <1>2. /\ new.progress = progress /\ new.command = old.command /\ new.cooldown = old.cooldown
        /\ new.where = old.where /\ new.health = old.health /\ new.isDead = old.isDead
        /\ new \in UnitState
    BY <1>1 DEF UnitState
  <1> HIDE DEF new
  <1>3. UnitInv(new, worked2, rested, owed)
    BY <1>2 DEF UnitInv, Sound, ProgressIsWork, CooldownIsRest, AbsentIsNew
  <1> QED BY <1>3 DEF new

\* The cooldown begins, and the rest with it.
LEMMA CooldownBeginsInv ==
    ASSUME NEW old, NEW worked, NEW rested, UnitInv(old, worked, rested, 0),
           NEW slot \in Slots, NEW over \in Nat, NEW worked2 \in Work,
           NEW command \in {None} \cup Command,
           NEW affected, Sound(affected), affected.cooldown = old.cooldown, affected.where # "absent"
    PROVE  UnitInv([affected EXCEPT !.cooldown[slot] = Cooldown[slot],
                                    !.progress = None, !.command = command],
                   worked2, [rested EXCEPT ![slot] = over], 0)
  <1> USE CombatAssumption
  <1> DEFINE cooldown == [affected.cooldown EXCEPT ![slot] = Cooldown[slot]]
             new == [affected EXCEPT !.cooldown[slot] = Cooldown[slot],
                                     !.progress = None, !.command = command]
             rested2 == [rested EXCEPT ![slot] = over]
  <1>1. affected \in UnitState /\ affected.cooldown \in [Slots -> Nat] /\ rested \in [Slots -> Nat]
    BY DEF UnitInv, Sound, UnitState
  <1>2. cooldown \in [Slots -> Nat] /\ rested2 \in [Slots -> Nat]
    BY <1>1
  <1>3. /\ new.progress = None /\ new.command = command /\ new.cooldown = cooldown
        /\ new.where = affected.where /\ new.health = affected.health
        /\ new.isDead = affected.isDead /\ new \in UnitState
    BY <1>1, <1>2 DEF UnitState
  <1>4. ASSUME NEW s \in Slots
        PROVE  rested2[s] >= Cooldown[s] \/ rested2[s] + cooldown[s] >= Cooldown[s] + 0
    <2>1. CASE s = slot
      BY <1>1, <2>1
    <2>2. CASE s # slot
      BY <1>1, <2>2 DEF UnitInv, CooldownIsRest
    <2> QED BY <2>1, <2>2
  <1> HIDE DEF new, rested2, cooldown
  <1>5. UnitInv(new, worked2, rested2, 0)
    BY <1>2, <1>3, <1>4 DEF UnitInv, Sound, ProgressIsWork, CooldownIsRest, AbsentIsNew
  <1> QED BY <1>5 DEF new, rested2

----------------------------------------------------------------------------
(* The initial states, and one lemma for each action. *)

LEMMA InitialStates == Init => CombatInv
  <1> SUFFICES ASSUME Init PROVE CombatInv
    OBVIOUS
  <1> USE CombatAssumption
  <1>1. NewUnit \in UnitState /\ Sound(NewUnit)
    BY DEF NewUnit, UnitState, Slots, Sound
  <1>2. NoWork \in Work
    BY DEF NoWork, Work
  <1>3. Shapes
    BY <1>1, <1>2 DEF Init, Shapes, Rested
  <1>4. UnitInv(NewUnit, NoWork, Rested, 0)
    <2>1. \A s \in Slots : Cooldown[s] \in Nat
      OBVIOUS
    <2> QED BY <1>1, <1>2, <2>1
            DEF UnitInv, ProgressIsWork, CooldownIsRest, AbsentIsNew, NewUnit, Rested
  <1>5. \A u \in Units : UnitInv(units[u], work[u], rest[u], Owed(u))
    BY <1>4 DEF Init, Owed
  <1>6. FrameOK
    BY DEF Init, FrameOK, MaxIterations
  <1> QED BY <1>3, <1>5, <1>6 DEF Init, CombatInv, TurnIsOrderly, EffectsAreEarned

\* A step that changes one unit, and nothing else but its history, if that.
LEMMA OneUnit ==
    ASSUME CombatInv, NEW u \in Units, NEW new, NEW worked, NEW rested,
           units' = [units EXCEPT ![u] = new],
           work' = [work EXCEPT ![u] = worked],
           rest' = [rest EXCEPT ![u] = rested],
           UnitInv(new, worked, rested, Owed(u)'),
           \A v \in Units \ {u} : Owed(v)' = Owed(v)
    PROVE  Shapes' /\ \A v \in Units : UnitInv(units[v], work[v], rest[v], Owed(v))'
  <1>1. Shapes'
    BY DEF CombatInv, Shapes, UnitInv, Sound
  <1>2. ASSUME NEW v \in Units PROVE UnitInv(units'[v], work'[v], rest'[v], Owed(v)')
    <2>1. CASE v = u
      BY <2>1 DEF CombatInv, Shapes
    <2>2. CASE v # u
      <3>1. units'[v] = units[v] /\ work'[v] = work[v] /\ rest'[v] = rest[v]
        BY <2>2 DEF CombatInv, Shapes
      <3>2. Owed(v)' = Owed(v)
        BY <2>2
      <3> QED BY <3>1, <3>2 DEF CombatInv
    <2> QED BY <2>1, <2>2
  <1> QED BY <1>1, <1>2

\* A step between two frames leaves the rest of the invariant as it is.
LEMMA BetweenFramesKept ==
    ASSUME CombatInv, BetweenFrames, UNCHANGED frameVars, UNCHANGED effect,
           projectiles' \subseteq ProjectileState
    PROVE  /\ FrameOK' /\ TurnIsOrderly' /\ (effect # None => effect \in Effects)' /\ EffectsAreEarned'
           /\ \A v \in Units : Owed(v)' = Owed(v)
  BY DEF CombatInv, BetweenFrames, frameVars, FrameOK, TurnIsOrderly, EffectsAreEarned, Owed

LEMMA SetCommandStep ==
    ASSUME CombatInv, NEW u \in Units, NEW command \in Commands(u) \cup {None}, SetCommand(u, command)
    PROVE  CombatInv'
  <1>1. command \in {None} \cup Command
    <2>1. CASE command = None
      BY <2>1
    <2>2. ASSUME NEW t \in Units \ {u}, command = [slot |-> "Attack", target |-> t, repeat |-> TRUE]
          PROVE  command \in Command
      BY <2>2 DEF Command
    <2>3. ASSUME NEW s \in {"Sacrifice", "Recall"},
                 command = [slot |-> s, target |-> None, repeat |-> FALSE]
          PROVE  command \in Command
      BY <2>3 DEF Command
    <2> QED BY <2>1, <2>2, <2>3 DEF Commands
  <1>2. /\ FrameOK' /\ TurnIsOrderly' /\ (effect # None => effect \in Effects)' /\ EffectsAreEarned'
        /\ \A v \in Units : Owed(v)' = Owed(v)
    BY BetweenFramesKept DEF SetCommand, historyVars, CombatInv, FrameOK
  <1>3. PICK new : /\ units' = [units EXCEPT ![u] = new]
                   /\ UnitInv(new, work[u], rest[u], Owed(u))
    <2>1. UnitInv(units[u], work[u], rest[u], Owed(u)) /\ work[u] \in Work
      BY DEF CombatInv, Shapes
    <2>2. CASE units' = units
      <3>1. units' = [units EXCEPT ![u] = units[u]]
        BY <2>2 DEF CombatInv, Shapes
      <3> QED BY <2>1, <3>1
    <2>3. CASE units' = [units EXCEPT ![u].command = command, ![u].progress = None]
      <3> DEFINE new == [units[u] EXCEPT !.progress = None, !.command = command]
      <3>1. UnitInv(new, work[u], rest[u], Owed(u))
        BY <1>1, <2>1, BrokenOffInv
      <3>2. units' = [units EXCEPT ![u] = new]
        BY <2>3 DEF CombatInv, Shapes, UnitState
      <3> QED BY <3>1, <3>2
    <2> QED BY <2>2, <2>3 DEF SetCommand
  <1>4. work' = [work EXCEPT ![u] = work[u]] /\ rest' = [rest EXCEPT ![u] = rest[u]]
    BY DEF SetCommand, historyVars, CombatInv, Shapes
  <1>5. Shapes' /\ \A v \in Units : UnitInv(units[v], work[v], rest[v], Owed(v))'
    BY <1>2, <1>3, <1>4, OneUnit
  <1> QED BY <1>2, <1>5 DEF CombatInv

LEMMA SpawnStep ==
    ASSUME CombatInv, NEW u \in Units, Spawn(u)
    PROVE  CombatInv'
  <1> USE CombatAssumption
  <1> DEFINE old == units[u]
             new == IF old.where = "absent" THEN NewUnit ELSE [old EXCEPT !.where = "live"]
  <1>1. /\ FrameOK' /\ TurnIsOrderly' /\ (effect # None => effect \in Effects)' /\ EffectsAreEarned'
        /\ \A v \in Units : Owed(v)' = Owed(v)
    BY BetweenFramesKept DEF Spawn, historyVars, CombatInv, FrameOK
  <1>2. UnitInv(old, work[u], rest[u], Owed(u)) /\ old \in UnitState
    BY DEF CombatInv, Shapes
  <1>3. ~ old.isDead /\ old.where # "live"
    BY DEF Spawn, IsLive
  <1>4. UnitInv(new, work[u], rest[u], Owed(u))
    <2>1. CASE old.where = "absent"
      <3>1. Sound(NewUnit)
        BY DEF NewUnit, UnitState, Slots, Sound
      <3>2. \A s \in Slots : NewUnit.cooldown[s] = old.cooldown[s]
        BY <1>2, <2>1 DEF UnitInv, AbsentIsNew, NewUnit
      <3> QED BY <1>2, <2>1, <3>1, <3>2 DEF UnitInv, ProgressIsWork, CooldownIsRest, AbsentIsNew, NewUnit
    <2>2. CASE old.where # "absent"
      <3>1. Sound(new) /\ SameWork(new, old)
        BY <1>2, <1>3, <2>2 DEF UnitInv, Sound, UnitState, SameWork
      <3> QED BY <1>2, <3>1, SameWorkInv
    <2> QED BY <2>1, <2>2
  <1>5. /\ units' = [units EXCEPT ![u] = new]
        /\ work' = [work EXCEPT ![u] = work[u]] /\ rest' = [rest EXCEPT ![u] = rest[u]]
    BY DEF Spawn, historyVars, CombatInv, Shapes
  <1> HIDE DEF new
  <1>6. Shapes' /\ \A v \in Units : UnitInv(units[v], work[v], rest[v], Owed(v))'
    BY <1>1, <1>4, <1>5, OneUnit
  <1> QED BY <1>1, <1>6 DEF CombatInv

LEMMA CollectStep ==
    ASSUME CombatInv, NEW u \in Units, Collect(u)
    PROVE  CombatInv'
  <1> USE CombatAssumption
  <1> DEFINE new == [NewUnit EXCEPT !.where = "absent", !.isDead = units[u].isDead]
  <1>1. /\ FrameOK' /\ TurnIsOrderly' /\ (effect # None => effect \in Effects)' /\ EffectsAreEarned'
        /\ \A v \in Units : Owed(v)' = Owed(v)
    BY BetweenFramesKept DEF Collect, CombatInv, FrameOK
  <1>2. units[u].isDead \in BOOLEAN /\ work[u] \in Work
    BY DEF CombatInv, Shapes, UnitState
  <1>3. Sound(new)
    <2>1. NewUnit \in UnitState
      BY DEF NewUnit, UnitState, Slots
    <2>2. new \in UnitState
      BY <1>2, <2>1 DEF UnitState
    <2>3. new.where = "absent"
      BY <2>1 DEF UnitState
    <2> QED BY <2>2, <2>3 DEF Sound
  <1>4. UnitInv(new, work[u], Rested, Owed(u))
    BY <1>2, <1>3 DEF UnitInv, ProgressIsWork, CooldownIsRest, AbsentIsNew, NewUnit, Rested
  <1>5. /\ units' = [units EXCEPT ![u] = new]
        /\ work' = [work EXCEPT ![u] = work[u]] /\ rest' = [rest EXCEPT ![u] = Rested]
    BY DEF Collect, CombatInv, Shapes
  <1> HIDE DEF new
  <1>6. Shapes' /\ \A v \in Units : UnitInv(units[v], work[v], rest[v], Owed(v))'
    BY <1>1, <1>4, <1>5, OneUnit
  <1> QED BY <1>1, <1>6 DEF CombatInv

LEMMA RestartStep ==
    ASSUME CombatInv, Restart
    PROVE  CombatInv'
  <1>1. projectiles' \subseteq ProjectileState
    BY DEF Restart, CombatInv, FrameOK, ProjectileState
  <1>2. /\ FrameOK' /\ TurnIsOrderly' /\ (effect # None => effect \in Effects)' /\ EffectsAreEarned'
        /\ \A v \in Units : Owed(v)' = Owed(v)
    BY <1>1, BetweenFramesKept DEF Restart, historyVars
  <1>3. ASSUME NEW v \in Units
        PROVE  UnitInv(units'[v], work'[v], rest'[v], Owed(v)') /\ units'[v] \in UnitState
    <2>1. UnitInv(units[v], work[v], rest[v], Owed(v)) /\ work[v] \in Work
      BY DEF CombatInv, Shapes
    <2>2. units'[v] = [units[v] EXCEPT !.command = None]
      BY DEF Restart
    <2>3. UnitInv(units'[v], work[v], rest[v], Owed(v))
      BY <2>1, <2>2, IdleInv
    <2> QED BY <1>2, <2>3 DEF Restart, historyVars, UnitInv, Sound
  <1>4. Shapes'
    BY <1>3 DEF Restart, historyVars, CombatInv, Shapes
  <1> QED BY <1>2, <1>3, <1>4 DEF CombatInv

LEMMA StartFrameStep ==
    ASSUME CombatInv, StartFrame
    PROVE  CombatInv'
  <1> USE CombatAssumption
  <1>1. projectiles' \subseteq ProjectileState
    BY DEF StartFrame, CombatInv, FrameOK, ProjectileState
  <1>2. FrameOK' /\ TurnIsOrderly' /\ (effect # None => effect \in Effects)' /\ EffectsAreEarned'
    BY <1>1 DEF StartFrame, BetweenFrames, CombatInv, FrameOK, TurnIsOrderly, EffectsAreEarned
  <1>3. ASSUME NEW v \in Units
        PROVE  UnitInv(units'[v], work'[v], rest'[v], Owed(v)')
    <2>1. UnitInv(units[v], work[v], rest[v], Owed(v))
      BY DEF CombatInv
    <2>2. rest'[v] = [s \in Slots |-> Lesser(Rested[s], rest[v][s] + TickTime)]
      BY DEF StartFrame
    <2>3. Owed(v) \in Nat /\ Owed(v)' \in {0, TickTime}
      BY DEF Owed
    <2>4. UnitInv(units[v], work[v], rest'[v], Owed(v)')
      BY <2>1, <2>2, <2>3, FrameStartInv
    <2> QED BY <2>4 DEF StartFrame
  <1>4. Shapes'
    <2>1. \A v \in Units : rest'[v] \in [Slots -> Nat]
      BY <1>3 DEF UnitInv
    <2> QED BY <2>1 DEF StartFrame, CombatInv, Shapes
  <1> QED BY <1>2, <1>3, <1>4 DEF CombatInv

LEMMA BeginTickStep ==
    ASSUME CombatInv, NEW u \in Units, BeginTick(u)
    PROVE  CombatInv'
  <1> USE CombatAssumption
  <1> DEFINE old == units[u]
  <1>1. UnitInv(old, work[u], rest[u], TickTime) /\ old \in UnitState /\ Sound(old)
    BY DEF CombatInv, Shapes, BeginTick, Owed, UnitInv
  <1>2. Owed(u)' = 0 /\ \A v \in Units \ {u} : Owed(v)' = Owed(v)
    BY DEF BeginTick, Owed
  <1>3. work' = [work EXCEPT ![u] = work[u]] /\ rest' = [rest EXCEPT ![u] = rest[u]]
    BY DEF BeginTick, historyVars, CombatInv, Shapes
  <1>4. PICK drained \in Drained(old) :
          LET processed == StatusesProcessed(drained)
          IN  IF ~ IsLive(u) THEN UNCHANGED <<units, ticking, left, iterations>>
              ELSE IF processed.where # "live"
              THEN /\ units' = [units EXCEPT ![u] = processed]
                   /\ UNCHANGED <<ticking, left, iterations>>
              ELSE /\ units' = [units EXCEPT ![u] = CooldownsDecreased(processed)]
                   /\ ticking' = u
                   /\ left' = TickTime
                   /\ iterations' = 0
    BY DEF BeginTick
  <1> DEFINE processed == StatusesProcessed(drained)
  <1>5. UnitInv(old, work[u], rest[u], 0)
    BY <1>1 DEF UnitInv, CooldownIsRest, UnitState
  <1>6. CASE ~ IsLive(u)
    <2>1. units' = [units EXCEPT ![u] = old] /\ UNCHANGED <<ticking, left, iterations>>
      BY <1>4, <1>6 DEF CombatInv, Shapes
    <2>2. Shapes' /\ \A v \in Units : UnitInv(units[v], work[v], rest[v], Owed(v))'
      BY <1>2, <1>3, <1>5, <2>1, OneUnit
    <2> QED BY <2>1, <2>2
            DEF CombatInv, BeginTick, FrameOK, TurnIsOrderly, EffectsAreEarned, historyVars
  <1>7. CASE IsLive(u)
    <2>1. PICK h \in Lesser(old.health, StableHealth)..old.health : drained = [old EXCEPT !.health = h]
      BY DEF Drained
    <2>2. Sound(drained) /\ SameWork(drained, old)
      <3>1. old.health \in 1..MaxHealth /\ StableHealth \in 1..MaxHealth
        BY <1>1, <1>7 DEF Sound, IsLive, UnitState
      <3>2. h \in 1..MaxHealth
        BY <3>1 DEF Lesser
      <3> QED BY <1>1, <1>7, <2>1, <3>2 DEF Sound, IsLive, UnitState, SameWork
    <2>3. Sound(processed) /\ SameWork(processed, old)
      BY <2>2, StatusesProcessedSound DEF SameWork
    <2>4. UnitInv(processed, work[u], rest[u], 0) /\ UnitInv(processed, work[u], rest[u], TickTime)
      BY <1>1, <1>5, <2>3, SameWorkInv
    <2> HIDE DEF processed
    <2>5. CASE processed.where # "live"
      <3>1. units' = [units EXCEPT ![u] = processed] /\ UNCHANGED <<ticking, left, iterations>>
        BY <1>4, <1>7, <2>5 DEF processed
      <3>2. Shapes' /\ \A v \in Units : UnitInv(units[v], work[v], rest[v], Owed(v))'
        BY <1>2, <1>3, <2>4, <3>1, OneUnit
      <3> QED BY <3>1, <3>2
              DEF CombatInv, BeginTick, FrameOK, TurnIsOrderly, EffectsAreEarned, historyVars
    <2>6. CASE processed.where = "live"
      <3>1. /\ units' = [units EXCEPT ![u] = CooldownsDecreased(processed)]
            /\ ticking' = u /\ left' = TickTime /\ iterations' = 0
        BY <1>4, <1>7, <2>6 DEF processed
      <3>2. UnitInv(CooldownsDecreased(processed), work[u], rest[u], 0)
        BY <2>4, CooldownsDecreasedInv
      <3>3. Shapes' /\ \A v \in Units : UnitInv(units[v], work[v], rest[v], Owed(v))'
        BY <1>2, <1>3, <3>1, <3>2, OneUnit
      <3>4. units'[u].where = "live"
        <4>1. CooldownsDecreased(processed).where = "live"
          BY <2>3, <2>6 DEF CooldownsDecreased, Sound, UnitState
        <4> QED BY <3>1, <4>1 DEF CombatInv, Shapes
      <3>5. FrameOK'
        BY <3>1 DEF CombatInv, BeginTick, FrameOK, MaxIterations
      <3>6. TurnIsOrderly'
        BY <3>1, <3>4 DEF BeginTick, TurnIsOrderly, IsLive
      <3> QED BY <3>3, <3>5, <3>6 DEF CombatInv, BeginTick, EffectsAreEarned, historyVars
    <2> QED BY <2>5, <2>6
  <1> QED BY <1>6, <1>7

----------------------------------------------------------------------------
(* One iteration of ExecuteCommands. *)

\* The unit whose turn it is.
LEMMA InTurn ==
    ASSUME CombatInv, ticking # None, Current # None
    PROVE  /\ ticking \in Units /\ units[ticking] \in UnitState /\ IsLive(ticking)
           /\ UnitInv(units[ticking], work[ticking], rest[ticking], 0)
           /\ Owed(ticking) = 0
           /\ Current = units[ticking].command /\ Current \in Command
           /\ Current.slot \in Slots /\ Current.target \in Units \cup {None}
           /\ rest[ticking] \in [Slots -> Nat] /\ work[ticking] \in Work
  <1>1. ticking \in Units /\ units[ticking] \in UnitState
    BY DEF CombatInv, FrameOK, Shapes
  <1>2. Owed(ticking) = 0 /\ IsLive(ticking)
    BY DEF CombatInv, TurnIsOrderly, Owed
  <1>3. Current \in Command /\ Current = units[ticking].command
    BY <1>1 DEF Current, UnitState
  <1>4. Current.slot \in Slots /\ Current.target \in Units \cup {None}
    BY <1>3 DEF Command, Slots
  <1>5. UnitInv(units[ticking], work[ticking], rest[ticking], 0)
    BY <1>1, <1>2 DEF CombatInv
  <1> QED BY <1>1, <1>2, <1>3, <1>4, <1>5 DEF UnitInv

\* What each outcome of the iteration has to leave behind.
LEMMA OutcomeKeeps ==
    ASSUME CombatInv, ExecuteCommand, NEW new, NEW worked, NEW rested,
           units' = [units EXCEPT ![ticking] = new],
           work' = [work EXCEPT ![ticking] = worked],
           rest' = [rest EXCEPT ![ticking] = rested],
           UnitInv(new, worked, rested, 0),
           new.command # None => new.where = "live",
           projectiles' \subseteq ProjectileState,
           left' \in 0..TickTime,
           (effect # None => effect \in Effects)', EffectsAreEarned'
    PROVE  CombatInv'
  <1>1. ticking # None /\ Current # None /\ iterations < MaxIterations /\ iterations' = iterations + 1
        /\ UNCHANGED <<toTick, ticking>>
    BY DEF ExecuteCommand
  <1>2. PICK u \in Units : u = ticking
    BY <1>1, InTurn
  <1>3. Shapes' /\ \A v \in Units : UnitInv(units[v], work[v], rest[v], Owed(v))'
    <2>1. Owed(u)' = 0 /\ \A v \in Units \ {u} : Owed(v)' = Owed(v)
      BY <1>1, <1>2 DEF Owed, CombatInv, TurnIsOrderly
    <2>2. /\ units' = [units EXCEPT ![u] = new] /\ work' = [work EXCEPT ![u] = worked]
          /\ rest' = [rest EXCEPT ![u] = rested]
      BY <1>2
    <2> QED BY <2>1, <2>2, OneUnit
  <1>4. FrameOK'
    BY <1>1 DEF CombatInv, FrameOK, MaxIterations
  <1>5. TurnIsOrderly'
    <2>1. units'[ticking] = new
      BY <1>2 DEF CombatInv, Shapes
    <2>2. iterations' # 0
      BY <1>1 DEF CombatInv, FrameOK
    <2> QED BY <1>1, <2>1, <2>2 DEF CombatInv, TurnIsOrderly, Current, IsLive
  <1> QED BY <1>3, <1>4, <1>5 DEF CombatInv

\* The use is broken off: GiveUp, LoseTarget and Approach.
LEMMA BreakOffStep ==
    ASSUME CombatInv, ExecuteCommand, GiveUp \/ LoseTarget \/ Approach
    PROVE  CombatInv'
  <1> USE CombatAssumption
  <1>1. ticking # None /\ Current # None
    BY DEF ExecuteCommand
  <1>2. /\ ticking \in Units /\ units[ticking] \in UnitState /\ IsLive(ticking)
        /\ UnitInv(units[ticking], work[ticking], rest[ticking], 0)
        /\ Current = units[ticking].command /\ Current \in Command
    BY <1>1, InTurn
  <1>3. NoWork \in Work
    BY DEF NoWork, Work
  <1>4. PICK command \in {None} \cup Command :
          units' = [units EXCEPT ![ticking] = [units[ticking] EXCEPT !.progress = None, !.command = command]]
    <2>1. CASE GiveUp
      <3> DEFINE command == IF Current.repeat THEN Current ELSE None
      <3>1. command \in {None} \cup Command
        BY <1>2
      <3>2. units' = [units EXCEPT ![ticking] = [units[ticking] EXCEPT !.progress = None, !.command = command]]
        BY <1>2, <2>1 DEF GiveUp, CombatInv, Shapes, UnitState
      <3> QED BY <3>1, <3>2
    <2>2. CASE LoseTarget
      BY <1>2, <2>2 DEF LoseTarget, CombatInv, Shapes, UnitState
    <2>3. CASE Approach
      <3>1. units' = [units EXCEPT ![ticking] = [units[ticking] EXCEPT !.progress = None, !.command = Current]]
        BY <1>2, <2>3 DEF Approach, CombatInv, Shapes, UnitState
      <3> QED BY <1>2, <3>1
    <2> QED BY <2>1, <2>2, <2>3
  <1> DEFINE new == [units[ticking] EXCEPT !.progress = None, !.command = command]
  <1>5. UnitInv(new, NoWork, rest[ticking], 0)
    BY <1>2, <1>3, BrokenOffInv
  <1>6. /\ work' = [work EXCEPT ![ticking] = NoWork] /\ rest' = [rest EXCEPT ![ticking] = rest[ticking]]
        /\ effect' = None /\ projectiles' = projectiles
    BY DEF GiveUp, LoseTarget, Approach, CombatInv, Shapes
  <1>7. left' \in 0..TickTime
    BY DEF GiveUp, LoseTarget, Approach, CombatInv, FrameOK
  <1>8. new.where = "live"
    BY <1>2 DEF IsLive, UnitState
  <1>9. projectiles' \subseteq ProjectileState
    BY <1>6 DEF CombatInv, FrameOK
  <1> HIDE DEF new
  <1>10. units' = [units EXCEPT ![ticking] = new]
    BY <1>4 DEF new
  <1> QED BY <1>5, <1>6, <1>7, <1>8, <1>9, <1>10, OutcomeKeeps DEF EffectsAreEarned

\* What of the time of a use is behind a unit that goes on with it, or begins
\* it: the rest of the use is what the progress says.
LEMMA ProgressFits ==
    ASSUME CombatInv, ticking # None, Current # None
    PROVE  /\ Progress \in [slot : Slots, remaining : Nat] /\ Progress.slot = Current.slot
           /\ \/ /\ units[ticking].progress = None
                 /\ Progress.remaining = UseTime[Current.slot]
              \/ /\ units[ticking].progress # None
                 /\ work[ticking].slot = Current.slot /\ work[ticking].target = Current.target
                 /\ work[ticking].time + Progress.remaining >= UseTime[Current.slot]
  <1> USE CombatAssumption
  <1> DEFINE progress == units[ticking].progress
  <1>1. /\ units[ticking] \in UnitState /\ Current = units[ticking].command /\ Current.slot \in Slots
        /\ UnitInv(units[ticking], work[ticking], rest[ticking], 0)
    BY InTurn
  <1>2. CASE progress = None
    BY <1>1, <1>2 DEF Progress
  <1>3. CASE progress # None
    <2>1. progress \in [slot : Slots, remaining : Nat]
      BY <1>1, <1>3 DEF UnitState
    <2>2. /\ progress.slot = Current.slot
          /\ work[ticking].slot = Current.slot /\ work[ticking].target = Current.target
          /\ work[ticking].time + progress.remaining >= UseTime[Current.slot]
      BY <1>1, <1>3 DEF UnitInv, ProgressIsWork
    <2>3. Progress = progress
      BY <1>3, <2>2 DEF Progress
    <2> QED BY <1>3, <2>1, <2>2, <2>3
  <1> QED BY <1>2, <1>3

\* Time spent on a use without a break is enough for what the use takes.
LEMMA WorkedFits ==
    ASSUME CombatInv, ticking # None, Current # None,
           NEW time \in Nat, NEW hadBreak \in BOOLEAN, time <= Progress.remaining,
           hadBreak => units[ticking].progress = None
    PROVE  LET worked == Worked(time, hadBreak)
           IN  /\ worked \in Work
               /\ worked.slot = Current.slot /\ worked.target = Current.target
               /\ worked.time <= UseTime[Current.slot]
               /\ worked.time + (Progress.remaining - time) >= UseTime[Current.slot]
  <1> USE CombatAssumption
  <1> DEFINE before == work[ticking]
             goesOn == ~ hadBreak /\ before.slot = Current.slot /\ before.target = Current.target
             sum == time + (IF goesOn THEN before.time ELSE 0)
             use == UseTime[Current.slot]
  <1>1. /\ Current.slot \in Slots /\ Current.target \in Units \cup {None}
        /\ before \in Work /\ before.time \in Nat /\ use \in Nat
    BY InTurn DEF Work
  <1>2. Progress.remaining \in Nat
    BY ProgressFits
  <1>3. sum + (Progress.remaining - time) >= use /\ sum \in Nat
    <2>1. CASE units[ticking].progress = None
      BY <1>1, <1>2, <2>1, ProgressFits
    <2>2. CASE units[ticking].progress # None
      BY <1>1, <1>2, <2>2, ProgressFits
    <2> QED BY <2>1, <2>2
  <1>4. Worked(time, hadBreak) = [slot |-> Current.slot, target |-> Current.target, time |-> Lesser(use, sum)]
    BY DEF Worked
  <1> HIDE DEF sum, use
  <1>5. Lesser(use, sum) \in Nat /\ Lesser(use, sum) <= use /\ Lesser(use, sum) + (Progress.remaining - time) >= use
    BY <1>1, <1>2, <1>3 DEF Lesser
  <1> QED BY <1>1, <1>4, <1>5 DEF Work, use

\* The effect of an ability takes no unit's life, and leaves it sound.
LEMMA AffectedSound ==
    ASSUME CombatInv, ticking # None, Current # None, CanPay
    PROVE  LET affected == Affected(units[ticking])
           IN  /\ Sound(affected) /\ affected.cooldown = units[ticking].cooldown
               /\ affected.command = Current /\ affected.where # "absent"
               /\ ~ affected.isDead
               /\ Current.repeat => affected.where = "live"
  <1> USE CombatAssumption
  <1> DEFINE old == units[ticking]
  <1>1. /\ old \in UnitState /\ old.where = "live" /\ Sound(old)
        /\ Current = old.command /\ Current \in Command
    BY InTurn DEF IsLive, UnitInv
  <1>2. CASE Current.slot = "Sacrifice"
    <2>1. old.health > HealthCost /\ old.health \in 0..MaxHealth /\ HealthCost \in Nat
      BY <1>1, <1>2 DEF CanPay, UnitState
    <2>2. Affected(old) = HealthChanged(old, -HealthCost)
      BY <1>2 DEF Affected
    <2>3. HealthChanged(old, -HealthCost) =
             [old EXCEPT !.health = old.health - HealthCost, !.isDead = FALSE, !.where = "live"]
      <3>1. Lesser(MaxHealth, Greater(0, old.health + (-HealthCost))) = old.health - HealthCost
        BY <2>1 DEF Lesser, Greater
      <3>2. old.health - HealthCost # 0 /\ old.isDead = FALSE
        BY <1>1, <2>1 DEF Sound, UnitState
      <3> QED BY <1>1, <3>1, <3>2 DEF HealthChanged
    <2>4. Sound(HealthChanged(old, -HealthCost)) /\ SameWork(HealthChanged(old, -HealthCost), old)
      <3>1. -HealthCost \in Int
        BY <2>1
      <3> QED BY <1>1, <3>1, HealthChangedSound
    <2>5. /\ HealthChanged(old, -HealthCost).where = "live"
          /\ HealthChanged(old, -HealthCost).isDead = FALSE
      BY <1>1, <2>3 DEF UnitState
    <2> QED BY <1>1, <2>2, <2>4, <2>5 DEF SameWork
  <1>3. CASE Current.slot = "Recall"
    <2>1. Affected(old) = [old EXCEPT !.where = "removed"]
      BY <1>3 DEF Affected
    <2>2. ~ Current.repeat
      BY <1>1, <1>3 DEF Command
    <2> QED BY <1>1, <2>1, <2>2 DEF Sound, UnitState
  <1>4. CASE Current.slot = "Attack"
    <2>1. Affected(old) = old
      BY <1>4 DEF Affected
    <2> QED BY <1>1, <2>1 DEF Sound
  <1> QED BY <1>1, <1>2, <1>3, <1>4 DEF Command

LEMMA ShotsFit ==
    ASSUME CombatInv, ticking # None, Current # None
    PROVE  Shots \subseteq ProjectileState
  <1> USE CombatAssumption
  <1>1. ticking \in Units /\ Current \in Command
    BY InTurn
  <1>2. CASE Current.slot = "Attack"
    <2>1. Current.target \in Units
      BY <1>1, <1>2 DEF Command
    <2> QED BY <1>1, <1>2, <2>1 DEF Shots, ProjectileState
  <1>3. CASE Current.slot # "Attack"
    BY <1>3 DEF Shots
  <1> QED BY <1>2, <1>3

\* The use goes on, or the ability takes effect.
LEMMA UseStep ==
    ASSUME CombatInv, ExecuteCommand, Use, CanPay,
           ~ (units[ticking].cooldown[Current.slot] > 0)
    PROVE  CombatInv'
  <1> USE CombatAssumption
  <1>1. ticking # None /\ Current # None
    BY DEF ExecuteCommand
  <1>2. /\ ticking \in Units /\ units[ticking] \in UnitState /\ IsLive(ticking)
        /\ UnitInv(units[ticking], work[ticking], rest[ticking], 0)
        /\ Current = units[ticking].command /\ Current \in Command
        /\ Current.slot \in Slots
        /\ rest[ticking] \in [Slots -> Nat]
    BY <1>1, InTurn
  <1>3. Progress \in [slot : Slots, remaining : Nat] /\ Progress.slot = Current.slot
    BY <1>1, ProgressFits
  <1>4. left \in 0..TickTime
    BY DEF CombatInv, FrameOK
  <1>5. PICK time \in 1..left :
          /\ time < left => Current.target # None /\ units[ticking].progress = None
          /\ IF time < Progress.remaining
             THEN /\ units' = [units EXCEPT ![ticking].progress = [Progress EXCEPT !.remaining = @ - time]]
                  /\ left' = 0
                  /\ work' = [work EXCEPT ![ticking] = Worked(time, time < left)]
                  /\ effect' = None
                  /\ UNCHANGED <<projectiles, rest>>
             ELSE /\ left' = time - Progress.remaining
                  /\ TriggerAbilityEffect(Progress.remaining, time < left)
    BY DEF Use
  <1> DEFINE hadBreak == time < left
  <1>6. hadBreak \in BOOLEAN /\ (hadBreak => units[ticking].progress = None)
    BY <1>5
  <1>7. CASE time < Progress.remaining
    <2> DEFINE progress == [Progress EXCEPT !.remaining = Progress.remaining - time]
               worked == Worked(time, hadBreak)
               new == [units[ticking] EXCEPT !.progress = progress]
    <2>1. /\ progress \in [slot : Slots, remaining : Nat] /\ progress.slot = Current.slot
          /\ progress.remaining = Progress.remaining - time
      BY <1>3, <1>4, <1>7
    <2>2. /\ worked \in Work /\ worked.slot = Current.slot /\ worked.target = Current.target
          /\ worked.time + (Progress.remaining - time) >= UseTime[Current.slot]
      <3>1. time \in Nat /\ time <= Progress.remaining
        BY <1>3, <1>4, <1>7
      <3> HIDE DEF hadBreak
      <3> QED BY <1>1, <1>6, <3>1, WorkedFits
    <2>3. /\ units' = [units EXCEPT ![ticking] = new] /\ left' = 0
          /\ work' = [work EXCEPT ![ticking] = worked]
          /\ rest' = [rest EXCEPT ![ticking] = rest[ticking]]
          /\ effect' = None /\ projectiles' = projectiles
      BY <1>2, <1>5, <1>7 DEF CombatInv, Shapes, UnitState
    <2> HIDE DEF progress, worked
    <2>4. UnitInv(new, worked, rest[ticking], 0)
      BY <1>1, <1>2, <2>1, <2>2, UseGoesOnInv
    <2>5. new.where = "live"
      BY <1>2 DEF IsLive, UnitState
    <2> HIDE DEF new
    <2>6. left' \in 0..TickTime /\ projectiles' \subseteq ProjectileState
      BY <2>3 DEF CombatInv, FrameOK
    <2> QED BY <2>3, <2>4, <2>5, <2>6, OutcomeKeeps DEF EffectsAreEarned
  <1>8. CASE ~ (time < Progress.remaining)
    <2> DEFINE affected == Affected(units[ticking])
               command == IF Current.repeat THEN Current ELSE None
               slot == Current.slot
               new == [affected EXCEPT !.cooldown[slot] = Cooldown[slot],
                                       !.progress = None, !.command = command]
               rested == [rest[ticking] EXCEPT ![slot] = left']
               worked == Worked(Progress.remaining, hadBreak)
    <2>1. /\ left' = time - Progress.remaining
          /\ TriggerAbilityEffect(Progress.remaining, hadBreak)
      BY <1>5, <1>8
    <2>2. left' \in 0..TickTime
      BY <1>3, <1>4, <1>8, <2>1
    <2>3. /\ Sound(affected) /\ affected.cooldown = units[ticking].cooldown
          /\ affected.command = Current /\ affected.where # "absent"
          /\ ~ affected.isDead
          /\ Current.repeat => affected.where = "live"
      BY <1>1, AffectedSound
    <2>4. command \in {None} \cup Command /\ NoWork \in Work
      BY <1>2 DEF NoWork, Work
    <2>5. /\ units' = [units EXCEPT ![ticking] = new]
          /\ work' = [work EXCEPT ![ticking] = NoWork]
          /\ rest' = [rest EXCEPT ![ticking] = rested]
          /\ projectiles' = projectiles \cup Shots
          /\ effect' = [slot   |-> slot,
                        worked |-> worked.time,
                        rested |-> rest[ticking][slot] - left',
                        killed |-> affected.isDead]
      <3>1. [affected EXCEPT !.cooldown[slot] = Cooldown[slot], !.progress = None,
                             !.command = IF @.repeat THEN @ ELSE None] = new
        BY <2>3 DEF Sound, UnitState
      <3>2. /\ units' = [units EXCEPT ![ticking] =
                   [affected EXCEPT !.cooldown[slot] = Cooldown[slot], !.progress = None,
                                    !.command = IF @.repeat THEN @ ELSE None]]
            /\ work' = [work EXCEPT ![ticking] = NoWork]
            /\ rest' = [rest EXCEPT ![ticking][slot] = left']
            /\ projectiles' = projectiles \cup Shots
            /\ effect' = [slot   |-> slot,
                          worked |-> worked.time,
                          rested |-> rest[ticking][slot] - left',
                          killed |-> affected.isDead]
        BY <2>1 DEF TriggerAbilityEffect
      <3>3. [rest EXCEPT ![ticking][slot] = left'] = [rest EXCEPT ![ticking] = rested]
        BY <1>2 DEF CombatInv, Shapes
      <3> HIDE DEF affected, new, worked, rested, slot
      <3> QED BY <3>1, <3>2, <3>3
    <2>6. UnitInv(new, NoWork, rested, 0)
      <3>1. left' \in Nat
        BY <2>2
      <3> HIDE DEF affected, command
      <3> QED BY <1>2, <2>3, <2>4, <3>1, CooldownBeginsInv
    <2>7. new.command # None => new.where = "live"
      <3>1. new.command = command /\ new.where = affected.where
        BY <2>3 DEF Sound, UnitState
      <3> QED BY <2>3, <3>1
    <2>8. projectiles' \subseteq ProjectileState
      BY <1>1, <2>5, ShotsFit DEF CombatInv, FrameOK
    <2>9. effect' \in Effects /\ EffectsAreEarned'
      <3>1. worked.time \in Nat /\ worked.time = UseTime[slot]
        <4>1. Progress.remaining \in Nat
          BY <1>3
        <4>2. /\ worked \in Work /\ worked.time <= UseTime[slot]
              /\ worked.time + (Progress.remaining - Progress.remaining) >= UseTime[slot]
          <5> HIDE DEF hadBreak
          <5> QED BY <1>1, <1>6, <4>1, WorkedFits
        <4>3. worked.time \in Nat /\ UseTime[slot] \in Nat
          BY <1>2, <4>2 DEF Work
        <4> HIDE DEF worked, slot
        <4> QED BY <4>1, <4>2, <4>3
      <3>2. rest[ticking][slot] - left' \in Int /\ rest[ticking][slot] - left' >= Cooldown[slot] - TickTime
        <4>1. units[ticking].cooldown[slot] = 0
          BY <1>2 DEF UnitState
        <4>2. rest[ticking][slot] >= Cooldown[slot] /\ rest[ticking][slot] \in Nat /\ Cooldown[slot] \in Nat
          BY <1>2, <4>1 DEF UnitInv, CooldownIsRest
        <4> HIDE DEF slot
        <4> QED BY <2>2, <4>2
      <3>3. affected.isDead \in BOOLEAN
        BY <2>3 DEF Sound, UnitState
      <3> HIDE DEF affected, worked
      <3> QED BY <1>2, <2>3, <2>5, <3>1, <3>2, <3>3 DEF Effects, EffectsAreEarned
    <2> HIDE DEF new, rested
    <2> QED BY <2>2, <2>4, <2>5, <2>6, <2>7, <2>8, <2>9, OutcomeKeeps
  <1> QED BY <1>7, <1>8

LEMMA ExecuteCommandStep ==
    ASSUME CombatInv, ExecuteCommand
    PROVE  CombatInv'
  <1>1. \/ LoseTarget \/ GiveUp \/ Approach
        \/ Use /\ CanPay /\ ~ (units[ticking].cooldown[Current.slot] > 0)
    BY DEF ExecuteCommand
  <1>2. CASE LoseTarget \/ GiveUp \/ Approach
    BY <1>2, BreakOffStep
  <1>3. CASE Use /\ CanPay /\ ~ (units[ticking].cooldown[Current.slot] > 0)
    BY <1>3, UseStep
  <1> QED BY <1>1, <1>2, <1>3

LEMMA EndTickStep ==
    ASSUME CombatInv, EndTick
    PROVE  CombatInv'
  <1> USE CombatAssumption
  <1>1. PICK u \in Units : u = ticking
    BY DEF EndTick, CombatInv, FrameOK
  <1>2. UnitInv(units[u], work[u], rest[u], Owed(u)) /\ work[u] \in Work
    BY DEF CombatInv, Shapes
  <1>3. \A v \in Units : Owed(v)' = Owed(v)
    BY DEF EndTick, Owed
  <1>4. PICK worked \in Work : work' = [work EXCEPT ![u] = worked] /\ UnitInv(units[u], worked, rest[u], Owed(u))
    <2>1. CASE iterations = 0
      <3>1. left > 0
        BY <1>1, <2>1 DEF EndTick, CombatInv, TurnIsOrderly
      <3>2. Current = None
        BY <2>1, <3>1 DEF EndTick, MaxIterations, CombatInv, FrameOK
      <3>3. units[u].command = None /\ NoWork \in Work
        BY <1>1, <3>2 DEF Current, NoWork, Work
      <3>4. UnitInv(units[u], NoWork, rest[u], Owed(u))
        BY <1>2, <3>3, IdleInv
      <3> QED BY <1>1, <2>1, <3>3, <3>4 DEF EndTick
    <2>2. CASE iterations # 0
      <3>1. work' = [work EXCEPT ![u] = work[u]]
        BY <2>2 DEF EndTick, CombatInv, Shapes
      <3> QED BY <1>2, <3>1
    <2> QED BY <2>1, <2>2
  <1>5. units' = [units EXCEPT ![u] = units[u]] /\ rest' = [rest EXCEPT ![u] = rest[u]]
    BY DEF EndTick, CombatInv, Shapes
  <1>6. Shapes' /\ \A v \in Units : UnitInv(units[v], work[v], rest[v], Owed(v))'
    BY <1>3, <1>4, <1>5, OneUnit
  <1> QED BY <1>6 DEF EndTick, CombatInv, FrameOK, TurnIsOrderly, EffectsAreEarned, MaxIterations

\* A hit keeps all units sound, and their work; a unit that is not in the
\* world stays as it is.
LEMMA HitSound ==
    ASSUME CombatInv, NEW p \in projectiles, NEW v \in Units
    PROVE  /\ Hit(p) \in [Units -> UnitState]
           /\ Sound(Hit(p)[v]) /\ SameWork(Hit(p)[v], units[v])
           /\ units[v].where # "live" => Hit(p)[v] = units[v]
  <1> USE CombatAssumption
  <1> DEFINE hurt == [units EXCEPT ![p.target] = HealthChanged(@, -AttackDamage)]
             restored == [hurt EXCEPT ![p.user] = HealthChanged(@, Lifesteal)]
             hit == [restored EXCEPT ![p.target] = BleedingAdded(@, p.user)]
             Fine(f) == \A w \in Units : /\ Sound(f[w]) /\ SameWork(f[w], units[w])
                                         /\ units[w].where # "live" => f[w] = units[w]
  <1>1. p.user \in Units /\ p.target \in Units
    BY DEF CombatInv, FrameOK, ProjectileState
  <1>2. units \in [Units -> UnitState] /\ \A w \in Units : Sound(units[w]) /\ SameWork(units[w], units[w])
    BY DEF CombatInv, Shapes, UnitInv, SameWork
  <1>3. -AttackDamage \in Int /\ Lifesteal \in Int
    OBVIOUS
  <1>4. DOMAIN hurt = Units /\ Fine(hurt)
    <2>1. DOMAIN hurt = Units
      BY <1>2
    <2>2. ASSUME NEW w \in Units, w # p.target PROVE hurt[w] = units[w]
      BY <1>2, <2>2
    <2>3. hurt[p.target] = HealthChanged(units[p.target], -AttackDamage)
      BY <1>1, <1>2
    <2> QED BY <1>1, <1>2, <1>3, <2>1, <2>2, <2>3, HealthChangedSound
  <1>5. DOMAIN restored = Units /\ Fine(restored)
    <2> HIDE DEF hurt
    <2>1. DOMAIN restored = Units
      BY <1>4
    <2>2. ASSUME NEW w \in Units, w # p.user PROVE restored[w] = hurt[w]
      BY <1>4, <2>2
    <2>3. restored[p.user] = HealthChanged(hurt[p.user], Lifesteal)
      BY <1>1, <1>4
    <2>4. /\ Sound(restored[p.user]) /\ SameWork(restored[p.user], hurt[p.user])
          /\ hurt[p.user].where # "live" => restored[p.user] = hurt[p.user]
      BY <1>1, <1>3, <1>4, <2>3, HealthChangedSound
    <2>5. /\ SameWork(restored[p.user], units[p.user])
          /\ units[p.user].where # "live" => restored[p.user] = units[p.user]
      BY <1>1, <1>4, <2>4 DEF SameWork
    <2> HIDE DEF restored
    <2> QED BY <1>4, <2>1, <2>2, <2>4, <2>5
  <1>6. DOMAIN hit = Units /\ Fine(hit)
    <2> HIDE DEF restored
    <2>1. DOMAIN hit = Units
      BY <1>5
    <2>2. ASSUME NEW w \in Units, w # p.target PROVE hit[w] = restored[w]
      BY <1>5, <2>2
    <2>3. hit[p.target] = BleedingAdded(restored[p.target], p.user)
      BY <1>1, <1>5
    <2>4. /\ Sound(hit[p.target]) /\ SameWork(hit[p.target], restored[p.target])
          /\ restored[p.target].where # "live" => hit[p.target] = restored[p.target]
      BY <1>1, <1>5, <2>3, BleedingAddedSound
    <2>5. /\ SameWork(hit[p.target], units[p.target])
          /\ units[p.target].where # "live" => hit[p.target] = units[p.target]
      BY <1>1, <1>5, <2>4 DEF SameWork
    <2> HIDE DEF hit
    <2> QED BY <1>5, <2>1, <2>2, <2>4, <2>5
  <1>7. Hit(p) = hit
    BY DEF Hit
  <1>8. hit = [w \in Units |-> hit[w]] /\ \A w \in Units : hit[w] \in UnitState
    BY <1>6 DEF Sound
  <1> HIDE DEF hit
  <1> QED BY <1>6, <1>7, <1>8

LEMMA TickProjectileStep ==
    ASSUME CombatInv, NEW p \in projectiles, TickProjectile(p)
    PROVE  CombatInv'
  <1> USE CombatAssumption
  <1>1. p \in ProjectileState /\ projectiles \subseteq ProjectileState
    BY DEF CombatInv, FrameOK
  <1>2. projectiles' \subseteq ProjectileState
    <2>1. p.age + 1 \in Nat
      BY <1>1 DEF ProjectileState
    <2>2. ASSUME NEW n \in Nat
          PROVE  [p EXCEPT !.hasTicked = TRUE, !.age = n] \in ProjectileState
      BY <1>1 DEF ProjectileState
    <2>3. ASSUME NEW n \in Nat
          PROVE  [p EXCEPT !.hasTicked = TRUE, !.age = n, !.didHit = TRUE] \in ProjectileState
      BY <1>1 DEF ProjectileState
    <2> QED BY <1>1, <2>1, <2>2, <2>3 DEF TickProjectile
  <1>3. units' = units \/ units' = Hit(p)
    BY DEF TickProjectile
  <1>4. UNCHANGED <<frameVars, historyVars>> /\ ticking = None
    BY DEF TickProjectile
  <1>5. \A v \in Units : Owed(v)' = Owed(v)
    BY <1>4 DEF Owed, frameVars
  <1>6. ASSUME NEW v \in Units PROVE UnitInv(units[v], work[v], rest[v], Owed(v))'
    <2>1. UnitInv(units[v], work[v], rest[v], Owed(v))
      BY DEF CombatInv
    <2>2. CASE units' = units
      BY <1>4, <1>5, <2>1, <2>2 DEF historyVars
    <2>3. CASE units' = Hit(p)
      <3>1. Sound(units'[v]) /\ SameWork(units'[v], units[v])
        BY <2>3, HitSound
      <3>2. UnitInv(units'[v], work[v], rest[v], Owed(v))
        BY <2>1, <3>1, SameWorkInv
      <3> QED BY <1>4, <1>5, <3>2 DEF historyVars
    <2> QED BY <1>3, <2>2, <2>3
  <1>7. Shapes'
    <2>1. units' \in [Units -> UnitState]
      <3>1. CASE Units = {}
        BY <1>1, <3>1 DEF ProjectileState
      <3>2. CASE Units # {}
        BY <1>3, <3>2, HitSound DEF CombatInv, Shapes
      <3> QED BY <3>1, <3>2
    <2> QED BY <1>4, <2>1 DEF historyVars, CombatInv, Shapes
  <1> QED BY <1>2, <1>4, <1>6, <1>7
          DEF CombatInv, FrameOK, TurnIsOrderly, EffectsAreEarned, frameVars, historyVars

----------------------------------------------------------------------------
(* The theorems. *)

LEMMA CombatNext ==
    ASSUME CombatInv, [Next]_vars
    PROVE  CombatInv'
  <1>1. CASE UNCHANGED vars
    BY <1>1 DEF vars, frameVars, historyVars, CombatInv, Shapes, Owed, FrameOK, TurnIsOrderly,
       Current, IsLive, EffectsAreEarned
  <1>2. ASSUME NEW u \in Units, NEW c \in Commands(u) \cup {None}, SetCommand(u, c)
        PROVE  CombatInv'
    BY <1>2, SetCommandStep
  <1>3. ASSUME NEW u \in Units, Spawn(u) PROVE CombatInv'
    BY <1>3, SpawnStep
  <1>4. ASSUME NEW u \in Units, Collect(u) PROVE CombatInv'
    BY <1>4, CollectStep
  <1>5. ASSUME NEW u \in Units, BeginTick(u) PROVE CombatInv'
    BY <1>5, BeginTickStep
  <1>6. CASE Restart
    BY <1>6, RestartStep
  <1>7. CASE StartFrame
    BY <1>7, StartFrameStep
  <1>8. CASE ExecuteCommand
    BY <1>8, ExecuteCommandStep
  <1>9. CASE EndTick
    BY <1>9, EndTickStep
  <1>10. ASSUME NEW p \in projectiles, TickProjectile(p) PROVE CombatInv'
    BY <1>10, TickProjectileStep
  <1> QED BY <1>1, <1>2, <1>3, <1>4, <1>5, <1>6, <1>7, <1>8, <1>9, <1>10 DEF Next

LEMMA CombatInvImplies == CombatInv => TypeOK
  BY DEF CombatInv, Shapes, FrameOK, UnitInv, Sound, TypeOK, IsLive

LEMMA CombatInvAlways == Spec => []CombatInv
  <1>1. Init => CombatInv
    BY InitialStates
  <1>2. CombatInv /\ [Next]_vars => CombatInv'
    BY CombatNext
  <1> QED BY <1>1, <1>2, PTL DEF Spec

\* Health, death and presence of every unit agree, and all variables are of
\* their types.
THEOREM TypeCorrect == Spec => []TypeOK
  <1>1. CombatInv => TypeOK
    BY CombatInvImplies
  <1> QED BY <1>1, CombatInvAlways, PTL

\* Every effect of an ability was worked for at one target and without a
\* break, came at most a tick before its cooldown was over, and did not kill
\* its user: for any use times, cooldowns and costs, whatever is ordered and
\* however often the cluster is restarted (Unit.cs:365-450, 532-547).
THEOREM EarnedEffects == Spec => []EffectsAreEarned
  <1>1. CombatInv => EffectsAreEarned
    BY DEF CombatInv
  <1> QED BY <1>1, CombatInvAlways, PTL

\* No step changes a unit that is, and stays, out of the world.
LEMMA FrozenStep ==
    ASSUME CombatInv, [Next]_vars, NEW u \in Units,
           units[u].where = "removed", units'[u].where = "removed"
    PROVE  units'[u] = units[u]
  <1> USE CombatAssumption
  <1>1. units \in [Units -> UnitState]
    BY DEF CombatInv, Shapes
  <1>2. CASE UNCHANGED vars
    BY <1>2 DEF vars
  <1>3. ASSUME NEW v \in Units, NEW c \in Commands(v) \cup {None}, SetCommand(v, c)
        PROVE  units'[u] = units[u]
    <2>1. v # u
      BY <1>3 DEF SetCommand, IsLive
    <2> QED BY <1>1, <1>3, <2>1 DEF SetCommand
  <1>4. ASSUME NEW v \in Units, Spawn(v) PROVE units'[u] = units[u]
    <2>1. CASE v = u
      BY <1>1, <1>4, <2>1 DEF Spawn, UnitState
    <2>2. CASE v # u
      BY <1>1, <1>4, <2>2 DEF Spawn
    <2> QED BY <2>1, <2>2
  <1>5. ASSUME NEW v \in Units, Collect(v) PROVE units'[u] = units[u]
    <2>1. CASE v = u
      BY <1>1, <1>5, <2>1 DEF Collect, NewUnit
    <2>2. CASE v # u
      BY <1>1, <1>5, <2>2 DEF Collect
    <2> QED BY <2>1, <2>2
  <1>6. ASSUME NEW v \in Units, BeginTick(v) PROVE units'[u] = units[u]
    <2>1. CASE IsLive(v)
      <3>1. v # u
        BY <2>1 DEF IsLive
      <3> QED BY <1>1, <1>6, <3>1 DEF BeginTick
    <2>2. CASE ~ IsLive(v)
      BY <1>6, <2>2 DEF BeginTick
    <2> QED BY <2>1, <2>2
  <1>7. CASE Restart
    BY <1>7 DEF Restart
  <1>8. CASE StartFrame
    BY <1>8 DEF StartFrame
  <1>9. CASE ExecuteCommand
    <2>1. ticking # u
      BY <1>9, InTurn DEF ExecuteCommand, IsLive
    <2>2. GiveUp \/ LoseTarget \/ Approach \/ Use
      BY <1>9 DEF ExecuteCommand
    <2> QED BY <1>1, <2>1, <2>2 DEF GiveUp, LoseTarget, Approach, Use, TriggerAbilityEffect
  <1>10. CASE EndTick
    BY <1>10 DEF EndTick
  <1>11. ASSUME NEW p \in projectiles, TickProjectile(p) PROVE units'[u] = units[u]
    BY <1>11, HitSound DEF TickProjectile
  <1> QED BY <1>2, <1>3, <1>4, <1>5, <1>6, <1>7, <1>8, <1>9, <1>10, <1>11 DEF Next

\* What still hits a unit that is out of the world leaves no trace on it, for
\* any number of units and projectiles (Unit.cs:575, 632, 704, 711).
THEOREM RemovedUnitsAreFrozen == Spec => FrozenWhileRemoved
  <1> DEFINE Frozen(u) ==
        units[u].where = "removed" /\ units'[u].where = "removed" => units'[u] = units[u]
  <1>1. CombatInv /\ [Next]_vars => [\A u \in Units : Frozen(u)]_vars
    BY FrozenStep
  <1> QED BY <1>1, CombatInvAlways, PTL DEF Spec, FrozenWhileRemoved
=============================================================================
