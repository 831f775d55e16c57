------------------------------ MODULE MinerPool ------------------------------
(***************************************************************************)
(* The miner pool: hosted producer slots (contrib/minerpool/pool.py,       *)
(* run-slot.sh and the systemd units beside them).                         *)
(*                                                                         *)
(* A join, under one flock, looks at every slot, moves those nobody could  *)
(* lose anything by to archived/, and sets up a directory, a key and a     *)
(* unit under a free number.  The unit's script registers a bond with the  *)
(* funds that arrive, notes it in slot.json and turns into a producer.     *)
(* Joins end half-way (an exception, a refused key, the end of pool.py),   *)
(* units are killed and started again, the host reboots.                   *)
(*                                                                         *)
(* A tenant is a number in the order of joining; it stands for its seed,   *)
(* address, token and files.  A slot number is the name of a directory.    *)
(* Amounts, modes, statuses and the rewards are left out; memory is a      *)
(* refusal that may always come.                                           *)
(***************************************************************************)
EXTENDS Naturals, FiniteSets

CONSTANTS
  Joins,        \* POST /pool/v1/slots under way
  Owners,       \* POST .../fp/enable under way
  MaxSlots,     \* MAX_SLOTS
  LateFunding,  \* whether a slot older than a day may still be funded
  MaxTenants,   \* bound: slots ever created
  MaxEnds,      \* bound: joins that end half-way
  MaxKills, MaxStops, MaxReboots  \* bounds: units killed, stopped by hand; reboots

Numbers == 1..MaxSlots
Tenants == 1..MaxTenants
NoOne   == 0

ASSUME PoolAssumption ==
  /\ MaxSlots \in Nat \ {0} /\ MaxTenants \in Nat
  /\ LateFunding \in BOOLEAN
  /\ {MaxEnds, MaxKills, MaxStops, MaxReboots} \subseteq Nat

VARIABLES
  dir,       \* [Numbers -> the tenant whose directory has the number]
  archived,  \* the tenants whose directories were moved to archived/
  joined,    \* directories made so far
  json,      \* [Tenants -> "absent", "torn" or "whole"]: slot.json
  bond, fee, \* the tenants whose slot.json names a bond, a fee outpoint
  young,     \* created less than SLOT_GRACE_S ago
  logged,    \* whose log, in the part that is read, tells of a bond
  told,      \* whose owner got the address and the token
  coins,     \* whose address holds something (external: the chain)
  pending,   \* whose carrier waits to be mined (external)
  bonded,    \* whose bond is on the chain (external)
  enabled,   \* numbers whose slot unit is enabled (external: systemd)
  run,       \* [Numbers -> where the unit's script is]
  who,       \* [Numbers -> the tenant it read at its start]
  gateway,   \* [Numbers -> the identity the free-prompt units run under]
  lock,      \* the join inside the flock; {} when nobody is
  join,      \* [Joins -> its place and its local variables]
  cool,      \* whether _last_join is less than JOIN_COOLDOWN_S ago
  owner,     \* [Owners -> the enable under way: a number and a tenant]
  left       \* what the bounds leave of each accident

placeVars == <<dir, archived, joined>>
fileVars  == <<json, bond, fee, young, logged>>
chainVars == <<told, coins, pending, bonded>>
unitVars  == <<enabled, run, who, gateway>>
joinVars  == <<lock, join, cool>>
vars == <<placeVars, fileVars, chainVars, unitVars, joinVars, owner, left>>

Idle    == [pc |-> "idle", todo |-> {}, occupied |-> 0, free |-> {}, n |-> 0]
NoOwner == [n |-> 0, t |-> NoOne]

Inside == {"look", "balance", "disable", "move", "pick", "open", "write", "enable"}
Saving == {"seen", "bondOpen", "bondSaved", "feeOpen"}
Active == {"register", "submitted", "produce"} \cup Saving

TypeOK ==
  /\ dir \in [Numbers -> Tenants \cup {NoOne}]
  /\ archived \subseteq Tenants
  /\ joined \in 0..MaxTenants
  /\ json \in [Tenants -> {"absent", "torn", "whole"}]
  /\ bond \subseteq Tenants /\ fee \subseteq Tenants
  /\ young \subseteq Tenants /\ logged \subseteq Tenants
  /\ told \subseteq Tenants /\ coins \subseteq Tenants
  /\ pending \subseteq Tenants /\ bonded \subseteq Tenants
  /\ enabled \subseteq Numbers
  /\ run \in [Numbers -> {"off", "wait"} \cup Active]
  /\ who \in [Numbers -> Tenants \cup {NoOne}]
  /\ gateway \in [Numbers -> Tenants \cup {NoOne}]
  /\ lock \subseteq Joins
  /\ join \in [Joins -> [pc: {"idle", "wait", "reply"} \cup Inside, todo: SUBSET Numbers,
                         occupied: 0..MaxSlots, free: SUBSET Numbers, n: 0..MaxSlots]]
  /\ cool \in BOOLEAN
  /\ owner \in [Owners -> [n: 0..MaxSlots, t: Tenants \cup {NoOne}]]
  /\ left \in [{"end", "kill", "stop", "reboot"} -> Nat]

Init ==
  /\ dir = [n \in Numbers |-> NoOne] /\ archived = {} /\ joined = 0
  /\ json = [t \in Tenants |-> "absent"]
  /\ bond = {} /\ fee = {} /\ young = {} /\ logged = {}
  /\ told = {} /\ coins = {} /\ pending = {} /\ bonded = {}
  /\ enabled = {} /\ run = [n \in Numbers |-> "off"]
  /\ who = [n \in Numbers |-> NoOne] /\ gateway = [n \in Numbers |-> NoOne]
  /\ lock = {} /\ join = [j \in Joins |-> Idle] /\ cool = FALSE
  /\ owner = [o \in Owners |-> NoOwner]
  /\ left = [end |-> MaxEnds, kill |-> MaxKills, stop |-> MaxStops, reboot |-> MaxReboots]

Spend(what) == left[what] > 0 /\ left' = [left EXCEPT ![what] = @ - 1]
Least(S) == CHOOSE n \in S : \A m \in S : n <= m
Used == {n \in Numbers : dir[n] # NoOne}
-----------------------------------------------------------------------------
(* A join. *)

Goto(j, place) == join' = [join EXCEPT ![j].pc = place]
Leave(j) == join' = [join EXCEPT ![j] = Idle] /\ lock' = lock \ {j}

(* The cooldown is looked at before the lock, and set after it. *)
Ask(j) ==
  /\ join[j].pc = "idle" /\ ~cool
  /\ Goto(j, "wait")
  /\ UNCHANGED <<placeVars, fileVars, chainVars, unitVars, lock, cool, owner, left>>

\* Mutant: there is no flock.
LockFree(j) ==
  /\ join[j].pc = "wait"
  /\ lock' = lock \cup {j}
  /\ join' = [join EXCEPT ![j].pc = "look", ![j].todo = Used]
  /\ UNCHANGED <<placeVars, fileVars, chainVars, unitVars, cool, owner, left>>

Lock(j) ==
  /\ join[j].pc = "wait" /\ lock = {}
  /\ lock' = lock \cup {j}
  /\ join' = [join EXCEPT ![j].pc = "look", ![j].todo = Used]
  /\ UNCHANGED <<placeVars, fileVars, chainVars, unitVars, cool, owner, left>>

\* Mutant: a slot that is counted stays on the list.
OccupiedAgain(j) == join' = [join EXCEPT ![j].pc = "look", ![j].occupied = @ + 1]

Occupied(j) == join' = [join EXCEPT ![j].pc = "look", ![j].occupied = @ + 1,
                                    ![j].todo = @ \ {Least(@)}]
Free(j)     == join' = [join EXCEPT ![j].pc = "look", ![j].free = @ \cup {Least(join[j].todo)},
                                    ![j].todo = @ \ {Least(@)}]

(* What slot.json says of a bond. *)
Noted(t) == json[t] = "whole" /\ t \in bond

(* reclaimable, as far as the host can tell: slot.json, is-active (a unit   *)
(* between two restarts is not), a bond noted or logged, the age.           *)
Look(j) ==
  /\ join[j].pc = "look" /\ join[j].todo # {}
  /\ LET n == Least(join[j].todo)
         t == dir[n]
     IN  IF json[t] # "whole" \/ run[n] \in Active \/ Noted(t) \/ t \in logged \/ t \in young
         THEN Occupied(j) ELSE Goto(j, "balance")
  /\ UNCHANGED <<placeVars, fileVars, chainVars, unitVars, lock, cool, owner, left>>

\* Mutant: a balance that could not be read is none.
BalanceOrZero(j) ==
  /\ join[j].pc = "balance"
  /\ \/ Occupied(j) /\ dir[Least(join[j].todo)] \in coins
     \/ Free(j)
  /\ UNCHANGED <<placeVars, fileVars, chainVars, unitVars, lock, cool, owner, left>>

(* ... and last what the address holds; unread, the slot is kept. *)
Balance(j) ==
  /\ join[j].pc = "balance"
  /\ \/ Occupied(j)
     \/ Free(j) /\ dir[Least(join[j].todo)] \notin coins
  /\ UNCHANGED <<placeVars, fileVars, chainVars, unitVars, lock, cool, owner, left>>

(* capacity_refusal: no number left, or too little memory. *)
Refuse(j) ==
  /\ join[j].pc = "look" /\ join[j].todo = {}
  /\ Leave(j)
  /\ UNCHANGED <<placeVars, fileVars, chainVars, unitVars, cool, owner, left>>

Accept(j) ==
  /\ join[j].pc = "look" /\ join[j].todo = {} /\ join[j].occupied < MaxSlots
  /\ Goto(j, IF join[j].free = {} THEN "pick" ELSE "disable")
  /\ UNCHANGED <<placeVars, fileVars, chainVars, unitVars, lock, cool, owner, left>>

\* Mutant: the directory is moved and its unit left enabled.
StopOnly(j) ==
  /\ join[j].pc = "disable"
  /\ LET n == Least(join[j].free) IN
       /\ run' = [run EXCEPT ![n] = "off"] /\ gateway' = [gateway EXCEPT ![n] = NoOne]
  /\ Goto(j, "move")
  /\ UNCHANGED <<placeVars, fileVars, chainVars, enabled, who, lock, cool, owner, left>>

(* reclaim: the units are disabled and stopped, and only then the directory *)
(* is moved.                                                                *)
Disable(j) ==
  /\ join[j].pc = "disable"
  /\ LET n == Least(join[j].free) IN
       /\ enabled' = enabled \ {n} /\ run' = [run EXCEPT ![n] = "off"]
       /\ gateway' = [gateway EXCEPT ![n] = NoOne]
  /\ Goto(j, "move")
  /\ UNCHANGED <<placeVars, fileVars, chainVars, who, lock, cool, owner, left>>

Move(j) ==
  /\ join[j].pc = "move"
  /\ LET n    == Least(join[j].free)
         rest == join[j].free \ {n}
     IN  /\ dir' = [dir EXCEPT ![n] = NoOne] /\ archived' = archived \cup {dir[n]}
         /\ join' = [join EXCEPT ![j].free = rest,
                                 ![j].pc = IF rest = {} THEN "pick" ELSE "disable"]
  /\ UNCHANGED <<joined, fileVars, chainVars, unitVars, lock, cool, owner, left>>

(* The first number without a directory; the directory. *)
Pick(j) ==
  /\ join[j].pc = "pick" /\ Used # Numbers
  /\ joined < MaxTenants /\ joined' = joined + 1
  /\ LET n == Least(Numbers \ Used) IN
       dir' = [dir EXCEPT ![n] = joined'] /\ join' = [join EXCEPT ![j].n = n, ![j].pc = "open"]
  /\ young' = young \cup {joined'}
  /\ UNCHANGED <<archived, json, bond, fee, logged, chainVars, unitVars, lock, cool, owner, left>>

(* The key is there, the collateral sized: slot.json is opened, and written. *)
OpenState(j) ==
  /\ join[j].pc = "open"
  /\ json' = [json EXCEPT ![dir[join[j].n]] = "torn"]
  /\ Goto(j, "write")
  /\ UNCHANGED <<placeVars, bond, fee, young, logged, chainVars, unitVars, lock, cool, owner, left>>

WriteState(j) ==
  /\ join[j].pc = "write"
  /\ json' = [json EXCEPT ![dir[join[j].n]] = "whole"]
  /\ Goto(j, "enable")
  /\ UNCHANGED <<placeVars, bond, fee, young, logged, chainVars, unitVars, lock, cool, owner, left>>

(* enable --now, whose result nobody looks at. *)
Enable(j) ==
  /\ join[j].pc = "enable"
  /\ \/ /\ enabled' = enabled \cup {join[j].n}
        /\ run' = [run EXCEPT ![join[j].n] = "wait"]
     \/ UNCHANGED <<enabled, run>>
  /\ Goto(j, "reply") /\ lock' = lock \ {j}
  /\ UNCHANGED <<placeVars, fileVars, chainVars, who, gateway, cool, owner, left>>

Reply(j) ==
  /\ join[j].pc = "reply"
  /\ cool' = TRUE /\ told' = told \cup {dir[join[j].n]}
  /\ Leave(j)
  /\ UNCHANGED <<placeVars, fileVars, coins, pending, bonded, unitVars, owner, left>>

(* A join ends where it is: the key or the collateral is refused, a command *)
(* takes too long and raises, or pool.py itself ends.                       *)
End(j) ==
  /\ join[j].pc \in Inside \cup {"reply"} /\ Spend("end")
  /\ Leave(j)
  /\ UNCHANGED <<placeVars, fileVars, chainVars, unitVars, cool, owner>>

CoolOff ==
  /\ cool /\ cool' = FALSE
  /\ UNCHANGED <<placeVars, fileVars, chainVars, unitVars, lock, join, owner, left>>

JoinStep(j) ==
  \/ Ask(j) \/ Lock(j) \/ Look(j) \/ Balance(j) \/ Refuse(j) \/ Accept(j) \/ Disable(j) \/ Move(j)
  \/ Pick(j) \/ OpenState(j) \/ WriteState(j) \/ Enable(j) \/ Reply(j) \/ End(j)
-----------------------------------------------------------------------------
(* fp_enable: outside the lock, for a bond the chain knows. *)

\* Mutant: a slot without a bond gets a gateway too.
FpAskUnbonded(o, n) ==
  /\ owner[o] = NoOwner /\ dir[n] \in told /\ json[dir[n]] = "whole"
  /\ owner' = [owner EXCEPT ![o] = [n |-> n, t |-> dir[n]]]
  /\ UNCHANGED <<placeVars, fileVars, chainVars, unitVars, joinVars, left>>

FpAsk(o, n) ==
  /\ owner[o] = NoOwner /\ dir[n] \in told
  /\ Noted(dir[n]) /\ dir[n] \in bonded
  /\ owner' = [owner EXCEPT ![o] = [n |-> n, t |-> dir[n]]]
  /\ UNCHANGED <<placeVars, fileVars, chainVars, unitVars, joinVars, left>>

FpEnable(o) ==
  /\ owner[o] # NoOwner
  /\ gateway' = [gateway EXCEPT ![owner[o].n] = owner[o].t]
  /\ owner' = [owner EXCEPT ![o] = NoOwner]
  /\ UNCHANGED <<placeVars, fileVars, chainVars, enabled, run, who, joinVars, left>>
-----------------------------------------------------------------------------
(* run-slot.sh under its unit. *)

RunTo(n, place) == run' = [run EXCEPT ![n] = place]

(* systemd starts the script, which reads slot.json.  With nothing to read  *)
(* the node has no address and exits, and the unit waits again.             *)
Start(n) ==
  /\ run[n] = "wait" /\ dir[n] # NoOne /\ json[dir[n]] = "whole"
  /\ RunTo(n, IF Noted(dir[n]) THEN "produce" ELSE "register")
  /\ who' = [who EXCEPT ![n] = dir[n]]
  /\ UNCHANGED <<placeVars, fileVars, chainVars, enabled, gateway, joinVars, owner, left>>

(* The node finds its funds and sends the carrier. *)
Submit(n) ==
  /\ run[n] = "register" /\ who[n] \in coins \ bonded
  /\ pending' = pending \cup {who[n]} /\ RunTo(n, "submitted")
  /\ UNCHANGED <<placeVars, fileVars, told, coins, bonded, enabled, who, gateway, joinVars, owner,
                 left>>

(* "no bond appeared within": the node stops trying, the script exits. *)
GiveUp(n) ==
  /\ run[n] = "submitted" /\ RunTo(n, "wait")
  /\ UNCHANGED <<placeVars, fileVars, chainVars, enabled, who, gateway, joinVars, owner, left>>

\* Mutant: only the sentence of a first registration is read.
LineOfFirst(n) ==
  /\ run[n] = "submitted" /\ who[n] \in bonded
  /\ logged' = logged \cup {who[n]} /\ RunTo(n, "seen")
  /\ UNCHANGED <<placeVars, json, bond, fee, young, chainVars, enabled, who, gateway, joinVars,
                 owner, left>>

(* "registered bond", or "already holds bond" from a later run. *)
Line(n) ==
  /\ run[n] \in {"register", "submitted"} /\ who[n] \in bonded
  /\ logged' = logged \cup {who[n]} /\ RunTo(n, "seen")
  /\ UNCHANGED <<placeVars, json, bond, fee, young, chainVars, enabled, who, gateway, joinVars,
                 owner, left>>

(* jwrite, twice: the file is loaded, truncated, and written. *)
Truncate(n, from, to) ==
  /\ run[n] = from /\ json' = [json EXCEPT ![dir[n]] = "torn"] /\ RunTo(n, to)
  /\ UNCHANGED <<placeVars, bond, fee, young, logged, chainVars, enabled, who, gateway, joinVars,
                 owner, left>>

WriteBond(n) ==
  /\ run[n] = "bondOpen" /\ RunTo(n, "bondSaved")
  /\ json' = [json EXCEPT ![dir[n]] = "whole"] /\ bond' = bond \cup {dir[n]}
  /\ UNCHANGED <<placeVars, fee, young, logged, chainVars, enabled, who, gateway, joinVars, owner,
                 left>>

(* ... and the node is started again, as a producer. *)
WriteFee(n) ==
  /\ run[n] = "feeOpen" /\ RunTo(n, "produce")
  /\ json' = [json EXCEPT ![dir[n]] = "whole"] /\ fee' = fee \cup {dir[n]}
  /\ UNCHANGED <<placeVars, bond, young, logged, chainVars, enabled, who, gateway, joinVars, owner,
                 left>>

NobodyInside == \A j \in Joins : join[j].pc \in {"idle", "wait"}

(* A producer's fees use up what is at its address; not within one join,    *)
(* which takes seconds.                                                     *)
Pay(n) ==
  /\ run[n] = "produce" /\ who[n] \in coins /\ NobodyInside
  /\ coins' = coins \ {who[n]}
  /\ UNCHANGED <<placeVars, fileVars, told, pending, bonded, unitVars, joinVars, owner, left>>

(* The node's other lines push the registration out of what is read. *)
Scroll(n) ==
  /\ run[n] \in Active /\ who[n] \in logged
  /\ logged' = logged \ {who[n]}
  /\ UNCHANGED <<placeVars, json, bond, fee, young, chainVars, unitVars, joinVars, owner, left>>

(* The node exits or is killed with its script; Restart=always.             *)
Kill(n) ==
  /\ run[n] \in Active /\ Spend("kill") /\ RunTo(n, "wait")
  /\ UNCHANGED <<placeVars, fileVars, chainVars, enabled, who, gateway, joinVars, owner>>

Stop(n) ==
  /\ run[n] # "off" /\ Spend("stop") /\ RunTo(n, "off")
  /\ UNCHANGED <<placeVars, fileVars, chainVars, enabled, who, gateway, joinVars, owner>>

(* The host comes back with the units that are enabled. *)
Reboot ==
  /\ Spend("reboot")
  /\ run' = [n \in Numbers |-> IF n \in enabled THEN "wait" ELSE "off"]
  /\ lock' = {} /\ join' = [j \in Joins |-> Idle] /\ cool' = FALSE
  /\ owner' = [o \in Owners |-> NoOwner]
  /\ UNCHANGED <<placeVars, fileVars, chainVars, enabled, who, gateway>>

RunStep(n) ==
  \/ Start(n) \/ Submit(n) \/ GiveUp(n) \/ Line(n)
  \/ Truncate(n, "seen", "bondOpen") \/ WriteBond(n)
  \/ Truncate(n, "bondSaved", "feeOpen") \/ WriteFee(n)
-----------------------------------------------------------------------------
(* The owners, the chain, the clock. *)

Fund(t) ==
  /\ t \in told \ (coins \cup pending \cup bonded) /\ (t \in young \/ LateFunding)
  /\ coins' = coins \cup {t}
  /\ UNCHANGED <<placeVars, fileVars, told, pending, bonded, unitVars, joinVars, owner, left>>

(* The carrier's change stays at the address. *)
Mine(t) ==
  /\ t \in pending
  /\ pending' = pending \ {t} /\ bonded' = bonded \cup {t}
  /\ UNCHANGED <<placeVars, fileVars, told, coins, unitVars, joinVars, owner, left>>

Evict(t) ==
  /\ t \in pending
  /\ pending' = pending \ {t}
  /\ UNCHANGED <<placeVars, fileVars, told, coins, bonded, unitVars, joinVars, owner, left>>

(* A day passes; no join takes one. *)
Age(t) ==
  /\ t \in young /\ NobodyInside
  /\ young' = young \ {t}
  /\ UNCHANGED <<placeVars, json, bond, fee, logged, chainVars, unitVars, joinVars, owner, left>>

Next ==
  \/ \E j \in Joins : JoinStep(j)
  \/ \E o \in Owners : FpEnable(o) \/ \E n \in Numbers : FpAsk(o, n)
  \/ \E n \in Numbers : RunStep(n) \/ Pay(n) \/ Scroll(n) \/ Kill(n) \/ Stop(n)
  \/ \E t \in Tenants : Fund(t) \/ Mine(t) \/ Evict(t) \/ Age(t)
  \/ CoolOff \/ Reboot

Spec == Init /\ [][Next]_vars

(* systemd restarts what exits, a script goes on, the node registers when   *)
(* it can and its ten minutes pass; a carrier sent again and again is mined *)
(* in the end.  Nobody has to join, to fund or to stay away.                *)
Fairness ==
  /\ \A n \in Numbers :
       /\ WF_vars(Start(n)) /\ WF_vars(Submit(n)) /\ WF_vars(GiveUp(n)) /\ WF_vars(Line(n))
       /\ WF_vars(Truncate(n, "seen", "bondOpen") \/ WriteBond(n))
       /\ WF_vars(Truncate(n, "bondSaved", "feeOpen") \/ WriteFee(n))
  /\ \A t \in Tenants : SF_vars(Mine(t))

FairSpec == Spec /\ Fairness
-----------------------------------------------------------------------------
(* Safety. *)

(* A join that was accepted finds a number: what it counted as occupied is  *)
(* still all there is, whoever else was joining (create_slot, "next").      *)
APlaceIsFound == \A j \in Joins : join[j].pc = "pick" => Used # Numbers

(* No slot is moved away that holds, or is about to hold, anything of its   *)
(* owner's, if nobody funds a slot older than a day: neither an unread      *)
(* balance nor a registration the log has scrolled past loses it            *)
(* (reclaimable, "keeps the slot when in doubt").                           *)
NothingHeldIsArchived == archived \cap (coins \cup pending \cup bonded) = {}

(* A unit that runs does so in the directory of the tenant it started for,  *)
(* and one that a reboot would start has a directory: no number comes back  *)
(* under a stranger (reclaim, "Disabled BEFORE the move").                  *)
RunnerOwnsDirectory ==
  \A n \in Numbers :
    /\ run[n] \in Active => who[n] = dir[n]
    /\ n \in enabled \/ run[n] = "wait" => dir[n] # NoOne

(* A gateway runs under the bond of the tenant whose slot it is, though it  *)
(* is enabled outside the lock (fp_enable).                                 *)
GatewayIsTheTenants ==
  \A n \in Numbers : gateway[n] # NoOne => gateway[n] = dir[n] /\ gateway[n] \in bonded
-----------------------------------------------------------------------------
(* What the code says of itself and does not keep. *)

(* "The carrier's own change as the fee outpoint (without it ... a          *)
(* ConsensusV2 producer refuses to start)": a producer has one.             *)
(* (run-slot.sh, phase 2.)                                                  *)
FeeKnownWhenProducing ==
  \A n \in Numbers : run[n] = "produce" => who[n] \in fee

(* "A slot number is held while the slot runs, holds a bond, holds any      *)
(* coins, or is less than a day old.  Anything else is reclaimed by the     *)
(* next join": so says a join that has just reclaimed.  (occupancy.)        *)
NumbersComeBack ==
  \A j \in Joins : join[j].pc = "pick" =>
    \A n \in Used : \/ run[n] # "off" \/ dir[n] \in young
                    \/ dir[n] \in coins \cup pending \cup bonded

(* "A slot was just created -- try again in a minute": two are not created  *)
(* within one.  (do_POST's cooldown.)                                       *)
OneJoinAMinute == \A j \in Joins : join[j].pc \in Inside => ~cool
-----------------------------------------------------------------------------
(* Liveness. *)

(* A funded slot produces in the end, whatever is killed and evicted on the *)
(* way, unless its unit was stopped or slot.json lost to a kill that hit it *)
(* half-written (run-slot.sh, phases 1 and 2).                              *)
FundedProduces ==
  \A t \in Tenants :
    t \in coins ~> \E n \in Numbers :
      dir[n] = t /\ (run[n] \in {"off", "produce"} \/ json[t] = "torn")
=============================================================================
