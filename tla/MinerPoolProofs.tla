--------------------------- MODULE MinerPoolProofs ---------------------------
(***************************************************************************)
(* What TLAPS proves of MinerPool, for any numbers of joins, slots and     *)
(* tenants: a join that was accepted finds a number, no unit runs in a     *)
(* stranger's directory; and, when nobody funds a slot older than a day,   *)
(* nothing that holds anything is moved away and a gateway is its tenant's.*)
(***************************************************************************)
EXTENDS MinerPool, WellFoundedInduction, TLAPS

(* Who is past the flock holds it. *)
LockOK == \A j \in Joins : join[j].pc \in Inside => lock = {j}

(* Tenants are numbered in the order of joining. *)
Fresh ==
  /\ \A n \in Numbers : dir[n] <= joined
  /\ \A t \in archived : t <= joined

(* What a join has found out at each place.  While it looks, the numbers it *)
(* counted are below those it has yet to look at; if all are taken and none *)
(* was free, it has yet to look at all the others.                          *)
Looking(j) ==
  /\ \A n \in join[j].todo : dir[n] # NoOne /\ join[j].occupied < n
  /\ join[j].free = {} /\ Used = Numbers =>
       \A n \in Numbers : join[j].occupied < n => n \in join[j].todo

(* What it means to move away is nobody's who came lately, and is off.      *)
Reclaiming(j) ==
  /\ \A n \in join[j].free : dir[n] # NoOne /\ dir[n] \notin young
  /\ join[j].pc \in {"disable", "move"} => join[j].free # {}
  /\ join[j].pc = "move" =>
       Least(join[j].free) \notin enabled /\ run[Least(join[j].free)] = "off"

Created(j) == join[j].n \in Numbers /\ dir[join[j].n] \in young

JoinOK(j) ==
  /\ join[j].pc \in {"idle", "wait"} => join[j].occupied = 0 /\ join[j].free = {}
  /\ join[j].pc \in {"look", "balance"} => Looking(j)
  /\ join[j].pc = "balance" =>
       join[j].todo # {} /\ dir[Least(join[j].todo)] \notin young
  /\ join[j].pc \in {"look", "balance", "disable", "move"} => Reclaiming(j)
  /\ join[j].pc = "pick" => Used # Numbers
  /\ join[j].pc \in {"open", "write", "enable", "reply"} => Created(j)

(* A unit that is anything but off has a directory, and while its script    *)
(* runs the directory is that of the tenant it started for.                 *)
UnitOK(n) ==
  /\ run[n] # "off" \/ n \in enabled => dir[n] # NoOne
  /\ run[n] \in Active => who[n] = dir[n]

(* An enable under way has a number. *)
OwnerOK == \A o \in Owners : owner[o] # NoOwner => owner[o].n \in Numbers

PoolInv ==
  /\ TypeOK /\ LockOK /\ Fresh /\ OwnerOK
  /\ \A j \in Joins : JoinOK(j)
  /\ \A n \in Numbers : UnitOK(n)

(* Where the bond is: a script that has read of one was started for a       *)
(* tenant who has one, and from the first write on slot.json names it.      *)
BondOK(n) ==
  /\ run[n] \in Saving => who[n] \in bonded
  /\ run[n] \in {"bondSaved", "feeOpen", "produce"} => who[n] \in bond

(* Who sent a carrier has its change or is known to be bonded; who was      *)
(* moved away has neither and can get neither.                              *)
Holdings ==
  /\ pending \cup bonded \subseteq coins \cup bond
  /\ archived \cap (young \cup coins \cup bond) = {}

(* The same for who is about to be moved away.                              *)
Spared(j) ==
  /\ join[j].pc = "balance" =>
       (dir[Least(join[j].todo)] \in bond => dir[Least(join[j].todo)] \in coins)
  /\ join[j].pc \in {"look", "balance", "disable", "move"} =>
       \A n \in join[j].free : dir[n] \notin coins \cup bond

(* A gateway, and an enable under way, are for a bond slot.json names.      *)
Lane ==
  /\ \A n \in Numbers :
       gateway[n] # NoOne => gateway[n] = dir[n] /\ gateway[n] \in bonded \cap bond
  /\ \A o \in Owners :
       owner[o] # NoOwner => owner[o].t = dir[owner[o].n] /\ owner[o].t \in bonded \cap bond

HeldInv ==
  /\ Holdings /\ Lane
  /\ \A n \in Numbers : BondOK(n)
  /\ \A j \in Joins : Spared(j)
-----------------------------------------------------------------------------
(* Data. *)

(* A set of numbers that is not empty has a least one. *)
LEMMA LeastIsLeast ==
  ASSUME NEW S \in SUBSET Numbers, S # {}
  PROVE  Least(S) \in S /\ \A m \in S : Least(S) <= m
<1>1. S \subseteq Nat
  BY PoolAssumption DEF Numbers
<1>2. PICK n \in S : \A m \in S : ~(<<m, n>> \in OpToRel(<, Nat))
  BY <1>1, NatLessThanWellFounded, WFMin
<1>3. \A m \in S : ~(m < n)
  BY <1>1, <1>2 DEF OpToRel
<1>4. \E k \in S : \A m \in S : k <= m
  BY <1>1, <1>3
<1>5. QED
  BY <1>4 DEF Least

(* What the frame of a join holds. *)
Frame == [pc: {"idle", "wait", "reply"} \cup Inside, todo: SUBSET Numbers,
          occupied: 0..MaxSlots, free: SUBSET Numbers, n: 0..MaxSlots]

(* A step of a join changes its frame and no other. *)
LEMMA OneFrame ==
  ASSUME TypeOK, NEW j \in Joins, NEW g \in Frame, join' = [join EXCEPT ![j] = g]
  PROVE  /\ join' \in [Joins -> Frame]
         /\ join'[j] = g
         /\ \A k \in Joins : k # j => join'[k] = join[k]
BY DEF TypeOK, Frame

(* A tenant has a number, and there is no tenant 0. *)
LEMMA TenantsAreNumbers ==
  Tenants \subseteq Nat /\ NoOne \notin Tenants /\ NoOne \in Nat /\ Numbers \subseteq Nat
BY PoolAssumption DEF Tenants, NoOne, Numbers
-----------------------------------------------------------------------------
(* What a step may do to the other joins. *)

(* Nothing that a join has found out changes unless a directory, a unit or  *)
(* its own frame does.                                                      *)
LEMMA SameFrame ==
  ASSUME NEW k \in Joins, JoinOK(k), join'[k] = join[k], UNCHANGED <<dir, young, enabled, run>>
  PROVE  JoinOK(k)'
BY DEF JoinOK, Looking, Reclaiming, Created, Used

(* A join outside the flock keeps what it created. *)
LEMMA OutsideKept ==
  ASSUME NEW k \in Joins, JoinOK(k), join'[k] = join[k], join[k].pc \notin Inside,
         \A n \in Numbers : dir[n] \in young => dir'[n] \in young'
  PROVE  JoinOK(k)'
BY DEF JoinOK, Created, Inside

(* When one is inside, the others are not. *)
LEMMA OneInside ==
  ASSUME LockOK, NEW j \in Joins, NEW k \in Joins, k # j, join[j].pc \in Inside
  PROVE  join[k].pc \notin Inside
BY DEF LockOK

(* A step of units, owners, the chain or the clock. *)
LEMMA QuietStep ==
  ASSUME PoolInv, TypeOK', OwnerOK', \A n \in Numbers : UnitOK(n)',
         UNCHANGED <<dir, archived, joined, young, lock, join>>,
         enabled' \subseteq enabled, \A n \in Numbers : run[n] = "off" => run'[n] = "off"
  PROVE  PoolInv'
<1>1. TypeOK /\ LockOK /\ Fresh /\ \A j \in Joins : JoinOK(j)
  BY DEF PoolInv
<1>2. LockOK' /\ Fresh'
  BY <1>1 DEF LockOK, Fresh
<1>3. ASSUME NEW j \in Joins
      PROVE  JoinOK(j)'
  <2>1. JoinOK(j) /\ join[j].free \subseteq Numbers
    BY <1>1 DEF TypeOK
  <2>2. CASE join[j].pc = "move"
    <3>1. Least(join[j].free) \in Numbers
      BY <2>1, <2>2, LeastIsLeast DEF JoinOK, Reclaiming
    <3>2. QED
      BY <2>1, <2>2, <3>1 DEF JoinOK, Looking, Reclaiming, Created, Used
  <2>3. CASE join[j].pc # "move"
    BY <2>1, <2>3 DEF JoinOK, Looking, Reclaiming, Created, Used
  <2>4. QED
    BY <2>2, <2>3
<1>4. QED
  BY <1>2, <1>3 DEF PoolInv
-----------------------------------------------------------------------------
(* The steps of a join that change only frames. *)

(* A join that moves on and touches no one else's state keeps the invariant. *)
LEMMA FrameStep ==
  ASSUME PoolInv, NEW j \in Joins, NEW g \in Frame,
         join' = [join EXCEPT ![j] = g],
         UNCHANGED <<dir, archived, joined, bond, fee, young, logged, coins, pending, bonded,
                     enabled, run, who, gateway, owner>>,
         json' \in [Tenants -> {"absent", "torn", "whole"}], told' \subseteq Tenants, cool' \in BOOLEAN,
         left' \in [{"end", "kill", "stop", "reboot"} -> Nat],
         \/ lock' = lock /\ (g.pc \in Inside => join[j].pc \in Inside)
         \/ lock' = lock \ {j} /\ g.pc \notin Inside
         \/ lock = {} /\ lock' = {j},
         JoinOK(j)'
  PROVE  PoolInv'
<1>1. TypeOK /\ LockOK /\ Fresh /\ OwnerOK /\ (\A k \in Joins : JoinOK(k))
      /\ \A n \in Numbers : UnitOK(n)
  BY DEF PoolInv
<1>2. /\ join' \in [Joins -> Frame] /\ join'[j] = g
      /\ \A k \in Joins : k # j => join'[k] = join[k]
  BY <1>1, OneFrame
<1>3. TypeOK'
  BY <1>1, <1>2 DEF TypeOK, Frame
<1>4. LockOK'
  BY <1>1, <1>2 DEF LockOK
<1>5. Fresh' /\ OwnerOK' /\ \A n \in Numbers : UnitOK(n)'
  BY <1>1 DEF Fresh, OwnerOK, UnitOK
<1>6. \A k \in Joins : JoinOK(k)'
  BY <1>1, <1>2, SameFrame
<1>7. QED
  BY <1>3, <1>4, <1>5, <1>6 DEF PoolInv

(* A number is counted as occupied: those before it are as many at most. *)
LEMMA CountOccupied ==
  ASSUME TypeOK, NEW j \in Joins, Looking(j), Reclaiming(j), join[j].pc \in {"look", "balance"},
         join[j].todo # {}, Occupied(j), UNCHANGED <<dir, young>>
  PROVE  /\ JoinOK(j)'
         /\ \E g \in Frame : join' = [join EXCEPT ![j] = g] /\ g.pc = "look"
<1> DEFINE l == Least(join[j].todo)
           g == [[[join[j] EXCEPT !.pc = "look"] EXCEPT !.occupied = join[j].occupied + 1]
                   EXCEPT !.todo = join[j].todo \ {l}]
<1>1. join[j] \in Frame /\ join \in [Joins -> Frame]
  BY DEF TypeOK, Frame
<1>2. join' = [join EXCEPT ![j] = g]
  BY <1>1 DEF Occupied
<1>3. l \in join[j].todo /\ l \in Numbers /\ \A m \in join[j].todo : l <= m
  BY <1>1, LeastIsLeast DEF Frame
<1> HIDE DEF l
<1>4. /\ g.pc = "look" /\ g.occupied = join[j].occupied + 1 /\ g.todo = join[j].todo \ {l}
      /\ g.free = join[j].free /\ g.n = join[j].n
  BY <1>1 DEF Frame
<1>5. join[j].occupied \in Nat /\ join[j].occupied < l
  BY <1>1, <1>3 DEF Looking, Frame
<1>6. g \in Frame
  <2>1. join[j].occupied + 1 \in 0..MaxSlots
    BY <1>3, <1>5, PoolAssumption DEF Numbers
  <2>2. [join[j] EXCEPT !.pc = "look"] \in Frame
    BY <1>1 DEF Frame, Inside
  <2>3. [[join[j] EXCEPT !.pc = "look"] EXCEPT !.occupied = join[j].occupied + 1] \in Frame
    BY <2>1, <2>2 DEF Frame
  <2>4. join[j].todo \ {l} \in SUBSET Numbers
    BY <1>1 DEF Frame
  <2>5. QED
    BY <2>3, <2>4 DEF Frame
<1> HIDE DEF g
<1>7. join'[j] = g
  BY <1>1, <1>2
<1>8. Reclaiming(j)'
  BY <1>4, <1>7 DEF Reclaiming
<1>9. \A n \in g.todo : dir[n] # NoOne /\ g.occupied < n
  <2> TAKE n \in g.todo
  <2>1. n \in join[j].todo /\ n # l /\ n \in Numbers
    BY <1>1, <1>4 DEF Frame
  <2>2. QED
    BY <1>3, <1>4, <1>5, <2>1 DEF Looking, Numbers
<1>10. ASSUME g.free = {}, Used = Numbers, NEW n \in Numbers, g.occupied < n
       PROVE  n \in g.todo
  <2>1. n \in join[j].todo
    BY <1>4, <1>5, <1>10 DEF Looking, Numbers
  <2>2. join[j].occupied + 1 \in join[j].todo
    BY <1>4, <1>5, <1>10, PoolAssumption DEF Looking, Numbers
  <2>3. l < n
    BY <1>3, <1>4, <1>5, <1>10, <2>2 DEF Numbers
  <2>4. QED
    BY <1>3, <1>4, <2>1, <2>3 DEF Numbers
<1>11. Looking(j)'
  BY <1>7, <1>9, <1>10 DEF Looking, Used
<1>12. JoinOK(j)'
  BY <1>4, <1>7, <1>8, <1>11 DEF JoinOK
<1>13. QED
  BY <1>2, <1>4, <1>6, <1>12

(* A number is free. *)
LEMMA CountFree ==
  ASSUME TypeOK, NEW j \in Joins, JoinOK(j), join[j].pc = "balance", Free(j),
         UNCHANGED <<dir, young>>
  PROVE  /\ JoinOK(j)'
         /\ \E g \in Frame : join' = [join EXCEPT ![j] = g] /\ g.pc = "look"
<1> DEFINE l == Least(join[j].todo)
           g == [[[join[j] EXCEPT !.pc = "look"] EXCEPT !.free = join[j].free \cup {l}]
                   EXCEPT !.todo = join[j].todo \ {l}]
<1>1. join[j] \in Frame /\ join \in [Joins -> Frame]
  BY DEF TypeOK, Frame
<1>2. join' = [join EXCEPT ![j] = g]
  BY <1>1 DEF Free
<1>3. /\ Looking(j) /\ Reclaiming(j) /\ join[j].todo # {} /\ dir[l] \notin young
  BY DEF JoinOK
<1>4. l \in join[j].todo /\ l \in Numbers
  BY <1>1, <1>3, LeastIsLeast DEF Frame
<1> HIDE DEF l
<1>5. /\ g.pc = "look" /\ g.free = join[j].free \cup {l} /\ g.todo = join[j].todo \ {l}
      /\ g.occupied = join[j].occupied /\ g.n = join[j].n
  BY <1>1 DEF Frame
<1>6. g \in Frame
  BY <1>1, <1>4 DEF Frame, Inside
<1> HIDE DEF g
<1>7. join'[j] = g
  BY <1>1, <1>2
<1>8. Reclaiming(j)'
  BY <1>3, <1>4, <1>5, <1>7 DEF Reclaiming, Looking
<1>9. Looking(j)'
  BY <1>3, <1>5, <1>7 DEF Looking
<1>10. JoinOK(j)'
  BY <1>5, <1>7, <1>8, <1>9 DEF JoinOK
<1>11. QED
  BY <1>2, <1>5, <1>6, <1>10

(* Asking, taking the flock, and going through the numbers. *)
LEMMA LookStep ==
  ASSUME PoolInv, NEW j \in Joins,
         Ask(j) \/ Lock(j) \/ Look(j) \/ Balance(j) \/ Refuse(j) \/ Accept(j)
  PROVE  PoolInv'
<1> USE DEF placeVars, fileVars, chainVars, unitVars
<1>1. TypeOK /\ LockOK /\ JoinOK(j)
  BY DEF PoolInv
<1>2. join[j] \in Frame /\ join \in [Joins -> Frame]
  BY <1>1 DEF TypeOK, Frame
<1>3. CASE Ask(j)
  <2> DEFINE g == [join[j] EXCEPT !.pc = "wait"]
  <2>1. join[j].pc = "idle" /\ join' = [join EXCEPT ![j] = g]
    BY <1>2, <1>3 DEF Ask, Goto
  <2>2. g \in Frame /\ g.pc = "wait" /\ g.occupied = join[j].occupied /\ g.free = join[j].free
    BY <1>2 DEF Frame
  <2> HIDE DEF g
  <2>3. JoinOK(j)'
    BY <1>1, <1>2, <2>1, <2>2 DEF JoinOK, Inside
  <2>4. QED
    BY <1>1, <1>3, <2>1, <2>2, <2>3, FrameStep DEF Ask, TypeOK, Inside
<1>4. CASE Lock(j)
  <2> DEFINE g == [[join[j] EXCEPT !.pc = "look"] EXCEPT !.todo = Used]
  <2>1. join[j].pc = "wait" /\ join' = [join EXCEPT ![j] = g]
    BY <1>2, <1>4 DEF Lock
  <2>2. /\ g \in Frame /\ g.pc = "look" /\ g.todo = Used
        /\ g.occupied = join[j].occupied /\ g.free = join[j].free
    BY <1>2 DEF Frame, Used, Inside
  <2>3. dir' = dir
    BY <1>4 DEF Lock
  <2> HIDE DEF g
  <2>4. JoinOK(j)'
    <3>1. join'[j] = g /\ join[j].occupied = 0 /\ join[j].free = {}
      BY <1>1, <1>2, <2>1 DEF JoinOK
    <3>2. Looking(j)'
      <4>1. Used = {n \in Numbers : dir[n] # NoOne} /\ Used' = Used
        BY <2>3 DEF Used
      <4>2. \A n \in g.todo : dir'[n] # NoOne /\ 0 < n
        BY <2>2, <2>3, <4>1, TenantsAreNumbers DEF Numbers
      <4>3. Used' = Numbers => g.todo = Numbers
        BY <2>2, <4>1
      <4>4. QED
        BY <2>2, <3>1, <4>2, <4>3 DEF Looking
    <3>3. Reclaiming(j)'
      <4>1. join'[j].free = {} /\ join'[j].pc = "look"
        BY <2>2, <3>1
      <4>2. QED
        BY <4>1 DEF Reclaiming
    <3>4. QED
      BY <2>2, <3>1, <3>2, <3>3 DEF JoinOK
  <2>5. lock = {} /\ lock' = {j}
    BY <1>4 DEF Lock
  <2>6. /\ UNCHANGED <<dir, archived, joined, bond, fee, young, logged, coins, pending, bonded,
                       enabled, run, who, gateway, owner>>
        /\ json' \in [Tenants -> {"absent", "torn", "whole"}] /\ told' \subseteq Tenants /\ cool' \in BOOLEAN
        /\ left' \in [{"end", "kill", "stop", "reboot"} -> Nat]
    BY <1>1, <1>4 DEF Lock, TypeOK
  <2>7. QED
    BY <2>1, <2>2, <2>4, <2>5, <2>6, FrameStep
<1>5. CASE Look(j)
  <2>1. /\ join[j].pc = "look" /\ join[j].todo # {} /\ dir' = dir /\ young' = young
        /\ \/ Occupied(j)
           \/ Goto(j, "balance") /\ dir[Least(join[j].todo)] \notin young
    BY <1>5 DEF Look
  <2>2. Looking(j) /\ Reclaiming(j)
    BY <1>1, <2>1 DEF JoinOK
  <2>3. CASE Occupied(j)
    <3>1. PICK g \in Frame : join' = [join EXCEPT ![j] = g] /\ g.pc = "look"
      BY <1>1, <2>1, <2>2, <2>3, CountOccupied
    <3>2. JoinOK(j)'
      BY <1>1, <2>1, <2>2, <2>3, CountOccupied
    <3>3. QED
      BY <1>1, <1>5, <2>1, <3>1, <3>2, FrameStep DEF Look, TypeOK, Inside
  <2>4. CASE Goto(j, "balance") /\ dir[Least(join[j].todo)] \notin young
    <3> DEFINE g == [join[j] EXCEPT !.pc = "balance"]
    <3>1. join' = [join EXCEPT ![j] = g]
      BY <1>2, <2>4 DEF Goto
    <3>2. /\ g \in Frame /\ g.pc = "balance" /\ g.todo = join[j].todo
          /\ g.occupied = join[j].occupied /\ g.free = join[j].free
      BY <1>2 DEF Frame, Inside
    <3> HIDE DEF g
    <3>3. join'[j] = g
      BY <1>2, <3>1
    <3>4. JoinOK(j)'
      BY <2>1, <2>2, <2>4, <3>2, <3>3 DEF JoinOK, Looking, Reclaiming, Used
    <3>5. QED
      BY <1>1, <1>5, <2>1, <3>1, <3>2, <3>4, FrameStep DEF Look, TypeOK, Inside
  <2>5. QED
    BY <2>1, <2>3, <2>4
<1>6. CASE Balance(j)
  <2>1. /\ join[j].pc = "balance" /\ dir' = dir /\ young' = young
        /\ Occupied(j) \/ Free(j)
    BY <1>6 DEF Balance
  <2>2. Looking(j) /\ Reclaiming(j) /\ join[j].todo # {}
    BY <1>1, <2>1 DEF JoinOK
  <2>3. /\ JoinOK(j)'
        /\ \E g \in Frame : join' = [join EXCEPT ![j] = g] /\ g.pc = "look"
    BY <1>1, <2>1, <2>2, CountOccupied, CountFree
  <2>4. QED
    BY <1>1, <1>6, <2>1, <2>3, FrameStep DEF Balance, TypeOK, Inside
<1>7. CASE Refuse(j)
  <2>1. /\ join' = [join EXCEPT ![j] = Idle] /\ lock' = lock \ {j}
    BY <1>7 DEF Refuse, Leave
  <2>2. Idle \in Frame /\ Idle.pc = "idle" /\ Idle.occupied = 0 /\ Idle.free = {}
    BY PoolAssumption DEF Idle, Frame
  <2>3. JoinOK(j)'
    BY <1>2, <2>1, <2>2 DEF JoinOK
  <2>4. QED
    BY <1>1, <1>7, <2>1, <2>2, <2>3, FrameStep DEF Refuse, TypeOK, Inside
<1>8. CASE Accept(j)
  <2> DEFINE g == [join[j] EXCEPT !.pc = IF join[j].free = {} THEN "pick" ELSE "disable"]
  <2>1. /\ join[j].pc = "look" /\ join[j].todo = {} /\ join[j].occupied < MaxSlots
        /\ join' = [join EXCEPT ![j] = g]
    BY <1>2, <1>8 DEF Accept, Goto
  <2>2. /\ g \in Frame /\ g.free = join[j].free
        /\ g.pc = IF join[j].free = {} THEN "pick" ELSE "disable"
    BY <1>2 DEF Frame, Inside
  <2> HIDE DEF g
  <2>3. join'[j] = g /\ dir' = dir /\ young' = young
    BY <1>2, <1>8, <2>1 DEF Accept
  <2>4. Looking(j) /\ Reclaiming(j)
    BY <1>1, <2>1 DEF JoinOK
  <2>5. join[j].free = {} => Used # Numbers
    BY <2>1, <2>4, PoolAssumption DEF Looking, Numbers
  <2>6. JoinOK(j)'
    BY <2>2, <2>3, <2>4, <2>5 DEF JoinOK, Reclaiming, Used
  <2>7. QED
    BY <1>1, <1>8, <2>1, <2>2, <2>6, FrameStep DEF Accept, TypeOK, Inside
<1>9. QED
  BY <1>3, <1>4, <1>5, <1>6, <1>7, <1>8
-----------------------------------------------------------------------------
(* The steps of the join inside the flock that change directories and units. *)

(* The join that holds the lock may change the slots, as long as each is in  *)
(* order after.                                                              *)
LEMMA HolderStep ==
  ASSUME PoolInv, NEW j \in Joins, join[j].pc \in Inside,
         NEW g \in Frame, join' = [join EXCEPT ![j] = g],
         TypeOK', Fresh', \A n \in Numbers : UnitOK(n)', JoinOK(j)',
         \A n \in Numbers : dir[n] \in young => dir'[n] \in young',
         lock' = lock \/ (lock' = lock \ {j} /\ g.pc \notin Inside),
         owner' = owner
  PROVE  PoolInv'
<1>1. TypeOK /\ LockOK /\ OwnerOK /\ \A k \in Joins : JoinOK(k)
  BY DEF PoolInv
<1>2. /\ join' \in [Joins -> Frame] /\ join'[j] = g
      /\ \A k \in Joins : k # j => join'[k] = join[k]
  BY <1>1, OneFrame
<1>3. LockOK'
  BY <1>1, <1>2 DEF LockOK
<1>4. OwnerOK'
  BY <1>1 DEF OwnerOK
<1>5. \A k \in Joins : JoinOK(k)'
  BY <1>1, <1>2, OneInside, OutsideKept
<1>6. QED
  BY <1>3, <1>4, <1>5 DEF PoolInv

(* reclaim. *)
LEMMA ReclaimStep ==
  ASSUME PoolInv, NEW j \in Joins, Disable(j) \/ Move(j)
  PROVE  PoolInv'
<1> USE DEF placeVars, fileVars, chainVars, unitVars
<1>1. TypeOK /\ JoinOK(j) /\ Fresh /\ \A n \in Numbers : UnitOK(n)
  BY DEF PoolInv
<1>2. join[j] \in Frame /\ join \in [Joins -> Frame]
  BY <1>1 DEF TypeOK, Frame
<1> DEFINE l == Least(join[j].free)
<1>3. /\ join[j].pc \in {"disable", "move"} /\ join[j].pc \in Inside
      /\ Reclaiming(j) /\ join[j].free # {}
  BY <1>1 DEF Disable, Move, JoinOK, Reclaiming, Inside
<1>4. l \in join[j].free /\ l \in Numbers /\ dir[l] # NoOne /\ dir[l] \notin young
  BY <1>2, <1>3, LeastIsLeast DEF Frame, Reclaiming
<1>5. CASE Disable(j)
  <2> DEFINE g == [join[j] EXCEPT !.pc = "move"]
  <2>1. /\ join' = [join EXCEPT ![j] = g]
        /\ enabled' = enabled \ {l} /\ run' = [run EXCEPT ![l] = "off"]
        /\ gateway' = [gateway EXCEPT ![l] = NoOne]
    BY <1>2, <1>5 DEF Disable, Goto
  <2>2. g \in Frame /\ g.pc = "move" /\ g.free = join[j].free
    BY <1>2 DEF Frame, Inside
  <2> HIDE DEF l, g
  <2>3. UNCHANGED <<placeVars, fileVars, chainVars, who, lock, cool, owner, left>>
    BY <1>5 DEF Disable
  <2>4. join' \in [Joins -> Frame] /\ join'[j] = g
    BY <1>1, <2>1, <2>2, OneFrame
  <2>5. TypeOK'
    BY <1>1, <2>1, <2>3, <2>4 DEF TypeOK, Frame
  <2>6. ASSUME NEW n \in Numbers
        PROVE  UnitOK(n)'
    <3>1. UnitOK(n) /\ run'[n] \in {run[n], "off"}
      BY <1>1, <2>1 DEF TypeOK
    <3>2. QED
      BY <2>1, <2>3, <3>1 DEF UnitOK, Active, Saving
  <2>7. Least(g.free) = l
    BY <2>2 DEF l
  <2>8. run'[l] = "off" /\ l \notin enabled'
    BY <1>1, <1>4, <2>1 DEF TypeOK
  <2>9. JoinOK(j)'
    BY <1>3, <2>2, <2>3, <2>4, <2>7, <2>8 DEF JoinOK, Reclaiming
  <2>10. Fresh'
    BY <1>1, <2>3 DEF Fresh
  <2>11. QED
    BY <1>3, <2>1, <2>2, <2>3, <2>5, <2>6, <2>9, <2>10, HolderStep
<1>6. CASE Move(j)
  <2> DEFINE rest == join[j].free \ {l}
             g == [[join[j] EXCEPT !.free = rest]
                     EXCEPT !.pc = IF rest = {} THEN "pick" ELSE "disable"]
  <2>1. /\ join[j].pc = "move" /\ join' = [join EXCEPT ![j] = g]
        /\ dir' = [dir EXCEPT ![l] = NoOne] /\ archived' = archived \cup {dir[l]}
    BY <1>2, <1>6 DEF Move
  <2>2. /\ g \in Frame /\ g.free = rest
        /\ g.pc = IF rest = {} THEN "pick" ELSE "disable"
    BY <1>2 DEF Frame, Inside
  <2>3. rest \subseteq join[j].free /\ l \notin rest
    OBVIOUS
  <2>4. l \notin enabled /\ run[l] = "off"
    BY <1>3, <2>1 DEF Reclaiming
  <2> HIDE DEF l, g, rest
  <2>5. UNCHANGED <<joined, fileVars, chainVars, unitVars, lock, cool, owner, left>>
    BY <1>6 DEF Move
  <2>6. join' \in [Joins -> Frame] /\ join'[j] = g
    BY <1>1, <2>1, <2>2, OneFrame
  <2>7. dir' \in [Numbers -> Tenants \cup {NoOne}] /\ dir'[l] = NoOne
        /\ \A n \in Numbers : n # l => dir'[n] = dir[n]
    BY <1>1, <1>4, <2>1 DEF TypeOK
  <2>8. dir[l] \in Tenants
    BY <1>1, <1>4 DEF TypeOK
  <2>9. TypeOK'
    BY <1>1, <2>1, <2>5, <2>6, <2>7, <2>8 DEF TypeOK, Frame
  <2>10. ASSUME NEW n \in Numbers
         PROVE  UnitOK(n)'
    <3>1. CASE n = l
      BY <2>4, <2>5, <3>1 DEF UnitOK, Active, Saving
    <3>2. CASE n # l
      BY <1>1, <2>5, <2>7, <3>2 DEF UnitOK
    <3>3. QED
      BY <3>1, <3>2
  <2>11. Fresh'
    <3>1. joined \in Nat /\ NoOne <= joined /\ joined' = joined
      BY <1>1, <2>5, PoolAssumption DEF TypeOK, NoOne
    <3>2. QED
      BY <1>1, <1>4, <2>1, <2>7, <3>1 DEF Fresh
  <2>12. Used' # Numbers
    BY <1>4, <2>7 DEF Used
  <2>13. Reclaiming(j)' \/ g.pc = "pick"
    BY <1>2, <1>3, <2>2, <2>3, <2>5, <2>6, <2>7 DEF Reclaiming, Frame
  <2>14. JoinOK(j)'
    BY <2>2, <2>6, <2>12, <2>13 DEF JoinOK
  <2>15. \A n \in Numbers : dir[n] \in young => dir'[n] \in young'
    BY <1>4, <2>5, <2>7
  <2>16. QED
    BY <1>3, <2>1, <2>2, <2>5, <2>9, <2>10, <2>11, <2>14, <2>15, HolderStep
<1>7. QED
  BY <1>5, <1>6

(* create_slot: the directory and the unit. *)
LEMMA PickStep ==
  ASSUME PoolInv, NEW j \in Joins, Pick(j)
  PROVE  PoolInv'
<1> DEFINE l == Least(Numbers \ Used)
           g == [[join[j] EXCEPT !.n = l] EXCEPT !.pc = "open"]
<1>1. TypeOK /\ JoinOK(j) /\ Fresh /\ \A n \in Numbers : UnitOK(n)
  BY DEF PoolInv
<1>2. join[j] \in Frame /\ join \in [Joins -> Frame]
  BY <1>1 DEF TypeOK, Frame
<1>3. /\ join[j].pc = "pick" /\ join[j].pc \in Inside
      /\ Used # Numbers /\ joined < MaxTenants /\ joined' = joined + 1
      /\ dir' = [dir EXCEPT ![l] = joined'] /\ join' = [join EXCEPT ![j] = g]
      /\ young' = young \cup {joined'}
      /\ UNCHANGED <<archived, json, bond, fee, logged, chainVars, unitVars, lock, cool, owner, left>>
  BY <1>2 DEF Pick, Inside
<1>4. l \in Numbers /\ dir[l] = NoOne
  <2>1. l \in Numbers \ Used
    BY <1>3, LeastIsLeast DEF Used
  <2>2. QED
    BY <2>1 DEF Used
<1> HIDE DEF l
<1>5. g \in Frame /\ g.pc = "open" /\ g.n = l
  <2>1. l \in 0..MaxSlots
    BY <1>4 DEF Numbers
  <2>2. QED
    BY <1>2, <2>1 DEF Frame, Inside
<1> HIDE DEF g
<1>6. joined \in Nat /\ joined' \in Nat /\ joined' \in 0..MaxTenants /\ joined' \in Tenants
  BY <1>1, <1>3, PoolAssumption DEF TypeOK, Tenants
<1>7. join' \in [Joins -> Frame] /\ join'[j] = g
  BY <1>1, <1>3, <1>5, OneFrame
<1>8. /\ dir' \in [Numbers -> Tenants \cup {NoOne}] /\ dir'[l] = joined'
      /\ \A n \in Numbers : n # l => dir'[n] = dir[n]
  BY <1>1, <1>3, <1>4, <1>6 DEF TypeOK
<1>9. TypeOK'
  BY <1>1, <1>3, <1>6, <1>7, <1>8 DEF TypeOK, Frame, chainVars, unitVars
<1>10. ASSUME NEW n \in Numbers
       PROVE  UnitOK(n)'
  <2>1. CASE n = l
    BY <1>1, <1>3, <1>4, <2>1 DEF UnitOK, Active, Saving, unitVars
  <2>2. CASE n # l
    BY <1>1, <1>3, <1>8, <2>2 DEF UnitOK, unitVars
  <2>3. QED
    BY <2>1, <2>2
<1>11. Fresh'
  <2>1. ASSUME NEW n \in Numbers
        PROVE  dir'[n] <= joined'
    <3>0. dir[n] \in Tenants \cup {NoOne}
      BY <1>1 DEF TypeOK
    <3>1. dir[n] \in Nat
      BY <3>0, TenantsAreNumbers
    <3>2. dir[n] <= joined
      BY <1>1 DEF Fresh
    <3>3. QED
      BY <1>3, <1>6, <1>8, <3>1, <3>2
  <2>2. ASSUME NEW t \in archived'
        PROVE  t <= joined'
    <3>1. t \in Nat /\ t <= joined
      BY <1>1, <1>3, <2>2, TenantsAreNumbers DEF TypeOK, Fresh
    <3>2. QED
      BY <1>3, <1>6, <3>1
  <2>3. QED
    BY <2>1, <2>2 DEF Fresh
<1>12. JoinOK(j)'
  BY <1>3, <1>4, <1>5, <1>7, <1>8 DEF JoinOK, Created
<1>13. \A n \in Numbers : dir[n] \in young => dir'[n] \in young'
  BY <1>3, <1>8
<1>14. QED
  BY <1>3, <1>5, <1>9, <1>10, <1>11, <1>12, <1>13, HolderStep

(* The slot is enabled, and the join answers.                                *)
LEMMA EnableStep ==
  ASSUME PoolInv, NEW j \in Joins, Enable(j)
  PROVE  PoolInv'
<1> DEFINE n == join[j].n
           g == [join[j] EXCEPT !.pc = "reply"]
<1>1. TypeOK /\ JoinOK(j) /\ Fresh /\ \A m \in Numbers : UnitOK(m)
  BY DEF PoolInv
<1>2. join[j] \in Frame /\ join \in [Joins -> Frame]
  BY <1>1 DEF TypeOK, Frame
<1>3. /\ join[j].pc = "enable" /\ join[j].pc \in Inside
      /\ \/ enabled' = enabled \cup {n} /\ run' = [run EXCEPT ![n] = "wait"]
         \/ enabled' = enabled /\ run' = run
      /\ join' = [join EXCEPT ![j] = g] /\ lock' = lock \ {j}
      /\ UNCHANGED <<placeVars, fileVars, chainVars, who, gateway, cool, owner, left>>
  BY <1>2 DEF Enable, Goto, Inside
<1>4. Created(j) /\ n \in Numbers /\ dir[n] # NoOne
  BY <1>1, <1>3, TenantsAreNumbers DEF JoinOK, Created, TypeOK
<1>5. g \in Frame /\ g.pc = "reply" /\ g.n = join[j].n
  BY <1>2 DEF Frame
<1> HIDE DEF n, g
<1>6. join' \in [Joins -> Frame] /\ join'[j] = g
  BY <1>1, <1>3, <1>5, OneFrame
<1>7. TypeOK'
  BY <1>1, <1>3, <1>4, <1>6 DEF TypeOK, Frame, placeVars, fileVars, chainVars
<1>8. ASSUME NEW m \in Numbers
      PROVE  UnitOK(m)'
  BY <1>1, <1>3, <1>4 DEF UnitOK, Active, Saving, TypeOK, placeVars
<1>9. Fresh'
  BY <1>1, <1>3 DEF Fresh, placeVars
<1>10. JoinOK(j)'
  BY <1>3, <1>4, <1>5, <1>6 DEF JoinOK, Created, placeVars, fileVars
<1>11. \A m \in Numbers : dir[m] \in young => dir'[m] \in young'
  BY <1>3 DEF placeVars, fileVars
<1>12. QED
  BY <1>3, <1>5, <1>7, <1>8, <1>9, <1>10, <1>11, HolderStep, Zenon DEF Inside

(* slot.json, the answer, and a join that ends half-way. *)
LEMMA WriteStep ==
  ASSUME PoolInv, NEW j \in Joins, OpenState(j) \/ WriteState(j) \/ Reply(j) \/ End(j)
  PROVE  PoolInv'
<1> USE DEF placeVars, fileVars, chainVars, unitVars
<1>1. TypeOK /\ JoinOK(j)
  BY DEF PoolInv
<1>2. join[j] \in Frame /\ join \in [Joins -> Frame]
  BY <1>1 DEF TypeOK, Frame
<1>3. ASSUME NEW pc \in {"write", "enable"}, Goto(j, pc), UNCHANGED <<dir, young>>,
             join[j].pc \in {"open", "write"}
      PROVE  /\ JoinOK(j)'
             /\ \E g \in Frame : join' = [join EXCEPT ![j] = g]
  <2> DEFINE g == [join[j] EXCEPT !.pc = pc]
  <2>1. join' = [join EXCEPT ![j] = g] /\ g \in Frame /\ g.pc = pc /\ g.n = join[j].n
    BY <1>2, <1>3 DEF Goto, Frame, Inside
  <2> HIDE DEF g
  <2>2. JoinOK(j)'
    BY <1>1, <1>2, <1>3, <2>1 DEF JoinOK, Created
  <2>3. QED
    BY <2>1, <2>2
<1>4. CASE OpenState(j)
  <2>1. JoinOK(j)' /\ \E g \in Frame : join' = [join EXCEPT ![j] = g]
    BY <1>3, <1>4 DEF OpenState
  <2>2. json' \in [Tenants -> {"absent", "torn", "whole"}]
    BY <1>1, <1>4 DEF OpenState, TypeOK
  <2>3. QED
    BY <1>1, <1>4, <2>1, <2>2, FrameStep DEF OpenState, TypeOK, Inside
<1>5. CASE WriteState(j)
  <2>1. JoinOK(j)' /\ \E g \in Frame : join' = [join EXCEPT ![j] = g]
    BY <1>3, <1>5 DEF WriteState
  <2>2. json' \in [Tenants -> {"absent", "torn", "whole"}]
    BY <1>1, <1>5 DEF WriteState, TypeOK
  <2>3. QED
    BY <1>1, <1>5, <2>1, <2>2, FrameStep DEF WriteState, TypeOK, Inside
<1>6. Idle \in Frame /\ Idle.pc = "idle" /\ Idle.occupied = 0 /\ Idle.free = {}
      /\ Idle.pc \notin Inside
  BY PoolAssumption DEF Idle, Frame, Inside
<1>7. ASSUME Leave(j)
      PROVE  JoinOK(j)'
  BY <1>2, <1>6, <1>7 DEF Leave, JoinOK
<1>8. CASE Reply(j)
  <2>1. Created(j)
    BY <1>1, <1>8 DEF JoinOK, Reply
  <2>2. told' \subseteq Tenants /\ cool' \in BOOLEAN
    BY <1>1, <1>8, <2>1 DEF Reply, Created, TypeOK
  <2>3. QED
    BY <1>1, <1>6, <1>7, <1>8, <2>2, FrameStep DEF Reply, Leave, TypeOK
<1>9. CASE End(j)
  <2>1. left' \in [{"end", "kill", "stop", "reboot"} -> Nat]
    BY <1>1, <1>9 DEF End, Spend, TypeOK
  <2>2. QED
    BY <1>1, <1>6, <1>7, <1>9, <2>1, FrameStep DEF End, Leave, TypeOK
<1>10. QED
  BY <1>4, <1>5, <1>8, <1>9
-----------------------------------------------------------------------------
(* The script, the owners, the chain, the clock. *)

(* A script that goes on, or ends, where it is. *)
LEMMA RunStepKeeps ==
  ASSUME PoolInv, NEW n \in Numbers,
         RunStep(n) \/ Pay(n) \/ Scroll(n) \/ Kill(n) \/ Stop(n)
  PROVE  PoolInv'
<1> USE DEF placeVars, fileVars, chainVars, unitVars, joinVars
<1>1. TypeOK /\ OwnerOK /\ \A m \in Numbers : UnitOK(m)
  BY DEF PoolInv
<1>2. UNCHANGED <<dir, archived, joined, young, lock, join, enabled, owner, gateway, told, cool>>
  BY DEF RunStep, Start, Submit, GiveUp, Line, Truncate, WriteBond, WriteFee, Pay, Scroll, Kill, Stop
<1>3. OwnerOK'
  BY <1>1, <1>2 DEF OwnerOK
<1>4. /\ run' \in [Numbers -> {"off", "wait"} \cup Active]
      /\ \A m \in Numbers : m # n => run'[m] = run[m] /\ who'[m] = who[m]
      /\ run[n] # "off"
      /\ run'[n] \in Active => (run[n] \in Active /\ who'[n] = who[n]) \/ who'[n] = dir[n]
  <2>1. CASE Start(n) BY <1>1, <2>1 DEF Start, RunTo, TypeOK, Active, Saving, Noted
  <2>2. CASE Submit(n) \/ GiveUp(n) \/ Line(n) BY <1>1, <2>2 DEF Submit, GiveUp, Line, RunTo, TypeOK, Active, Saving, Noted
  <2>3. CASE \/ Truncate(n, "seen", "bondOpen") \/ WriteBond(n)
              \/ Truncate(n, "bondSaved", "feeOpen") \/ WriteFee(n)
    BY <1>1, <2>3 DEF Truncate, WriteBond, WriteFee, RunTo, TypeOK, Active, Saving, Noted
  <2>4. CASE Pay(n) \/ Scroll(n) BY <1>1, <2>4 DEF Pay, Scroll, RunTo, TypeOK, Active, Saving, Noted
  <2>5. CASE Kill(n) \/ Stop(n) BY <1>1, <2>5 DEF Kill, Stop, RunTo, TypeOK, Active, Saving, Noted
  <2>6. QED
    BY <2>1, <2>2, <2>3, <2>4, <2>5 DEF RunStep
<1>5. dir[n] # NoOne /\ dir[n] \in Tenants /\ who[n] \in Tenants \cup {NoOne}
  BY <1>1, <1>4 DEF UnitOK, TypeOK
<1>6. \A m \in Numbers : UnitOK(m)'
  BY <1>1, <1>2, <1>4, <1>5 DEF UnitOK
<1>7. /\ who' \in [Numbers -> Tenants \cup {NoOne}]
      /\ json' \in [Tenants -> {"absent", "torn", "whole"}]
      /\ left' \in [{"end", "kill", "stop", "reboot"} -> Nat]
  <2>1. CASE Start(n) BY <1>1, <2>1 DEF Start, TypeOK
  <2>2. CASE \/ Submit(n) \/ GiveUp(n) \/ Line(n) \/ WriteBond(n) \/ WriteFee(n)
             \/ Truncate(n, "seen", "bondOpen") \/ Truncate(n, "bondSaved", "feeOpen")
    BY <1>1, <2>2 DEF Submit, GiveUp, Line, WriteBond, WriteFee, Truncate, TypeOK
  <2>3. CASE Pay(n) \/ Scroll(n) BY <1>1, <2>3 DEF Pay, Scroll, TypeOK
  <2>4. CASE Kill(n) \/ Stop(n) BY <1>1, <2>4 DEF Kill, Stop, Spend, TypeOK
  <2>5. QED
    BY <2>1, <2>2, <2>3, <2>4 DEF RunStep
<1>8. /\ bond' \subseteq Tenants /\ fee' \subseteq Tenants /\ logged' \subseteq Tenants
      /\ coins' \subseteq Tenants /\ pending' \subseteq Tenants /\ bonded' \subseteq Tenants
  BY <1>1, <1>5
  DEF RunStep, Start, Submit, GiveUp, Line, Truncate, WriteBond, WriteFee, Pay, Scroll, Kill, Stop,
      TypeOK
<1>9. TypeOK'
  BY <1>1, <1>2, <1>4, <1>7, <1>8 DEF TypeOK
<1>10. \A m \in Numbers : run[m] = "off" => run'[m] = "off"
  BY <1>4
<1>11. QED
  BY <1>2, <1>3, <1>6, <1>9, <1>10, QuietStep

(* The free-prompt lane, the chain, the cooldown. *)
LEMMA OwnerStep ==
  ASSUME PoolInv,
         \/ \E o \in Owners : FpEnable(o) \/ \E n \in Numbers : FpAsk(o, n)
         \/ \E t \in Tenants : Fund(t) \/ Mine(t) \/ Evict(t)
         \/ CoolOff
  PROVE  PoolInv'
<1> USE DEF placeVars, fileVars, chainVars, unitVars, joinVars
<1>1. TypeOK /\ OwnerOK /\ \A m \in Numbers : UnitOK(m)
  BY DEF PoolInv
<1>2. UNCHANGED <<dir, archived, joined, json, bond, fee, young, logged, told, enabled, run, who,
                  lock, join, left>>
  BY DEF FpEnable, FpAsk, Fund, Mine, Evict, CoolOff
<1>3. \A m \in Numbers : UnitOK(m)'
  BY <1>1, <1>2 DEF UnitOK
<1>4. coins' \subseteq Tenants /\ pending' \subseteq Tenants /\ bonded' \subseteq Tenants
      /\ cool' \in BOOLEAN
  BY <1>1 DEF FpEnable, FpAsk, Fund, Mine, Evict, CoolOff, TypeOK
<1>5. /\ OwnerOK'
      /\ owner' \in [Owners -> [n: 0..MaxSlots, t: Tenants \cup {NoOne}]]
      /\ gateway' \in [Numbers -> Tenants \cup {NoOne}]
  <2>1. NoOwner \in [n: 0..MaxSlots, t: Tenants \cup {NoOne}]
    BY PoolAssumption DEF NoOwner
  <2>2. CASE \E o \in Owners : FpEnable(o)
    <3>1. PICK o \in Owners : FpEnable(o)
      BY <2>2
    <3>2. /\ owner[o] \in [n: 0..MaxSlots, t: Tenants \cup {NoOne}]
          /\ owner' = [owner EXCEPT ![o] = NoOwner]
          /\ gateway' = [gateway EXCEPT ![owner[o].n] = owner[o].t]
      BY <1>1, <3>1 DEF FpEnable, TypeOK
    <3>3. owner[o].t \in Tenants \cup {NoOne}
      BY <3>2
    <3>4. QED
      BY <1>1, <2>1, <3>2, <3>3 DEF OwnerOK, TypeOK
  <2>3. CASE \E o \in Owners : \E n \in Numbers : FpAsk(o, n)
    <3>1. PICK o \in Owners, n \in Numbers : FpAsk(o, n)
      BY <2>3
    <3>2. [n |-> n, t |-> dir[n]] \in [n: 0..MaxSlots, t: Tenants \cup {NoOne}]
      BY <1>1 DEF TypeOK, Numbers
    <3>3. /\ owner' = [owner EXCEPT ![o] = [n |-> n, t |-> dir[n]]]
          /\ gateway' = gateway
      BY <3>1 DEF FpAsk
    <3>4. QED
      BY <1>1, <3>2, <3>3 DEF OwnerOK, TypeOK
  <2>4. CASE (\E t \in Tenants : Fund(t) \/ Mine(t) \/ Evict(t)) \/ CoolOff
    BY <1>1, <2>4 DEF Fund, Mine, Evict, CoolOff, OwnerOK, TypeOK
  <2>5. QED
    BY <2>2, <2>3, <2>4
<1>6. TypeOK'
  BY <1>1, <1>2, <1>4, <1>5 DEF TypeOK
<1>7. QED
  BY <1>2, <1>3, <1>5, <1>6, QuietStep

(* A day passes; the host reboots. *)
LEMMA ClockStep ==
  ASSUME PoolInv, (\E t \in Tenants : Age(t)) \/ Reboot
  PROVE  PoolInv'
<1> USE DEF placeVars, fileVars, chainVars, unitVars, joinVars
<1>1. /\ TypeOK /\ LockOK /\ Fresh /\ OwnerOK
      /\ \A j \in Joins : JoinOK(j)
      /\ \A m \in Numbers : UnitOK(m)
  BY DEF PoolInv
<1>2. CASE \E t \in Tenants : Age(t)
  <2>1. /\ NobodyInside /\ young' \subseteq young
        /\ UNCHANGED <<dir, archived, joined, json, bond, fee, logged, chainVars, unitVars, joinVars,
                       owner, left>>
    BY <1>2 DEF Age
  <2>2. TypeOK' /\ LockOK' /\ Fresh' /\ OwnerOK'
    BY <1>1, <2>1 DEF TypeOK, LockOK, Fresh, OwnerOK
  <2>3. \A j \in Joins : JoinOK(j)'
    BY <1>1, <2>1 DEF NobodyInside, JoinOK
  <2>4. \A m \in Numbers : UnitOK(m)'
    BY <1>1, <2>1 DEF UnitOK
  <2>5. QED
    BY <2>2, <2>3, <2>4 DEF PoolInv
<1>3. CASE Reboot
  <2>1. /\ run' = [n \in Numbers |-> IF n \in enabled THEN "wait" ELSE "off"]
        /\ lock' = {} /\ join' = [j \in Joins |-> Idle] /\ cool' = FALSE
        /\ owner' = [o \in Owners |-> NoOwner]
        /\ UNCHANGED <<placeVars, fileVars, chainVars, enabled, who, gateway>>
    BY <1>3 DEF Reboot
  <2>2. Idle \in Frame /\ Idle.pc = "idle" /\ Idle.occupied = 0 /\ Idle.free = {}
    BY PoolAssumption DEF Idle, Frame
  <2>3. left' \in [{"end", "kill", "stop", "reboot"} -> Nat]
    BY <1>1, <1>3 DEF Reboot, Spend, TypeOK
  <2>4. join' \in [Joins -> Frame]
    BY <2>1, <2>2
  <2>5. owner' \in [Owners -> [n: 0..MaxSlots, t: Tenants \cup {NoOne}]]
    BY <2>1, PoolAssumption DEF NoOwner
  <2>6. run' \in [Numbers -> {"off", "wait"} \cup Active]
    BY <2>1
  <2>7. TypeOK'
    BY <1>1, <2>1, <2>3, <2>4, <2>5, <2>6 DEF TypeOK, Frame
  <2>8. LockOK' /\ Fresh' /\ OwnerOK'
    BY <1>1, <2>1, <2>2 DEF LockOK, Fresh, OwnerOK, Inside
  <2>9. \A j \in Joins : JoinOK(j)'
    BY <2>1, <2>2 DEF JoinOK
  <2>10. \A m \in Numbers : UnitOK(m)'
    BY <1>1, <2>1 DEF UnitOK, Active, Saving
  <2>11. QED
    BY <2>7, <2>8, <2>9, <2>10 DEF PoolInv
<1>4. QED
  BY <1>2, <1>3
-----------------------------------------------------------------------------
(* An empty pool. *)
LEMMA PoolAtFirst == Init => PoolInv
<1> SUFFICES ASSUME Init
             PROVE  PoolInv
  OBVIOUS
<1>1. Idle \in Frame /\ Idle.pc = "idle" /\ Idle.occupied = 0 /\ Idle.free = {}
  BY PoolAssumption DEF Idle, Frame
<1>2. NoOwner \in [n: 0..MaxSlots, t: Tenants \cup {NoOne}]
  BY PoolAssumption DEF NoOwner
<1>3. left \in [{"end", "kill", "stop", "reboot"} -> Nat]
  BY PoolAssumption DEF Init
<1>4. TypeOK
  <2>1. /\ join \in [Joins -> Frame]
        /\ owner \in [Owners -> [n: 0..MaxSlots, t: Tenants \cup {NoOne}]]
    BY <1>1, <1>2 DEF Init
  <2>2. /\ dir \in [Numbers -> Tenants \cup {NoOne}]
        /\ who \in [Numbers -> Tenants \cup {NoOne}]
        /\ gateway \in [Numbers -> Tenants \cup {NoOne}]
        /\ run \in [Numbers -> {"off", "wait"} \cup Active]
        /\ json \in [Tenants -> {"absent", "torn", "whole"}]
    BY DEF Init
  <2>3. joined \in 0..MaxTenants
    BY PoolAssumption DEF Init
  <2>4. /\ archived = {} /\ bond = {} /\ fee = {} /\ young = {} /\ logged = {} /\ told = {}
        /\ coins = {} /\ pending = {} /\ bonded = {} /\ enabled = {} /\ lock = {} /\ cool = FALSE
    BY DEF Init
  <2>5. QED
    BY <1>3, <2>1, <2>2, <2>3, <2>4 DEF TypeOK, Frame
<1>5. LockOK /\ OwnerOK
  BY <1>1 DEF Init, LockOK, OwnerOK, Inside
<1>6. Fresh
  BY DEF Init, Fresh, NoOne
<1>7. \A j \in Joins : JoinOK(j)
  BY <1>1 DEF Init, JoinOK
<1>8. \A n \in Numbers : UnitOK(n)
  BY DEF Init, UnitOK, Active, Saving
<1>9. QED
  BY <1>4, <1>5, <1>6, <1>7, <1>8 DEF PoolInv

(* The invariant of the pool is inductive. *)
THEOREM PoolInductive == PoolInv /\ [Next]_vars => PoolInv'
<1> SUFFICES ASSUME PoolInv, [Next]_vars
             PROVE  PoolInv'
  OBVIOUS
<1>1. CASE \E j \in Joins : JoinStep(j)
  BY <1>1, LookStep, ReclaimStep, PickStep, EnableStep, WriteStep DEF JoinStep
<1>2. CASE \E n \in Numbers : RunStep(n) \/ Pay(n) \/ Scroll(n) \/ Kill(n) \/ Stop(n)
  BY <1>2, RunStepKeeps
<1>3. CASE \/ \E o \in Owners : FpEnable(o) \/ \E n \in Numbers : FpAsk(o, n)
           \/ \E t \in Tenants : Fund(t) \/ Mine(t) \/ Evict(t)
           \/ CoolOff
  BY <1>3, OwnerStep
<1>4. CASE (\E t \in Tenants : Age(t)) \/ Reboot
  BY <1>4, ClockStep
<1>5. CASE UNCHANGED vars
  BY <1>5
  DEF vars, placeVars, fileVars, chainVars, unitVars, joinVars, PoolInv, TypeOK, LockOK, Fresh,
      OwnerOK, JoinOK, Looking, Reclaiming, Created, Used, UnitOK
<1>6. QED
  BY <1>1, <1>2, <1>3, <1>4, <1>5 DEF Next

(* Hence it always holds. *)
LEMMA PoolAlways == Spec => []PoolInv
BY PoolAtFirst, PoolInductive, PTL DEF Spec

(* Types hold (slot.json, the units and what a join remembers). *)
THEOREM PoolTypes == Spec => []TypeOK
<1>1. PoolInv => TypeOK
  BY DEF PoolInv
<1>2. QED
  BY PoolAlways, <1>1, PTL

(* An accepted join finds a number, whoever joins beside it and wherever    *)
(* earlier joins ended (pool.py capacity_refusal and create_slot).          *)
THEOREM PlaceFound == Spec => []APlaceIsFound
<1>1. PoolInv => APlaceIsFound
  BY DEF PoolInv, JoinOK, APlaceIsFound
<1>2. QED
  BY PoolAlways, <1>1, PTL

(* No unit runs, or would start at a reboot, in the directory of another    *)
(* tenant than its own (pool.py reclaim, run-slot.sh).                      *)
THEOREM UnitsAtHome == Spec => []RunnerOwnsDirectory
<1>1. PoolInv => RunnerOwnsDirectory
  BY DEF PoolInv, UnitOK, RunnerOwnsDirectory
<1>2. QED
  BY PoolAlways, <1>1, PTL
-----------------------------------------------------------------------------
(* Nothing held is moved away: the steps of a join. *)

(* Steps that leave directories, files, the chain and the units as they are. *)
LEMMA SparedStep ==
  ASSUME PoolInv, HeldInv, NEW j \in Joins, \A k \in Joins : k # j => join'[k] = join[k],
         Spared(j)',
         UNCHANGED <<dir, archived, bond, young, coins, pending, bonded, run, who, gateway, owner>>
  PROVE  HeldInv'
<1>1. Holdings' /\ Lane' /\ \A n \in Numbers : BondOK(n)'
  BY DEF HeldInv, Holdings, Lane, BondOK
<1>2. \A k \in Joins : Spared(k)'
  BY DEF HeldInv, Spared
<1>3. QED
  BY <1>1, <1>2 DEF HeldInv

(* A join looks and counts: only what holds nothing is put on its list.     *)
LEMMA HeldWhileLooking ==
  ASSUME PoolInv, HeldInv, NEW j \in Joins,
         \/ Ask(j) \/ Lock(j) \/ Look(j) \/ Balance(j) \/ Refuse(j) \/ Accept(j)
         \/ OpenState(j) \/ WriteState(j) \/ Reply(j) \/ End(j)
  PROVE  HeldInv'
<1> USE DEF placeVars, fileVars, chainVars, unitVars
<1>1. TypeOK /\ JoinOK(j) /\ Spared(j)
  BY DEF PoolInv, HeldInv
<1>2. join[j] \in Frame /\ join \in [Joins -> Frame]
  BY <1>1 DEF TypeOK, Frame
<1>3. UNCHANGED <<dir, archived, bond, young, coins, pending, bonded, run, who, gateway, owner>>
  BY DEF Ask, Lock, Look, Balance, Refuse, Accept, OpenState, WriteState, Reply, End
<1>4. \A k \in Joins : k # j => join'[k] = join[k]
  BY <1>2
  DEF Ask, Lock, Look, Balance, Refuse, Accept, OpenState, WriteState, Reply, End, Goto, Leave,
      Occupied, Free
<1>5. ASSUME NEW pc, Goto(j, pc), pc # "balance",
             pc \in {"look", "disable", "move"} => join[j].pc \in {"look", "disable", "move"}
      PROVE  Spared(j)'
  BY <1>1, <1>2, <1>3, <1>5 DEF Goto, Spared, Frame
<1>6. ASSUME Occupied(j), join[j].pc \in {"look", "balance"}
      PROVE  Spared(j)'
  BY <1>1, <1>2, <1>3, <1>6 DEF Occupied, Spared, Frame
<1>7. ASSUME Leave(j)
      PROVE  Spared(j)'
  BY <1>2, <1>7 DEF Leave, Idle, Spared
<1>8. CASE Ask(j) \/ Accept(j) \/ OpenState(j) \/ WriteState(j)
  BY <1>3, <1>4, <1>5, <1>8, SparedStep DEF Ask, Accept, OpenState, WriteState
<1>9. CASE Refuse(j) \/ Reply(j) \/ End(j)
  BY <1>3, <1>4, <1>7, <1>9, SparedStep DEF Refuse, Reply, End
<1>10. CASE Lock(j)
  <2>1. join'[j].pc = "look" /\ join'[j].free = join[j].free /\ join[j].free = {}
    BY <1>1, <1>2, <1>10 DEF Lock, Frame, JoinOK
  <2>2. QED
    BY <1>3, <1>4, <2>1, SparedStep DEF Spared
<1>11. CASE Look(j)
  <2>1. CASE Occupied(j)
    BY <1>3, <1>4, <1>6, <1>11, <2>1, SparedStep DEF Look
  <2>2. CASE ~Occupied(j)
    <3>1. /\ join[j].pc = "look" /\ Goto(j, "balance")
          /\ dir[Least(join[j].todo)] \notin bond
      BY <1>11, <2>2 DEF Look, Noted
    <3>2. /\ join'[j].pc = "balance" /\ join'[j].todo = join[j].todo
          /\ join'[j].free = join[j].free
      BY <1>2, <3>1 DEF Goto, Frame
    <3>3. Spared(j)'
      BY <1>1, <1>3, <3>1, <3>2 DEF Spared
    <3>4. QED
      BY <1>3, <1>4, <3>3, SparedStep
  <2>3. QED
    BY <2>1, <2>2
<1>12. CASE Balance(j)
  <2>1. CASE Occupied(j)
    BY <1>3, <1>4, <1>6, <1>12, <2>1, SparedStep DEF Balance
  <2>2. CASE ~Occupied(j)
    <3>1. /\ join[j].pc = "balance" /\ Free(j)
          /\ dir[Least(join[j].todo)] \notin coins
      BY <1>12, <2>2 DEF Balance
    <3>2. /\ join'[j].pc = "look"
          /\ join'[j].free = join[j].free \cup {Least(join[j].todo)}
      BY <1>2, <3>1 DEF Free, Frame
    <3>3. Spared(j)'
      BY <1>1, <1>3, <3>1, <3>2 DEF Spared
    <3>4. QED
      BY <1>3, <1>4, <3>3, SparedStep
  <2>3. QED
    BY <2>1, <2>2
<1>13. QED
  BY <1>8, <1>9, <1>10, <1>11, <1>12

(* The join inside changes directories and units: no other is inside.       *)
LEMMA HeldWhileMoving ==
  ASSUME PoolInv, HeldInv, NEW j \in Joins, Disable(j) \/ Move(j) \/ Pick(j) \/ Enable(j)
  PROVE  HeldInv'
<1>1. /\ TypeOK /\ LockOK /\ Fresh /\ OwnerOK /\ JoinOK(j)
      /\ Holdings /\ Lane /\ Spared(j) /\ \A n \in Numbers : BondOK(n)
  BY DEF PoolInv, HeldInv
<1>2. join[j] \in Frame /\ join \in [Joins -> Frame]
  BY <1>1 DEF TypeOK, Frame
<1>3. join[j].pc \in Inside /\ \A k \in Joins : k # j => join'[k] = join[k]
  BY <1>2 DEF Disable, Move, Pick, Enable, Goto, Inside
<1>4. \A k \in Joins : k # j => Spared(k)'
  BY <1>1, <1>3, OneInside DEF Spared, Inside
<1>5. UNCHANGED <<bond, coins, pending, bonded, who, owner>>
  BY DEF Disable, Move, Pick, Enable, placeVars, fileVars, chainVars, unitVars
<1>6. ASSUME Spared(j)', Holdings', Lane', \A n \in Numbers : BondOK(n)'
      PROVE  HeldInv'
  BY <1>4, <1>6 DEF HeldInv
<1>7. CASE Disable(j)
  <2>1. /\ join[j].pc = "disable" /\ UNCHANGED <<dir, archived, young>>
        /\ run' = [run EXCEPT ![Least(join[j].free)] = "off"]
        /\ gateway' = [gateway EXCEPT ![Least(join[j].free)] = NoOne]
    BY <1>7 DEF Disable, placeVars, fileVars
  <2>2. join'[j].pc = "move" /\ join'[j].free = join[j].free
    BY <1>2, <1>7 DEF Disable, Goto, Frame
  <2>3. Spared(j)'
    BY <1>1, <1>5, <2>1, <2>2 DEF Spared
  <2>4. Holdings' /\ Lane'
    BY <1>1, <1>5, <2>1 DEF Holdings, Lane, TypeOK
  <2>5. \A n \in Numbers : BondOK(n)'
    BY <1>1, <1>5, <2>1 DEF BondOK, Saving, TypeOK
  <2>6. QED
    BY <1>6, <2>3, <2>4, <2>5
<1>8. CASE Move(j)
  <2> DEFINE l == Least(join[j].free)
  <2>1. /\ join[j].pc = "move" /\ UNCHANGED <<young, run, gateway>>
        /\ dir' = [dir EXCEPT ![l] = NoOne] /\ archived' = archived \cup {dir[l]}
    BY <1>8 DEF Move, fileVars, unitVars
  <2>2. l \in join[j].free /\ l \in Numbers /\ dir[l] # NoOne /\ dir[l] \notin young
    BY <1>1, <1>2, <2>1, LeastIsLeast DEF JoinOK, Reclaiming, Frame
  <2>3. join'[j].free = join[j].free \ {l} /\ join'[j].pc \in {"pick", "disable"}
    BY <1>2, <1>8 DEF Move, Frame
  <2>4. dir[l] \notin coins \cup bond
    BY <1>1, <2>1, <2>2 DEF Spared
  <2> HIDE DEF l
  <2>5. \A n \in Numbers : n # l => dir'[n] = dir[n]
    BY <1>1, <2>1 DEF TypeOK
  <2>6. Spared(j)'
    BY <1>1, <1>2, <1>5, <2>1, <2>3, <2>5 DEF Spared, Frame
  <2>7. Holdings'
    BY <1>1, <1>5, <2>1, <2>2, <2>4 DEF Holdings
  <2>8. Lane'
    BY <1>1, <1>5, <2>1, <2>4, <2>5 DEF Lane, OwnerOK
  <2>9. \A n \in Numbers : BondOK(n)'
    BY <1>1, <1>5, <2>1 DEF BondOK
  <2>10. QED
    BY <1>6, <2>6, <2>7, <2>8, <2>9
<1>9. CASE Pick(j)
  <2> DEFINE l == Least(Numbers \ Used)
  <2>1. /\ Used # Numbers /\ UNCHANGED <<archived, run, gateway>>
        /\ dir' = [dir EXCEPT ![l] = joined'] /\ young' = young \cup {joined'}
        /\ joined' = joined + 1 /\ joined \in Nat
    BY <1>1, <1>9, PoolAssumption DEF Pick, unitVars, TypeOK
  <2>2. l \in Numbers /\ dir[l] = NoOne
    <3>1. l \in Numbers \ Used
      BY <2>1, LeastIsLeast DEF Used
    <3>2. QED
      BY <3>1 DEF Used
  <2>3. join'[j].pc = "open"
    BY <1>2, <1>9 DEF Pick
  <2> HIDE DEF l
  <2>4. \A n \in Numbers : n # l => dir'[n] = dir[n]
    BY <1>1, <2>1 DEF TypeOK
  <2>5. Spared(j)'
    BY <2>3 DEF Spared
  <2>6. joined' \notin archived
    <3>1. ASSUME NEW t \in archived
          PROVE  t # joined'
      <4>1. t \in Nat /\ t <= joined
        BY <1>1, TenantsAreNumbers DEF TypeOK, Fresh
      <4>2. QED
        BY <2>1, <4>1
    <3>2. QED
      BY <3>1
  <2>7. Holdings'
    BY <1>1, <1>5, <2>1, <2>6 DEF Holdings
  <2>8. NoOne \notin bond
    BY <1>1, TenantsAreNumbers DEF TypeOK
  <2>9. Lane'
    BY <1>1, <1>5, <2>1, <2>2, <2>4, <2>8 DEF Lane, OwnerOK
  <2>10. \A n \in Numbers : BondOK(n)'
    BY <1>1, <1>5, <2>1 DEF BondOK
  <2>11. QED
    BY <1>6, <2>5, <2>7, <2>9, <2>10
<1>10. CASE Enable(j)
  <2>1. UNCHANGED <<dir, archived, young, gateway>> /\ join'[j].pc = "reply"
    BY <1>2, <1>10 DEF Enable, Goto, placeVars, fileVars
  <2>2. \A n \in Numbers : run'[n] \in {run[n], "wait"}
    BY <1>1, <1>10 DEF Enable, TypeOK
  <2>3. \A n \in Numbers : BondOK(n)'
    BY <1>1, <1>5, <2>2 DEF BondOK, Saving
  <2>4. Spared(j)' /\ Holdings' /\ Lane'
    BY <1>1, <1>5, <2>1 DEF Spared, Holdings, Lane
  <2>5. QED
    BY <1>6, <2>3, <2>4
<1>11. QED
  BY <1>7, <1>8, <1>9, <1>10
-----------------------------------------------------------------------------
(* Nothing held is moved away: the scripts, the owners, the chain.           *)

(* Who is registered has what the carrier left, or a bond in slot.json: so  *)
(* a bond is never noted for whom a join has on its list.                   *)
LEMMA HeldWhileRunning ==
  ASSUME PoolInv, HeldInv, NEW n \in Numbers,
         RunStep(n) \/ Pay(n) \/ Scroll(n) \/ Kill(n) \/ Stop(n)
  PROVE  HeldInv'
<1> USE DEF placeVars, fileVars, chainVars, unitVars, joinVars
<1>1. /\ TypeOK /\ Holdings /\ Lane /\ UnitOK(n)
      /\ (\A j \in Joins : Spared(j)) /\ \A m \in Numbers : BondOK(m)
  BY DEF PoolInv, HeldInv
<1>2. UNCHANGED <<dir, archived, young, join, bonded, gateway, owner>>
  BY DEF RunStep, Start, Submit, GiveUp, Line, Truncate, WriteBond, WriteFee, Pay, Scroll, Kill, Stop
<1>3. \A m \in Numbers : m # n => run'[m] = run[m] /\ who'[m] = who[m]
  BY <1>1
  DEF RunStep, Start, Submit, GiveUp, Line, Truncate, WriteBond, WriteFee, Pay, Scroll, Kill, Stop,
      RunTo, TypeOK
<1>4. \/ bond' = bond
      \/ bond' = bond \cup {who[n]} /\ who[n] \in bonded /\ run[n] = "bondOpen"
  BY <1>1
  DEF RunStep, Start, Submit, GiveUp, Line, Truncate, WriteBond, WriteFee, Pay, Scroll, Kill, Stop,
      UnitOK, BondOK, Active, Saving
<1>5. BondOK(n)'
  BY <1>1
  DEF RunStep, Start, Submit, GiveUp, Line, Truncate, WriteBond, WriteFee, Pay, Scroll, Kill, Stop,
      RunTo, TypeOK, BondOK, UnitOK, Active, Saving, Noted
<1>6. \A m \in Numbers : BondOK(m)'
  BY <1>1, <1>2, <1>3, <1>4, <1>5 DEF BondOK
<1>7. Lane'
  BY <1>1, <1>2, <1>4 DEF Lane
<1>8. /\ coins' = coins \/ (NobodyInside /\ coins' = coins \ {who[n]} /\ who[n] \in bond)
      /\ pending' = pending \/ (pending' = pending \cup {who[n]} /\ who[n] \in coins
                               /\ coins' = coins)
  BY <1>1
  DEF RunStep, Start, Submit, GiveUp, Line, Truncate, WriteBond, WriteFee, Pay, Scroll, Kill, Stop,
      BondOK
<1>9. Holdings'
  BY <1>1, <1>2, <1>4, <1>8 DEF Holdings
<1>10. ASSUME NEW j \in Joins
       PROVE  Spared(j)'
  <2>1. CASE NobodyInside
    BY <1>2, <2>1 DEF NobodyInside, Spared
  <2>2. CASE ~NobodyInside
    <3>1. coins' = coins
      BY <1>8, <2>2
    <3>2. \A t \in bond' \ bond : t \in coins
      BY <1>1, <1>4 DEF Holdings
    <3>3. QED
      BY <1>1, <1>2, <3>1, <3>2 DEF Spared
  <2>3. QED
    BY <2>1, <2>2
<1>11. QED
  BY <1>6, <1>7, <1>9, <1>10 DEF HeldInv

(* What nobody funds late stays without funds.                              *)
LEMMA HeldMeanwhile ==
  ASSUME LateFunding = FALSE, PoolInv, HeldInv,
         \/ \E o \in Owners : FpEnable(o) \/ \E n \in Numbers : FpAsk(o, n)
         \/ \E t \in Tenants : Fund(t) \/ Mine(t) \/ Evict(t) \/ Age(t)
         \/ CoolOff \/ Reboot
  PROVE  HeldInv'
<1> USE DEF placeVars, fileVars, chainVars, unitVars, joinVars
<1>1. /\ TypeOK /\ Holdings /\ Lane /\ OwnerOK
      /\ \A j \in Joins : JoinOK(j) /\ Spared(j)
      /\ \A m \in Numbers : BondOK(m)
  BY DEF PoolInv, HeldInv
<1>2. ASSUME UNCHANGED <<dir, archived, bond, coins, join, bonded, run, who>>,
             pending' \subseteq pending, young' \subseteq young
      PROVE  /\ Holdings' /\ \A j \in Joins : Spared(j)'
             /\ \A m \in Numbers : BondOK(m)'
  BY <1>1, <1>2 DEF Holdings, Spared, BondOK
<1>3. CASE \E o \in Owners : FpEnable(o)
  <2>1. PICK o \in Owners : FpEnable(o)
    BY <1>3
  <2>2. /\ owner[o] # NoOwner /\ owner' = [owner EXCEPT ![o] = NoOwner]
        /\ gateway' = [gateway EXCEPT ![owner[o].n] = owner[o].t]
        /\ UNCHANGED <<dir, archived, bond, young, coins, pending, join, bonded, run, who>>
    BY <2>1 DEF FpEnable
  <2>3. owner[o].n \in Numbers /\ owner[o].t = dir[owner[o].n] /\ owner[o].t \in bonded \cap bond
    BY <1>1, <2>2 DEF OwnerOK, Lane
  <2>4. Lane'
    BY <1>1, <2>2, <2>3 DEF Lane, TypeOK
  <2>5. QED
    BY <1>2, <2>2, <2>4 DEF HeldInv
<1>4. CASE \E o \in Owners : \E n \in Numbers : FpAsk(o, n)
  <2>1. PICK o \in Owners, n \in Numbers : FpAsk(o, n)
    BY <1>4
  <2>2. /\ dir[n] \in bonded \cap bond /\ owner' = [owner EXCEPT ![o] = [n |-> n, t |-> dir[n]]]
        /\ UNCHANGED <<dir, archived, bond, young, coins, pending, join, bonded, run, who, gateway>>
    BY <2>1 DEF FpAsk, Noted
  <2>3. Lane'
    BY <1>1, <2>2 DEF Lane, TypeOK
  <2>4. QED
    BY <1>2, <2>2, <2>3 DEF HeldInv
<1>5. CASE \E t \in Tenants : Fund(t)
  <2>1. PICK t \in Tenants : Fund(t)
    BY <1>5
  <2>2. /\ t \in young /\ coins' = coins \cup {t}
        /\ UNCHANGED <<dir, archived, bond, young, pending, join, bonded, run, who, gateway, owner>>
    BY <2>1 DEF Fund
  <2>3. Holdings' /\ Lane' /\ \A m \in Numbers : BondOK(m)'
    BY <1>1, <2>2 DEF Holdings, Lane, BondOK
  <2>4. ASSUME NEW j \in Joins
        PROVE  Spared(j)'
    BY <1>1, <2>2 DEF Spared, JoinOK, Reclaiming
  <2>5. QED
    BY <2>3, <2>4 DEF HeldInv
<1>6. CASE \E t \in Tenants : Mine(t)
  <2>1. PICK t \in Tenants : Mine(t)
    BY <1>6
  <2>2. /\ t \in pending /\ bonded' = bonded \cup {t} /\ pending' = pending \ {t}
        /\ UNCHANGED <<dir, archived, bond, young, coins, join, run, who, gateway, owner>>
    BY <2>1 DEF Mine
  <2>3. Holdings' /\ Lane' /\ (\A m \in Numbers : BondOK(m)') /\ \A j \in Joins : Spared(j)'
    BY <1>1, <2>2 DEF Holdings, Lane, BondOK, Spared
  <2>4. QED
    BY <2>3 DEF HeldInv
<1>7. CASE (\E t \in Tenants : Evict(t) \/ Age(t)) \/ CoolOff
  <2>1. /\ UNCHANGED <<dir, archived, bond, coins, join, bonded, run, who, gateway, owner>>
        /\ pending' \subseteq pending /\ young' \subseteq young
    BY <1>7 DEF Evict, Age, CoolOff
  <2>2. Lane'
    BY <1>1, <2>1 DEF Lane
  <2>3. QED
    BY <1>2, <2>1, <2>2 DEF HeldInv
<1>8. CASE Reboot
  <2>1. /\ UNCHANGED <<dir, archived, bond, coins, young, pending, bonded, who, gateway>>
        /\ run' = [n \in Numbers |-> IF n \in enabled THEN "wait" ELSE "off"]
        /\ join' = [j \in Joins |-> Idle] /\ owner' = [o \in Owners |-> NoOwner]
    BY <1>8 DEF Reboot
  <2>2. Holdings' /\ Lane'
    BY <1>1, <2>1 DEF Holdings, Lane
  <2>3. \A m \in Numbers : BondOK(m)'
    BY <2>1 DEF BondOK, Saving
  <2>4. \A j \in Joins : Spared(j)'
    BY <2>1 DEF Spared, Idle
  <2>5. QED
    BY <2>2, <2>3, <2>4 DEF HeldInv
<1>9. QED
  BY <1>3, <1>4, <1>5, <1>6, <1>7, <1>8

(* The second invariant is inductive beside the first, when nobody funds a  *)
(* slot older than a day.                                                   *)
THEOREM HeldInductive ==
  ASSUME LateFunding = FALSE
  PROVE  PoolInv /\ HeldInv /\ [Next]_vars => HeldInv'
<1> SUFFICES ASSUME PoolInv, HeldInv, [Next]_vars
             PROVE  HeldInv'
  OBVIOUS
<1>1. CASE \E j \in Joins : JoinStep(j)
  BY <1>1, HeldWhileLooking, HeldWhileMoving DEF JoinStep
<1>2. CASE \E n \in Numbers : RunStep(n) \/ Pay(n) \/ Scroll(n) \/ Kill(n) \/ Stop(n)
  BY <1>2, HeldWhileRunning
<1>3. CASE \/ \E o \in Owners : FpEnable(o) \/ \E n \in Numbers : FpAsk(o, n)
           \/ \E t \in Tenants : Fund(t) \/ Mine(t) \/ Evict(t) \/ Age(t)
           \/ CoolOff \/ Reboot
  BY <1>3, HeldMeanwhile
<1>4. CASE UNCHANGED vars
  BY <1>4
  DEF vars, placeVars, fileVars, chainVars, unitVars, joinVars, HeldInv, Holdings, Lane, BondOK,
      Spared
<1>5. QED
  BY <1>1, <1>2, <1>3, <1>4 DEF Next

(* Hence it always holds. *)
LEMMA HeldAlways ==
  ASSUME LateFunding = FALSE
  PROVE  Spec => []HeldInv
<1>1. Init => HeldInv
  BY DEF Init, HeldInv, Holdings, Lane, BondOK, Spared, Saving, NoOne, Idle
<1>2. QED
  BY PoolAtFirst, PoolInductive, HeldInductive, <1>1, PTL DEF Spec

(* When nobody funds a slot older than a day, nothing that holds, or is     *)
(* about to hold, anything is ever moved away (pool.py reclaimable).        *)
THEOREM NothingHeldLost ==
  ASSUME LateFunding = FALSE
  PROVE  Spec => []NothingHeldIsArchived
<1>1. HeldInv => NothingHeldIsArchived
  BY DEF HeldInv, Holdings, NothingHeldIsArchived
<1>2. QED
  BY HeldAlways, <1>1, PTL

(* Then, too, a gateway runs under the bond of the tenant whose slot it is  *)
(* (pool.py fp_enable beside reclaim).                                      *)
THEOREM GatewaysAtHome ==
  ASSUME LateFunding = FALSE
  PROVE  Spec => []GatewayIsTheTenants
<1>1. HeldInv => GatewayIsTheTenants
  BY DEF HeldInv, Lane, GatewayIsTheTenants
<1>2. QED
  BY HeldAlways, <1>1, PTL
==============================================================================
