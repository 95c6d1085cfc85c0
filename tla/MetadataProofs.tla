--------------------------- MODULE MetadataProofs ---------------------------
(***************************************************************************)
(* What the controller's decisions guarantee, for any number of brokers    *)
(* and of partitions.                                                      *)
(***************************************************************************)
EXTENDS Metadata, TLAPS, WellFoundedInduction

\* A non-empty set of broker ids has a smallest one: pickAlive's walk over the
\* sorted ids has a first.
LEMMA SmallestBroker ==
    ASSUME NEW S \in SUBSET Brokers, S # {}
    PROVE  \E b \in S : \A x \in S : b <= x
<1>1. S \subseteq Nat
  BY NAssumption DEF Brokers
<1> DEFINE R == OpToRel(<, Nat)
<1>2. IsWellFoundedOn(R, Nat)
  BY NatLessThanWellFounded
<1> HIDE DEF R
<1>3. \E b \in S : \A x \in S : ~(<<x, b>> \in R)
  BY <1>1, <1>2, WFMin
<1>4. \A x, b \in Nat : x < b => <<x, b>> \in R
  BY DEF R, OpToRel
<1>5. PICK b \in S : \A x \in S : ~(<<x, b>> \in R)
  BY <1>3
<1>6. \A x \in S : b <= x
  <2> TAKE x \in S
  <2>1. ~(x < b)
    BY <1>1, <1>4, <1>5, Zenon
  <2>2. x \in Nat /\ b \in Nat
    BY <1>1
  <2> QED BY <2>1, <2>2
<1> QED BY <1>6

\* pickAlive returns the empty string exactly when nobody is left, and
\* otherwise a live broker that is not the excluded one.
LEMMA PickAliveType ==
    ASSUME NEW ids \in SUBSET Brokers, NEW alive, NEW exclude
    PROVE  LET b == PickAlive(ids, alive, exclude)
           IN  /\ b = None <=> (ids \cap alive) \ {exclude} = {}
               /\ b # None => b \in (ids \cap alive) \ {exclude}
<1> DEFINE S == (ids \cap alive) \ {exclude}
<1>1. S \in SUBSET Brokers
  OBVIOUS
<1>a. None \notin Brokers
  BY DEF Brokers, None
<1>2. CASE S = {}
  BY <1>2 DEF PickAlive
<1>3. CASE S # {}
  <2>1. \E b \in S : \A x \in S : b <= x
    BY <1>1, <1>3, SmallestBroker
  <2>2. (CHOOSE b \in S : \A x \in S : b <= x) \in S
    BY <2>1
  <2> QED BY <1>1, <1>a, <1>3, <2>2 DEF PickAlive
<1> QED BY <1>2, <1>3

\* ensureBootstrap and reconcile only ever name brokers that exist.
LEMMA PlacementType == ASSUME NEW p \in Nat PROVE Placement(p) \in Assignment
  BY NAssumption DEF Placement, Assignment, Brokers, None

\* A repair names brokers of the cluster, or none.
LEMMA RepairType ==
    ASSUME NEW asg \in Assignment, NEW ids \in SUBSET Brokers, NEW alive
    PROVE  Repair(asg, ids, alive) \in Assignment
<1>1. \A x : PickAlive(ids, alive, x) \in Brokers \cup {None}
  BY PickAliveType, Zenon
<1>2. RepairedLeader(asg, ids, alive) \in Brokers \cup {None}
  BY <1>1 DEF RepairedLeader, Assignment
<1> QED BY <1>1, <1>2 DEF Repair, Assignment

\* The deterministic placement gives a partition two different brokers as soon
\* as the cluster has two.
THEOREM PlacementDistinct ==
    ASSUME NEW p \in Nat, N >= 2
    PROVE  Placement(p).leader # Placement(p).follower
<1>1. N \in Nat /\ N >= 2
  BY NAssumption
<1>2. PICK q \in Int, r \in 0..N-1 : p = N * q + r /\ r = p % N
  BY <1>1
<1>3. PICK s \in Int, t \in 0..N-1 : p + 1 = N * s + t /\ t = (p + 1) % N
  BY <1>1
<1>4. ASSUME r = t PROVE FALSE
  <2>1. N * (s - q) = 1
    BY <1>1, <1>2, <1>3, <1>4
  <2>2. CASE s - q <= 0
    BY <1>1, <2>1, <2>2
  <2>3. CASE s - q >= 1
    BY <1>1, <2>1, <2>3
  <2> QED BY <2>2, <2>3
<1>5. r + 1 # t + 1
  BY <1>1, <1>2, <1>3, <1>4
<1>6. Placement(p) = [leader |-> r + 1, follower |-> t + 1]
  BY <1>2, <1>3 DEF Placement
<1> QED BY <1>5, <1>6
=============================================================================
