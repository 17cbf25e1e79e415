----------------------------- MODULE ClientProofs -----------------------------
(***************************************************************************)
(* The guarantees of the limiter, for every number of callers, gap,        *)
(* ceiling, window and longest wait; then those of the client it paces.    *)
(*                                                                         *)
(* A claim decides how long to sleep when its turn comes, from a list that *)
(* is not pruned again when it wakes.  PacingInv says what the sleep has   *)
(* already earned: once it is over, the gap has passed and the window has  *)
(* room, and nothing was granted meanwhile because the chain stands still  *)
(* behind the sleeper.                                                     *)
(*                                                                         *)
(* Each step of the client is a step of RateLimiter or leaves the limiter  *)
(* alone, so these guarantees hold of every request the client sends,      *)
(* whatever session, breaker, retry and abort do.  Then what the limiter   *)
(* does not know: how often a call and a command may be sent, from an      *)
(* invariant that keeps a budget of sends per call (ClientInv), and that   *)
(* nothing is sent early, from one that says what every wait is worth      *)
(* (RespiteInv).                                                           *)
(***************************************************************************)
EXTENDS Client, FiniteSetTheorems, WellFoundedInduction, TLAPS

InWindow == 0..(Window - 1)

\* What is left of ages once d more ticks have passed.
After(ages, d) == {a \in ages : a + d < Window}

PacingInv ==
  /\ PacingTypeOK
  /\ granted = Prune(stamps)
  /\ Cardinality(granted) <= MaxRequests
  /\ sleeping >= 0 =>
       /\ \A a \in granted : a + sleeping >= MinInterval
       /\ Cardinality(After(granted, sleeping)) < MaxRequests
-----------------------------------------------------------------------------
LEMMA WindowFinite ==
  ASSUME NEW S \in SUBSET InWindow
  PROVE  IsFiniteSet(S) /\ Cardinality(S) \in Nat
<1>1. IsFiniteSet(0..(Window - 1))
  BY FS_Interval, PacingAssumption
<1>2. IsFiniteSet(S)
  BY <1>1, FS_Subset DEF InWindow
<1> QED BY <1>2, FS_CardinalityType

LEMMA SubsetCard ==
  ASSUME NEW S \in SUBSET InWindow, NEW T \in SUBSET S
  PROVE  /\ Cardinality(T) <= Cardinality(S)
         /\ T # S => Cardinality(T) < Cardinality(S)
<1>1. IsFiniteSet(S) /\ Cardinality(S) \in Nat BY WindowFinite
<1>2. T \in SUBSET InWindow OBVIOUS
<1>3. Cardinality(T) \in Nat BY <1>2, WindowFinite
<1> QED BY <1>1, <1>3, FS_Subset

\* The least member of a set is the one with the least set of members below it.
LEMMA HasYoungest ==
  ASSUME NEW S \in SUBSET InWindow, S # {}
  PROVE  Youngest(S) \in S /\ \A b \in S : Youngest(S) <= b
<1> DEFINE Below(a) == {b \in S : b < a}
           F == {Below(a) : a \in S}
<1>1. IsFiniteSet(S) BY WindowFinite
<1>2. F \subseteq FiniteSubsetsOf(S) /\ F # {}
  <2>1. FiniteSubsetsOf(S) = SUBSET S BY <1>1, FS_FiniteSubsetsOfFinite
  <2>2. F \subseteq SUBSET S /\ F # {} OBVIOUS
  <2> QED BY <2>1, <2>2
<1>3. PICK x \in F : \A y \in F : <<y, x>> \notin StrictSubsetOrdering(S)
  BY <1>2, FS_StrictSubsetOrderingWellFounded, WFMin
<1>4. PICK a \in S : x = Below(a) OBVIOUS
<1>5. ASSUME NEW b \in S PROVE a <= b
  <2>1. a \in Int /\ b \in Int BY DEF InWindow
  <2>2. SUFFICES ASSUME b < a PROVE FALSE BY <2>1
  <2>3. Below(b) \in F /\ Below(b) # Below(a) BY <2>1, <2>2
  <2>4. \A y \in S : y < b => y < a
    <3>1. \A y \in S : y \in Int BY DEF InWindow
    <3> QED BY <2>1, <2>2, <3>1
  <2>5. Below(a) \subseteq S /\ Below(b) \subseteq S /\ Below(b) \subseteq Below(a) BY <2>4
  <2>6. <<Below(b), Below(a)>> \in StrictSubsetOrdering(S)
    BY <2>3, <2>5 DEF StrictSubsetOrdering
  <2> HIDE DEF Below
  <2> QED BY <1>3, <1>4, <2>3, <2>6
<1>6. \E c \in S : \A b \in S : c <= b BY <1>5
<1> QED BY <1>6 DEF Youngest

\* The oldest is the youngest of the mirrored set.
LEMMA HasOldest ==
  ASSUME NEW S \in SUBSET InWindow, S # {}
  PROVE  Oldest(S) \in S /\ \A b \in S : b <= Oldest(S)
<1> DEFINE T == {Window - 1 - a : a \in S}
<1>1. T \in SUBSET InWindow /\ T # {}
  <2>1. \A a \in S : Window - 1 - a \in InWindow BY PacingAssumption DEF InWindow
  <2> QED BY <2>1
<1>2. Youngest(T) \in T /\ \A b \in T : Youngest(T) <= b BY <1>1, HasYoungest
<1>3. PICK a \in S : Youngest(T) = Window - 1 - a BY <1>2
<1>4. ASSUME NEW b \in S PROVE b <= a
  <2>1. Window - 1 - a <= Window - 1 - b BY <1>2, <1>3
  <2> QED BY <2>1, PacingAssumption DEF InWindow
<1>5. \E c \in S : \A b \in S : b <= c BY <1>4
<1> QED BY <1>5 DEF Oldest

\* What a computed wait has earned once it has passed: the gap, and room in the window.
LEMMA WaitEarns ==
  ASSUME NEW S \in SUBSET InWindow, Cardinality(S) <= MaxRequests
  PROVE  /\ ComputeWait(S) \in Nat
         /\ \A a \in S : a + ComputeWait(S) >= MinInterval
         /\ Cardinality(After(S, ComputeWait(S))) < MaxRequests
<1>1. SpacingWait(S) \in Nat /\ \A a \in S : a + SpacingWait(S) >= MinInterval
  <2>1. CASE S = {} BY <2>1 DEF SpacingWait
  <2>2. CASE S # {}
    <3>1. Youngest(S) \in S /\ \A b \in S : Youngest(S) <= b BY <2>2, HasYoungest
    <3>2. SpacingWait(S) = Positive(MinInterval - Youngest(S)) BY <2>2 DEF SpacingWait
    <3>3. \A b \in S : b \in Int BY DEF InWindow
    <3>4. MinInterval \in Int BY PacingAssumption
    <3> HIDE DEF InWindow
    <3> QED BY <3>1, <3>2, <3>3, <3>4 DEF Positive
  <2> QED BY <2>1, <2>2
<1>2. Cardinality(S) \in Nat /\ MaxRequests \in Nat BY WindowFinite, PacingAssumption
<1>3. CASE Cardinality(S) < MaxRequests
  <2>1. ComputeWait(S) = SpacingWait(S) BY <1>3 DEF ComputeWait
  <2>2. After(S, ComputeWait(S)) \in SUBSET S BY DEF After
  <2>3. Cardinality(After(S, ComputeWait(S))) <= Cardinality(S) BY <2>2, SubsetCard
  <2>4. Cardinality(After(S, ComputeWait(S))) \in Nat BY <2>2, WindowFinite
  <2> QED BY <1>1, <1>2, <1>3, <2>1, <2>3, <2>4
<1>4. CASE Cardinality(S) = MaxRequests
  <2>1. S # {} BY <1>4, FS_EmptySet, PacingAssumption
  <2>2. Oldest(S) \in S /\ \A b \in S : b <= Oldest(S) BY <2>1, HasOldest
  <2>3. Oldest(S) \in 0..(Window - 1) /\ Window \in Nat
    BY <2>2, PacingAssumption DEF InWindow
  <2>4. /\ ComputeWait(S) \in Nat
        /\ ComputeWait(S) >= SpacingWait(S) /\ ComputeWait(S) >= Window - Oldest(S)
    BY <1>1, <1>4, <2>3, PacingAssumption DEF ComputeWait
  <2>5. After(S, ComputeWait(S)) \in SUBSET S BY DEF After
  <2>6. Oldest(S) \notin After(S, ComputeWait(S)) BY <2>3, <2>4 DEF After
  <2>7. Cardinality(After(S, ComputeWait(S))) < MaxRequests
    BY <1>4, <2>2, <2>5, <2>6, SubsetCard
  <2>8. \A a \in S : a \in Int BY DEF InWindow
  <2>9. \A a \in S : a + ComputeWait(S) >= MinInterval
    BY <1>1, <2>4, <2>8, PacingAssumption
  <2> QED BY <2>4, <2>7, <2>9
<1> QED BY <1>2, <1>3, <1>4

\* A tick never adds to what is left in the window, and what it ages fits a tick sooner.
LEMMA TickShrinks ==
  ASSUME NEW S \in SUBSET InWindow, NEW d \in Nat, NEW e \in Nat, e + 1 >= d
  PROVE  LET older == {a + 1 : a \in {b \in S : b + 1 < Window}}
         IN  /\ older \in SUBSET InWindow
             /\ Cardinality(After(older, e)) <= Cardinality(After(S, d))
<1> DEFINE older == {a + 1 : a \in {b \in S : b + 1 < Window}}
           f == [x \in After(older, e) |-> x - 1]
<1>1. \A a \in S : a \in Nat /\ a < Window BY PacingAssumption DEF InWindow
<1>2. older \in SUBSET InWindow
  <2>1. \A a \in S : a + 1 < Window => a + 1 \in InWindow
    BY <1>1, PacingAssumption DEF InWindow
  <2> QED BY <2>1
<1>3. \A x \in After(older, e) : x \in Nat /\ x - 1 \in After(S, d)
  <2>1. TAKE x \in After(older, e)
  <2>2. PICK a \in S : x = a + 1 /\ a + 1 < Window BY DEF After
  <2>3. a + 1 + e < Window BY <2>2 DEF After
  <2>4. a + d < Window BY <1>1, <2>3, PacingAssumption
  <2>5. x - 1 = a BY <1>1, <2>2
  <2> QED BY <1>1, <2>2, <2>4, <2>5 DEF After
<1>4. f \in Injection(After(older, e), After(S, d))
  <2>1. f \in [After(older, e) -> After(S, d)] BY <1>3
  <2>2. \A x, y \in After(older, e) : f[x] = f[y] => x = y BY <1>3
  <2> QED BY <2>1, <2>2 DEF Injection, IsInjective
<1>5. After(S, d) \in SUBSET InWindow BY DEF After
<1>6. IsFiniteSet(After(S, d)) BY <1>5, WindowFinite
<1>7. Cardinality(After(older, e)) <= Cardinality(After(S, d))
  BY <1>4, <1>6, FS_Injection
<1> QED BY <1>2, <1>7
-----------------------------------------------------------------------------
LEMMA PruneFacts ==
  ASSUME PacingInv
  PROVE  /\ granted \in SUBSET InWindow
         /\ Prune(stamps) = granted
         /\ stamps \in SUBSET Ages
<1>1. Prune(stamps) \subseteq InWindow
  BY PacingAssumption DEF PacingInv, PacingTypeOK, Prune, Ages, InWindow
<1> QED BY <1>1 DEF PacingInv, PacingTypeOK

\* A claim is granted only when the gap has passed and the window has room.
LEMMA GrantHasRoom ==
  ASSUME PacingInv, NEW c \in Callers, Grants(c)
  PROVE  /\ \A a \in granted : a >= MinInterval
         /\ Cardinality(granted) < MaxRequests
<1>1. granted \in SUBSET InWindow BY PruneFacts
<1>2. \A a \in granted : a \in Nat /\ a < Window
  BY <1>1, PacingAssumption DEF InWindow
<1>3. After(granted, 0) = granted BY <1>2 DEF After
<1>4. CASE GrantedAtOnce(c)
  <2>1. ComputeWait(granted) = 0 BY <1>4, PruneFacts DEF GrantedAtOnce
  <2>2. Cardinality(granted) <= MaxRequests BY DEF PacingInv
  <2>3. \A a \in granted : a + 0 >= MinInterval BY <1>1, <2>1, <2>2, WaitEarns
  <2>4. Cardinality(After(granted, 0)) < MaxRequests BY <1>1, <2>1, <2>2, WaitEarns
  <2> QED BY <1>2, <1>3, <2>3, <2>4
<1>5. CASE Wakes(c)
  <2>1. sleeping = 0 BY <1>5 DEF Wakes
  <2> QED BY <1>2, <1>3, <2>1 DEF PacingInv
<1> QED BY <1>4, <1>5 DEF Grants

LEMMA ClaimKeepsInv ==
  ASSUME PacingInv, NEW c \in Callers, Grants(c)
  PROVE  PacingInv'
<1>1. PICK ages \in {stamps, Prune(stamps)} : First(c) /\ Claim(ages)
  BY DEF Grants, GrantedAtOnce, Wakes, AtTurn
<1>2. /\ stamps' = ages \cup {0} /\ granted' = granted \cup {0}
      /\ chain' = Tail(chain) /\ sleeping' = -1 /\ aborted' = aborted
  BY <1>1 DEF Claim
<1>3. chain \in Seq(Callers) /\ chain # <<>> BY <1>1 DEF PacingInv, PacingTypeOK, First
<1>4. granted \in SUBSET InWindow /\ stamps \in SUBSET Ages BY PruneFacts
<1>5. 0 \in Ages /\ InWindow \subseteq Ages BY PacingAssumption DEF Ages, InWindow
<1>6. PacingTypeOK'
  <2>1. ages \in SUBSET Ages BY <1>1, <1>4 DEF Prune
  <2>2. Tail(chain) \in Seq(Callers) BY <1>3
  <2>3. aborted \subseteq Callers BY DEF PacingInv, PacingTypeOK
  <2>4. -1 \in -1..MaxWait BY PacingAssumption
  <2> QED BY <1>2, <1>4, <1>5, <2>1, <2>2, <2>3, <2>4 DEF PacingTypeOK
<1>7. granted' = Prune(stamps')
  <2>1. 0 < Window BY PacingAssumption
  <2>2. Prune(ages) = granted BY <1>1, PruneFacts DEF Prune
  <2>3. Prune(ages \cup {0}) = Prune(ages) \cup {0} BY <2>1 DEF Prune
  <2> QED BY <1>2, <2>2, <2>3
<1>8. Cardinality(granted') <= MaxRequests
  <2>1. IsFiniteSet(granted) /\ Cardinality(granted) \in Nat BY <1>4, WindowFinite
  <2>2. Cardinality(granted \cup {0}) \in {Cardinality(granted), Cardinality(granted) + 1}
    BY <2>1, FS_AddElement
  <2>3. Cardinality(granted) < MaxRequests /\ MaxRequests \in Nat
    BY GrantHasRoom, PacingAssumption
  <2> QED BY <1>2, <2>1, <2>2, <2>3
<1>9. ~(sleeping' >= 0) BY <1>2
<1> QED BY <1>6, <1>7, <1>8, <1>9 DEF PacingInv

\* The steps that leave the window alone: an arrival, a rejection, an abort.
LEMMA QueueKeepsInv ==
  ASSUME PacingInv, granted' = granted,
         stamps' \in {stamps, Prune(stamps)},
         chain' \in Seq(Callers), aborted' \subseteq Callers,
         sleeping' \in {sleeping, -1}
  PROVE  PacingInv'
<1>1. granted \in SUBSET InWindow /\ stamps \in SUBSET Ages /\ granted = Prune(stamps)
  BY PruneFacts
<1>2. Prune(Prune(stamps)) = Prune(stamps) BY DEF Prune
<1>3. granted' = Prune(stamps') BY <1>1, <1>2
<1>4. sleeping' \in -1..MaxWait BY PacingAssumption DEF PacingInv, PacingTypeOK
<1>5. InWindow \subseteq Ages BY PacingAssumption DEF Ages, InWindow
<1>6. stamps' \in SUBSET Ages /\ granted' \in SUBSET Ages BY <1>1, <1>5
<1>7. PacingTypeOK' BY <1>4, <1>6 DEF PacingTypeOK
<1>8. sleeping' >= 0 =>
        /\ \A a \in granted' : a + sleeping' >= MinInterval
        /\ Cardinality(After(granted', sleeping')) < MaxRequests
  BY DEF PacingInv
<1> QED BY <1>3, <1>7, <1>8 DEF PacingInv

LEMMA SleepKeepsInv ==
  ASSUME PacingInv, NEW c \in Callers, FallsAsleep(c)
  PROVE  PacingInv'
<1>1. granted \in SUBSET InWindow /\ stamps \in SUBSET Ages /\ Prune(stamps) = granted
  BY PruneFacts
<1>2. /\ stamps' = granted /\ granted' = granted /\ sleeping' = ComputeWait(granted)
      /\ chain' = chain /\ aborted' = aborted /\ sleeping' \in 1..MaxWait
  BY <1>1 DEF FallsAsleep
<1>3. Prune(granted) = granted BY <1>1 DEF Prune
<1>4. InWindow \subseteq Ages BY PacingAssumption DEF Ages, InWindow
<1>5. sleeping' \in -1..MaxWait BY <1>2, PacingAssumption
<1>6. PacingTypeOK' BY <1>1, <1>2, <1>4, <1>5 DEF PacingInv, PacingTypeOK
<1>7. Cardinality(granted) <= MaxRequests BY DEF PacingInv
<1>8. /\ \A a \in granted : a + sleeping' >= MinInterval
      /\ Cardinality(After(granted, sleeping')) < MaxRequests
  BY <1>1, <1>2, <1>7, WaitEarns
<1> QED BY <1>2, <1>3, <1>6, <1>7, <1>8 DEF PacingInv, After

LEMMA OlderByOne ==
  ASSUME NEW a \in Int, NEW n \in Int, NEW m \in Int, NEW gap \in Int,
         m + 1 >= n, a + n >= gap
  PROVE  (a + 1) + m >= gap
OBVIOUS

LEMMA TickKeepsInv ==
  ASSUME PacingInv, PacingTick
  PROVE  PacingInv'
<1> DEFINE older == {a + 1 : a \in {b \in granted : b + 1 < Window}}
<1>1. granted \in SUBSET InWindow /\ stamps \in SUBSET Ages /\ granted = Prune(stamps)
  BY PruneFacts
<1>2. /\ stamps' = {IF a < Window THEN a + 1 ELSE a : a \in stamps}
      /\ granted' = older /\ chain' = chain /\ aborted' = aborted
      /\ sleeping' = IF sleeping > 0 THEN sleeping - 1 ELSE sleeping
  BY DEF PacingTick
<1>3. sleeping \in -1..MaxWait /\ sleeping' \in -1..MaxWait
  BY <1>2, PacingAssumption DEF PacingInv, PacingTypeOK
<1>4. \A a \in stamps : a \in Nat /\ a <= Window
  BY <1>1, PacingAssumption DEF Ages
<1>5. \A a \in granted : a \in Nat /\ a < Window /\ a \in stamps
  BY <1>1, <1>4 DEF Prune
<1>6. stamps' \in SUBSET Ages
  <2>1. \A a \in stamps : (IF a < Window THEN a + 1 ELSE a) \in Ages
    BY <1>4, PacingAssumption DEF Ages
  <2> QED BY <1>2, <2>1
<1>7. granted' = Prune(stamps')
  <2>1. ASSUME NEW x \in older PROVE x \in Prune(stamps')
    <3>1. PICK a \in granted : x = a + 1 /\ a + 1 < Window OBVIOUS
    <3>2. x \in stamps' BY <1>2, <1>5, <3>1
    <3> QED BY <3>1, <3>2 DEF Prune
  <2>2. ASSUME NEW x \in Prune(stamps') PROVE x \in older
    <3>1. x \in stamps' /\ x < Window BY DEF Prune
    <3>2. PICK a \in stamps : x = IF a < Window THEN a + 1 ELSE a BY <1>2, <3>1
    <3>3. a < Window /\ x = a + 1 BY <1>4, <3>1, <3>2
    <3>4. a \in granted BY <1>1, <3>3 DEF Prune
    <3> QED BY <3>1, <3>3, <3>4
  <2> QED BY <1>2, <2>1, <2>2
<1>8. /\ older \in SUBSET InWindow
      /\ Cardinality(After(older, 0)) <= Cardinality(After(granted, 0))
  BY <1>1, TickShrinks
<1>9. Cardinality(granted') <= MaxRequests
  <2>1. After(granted, 0) = granted BY <1>5 DEF After
  <2>2. \A a \in older : a \in Nat /\ a < Window
    BY <1>8, PacingAssumption DEF InWindow
  <2>3. After(older, 0) = older BY <2>2 DEF After
  <2>4. Cardinality(older) <= Cardinality(granted) BY <1>8, <2>1, <2>3
  <2>5. Cardinality(older) \in Nat /\ Cardinality(granted) \in Nat
    BY <1>1, <1>8, WindowFinite
  <2> QED BY <1>2, <2>4, <2>5, PacingAssumption DEF PacingInv
<1>10. InWindow \subseteq Ages BY PacingAssumption DEF Ages, InWindow
<1>11. PacingTypeOK'
  <2>1. granted' \subseteq Ages BY <1>2, <1>8, <1>10
  <2> QED BY <1>2, <1>3, <1>6, <2>1 DEF PacingInv, PacingTypeOK
<1>12. ASSUME sleeping' >= 0
       PROVE  /\ \A a \in granted' : a + sleeping' >= MinInterval
              /\ Cardinality(After(granted', sleeping')) < MaxRequests
  <2>1. sleeping \in Nat /\ sleeping' \in Nat /\ sleeping' + 1 >= sleeping
    BY <1>2, <1>3, <1>12, PacingAssumption
  <2>2. /\ \A a \in granted : a + sleeping >= MinInterval
        /\ Cardinality(After(granted, sleeping)) < MaxRequests
    BY <2>1 DEF PacingInv
  <2>3. Cardinality(After(older, sleeping')) <= Cardinality(After(granted, sleeping))
    BY <1>1, <2>1, TickShrinks
  <2>4. Cardinality(After(older, sleeping')) \in Nat /\ Cardinality(After(granted, sleeping)) \in Nat
    <3>1. After(older, sleeping') \in SUBSET InWindow BY <1>8 DEF After
    <3>2. After(granted, sleeping) \in SUBSET InWindow BY <1>1 DEF After
    <3> QED BY <3>1, <3>2, WindowFinite
  <2>5. \A x \in older : \E a \in granted : x = a + 1 OBVIOUS
  <2> HIDE DEF older
  <2>6. ASSUME NEW x \in older PROVE x + sleeping' >= MinInterval
    <3>1. PICK a \in granted : x = a + 1 BY <2>5
    <3>2. a \in Nat /\ a + sleeping >= MinInterval BY <1>5, <2>2
    <3>3. MinInterval \in Int /\ a \in Int BY <3>2, PacingAssumption
    <3>4. sleeping \in Int /\ sleeping' \in Int BY <2>1
    <3>5. (a + 1) + sleeping' >= MinInterval BY <2>1, <3>2, <3>3, <3>4, OlderByOne
    <3> QED BY <3>1, <3>5
  <2>7. Cardinality(After(older, sleeping')) < MaxRequests
    <3> DEFINE fewer == Cardinality(After(older, sleeping'))
               many == Cardinality(After(granted, sleeping))
    <3>1. fewer \in Nat /\ many \in Nat /\ fewer <= many /\ many < MaxRequests
      BY <2>2, <2>3, <2>4
    <3>2. MaxRequests \in Nat BY PacingAssumption
    <3> HIDE DEF fewer, many
    <3>3. fewer < MaxRequests BY <3>1, <3>2
    <3> QED BY <3>3 DEF fewer
  <2> QED BY <1>2, <2>6, <2>7
<1> QED BY <1>7, <1>9, <1>11, <1>12 DEF PacingInv
-----------------------------------------------------------------------------
LEMMA PacingInvInit == PacingInit => PacingInv
<1> SUFFICES ASSUME PacingInit PROVE PacingInv OBVIOUS
<1>1. granted = Prune(stamps) /\ granted = {} /\ stamps = {} BY DEF PacingInit, Prune
<1>2. Cardinality({}) = 0 BY FS_EmptySet
<1>3. chain = <<>> /\ sleeping = -1 /\ aborted = {} BY DEF PacingInit
<1>4. sleeping \in -1..MaxWait BY <1>3, PacingAssumption
<1>5. PacingTypeOK BY <1>1, <1>3, <1>4 DEF PacingTypeOK
<1>6. Cardinality(granted) <= MaxRequests /\ ~(sleeping >= 0)
  BY <1>1, <1>2, <1>3, PacingAssumption
<1> QED BY <1>1, <1>5, <1>6 DEF PacingInv

LEMMA PacingInvStep == PacingInv /\ [PacingNext]_pacing => PacingInv'
<1> SUFFICES ASSUME PacingInv, [PacingNext]_pacing PROVE PacingInv' OBVIOUS
<1>1. /\ chain \in Seq(Callers) /\ aborted \subseteq Callers
      /\ stamps \in {stamps, Prune(stamps)} /\ sleeping \in {sleeping, -1}
  BY DEF PacingInv, PacingTypeOK
<1>2. ASSUME NEW c \in Callers, Acquire(c) PROVE PacingInv'
  <2>1. chain' \in Seq(Callers) BY <1>1, <1>2 DEF Acquire
  <2> QED BY <1>1, <1>2, <2>1, QueueKeepsInv DEF Acquire
<1>3. ASSUME NEW c \in Callers, Refused(c) \/ AbortedAtTurn(c) PROVE PacingInv'
  <2>1. First(c) /\ Reject /\ stamps' = Prune(stamps) /\ aborted' = aborted /\ granted' = granted
    BY <1>3 DEF Refused, AbortedAtTurn, AtTurn
  <2>2. chain' \in Seq(Callers) /\ sleeping' = -1 BY <1>1, <2>1 DEF First, Reject
  <2> QED BY <1>1, <2>1, <2>2, QueueKeepsInv
<1>4. ASSUME NEW c \in Callers, FallsAsleep(c) PROVE PacingInv'
  BY <1>4, SleepKeepsInv
<1>5. ASSUME NEW c \in Callers, Grants(c) PROVE PacingInv'
  BY <1>5, ClaimKeepsInv
<1>6. ASSUME NEW c \in Callers, Abort(c) PROVE PacingInv'
  <2>1. stamps' = stamps /\ granted' = granted /\ aborted' \subseteq Callers
    BY <1>1, <1>6 DEF Abort
  <2>2. chain' \in Seq(Callers) /\ sleeping' \in {sleeping, -1}
    BY <1>1, <1>6 DEF Abort, First, Reject
  <2> QED BY <1>1, <2>1, <2>2, QueueKeepsInv
<1>7. CASE PacingTick BY <1>7, TickKeepsInv
<1>8. CASE UNCHANGED pacing BY <1>1, <1>8, QueueKeepsInv DEF pacing
<1> QED BY <1>2, <1>3, <1>4, <1>5, <1>6, <1>7, <1>8 DEF PacingNext

LEMMA PacingInvHolds == PacingSpec => []PacingInv
BY PacingInvInit, PacingInvStep, PTL DEF PacingSpec

\* The fields keep their type, whatever the callers do.
THEOREM PacingTypeCorrect == PacingSpec => []PacingTypeOK
<1>1. PacingInv => PacingTypeOK BY DEF PacingInv
<1> QED BY <1>1, PacingInvHolds, PTL

\* No window ever holds more grants than the ceiling.
THEOREM PacingKeepsWindow == PacingSpec => []WindowKept
<1>1. PacingInv => WindowKept BY DEF PacingInv, WindowKept
<1> QED BY <1>1, PacingInvHolds, PTL

\* No grant comes within the gap after another.
THEOREM PacingKeepsGap == PacingSpec => GapKept
<1>1. PacingInv => [(\E c \in Callers : Grants(c)) => \A a \in granted : a >= MinInterval]_pacing
  BY GrantHasRoom
<1> QED BY <1>1, PacingInvHolds, PTL DEF GapKept
-----------------------------------------------------------------------------
(* The client.                                                             *)

LEMMA ClientStepPaces == [Next]_vars => [PacingNext]_pacing
<1> SUFFICES ASSUME [Next]_vars PROVE [PacingNext]_pacing OBVIOUS
<1>1. ASSUME NEW c \in Callers, Start(c) \/ Answered(c) \/ BackoffEnds(c)
      PROVE  UNCHANGED pacing
  BY <1>1 DEF Start, Answered, BackoffEnds, pacing
<1>2. ASSUME NEW c \in Callers, NoAnswer(c) \/ AnyFailure(c) PROVE UNCHANGED pacing
  BY <1>2 DEF NoAnswer, AnyFailure, NoSession, AnsweredBadly, pacing
<1>3. ASSUME NEW c \in Callers, SessionResolved(c) PROVE PacingNext
  BY <1>3 DEF SessionResolved, PacingNext
<1>4. ASSUME NEW c \in Callers, Turn(c) PROVE PacingNext
  BY <1>4 DEF Turn, PacingRefuses, PacingAborts, PacingSleeps, BreakerRefuses, Send,
              SendRefused, PacingNext
<1>5. ASSUME NEW c \in Callers, AbortCall(c) PROVE PacingNext
  BY <1>5 DEF AbortCall, PacingNext
<1>6. CASE Tick BY <1>6 DEF Tick, PacingNext
<1>7. CASE UNCHANGED vars BY <1>7 DEF vars
<1> QED BY <1>1, <1>2, <1>3, <1>4, <1>5, <1>6, <1>7 DEF Next

\* The client implements the limiter.
THEOREM ClientPaces == Spec => PacingSpec
<1>1. Init => PacingInit BY DEF Init
<1> QED BY <1>1, ClientStepPaces, PTL DEF Spec, PacingSpec

\* No window of the client's requests holds more than the ceiling.
THEOREM ClientKeepsWindow == Spec => []WindowKept
BY ClientPaces, PacingKeepsWindow, PTL

\* A request is sent only by a step that is granted a slot.
LEMMA SendIsGranted ==
  ASSUME [Next]_vars, \E c \in Callers : Sends(c), sends \in [Callers -> Nat]
  PROVE  \E c \in Callers : Grants(c)
<1> PICK c \in Callers : Sends(c) OBVIOUS
<1>1. sends[c] \in Nat /\ sends'[c] > sends[c] BY DEF Sends
<1>2. sends' # sends BY <1>1
<1>3. ASSUME NEW d \in Callers, Answered(d) PROVE FALSE
  BY <1>1, <1>3 DEF Answered
<1>4. ASSUME NEW d \in Callers, Turn(d) PROVE \E e \in Callers : Grants(e)
  BY <1>2, <1>4 DEF Turn, PacingRefuses, PacingAborts, PacingSleeps, BreakerRefuses, Send,
                    SendRefused, clientVars
<1>5. ASSUME NEW d \in Callers,
             Start(d) \/ SessionResolved(d) \/ NoAnswer(d) \/ AnyFailure(d) \/ BackoffEnds(d)
               \/ AbortCall(d)
      PROVE  FALSE
  BY <1>2, <1>5 DEF Start, SessionResolved, NoAnswer, NoSession, AnyFailure, AnsweredBadly,
                    BackoffEnds, AbortCall
<1>6. ~Tick BY <1>2 DEF Tick
<1>7. ~UNCHANGED vars BY <1>2 DEF vars, clientVars
<1> QED BY <1>3, <1>4, <1>5, <1>6, <1>7 DEF Next

LEMMA SendsTypeHolds == Spec => [](sends \in [Callers -> Nat])
<1>1. Init => sends \in [Callers -> Nat] BY DEF Init
<1>2. sends \in [Callers -> Nat] /\ [Next]_vars => (sends \in [Callers -> Nat])'
  <2> SUFFICES ASSUME sends \in [Callers -> Nat], [Next]_vars
               PROVE  sends' \in [Callers -> Nat]
    OBVIOUS
  <2>1. ASSUME NEW c \in Callers, Answered(c) PROVE sends' \in [Callers -> Nat]
    BY <2>1 DEF Answered
  <2>2. ASSUME NEW c \in Callers, Turn(c) PROVE sends' \in [Callers -> Nat]
    BY <2>2 DEF Turn, PacingRefuses, PacingAborts, PacingSleeps, BreakerRefuses, Send,
                SendRefused, clientVars
  <2>3. ASSUME NEW c \in Callers,
               Start(c) \/ SessionResolved(c) \/ NoAnswer(c) \/ AnyFailure(c)
                 \/ BackoffEnds(c) \/ AbortCall(c)
        PROVE  sends' \in [Callers -> Nat]
    BY <2>3 DEF Start, SessionResolved, NoAnswer, NoSession, AnyFailure, AnsweredBadly,
                BackoffEnds, AbortCall
  <2>4. CASE Tick BY <2>4 DEF Tick
  <2>5. CASE UNCHANGED vars BY <2>5 DEF vars, clientVars
  <2> QED BY <2>1, <2>2, <2>3, <2>4, <2>5 DEF Next
<1> QED BY <1>1, <1>2, PTL DEF Spec

\* Whatever is sent keeps the gap after whatever was sent before.
THEOREM ClientSendsPaced == Spec => SendsArePaced
<1>1. PacingInv /\ sends \in [Callers -> Nat] /\ [Next]_vars
        => [(\E c \in Callers : Sends(c)) => \A a \in granted : a >= MinInterval]_vars
  BY SendIsGranted, GrantHasRoom
<1>2. Spec => []PacingInv BY ClientPaces, PacingInvHolds, PTL
<1> QED BY <1>1, <1>2, SendsTypeHolds, PTL DEF Spec, SendsArePaced
-----------------------------------------------------------------------------
(* What a call has spent.  A request has two sends per attempt, the second *)
(* for the recovery; a command has one, and one more after a rejection.    *)

Budget(call) ==
  2 * (call.attempt - 1)
    + IF call.at = "backoff" THEN 2
      ELSE (IF call.recovered THEN 1 ELSE 0) + (IF call.at = "sent" THEN 1 ELSE 0)

\* What holds of a command that has been sent n times, r whether it was rejected last.
CommandKept(call, n, r) ==
  /\ call.left = 1 /\ call.at # "backoff"
  /\ call.at \in {"idle", "session", "pacing"} =>
       IF call.recovered THEN n = 0 \/ (n = 1 /\ r) ELSE n = 0
  /\ call.at = "sent" => IF call.recovered THEN n \in {1, 2} ELSE n = 1

CallKept(c, call, n, r) ==
  /\ call \in CallType /\ n \in Nat /\ r \in BOOLEAN
  /\ call.left \in 1..Batches[c]
  /\ call.at = "backoff" => call.attempt < MaxAttempts
  /\ n <= IF call.at = "ended" THEN 2 * MaxAttempts ELSE Budget(call)
  /\ c \in Commands => CommandKept(call, n, r)

\* Nobody is in the chain twice, and whoever is in it waits for its turn.
QueueKept ==
  /\ \A i, j \in DOMAIN chain : chain[i] = chain[j] => i = j
  /\ \A i \in DOMAIN chain : calls[chain[i]].at = "pacing"

ClientInv ==
  /\ PacingInv
  /\ calls \in [Callers -> CallType]
  /\ sends \in [Callers -> Nat] /\ rejected \in [Callers -> BOOLEAN]
  /\ QueueKept
  /\ \A c \in Callers : CallKept(c, calls[c], sends[c], rejected[c])
-----------------------------------------------------------------------------
\* No back-off outlasts its cap, whatever was asked for.
LEMMA DelaysCapped ==
  ASSUME NEW hint \in SUBSET Int, NEW attempt
  PROVE  Delays(hint, attempt) \subseteq 0..MaxDelay
<1>1. Backoffs(attempt) \subseteq 0..MaxDelay BY DEF Backoffs
<1>2. MaxDelay \in Nat BY ClientAssumption
<1>3. ASSUME NEW h \in hint, h <= MaxDelay, NEW b \in 0..MaxDelay
      PROVE  (IF h < b THEN b ELSE h) \in 0..MaxDelay
  BY <1>2, <1>3
<1> QED BY <1>1, <1>3 DEF Delays

LEMMA NewKept ==
  ASSUME NEW c \in Callers, NEW left \in Nat, left <= Batches[c], left # 0, NEW r \in BOOLEAN
  PROVE  /\ CallKept(c, New(c), 0, r)
         /\ CallKept(c, [New(c) EXCEPT !.at = "session", !.left = left], 0, r)
<1>1. Batches[c] \in Nat \ {0} /\ MaxAttempts \in Nat \ {0} /\ MaxDelay \in Nat
  BY ClientAssumption
<1>2. c \in Commands => Batches[c] = 1 BY ClientAssumption
<1>3. 1 \in 1..MaxAttempts /\ 0 \in 0..MaxDelay BY <1>1
<1>4. New(c) \in CallType BY <1>1, <1>3 DEF New, CallType
<1>5. [New(c) EXCEPT !.at = "session", !.left = left] \in CallType
  BY <1>1, <1>3, <1>4 DEF CallType
<1> QED BY <1>1, <1>2, <1>4, <1>5 DEF CallKept, CommandKept, Budget, New

LEMMA EndedKept ==
  ASSUME NEW c \in Callers, NEW call, NEW n, NEW r, CallKept(c, call, n, r), NEW s \in BOOLEAN
  PROVE  CallKept(c, Ended(c), n, s)
<1>1. Batches[c] \in Nat \ {0} /\ MaxAttempts \in Nat \ {0} /\ MaxDelay \in Nat
  BY ClientAssumption
<1>2. c \in Commands => Batches[c] = 1 BY ClientAssumption
<1>3. Ended(c) \in CallType
  <2>1. 1 \in 1..MaxAttempts /\ 0 \in 0..MaxDelay BY <1>1
  <2>2. New(c) \in CallType BY <1>1, <2>1 DEF New, CallType
  <2> QED BY <2>2 DEF Ended, CallType
<1>4. n \in Nat /\ n <= 2 * MaxAttempts
  <2>1. n \in Nat /\ call.attempt \in 1..MaxAttempts
    BY DEF CallKept, CallType
  <2>2. n <= IF call.at = "ended" THEN 2 * MaxAttempts ELSE Budget(call) BY DEF CallKept
  <2>3. n <= 2 * MaxAttempts \/ n <= 2 * (call.attempt - 1) + 2
    BY <1>1, <2>1, <2>2 DEF Budget
  <2> QED BY <1>1, <2>1, <2>3
<1> QED BY <1>1, <1>2, <1>3, <1>4 DEF CallKept, CommandKept, Ended, New

\* A failed attempt leaves the call within its budget.  r is what is known of the answer.
LEMMA FailKeeps ==
  ASSUME ClientInv, NEW c \in Callers, NEW error, NEW hint \in SUBSET Int,
         Fail(c, error, hint), calls[c].at \in {"session", "pacing", "sent"},
         NEW r \in BOOLEAN,
         IF calls[c].at = "sent" THEN r = (error = "SESSION_EXPIRED") ELSE r = rejected[c]
  PROVE  \E next : /\ calls' = [calls EXCEPT ![c] = next]
                   /\ CallKept(c, next, sends[c], r)
                   /\ next.at # "pacing"
<1> DEFINE call == calls[c]
           replayed == [call EXCEPT !.at = "session", !.recovered = TRUE]
<1>1. CallKept(c, call, sends[c], rejected[c]) BY DEF ClientInv
<1>2. call \in CallType /\ sends[c] \in Nat BY <1>1 DEF CallKept
<1>3. CallKept(c, Ended(c), sends[c], r) BY <1>1, EndedKept
<1>4. Ended(c).at = "ended" BY DEF Ended, New
<1>5. CASE ~call.recovered /\ IsReplayable(c, error)
  <2>1. calls' = [calls EXCEPT ![c] = replayed] BY <1>5 DEF Fail
  <2>2. replayed \in CallType BY <1>2 DEF CallType
  <2>3. sends[c] <= Budget(replayed)
    <3>1. sends[c] <= Budget(call) BY <1>1 DEF CallKept
    <3>2. Budget(replayed) = 2 * (call.attempt - 1) + 1 BY <1>2 DEF Budget, CallType
    <3>3. Budget(call) <= 2 * (call.attempt - 1) + 1 BY <1>2, <1>5 DEF Budget, CallType
    <3> QED BY <1>2, <3>1, <3>2, <3>3 DEF Budget, CallType
  <2>4. c \in Commands => CommandKept(replayed, sends[c], r)
    BY <1>1, <1>2, <1>5 DEF CallKept, CommandKept, CallType, IsReplayable, IsRejectedOutright
  <2>5. CallKept(c, replayed, sends[c], r)
    BY <1>1, <1>2, <2>2, <2>3, <2>4 DEF CallKept, CallType
  <2>6. replayed.at = "session" BY <1>2 DEF CallType
  <2> HIDE DEF replayed
  <2> QED BY <2>1, <2>5, <2>6
<1>6. CASE /\ ~(~call.recovered /\ IsReplayable(c, error))
           /\ c \notin Commands /\ IsWorthRetrying(error)
           /\ call.attempt < MaxAttempts /\ Delays(hint, call.attempt) # {}
           /\ c \notin aborted
  <2>1. PICK d \in Delays(hint, call.attempt) :
          calls' = [calls EXCEPT ![c] = [call EXCEPT !.at = "backoff", !.wait = d]]
    BY <1>6 DEF Fail
  <2> DEFINE later == [call EXCEPT !.at = "backoff", !.wait = d]
  <2>2. d \in 0..MaxDelay BY DelaysCapped
  <2>3. later \in CallType BY <1>2, <2>2 DEF CallType
  <2>4. sends[c] <= Budget(later)
    <3>1. sends[c] <= Budget(call) BY <1>1 DEF CallKept
    <3>2. Budget(later) = 2 * (call.attempt - 1) + 2 BY <1>2 DEF Budget, CallType
    <3>3. Budget(call) <= 2 * (call.attempt - 1) + 2 BY <1>2 DEF Budget, CallType
    <3>4. Budget(call) \in Int BY <1>2 DEF Budget, CallType
    <3> QED BY <1>2, <3>1, <3>2, <3>3, <3>4 DEF CallType
  <2>5. CallKept(c, later, sends[c], r)
    BY <1>1, <1>2, <1>6, <2>3, <2>4 DEF CallKept, CallType
  <2>6. later.at = "backoff" BY <1>2 DEF CallType
  <2>7. calls' = [calls EXCEPT ![c] = later] BY <2>1
  <2> HIDE DEF later
  <2> QED BY <2>5, <2>6, <2>7
<1>7. CASE /\ ~(~call.recovered /\ IsReplayable(c, error))
           /\ ~( /\ c \notin Commands /\ IsWorthRetrying(error)
                 /\ call.attempt < MaxAttempts /\ Delays(hint, call.attempt) # {}
                 /\ c \notin aborted)
  <2>1. calls' = [calls EXCEPT ![c] = Ended(c)] BY <1>7 DEF Fail
  <2> QED BY <1>3, <1>4, <2>1
<1> QED BY <1>5, <1>6, <1>7
-----------------------------------------------------------------------------
\* One call changes: the rest of the invariant is left to the queue.
LEMMA OneCallChanges ==
  ASSUME ClientInv, PacingInv', QueueKept', NEW c \in Callers, NEW call, NEW n, NEW r,
         calls' = [calls EXCEPT ![c] = call],
         sends' = [sends EXCEPT ![c] = n],
         rejected' = [rejected EXCEPT ![c] = r],
         CallKept(c, call, n, r)
  PROVE  ClientInv'
<1>1. call \in CallType /\ n \in Nat /\ r \in BOOLEAN BY DEF CallKept
<1>2. /\ calls \in [Callers -> CallType]
      /\ sends \in [Callers -> Nat] /\ rejected \in [Callers -> BOOLEAN]
  BY DEF ClientInv
<1>3. /\ calls' \in [Callers -> CallType]
      /\ sends' \in [Callers -> Nat] /\ rejected' \in [Callers -> BOOLEAN]
  BY <1>1, <1>2
<1>4. ASSUME NEW d \in Callers
      PROVE  CallKept(d, calls'[d], sends'[d], rejected'[d])
  <2>1. CASE d = c
    <3>1. calls'[d] = call /\ sends'[d] = n /\ rejected'[d] = r BY <1>2, <2>1
    <3> QED BY <2>1, <3>1
  <2>2. CASE d # c
    <3>1. calls'[d] = calls[d] /\ sends'[d] = sends[d] /\ rejected'[d] = rejected[d]
      BY <1>2, <2>2
    <3> QED BY <3>1 DEF ClientInv
  <2> QED BY <2>1, <2>2
<1>5. (\A d \in Callers : CallKept(d, calls[d], sends[d], rejected[d]))'
  BY <1>4 DEF CallKept, CallType, CommandKept, Budget
<1>6. (calls \in [Callers -> CallType])' BY <1>3 DEF CallType
<1> QED BY <1>3, <1>5, <1>6 DEF ClientInv

\* The call at the head of the chain moves on, and leaves the chain.
LEMMA HeadLeaves ==
  ASSUME ClientInv, NEW c \in Callers, First(c), chain' = Tail(chain),
         NEW call, calls' = [calls EXCEPT ![c] = call]
  PROVE  QueueKept'
<1>1. chain \in Seq(Callers) /\ chain # <<>> /\ chain[1] = c
  BY DEF ClientInv, PacingInv, PacingTypeOK, First
<1>2. \A i \in DOMAIN chain' : /\ i \in Nat /\ i + 1 \in DOMAIN chain /\ i + 1 # 1
                              /\ chain'[i] = chain[i + 1]
  BY <1>1
<1>3. 1 \in DOMAIN chain BY <1>1
<1>4. \A i \in DOMAIN chain' : chain'[i] # c /\ chain'[i] \in Callers
  BY <1>1, <1>2, <1>3 DEF ClientInv, QueueKept
<1>5. \A i, j \in DOMAIN chain' : chain'[i] = chain'[j] => i = j
  BY <1>2 DEF ClientInv, QueueKept
<1>6. \A i \in DOMAIN chain' : calls'[chain'[i]].at = "pacing"
  <2>1. TAKE i \in DOMAIN chain'
  <2>2. calls'[chain'[i]] = calls[chain'[i]] BY <1>4 DEF ClientInv
  <2> QED BY <1>2, <2>2 DEF ClientInv, QueueKept
<1> QED BY <1>5, <1>6 DEF QueueKept

\* A call that is not queueing moves on; the chain stands.
LEMMA ChainStands ==
  ASSUME ClientInv, NEW c \in Callers, chain' = chain,
         NEW call, calls' = [calls EXCEPT ![c] = call],
         calls[c].at # "pacing" \/ call.at = "pacing"
  PROVE  QueueKept'
<1>1. \A i \in DOMAIN chain : chain[i] \in Callers
  BY DEF ClientInv, PacingInv, PacingTypeOK
<1>2. \A i \in DOMAIN chain : calls'[chain[i]].at = "pacing"
  BY <1>1 DEF ClientInv, QueueKept
<1> QED BY <1>2 DEF ClientInv, QueueKept

\* The head of the chain is queueing.
LEMMA HeadWaits ==
  ASSUME ClientInv, NEW c \in Callers, First(c)
  PROVE  calls[c].at = "pacing"
<1>1. chain \in Seq(Callers) /\ chain # <<>> /\ chain[1] = c /\ 1 \in DOMAIN chain
  BY DEF ClientInv, PacingInv, PacingTypeOK, First
<1> QED BY <1>1 DEF ClientInv, QueueKept
-----------------------------------------------------------------------------
(* A step of the client, kind by kind.                                     *)

\* A failure in the queue: the head leaves, and its attempt has failed.
LEMMA HeadFails ==
  ASSUME ClientInv, PacingInv', NEW c \in Callers, NEW error,
         First(c), chain' = Tail(chain), Fail(c, error, {}), UNCHANGED <<sends, rejected>>
  PROVE  ClientInv'
<1>1. calls[c].at = "pacing" BY HeadWaits
<1>2. rejected[c] \in BOOLEAN /\ {} \in SUBSET Int BY DEF ClientInv
<1>3. PICK call : /\ calls' = [calls EXCEPT ![c] = call]
                  /\ CallKept(c, call, sends[c], rejected[c])
  BY <1>1, <1>2, FailKeeps
<1>4. QueueKept' BY <1>3, HeadLeaves
<1>5. sends' = [sends EXCEPT ![c] = sends[c]] /\ rejected' = [rejected EXCEPT ![c] = rejected[c]]
  BY DEF ClientInv
<1> QED BY <1>3, <1>4, <1>5, OneCallChanges

\* A failure out of the queue.
LEMMA CallFails ==
  ASSUME ClientInv, PacingInv', NEW c \in Callers, NEW error, NEW hint \in SUBSET Int,
         calls[c].at \in {"session", "sent"}, chain' = chain,
         Fail(c, error, hint), sends' = sends,
         NEW r \in BOOLEAN, rejected' = [rejected EXCEPT ![c] = r],
         IF calls[c].at = "sent" THEN r = (error = "SESSION_EXPIRED") ELSE r = rejected[c]
  PROVE  ClientInv'
<1>1. PICK call : /\ calls' = [calls EXCEPT ![c] = call]
                  /\ CallKept(c, call, sends[c], r)
  BY FailKeeps
<1>2. QueueKept' BY <1>1, ChainStands
<1>3. sends' = [sends EXCEPT ![c] = sends[c]] BY DEF ClientInv
<1> QED BY <1>1, <1>2, <1>3, OneCallChanges

LEMMA StartKeeps ==
  ASSUME ClientInv, PacingInv', NEW c \in Callers, Start(c)
  PROVE  ClientInv'
<1> DEFINE call == [calls[c] EXCEPT !.at = "session"]
<1>1. CallKept(c, calls[c], sends[c], rejected[c]) /\ calls[c] \in CallType
  BY DEF ClientInv
<1>2. /\ calls[c].at = "idle" /\ chain' = chain
      /\ calls' = [calls EXCEPT ![c] = call]
      /\ sends' = [sends EXCEPT ![c] = sends[c]] /\ rejected' = [rejected EXCEPT ![c] = rejected[c]]
  BY DEF Start, pacing, ClientInv
<1>3. call \in CallType BY <1>1 DEF CallType
<1>4. CallKept(c, call, sends[c], rejected[c])
  BY <1>1, <1>2, <1>3 DEF CallKept, CommandKept, Budget, CallType
<1> HIDE DEF call
<1>5. QueueKept' BY <1>2, ChainStands
<1> QED BY <1>2, <1>4, <1>5, OneCallChanges

LEMMA SessionResolvedKeeps ==
  ASSUME ClientInv, PacingInv', NEW c \in Callers, SessionResolved(c)
  PROVE  ClientInv'
<1> DEFINE call == [calls[c] EXCEPT !.at = "pacing"]
<1>1. CallKept(c, calls[c], sends[c], rejected[c]) /\ calls[c] \in CallType
  BY DEF ClientInv
<1>2. /\ calls[c].at = "session" /\ ~InChain(c) /\ chain' = Append(chain, c)
      /\ calls' = [calls EXCEPT ![c] = call]
      /\ sends' = [sends EXCEPT ![c] = sends[c]] /\ rejected' = [rejected EXCEPT ![c] = rejected[c]]
  BY DEF SessionResolved, Acquire, ClientInv
<1>3. call \in CallType /\ call.at = "pacing" BY <1>1 DEF CallType
<1>4. CallKept(c, call, sends[c], rejected[c])
  BY <1>1, <1>2, <1>3 DEF CallKept, CommandKept, Budget, CallType
<1> HIDE DEF call
<1>5. QueueKept'
  <2>1. chain \in Seq(Callers) BY DEF ClientInv, PacingInv, PacingTypeOK
  <2>2. \A i \in DOMAIN chain' :
          \/ i \in DOMAIN chain /\ chain'[i] = chain[i] /\ chain[i] # c /\ chain[i] \in Callers
          \/ i = Len(chain) + 1 /\ chain'[i] = c
    BY <1>2, <2>1 DEF InChain
  <2>3. \A i, j \in DOMAIN chain' : chain'[i] = chain'[j] => i = j
    BY <2>2 DEF ClientInv, QueueKept
  <2>4. \A i \in DOMAIN chain' : calls'[chain'[i]].at = "pacing"
    BY <1>2, <1>3, <2>2 DEF ClientInv, QueueKept
  <2> QED BY <2>3, <2>4 DEF QueueKept
<1> QED BY <1>2, <1>4, <1>5, OneCallChanges

LEMMA SendKeeps ==
  ASSUME ClientInv, PacingInv', NEW c \in Callers, Send(c)
  PROVE  ClientInv'
<1> DEFINE call == [calls[c] EXCEPT !.at = "sent"]
<1>1. CallKept(c, calls[c], sends[c], rejected[c]) /\ calls[c] \in CallType
  BY DEF ClientInv
<1>2. First(c) /\ chain' = Tail(chain)
  BY DEF Send, Grants, GrantedAtOnce, Wakes, AtTurn, Claim
<1>3. /\ calls' = [calls EXCEPT ![c] = call]
      /\ sends' = [sends EXCEPT ![c] = sends[c] + 1]
      /\ rejected' = [rejected EXCEPT ![c] = rejected[c]]
  BY DEF Send, ClientInv
<1>4. calls[c].at = "pacing" BY <1>2, HeadWaits
<1>5. call \in CallType BY <1>1 DEF CallType
<1>6. CallKept(c, call, sends[c] + 1, rejected[c])
  BY <1>1, <1>4, <1>5 DEF CallKept, CommandKept, Budget, CallType
<1> HIDE DEF call
<1>7. QueueKept' BY <1>2, <1>3, HeadLeaves
<1> QED BY <1>3, <1>6, <1>7, OneCallChanges

LEMMA AnsweredKeeps ==
  ASSUME ClientInv, PacingInv', NEW c \in Callers, Answered(c)
  PROVE  ClientInv'
<1>1. CallKept(c, calls[c], sends[c], rejected[c]) /\ calls[c] \in CallType
  BY DEF ClientInv
<1>2. calls[c].at = "sent" /\ chain' = chain /\ rejected' = [rejected EXCEPT ![c] = FALSE]
  BY DEF Answered, pacing
<1>3. CASE calls[c].left = 1
  <2>1. calls' = [calls EXCEPT ![c] = Ended(c)] /\ sends' = [sends EXCEPT ![c] = sends[c]]
    BY <1>3 DEF Answered
  <2>2. CallKept(c, Ended(c), sends[c], FALSE) BY <1>1, EndedKept
  <2>3. QueueKept' BY <1>2, <2>1, ChainStands
  <2> QED BY <1>2, <2>1, <2>2, <2>3, OneCallChanges
<1>4. CASE calls[c].left # 1
  <2> DEFINE left == calls[c].left - 1
             call == [New(c) EXCEPT !.at = "session", !.left = left]
  <2>1. calls' = [calls EXCEPT ![c] = call] /\ sends' = [sends EXCEPT ![c] = 0]
    BY <1>4 DEF Answered, ClientInv
  <2>2. left \in Nat /\ left # 0 /\ left <= Batches[c]
    BY <1>1, <1>4, ClientAssumption DEF CallKept
  <2>3. CallKept(c, call, 0, FALSE) BY <2>2, NewKept
  <2> HIDE DEF call
  <2>4. QueueKept' BY <1>2, <2>1, ChainStands
  <2> QED BY <1>2, <2>1, <2>3, <2>4, OneCallChanges
<1> QED BY <1>3, <1>4

LEMMA BackoffEndsKeeps ==
  ASSUME ClientInv, PacingInv', NEW c \in Callers, BackoffEnds(c)
  PROVE  ClientInv'
<1> DEFINE call == [calls[c] EXCEPT !.at = "session", !.attempt = @ + 1, !.recovered = FALSE]
<1>1. CallKept(c, calls[c], sends[c], rejected[c]) /\ calls[c] \in CallType
  BY DEF ClientInv
<1>2. /\ calls[c].at = "backoff" /\ chain' = chain
      /\ calls' = [calls EXCEPT ![c] = call]
      /\ sends' = [sends EXCEPT ![c] = sends[c]] /\ rejected' = [rejected EXCEPT ![c] = rejected[c]]
  BY DEF BackoffEnds, pacing, ClientInv
<1>3. call \in CallType
  <2>1. calls[c].attempt + 1 \in 1..MaxAttempts
    BY <1>1, <1>2, ClientAssumption DEF CallKept, CallType
  <2> QED BY <1>1, <2>1 DEF CallType
<1>4. CallKept(c, call, sends[c], rejected[c])
  BY <1>1, <1>2, <1>3 DEF CallKept, CommandKept, Budget, CallType
<1> HIDE DEF call
<1>5. QueueKept' BY <1>2, ChainStands
<1> QED BY <1>2, <1>4, <1>5, OneCallChanges

LEMMA AbortKeeps ==
  ASSUME ClientInv, PacingInv', NEW c \in Callers, AbortCall(c)
  PROVE  ClientInv'
<1>1. CallKept(c, calls[c], sends[c], rejected[c])
  BY DEF ClientInv
<1>2. sends' = [sends EXCEPT ![c] = sends[c]] /\ rejected' = [rejected EXCEPT ![c] = rejected[c]]
  BY DEF AbortCall, ClientInv
<1>3. CallKept(c, Ended(c), sends[c], rejected[c])
  BY <1>1, EndedKept DEF CallKept
<1>4. CASE First(c) /\ sleeping >= 0
  <2>1. chain' = Tail(chain) /\ calls' = [calls EXCEPT ![c] = Ended(c)]
    BY <1>4 DEF AbortCall, Abort, Reject
  <2>2. QueueKept' BY <1>4, <2>1, HeadLeaves
  <2> QED BY <1>2, <1>3, <2>1, <2>2, OneCallChanges
<1>5. CASE ~(First(c) /\ sleeping >= 0) /\ calls[c].at = "backoff"
  <2>1. chain' = chain /\ calls' = [calls EXCEPT ![c] = Ended(c)]
    BY <1>5 DEF AbortCall, Abort
  <2>2. QueueKept' BY <1>5, <2>1, ChainStands
  <2> QED BY <1>2, <1>3, <2>1, <2>2, OneCallChanges
<1>6. CASE ~(First(c) /\ sleeping >= 0) /\ calls[c].at # "backoff"
  <2>1. chain' = chain /\ calls' = [calls EXCEPT ![c] = calls[c]]
    BY <1>6 DEF AbortCall, Abort, ClientInv
  <2>2. QueueKept' BY <1>6, <2>1 DEF ClientInv, QueueKept
  <2> QED BY <1>1, <1>2, <2>1, <2>2, OneCallChanges
<1> QED BY <1>4, <1>5, <1>6

\* A back-off runs down; nothing else of a call is touched by the clock.
LEMMA ClockKeeps ==
  ASSUME ClientInv, PacingInv', Tick
  PROVE  ClientInv'
<1> DEFINE Later(call) == IF call.wait > 0 THEN [call EXCEPT !.wait = @ - 1] ELSE call
<1>1. /\ chain' = chain /\ sends' = sends /\ rejected' = rejected
      /\ calls' = [c \in Callers |-> Later(calls[c])]
  BY DEF Tick, PacingTick
<1>2. ASSUME NEW c \in Callers
      PROVE  /\ Later(calls[c]) \in CallType
             /\ Later(calls[c]).at = calls[c].at /\ Later(calls[c]).left = calls[c].left
             /\ Later(calls[c]).attempt = calls[c].attempt
             /\ Later(calls[c]).recovered = calls[c].recovered
  <2>1. calls[c] \in CallType BY DEF ClientInv
  <2>2. MaxDelay \in Nat BY ClientAssumption
  <2> QED BY <2>1, <2>2 DEF CallType
<1> HIDE DEF Later
<1>3. calls' \in [Callers -> CallType] BY <1>1, <1>2
<1>4. ASSUME NEW c \in Callers PROVE CallKept(c, calls'[c], sends'[c], rejected'[c])
  <2>1. CallKept(c, calls[c], sends[c], rejected[c]) BY DEF ClientInv
  <2>2. calls'[c] = Later(calls[c]) BY <1>1
  <2> QED BY <1>1, <1>2, <2>1, <2>2 DEF CallKept, CommandKept, Budget
<1>5. QueueKept'
  <2>1. \A i \in DOMAIN chain : chain[i] \in Callers
    BY DEF ClientInv, PacingInv, PacingTypeOK
  <2> QED BY <1>1, <1>2, <2>1 DEF ClientInv, QueueKept
<1>6. (calls \in [Callers -> CallType])' BY <1>3 DEF CallType
<1>7. (\A c \in Callers : CallKept(c, calls[c], sends[c], rejected[c]))'
  BY <1>4 DEF CallKept, CallType, CommandKept, Budget
<1>8. (sends \in [Callers -> Nat])' /\ (rejected \in [Callers -> BOOLEAN])'
  BY <1>1 DEF ClientInv
<1> QED BY <1>5, <1>6, <1>7, <1>8 DEF ClientInv
-----------------------------------------------------------------------------
LEMMA ClientInvInit == Init => ClientInv
<1> SUFFICES ASSUME Init PROVE ClientInv OBVIOUS
<1>1. PacingInv BY PacingInvInit DEF Init
<1>2. chain = <<>> BY DEF Init, PacingInit
<1>3. QueueKept BY <1>2 DEF QueueKept
<1>4. ASSUME NEW c \in Callers PROVE CallKept(c, New(c), 0, FALSE)
  <2>1. Batches[c] \in Nat /\ Batches[c] <= Batches[c] /\ Batches[c] # 0 BY ClientAssumption
  <2>2. FALSE \in BOOLEAN OBVIOUS
  <2> QED BY <2>1, <2>2, NewKept
<1>5. \A c \in Callers : CallKept(c, calls[c], sends[c], rejected[c]) BY <1>4 DEF Init
<1>6. calls \in [Callers -> CallType] BY <1>4 DEF Init, CallKept
<1> QED BY <1>1, <1>3, <1>5, <1>6 DEF ClientInv, Init

LEMMA ClientInvStep == ClientInv /\ [Next]_vars => ClientInv'
<1> SUFFICES ASSUME ClientInv, [Next]_vars PROVE ClientInv' OBVIOUS
<1>1. PacingInv' BY ClientStepPaces, PacingInvStep DEF ClientInv
<1>2. ASSUME NEW c \in Callers, Start(c) PROVE ClientInv' BY <1>1, <1>2, StartKeeps
<1>3. ASSUME NEW c \in Callers, SessionResolved(c) PROVE ClientInv'
  BY <1>1, <1>3, SessionResolvedKeeps
<1>4. ASSUME NEW c \in Callers, NoAnswer(c) PROVE ClientInv'
  <2>1. PICK error \in Outcomes : NoSession(c, error) BY <1>4 DEF NoAnswer
  <2>2. /\ calls[c].at = "session" /\ Fail(c, error, {}) /\ chain' = chain
        /\ sends' = sends /\ rejected' = [rejected EXCEPT ![c] = rejected[c]]
        /\ rejected[c] \in BOOLEAN /\ {} \in SUBSET Int
    BY <2>1 DEF NoSession, pacing, ClientInv
  <2> QED BY <1>1, <2>2, CallFails
<1>5. ASSUME NEW c \in Callers, Turn(c) PROVE ClientInv'
  <2>1. CASE PacingRefuses(c) \/ PacingAborts(c)
    <3>1. PICK error : Fail(c, error, {}) BY <2>1 DEF PacingRefuses, PacingAborts
    <3>2. First(c) /\ chain' = Tail(chain) /\ UNCHANGED <<sends, rejected>>
      BY <2>1 DEF PacingRefuses, PacingAborts, Refused, AbortedAtTurn, AtTurn, Reject
    <3> QED BY <1>1, <3>1, <3>2, HeadFails
  <2>2. CASE BreakerRefuses(c) \/ SendRefused(c)
    <3>1. PICK error : Fail(c, error, {}) BY <2>2 DEF BreakerRefuses, SendRefused
    <3>2. First(c) /\ chain' = Tail(chain) /\ UNCHANGED <<sends, rejected>>
      BY <2>2 DEF BreakerRefuses, SendRefused, Grants, GrantedAtOnce, Wakes, AtTurn, Claim
    <3> QED BY <1>1, <3>1, <3>2, HeadFails
  <2>3. CASE PacingSleeps(c)
    <3>1. chain' = chain /\ UNCHANGED <<calls, sends, rejected>>
      BY <2>3 DEF PacingSleeps, FallsAsleep, clientVars
    <3> QED BY <1>1, <3>1 DEF ClientInv, QueueKept, CallKept, CallType, CommandKept, Budget
  <2>4. CASE Send(c) BY <1>1, <2>4, SendKeeps
  <2> QED BY <1>5, <2>1, <2>2, <2>3, <2>4 DEF Turn
<1>6. ASSUME NEW c \in Callers, Answered(c) PROVE ClientInv' BY <1>1, <1>6, AnsweredKeeps
<1>7. ASSUME NEW c \in Callers, AnyFailure(c) PROVE ClientInv'
  <2>1. PICK error \in Outcomes \cup {"OPERATION_ABORTED"}, header \in Headers :
          AnsweredBadly(c, error, IF error = "RATE_LIMIT_ERROR" THEN RetryAfter(header) ELSE {})
    BY <1>7 DEF AnyFailure
  <2> DEFINE hint == IF error = "RATE_LIMIT_ERROR" THEN RetryAfter(header) ELSE {}
  <2>2. hint \in SUBSET Int
    <3>1. header.value \in Int BY ClientAssumption
    <3> QED BY <3>1 DEF RetryAfter
  <2> HIDE DEF hint
  <2>3. AnsweredBadly(c, error, hint) BY <2>1 DEF hint
  <2>4. /\ calls[c].at = "sent" /\ Fail(c, error, hint) /\ chain' = chain /\ sends' = sends
        /\ rejected' = [rejected EXCEPT ![c] = (error = "SESSION_EXPIRED")]
    BY <2>3 DEF AnsweredBadly, pacing
  <2>5. (error = "SESSION_EXPIRED") \in BOOLEAN OBVIOUS
  <2> QED BY <1>1, <2>2, <2>4, <2>5, CallFails
<1>8. ASSUME NEW c \in Callers, BackoffEnds(c) PROVE ClientInv'
  BY <1>1, <1>8, BackoffEndsKeeps
<1>9. ASSUME NEW c \in Callers, AbortCall(c) PROVE ClientInv' BY <1>1, <1>9, AbortKeeps
<1>10. CASE Tick BY <1>1, <1>10, ClockKeeps
<1>11. CASE UNCHANGED vars
  <2>1. UNCHANGED <<chain, calls, sends, rejected>> BY <1>11 DEF vars, pacing, clientVars
  <2> QED BY <1>1, <2>1 DEF ClientInv, QueueKept, CallKept, CallType, CommandKept, Budget
<1> QED BY <1>2, <1>3, <1>4, <1>5, <1>6, <1>7, <1>8, <1>9, <1>10, <1>11 DEF Next

LEMMA ClientInvHolds == Spec => []ClientInv
BY ClientInvInit, ClientInvStep, PTL DEF Spec

\* Whatever fails, lapses or is aborted: the calls keep their type and their cap on a
\* back-off, the window its ceiling, and no request is sent more than twice an attempt.
THEOREM CallsAreSound == Spec => []CallsSound
<1>1. ClientInv => CallsSound
  <2> SUFFICES ASSUME ClientInv PROVE CallsSound OBVIOUS
  <2>1. ClientTypeOK BY DEF ClientInv, PacingInv, ClientTypeOK
  <2>2. WindowKept BY DEF ClientInv, PacingInv, WindowKept
  <2>3. ASSUME NEW c \in Callers PROVE sends[c] <= 2 * MaxAttempts
    <3>1. CallKept(c, calls[c], sends[c], rejected[c]) BY DEF ClientInv
    <3>2. CallKept(c, Ended(c), sends[c], TRUE) BY <3>1, EndedKept
    <3> QED BY <3>2 DEF CallKept, Ended, New
  <2> QED BY <2>1, <2>2, <2>3 DEF CallsSound, SendsBounded
<1> QED BY <1>1, ClientInvHolds, PTL

\* A step that sends for c is its Send, and c was queueing.
LEMMA SenderWaited ==
  ASSUME ClientInv, [Next]_vars, NEW c \in Callers, Sends(c)
  PROVE  Send(c) /\ calls[c].at = "pacing"
<1>1. sends[c] \in Nat /\ sends'[c] > sends[c] BY DEF Sends, ClientInv
<1>2. sends' # sends BY <1>1
<1>3. ASSUME NEW d \in Callers, Answered(d) PROVE FALSE
  BY <1>1, <1>3 DEF Answered, ClientInv
<1>4. ASSUME NEW d \in Callers, Turn(d) PROVE Send(c) /\ calls[c].at = "pacing"
  <2>1. Send(d)
    BY <1>2, <1>4 DEF Turn, PacingRefuses, PacingAborts, PacingSleeps, BreakerRefuses,
                      SendRefused, clientVars
  <2>2. d = c BY <1>1, <2>1 DEF Send, ClientInv
  <2>3. First(c) BY <2>1, <2>2 DEF Send, Grants, GrantedAtOnce, Wakes, AtTurn
  <2> QED BY <2>1, <2>2, <2>3, HeadWaits
<1>5. ASSUME NEW d \in Callers,
             Start(d) \/ SessionResolved(d) \/ NoAnswer(d) \/ AnyFailure(d) \/ BackoffEnds(d)
               \/ AbortCall(d)
      PROVE  FALSE
  BY <1>2, <1>5 DEF Start, SessionResolved, NoAnswer, NoSession, AnyFailure, AnsweredBadly,
                    BackoffEnds, AbortCall
<1>6. ~Tick BY <1>2 DEF Tick
<1>7. ~UNCHANGED vars BY <1>2 DEF vars, clientVars
<1> QED BY <1>3, <1>4, <1>5, <1>6, <1>7 DEF Next

\* A command goes out again only after Alarm.com rejected it outright, and only once.
THEOREM CommandsAreNotRepeated == Spec => CommandNotRepeated
<1>1. ClientInv /\ [Next]_vars
        => [\A c \in Commands : Sends(c) /\ sends[c] > 0 => sends[c] = 1 /\ rejected[c]]_vars
  <2> SUFFICES ASSUME ClientInv, [Next]_vars, NEW c \in Commands, Sends(c), sends[c] > 0
               PROVE  sends[c] = 1 /\ rejected[c]
    OBVIOUS
  <2>1. c \in Callers BY ClientAssumption
  <2>2. calls[c].at = "pacing" BY <2>1, SenderWaited
  <2>3. CommandKept(calls[c], sends[c], rejected[c]) BY <2>1 DEF ClientInv, CallKept
  <2> QED BY <2>2, <2>3 DEF CommandKept
<1> QED BY <1>1, ClientInvHolds, PTL DEF Spec, CommandNotRepeated
-----------------------------------------------------------------------------
(* A call stays away for as long as it must: what it still owes Alarm.com  *)
(* is never more than what is left of its back-off.                        *)

RespiteKept(call, h) ==
  /\ call.at \in {"idle", "session", "pacing", "sent"} => h = 0
  /\ call.at = "backoff" => h <= call.wait

RespiteInv ==
  /\ ClientInv
  /\ held \in [Callers -> Nat]
  /\ \A c \in Callers : RespiteKept(calls[c], held[c])

LEMMA ExponentialType ==
  ASSUME NEW attempt \in 1..MaxAttempts
  PROVE  Exponential(attempt) \in Nat
<1> DEFINE power == 2 ^ (attempt - 1)
<1>1. power \in Nat
  <2>1. attempt - 1 \in 0..MaxAttempts BY ClientAssumption
  <2> QED BY <2>1, PowersAssumption
<1> HIDE DEF power
<1>2. BaseDelay * power \in Nat BY <1>1, ClientAssumption
<1>3. Least(BaseDelay * power, MaxDelay) \in Nat BY <1>2, ClientAssumption DEF Least
<1> QED BY <1>3 DEF Exponential, power

\* Every delay a retry may choose covers what the call owes.
LEMMA DelayCoversRespite ==
  ASSUME ClientInv, NEW c \in Callers, NEW header \in Headers,
         NEW hint \in {{}, RetryAfter(header)}
  PROVE  /\ Respite(c, hint) \in Nat
         /\ \A d \in Delays(hint, calls[c].attempt) : Respite(c, hint) <= d
<1> DEFINE attempt == calls[c].attempt
           E == Exponential(attempt)
           part == (3 * E) \div 4
           owed == hint \cup {part}
<1>1. E \in Nat
  <2>1. attempt \in 1..MaxAttempts BY DEF ClientInv, CallType
  <2> QED BY <2>1, ExponentialType
<1>2. \A b \in Backoffs(attempt) : b \in Nat /\ b <= MaxDelay /\ part <= b
  <2> HIDE DEF E
  <2>1. TAKE b \in Backoffs(attempt)
  <2>2. b \in 0..MaxDelay /\ 4 * b \in (3 * E)..(5 * E) BY DEF Backoffs, E
  <2>3. b \in Nat /\ b <= MaxDelay /\ 3 * E <= 4 * b BY <1>1, <2>2, ClientAssumption
  <2> QED BY <1>1, <2>3
<1>3. part \in Nat
  <2> HIDE DEF E
  <2> QED BY <1>1
<1>4. hint = {} \/ \E h \in Nat : hint = {h}
  <2>1. /\ header \in [kind : {"absent", "seconds", "date"}, value : Int]
        /\ header.kind = "seconds" => header.value >= 0
    BY ClientAssumption
  <2> QED BY <2>1 DEF RetryAfter
<1> HIDE DEF part
<1>5. Respite(c, hint) = CHOOSE d \in owed : \A h \in owed : h <= d
  BY DEF Respite, part
<1>6. CASE hint = {}
  <2>1. owed = {part} BY <1>6
  <2>2. Respite(c, hint) = part BY <1>3, <1>5, <2>1
  <2>3. Delays(hint, attempt) = Backoffs(attempt) BY <1>6 DEF Delays
  <2> QED BY <1>2, <1>3, <2>2, <2>3
<1>7. ASSUME NEW h \in Nat, hint = {h}
      PROVE  /\ Respite(c, hint) \in Nat
             /\ \A d \in Delays(hint, attempt) : Respite(c, hint) <= d
  <2>1. owed = {h, part} BY <1>7
  <2>2. \E d \in owed : \A g \in owed : g <= d
    <3>1. h <= part \/ part <= h BY <1>3
    <3> QED BY <1>3, <2>1, <3>1
  <2> DEFINE r == Respite(c, hint)
  <2>3. r \in owed
    <3> HIDE DEF owed
    <3> QED BY <1>5, <2>2
  <2>4. r \in Nat /\ r \in {h, part} BY <1>3, <2>1, <2>3
  <2>5. ASSUME NEW d \in Delays(hint, attempt) PROVE r <= d
    <3>1. PICK b \in Backoffs(attempt) : d = IF h < b THEN b ELSE h
      BY <1>7 DEF Delays
    <3>2. d \in Nat /\ h <= d /\ b <= d BY <1>2, <3>1
    <3> HIDE DEF r
    <3> QED BY <1>2, <1>3, <2>4, <3>2
  <2> QED BY <2>4, <2>5
<1> QED BY <1>4, <1>6, <1>7

\* What becomes of a call whose attempt has failed.
LEMMA FailLeads ==
  ASSUME ClientInv, NEW c \in Callers, NEW error, NEW hint, Fail(c, error, hint)
  PROVE  \E next :
           /\ calls' = [calls EXCEPT ![c] = next]
           /\ \/ next.at = "ended"
              \/ next.at = "session" /\ IsReplayable(c, error)
              \/ next.at = "backoff" /\ next.wait \in Delays(hint, calls[c].attempt)
<1> DEFINE call == calls[c]
           replayed == [call EXCEPT !.at = "session", !.recovered = TRUE]
<1>1. call \in CallType BY DEF ClientInv
<1>2. CASE calls' = [calls EXCEPT ![c] = Ended(c)]
  <2>1. Ended(c).at = "ended" BY DEF Ended, New
  <2> QED BY <1>2, <2>1
<1>3. CASE calls' = [calls EXCEPT ![c] = replayed] /\ IsReplayable(c, error)
  <2>1. replayed.at = "session" BY <1>1 DEF CallType
  <2> HIDE DEF replayed
  <2> QED BY <1>3, <2>1
<1>4. ASSUME NEW d \in Delays(hint, call.attempt),
             calls' = [calls EXCEPT ![c] = [call EXCEPT !.at = "backoff", !.wait = d]]
      PROVE  \E next : /\ calls' = [calls EXCEPT ![c] = next]
                       /\ next.at = "backoff" /\ next.wait \in Delays(hint, calls[c].attempt)
  <2> DEFINE later == [call EXCEPT !.at = "backoff", !.wait = d]
  <2>1. later.at = "backoff" /\ later.wait = d BY <1>1 DEF CallType
  <2>2. calls' = [calls EXCEPT ![c] = later] BY <1>4
  <2> HIDE DEF later
  <2> QED BY <2>1, <2>2
<1> QED BY <1>2, <1>3, <1>4 DEF Fail

\* One call changes, and owes h.
LEMMA OneRespiteChanges ==
  ASSUME RespiteInv, ClientInv', NEW c \in Callers, NEW next, NEW h \in Nat,
         calls' = [calls EXCEPT ![c] = next], held' = [held EXCEPT ![c] = h],
         RespiteKept(next, h)
  PROVE  RespiteInv'
<1>1. calls \in [Callers -> CallType] /\ held \in [Callers -> Nat]
  BY DEF RespiteInv, ClientInv
<1>2. ASSUME NEW d \in Callers PROVE RespiteKept(calls'[d], held'[d])
  BY <1>1 DEF RespiteInv
<1>3. (\A d \in Callers : RespiteKept(calls[d], held[d]))' BY <1>2 DEF RespiteKept
<1>4. (held \in [Callers -> Nat])' BY <1>1
<1> QED BY <1>3, <1>4 DEF RespiteInv

\* An attempt that fails before it is sent owes nothing.
LEMMA UnsentFailureOwes ==
  ASSUME RespiteInv, ClientInv', NEW c \in Callers, NEW error,
         calls[c].at \in {"session", "pacing"}, Fail(c, error, {}), held' = held
  PROVE  RespiteInv'
<1>1. held[c] = 0 /\ held' = [held EXCEPT ![c] = 0] BY DEF RespiteInv, RespiteKept
<1>2. ClientInv BY DEF RespiteInv
<1>3. PICK next :
        /\ calls' = [calls EXCEPT ![c] = next]
        /\ \/ next.at = "ended"
           \/ next.at = "session" /\ IsReplayable(c, error)
           \/ next.at = "backoff" /\ next.wait \in Delays({}, calls[c].attempt)
  BY <1>2, FailLeads
<1>4. Delays({}, calls[c].attempt) \subseteq Nat
  <2>1. {} \in SUBSET Int OBVIOUS
  <2> QED BY <2>1, DelaysCapped, ClientAssumption
<1>5. RespiteKept(next, 0) BY <1>3, <1>4 DEF RespiteKept
<1>6. 0 \in Nat OBVIOUS
<1> QED BY <1>1, <1>3, <1>5, <1>6, OneRespiteChanges

\* An answer that is a failure: replayed at once only if it is a lapse.
LEMMA AnswerOwes ==
  ASSUME RespiteInv, ClientInv', NEW c \in Callers, NEW error, NEW header \in Headers,
         NEW hint \in {{}, RetryAfter(header)}, AnsweredBadly(c, error, hint)
  PROVE  RespiteInv'
<1> DEFINE h == IF IsLapsedSession(error) THEN 0 ELSE Respite(c, hint)
<1>1. ClientInv /\ held \in [Callers -> Nat] BY DEF RespiteInv
<1>2. calls[c].at = "sent" /\ held[c] = 0 BY DEF AnsweredBadly, RespiteInv, RespiteKept
<1>3. Fail(c, error, hint) /\ held' = [held EXCEPT ![c] = h]
  BY <1>1, <1>2 DEF AnsweredBadly
<1>4. PICK next :
        /\ calls' = [calls EXCEPT ![c] = next]
        /\ \/ next.at = "ended"
           \/ next.at = "session" /\ IsReplayable(c, error)
           \/ next.at = "backoff" /\ next.wait \in Delays(hint, calls[c].attempt)
  BY <1>1, <1>3, FailLeads
<1>5. /\ Respite(c, hint) \in Nat
      /\ \A d \in Delays(hint, calls[c].attempt) : Respite(c, hint) <= d
  BY <1>1, DelayCoversRespite
<1>6. Delays(hint, calls[c].attempt) \subseteq Nat
  <2>1. hint \in SUBSET Int
    <3>1. header.value \in Int BY ClientAssumption
    <3> QED BY <3>1 DEF RetryAfter
  <2> QED BY <2>1, DelaysCapped, ClientAssumption
<1>7. IsReplayable(c, error) => IsLapsedSession(error)
  BY DEF IsReplayable, IsRejectedOutright, IsLapsedSession
<1>8. h \in Nat /\ RespiteKept(next, h) BY <1>4, <1>5, <1>6, <1>7 DEF RespiteKept
<1> HIDE DEF h
<1> QED BY <1>3, <1>4, <1>8, OneRespiteChanges
-----------------------------------------------------------------------------
LEMMA RespiteInvStep == RespiteInv /\ [Next]_vars => RespiteInv'
<1> SUFFICES ASSUME RespiteInv, [Next]_vars PROVE RespiteInv' OBVIOUS
<1>1. /\ ClientInv /\ ClientInv'
      /\ calls \in [Callers -> CallType] /\ held \in [Callers -> Nat]
  BY ClientInvStep DEF RespiteInv, ClientInv
<1>2. ASSUME NEW c \in Callers, held[c] = 0, held' = held, NEW at \in {"session", "pacing", "sent"},
             calls' = [calls EXCEPT ![c].at = at]
      PROVE  RespiteInv'
  <2>1. RespiteKept([calls[c] EXCEPT !.at = at], 0) BY <1>1 DEF RespiteKept, CallType
  <2>2. held' = [held EXCEPT ![c] = 0] BY <1>1, <1>2
  <2>3. calls' = [calls EXCEPT ![c] = [calls[c] EXCEPT !.at = at]] BY <1>2
  <2> QED BY <1>1, <2>1, <2>2, <2>3, OneRespiteChanges
<1>3. ASSUME NEW c \in Callers, Start(c) \/ SessionResolved(c) PROVE RespiteInv'
  <2>1. held[c] = 0 /\ held' = held
    BY <1>3 DEF Start, SessionResolved, RespiteInv, RespiteKept
  <2> QED BY <1>2, <1>3, <2>1 DEF Start, SessionResolved
<1>4. ASSUME NEW c \in Callers, NoAnswer(c) PROVE RespiteInv'
  <2>1. PICK error \in Outcomes : NoSession(c, error) BY <1>4 DEF NoAnswer
  <2> QED BY <1>1, <2>1, UnsentFailureOwes DEF NoSession
<1>5. ASSUME NEW c \in Callers, Turn(c) PROVE RespiteInv'
  <2>1. First(c)
    BY <1>5 DEF Turn, PacingRefuses, PacingAborts, PacingSleeps, BreakerRefuses, Send,
                SendRefused, Refused, AbortedAtTurn, FallsAsleep, Grants, GrantedAtOnce,
                Wakes, AtTurn
  <2>2. calls[c].at = "pacing" BY <1>1, <2>1, HeadWaits
  <2>3. CASE PacingRefuses(c) \/ PacingAborts(c) \/ BreakerRefuses(c) \/ SendRefused(c)
    <3>1. PICK error : Fail(c, error, {})
      BY <2>3 DEF PacingRefuses, PacingAborts, BreakerRefuses, SendRefused
    <3>2. held' = held BY <2>3 DEF PacingRefuses, PacingAborts, BreakerRefuses, SendRefused
    <3> QED BY <1>1, <2>2, <3>1, <3>2, UnsentFailureOwes
  <2>4. CASE PacingSleeps(c)
    <3>1. UNCHANGED <<calls, held>> BY <2>4 DEF PacingSleeps, clientVars
    <3> QED BY <1>1, <3>1 DEF RespiteInv, RespiteKept
  <2>5. CASE Send(c)
    <3>1. held[c] = 0 BY <2>2 DEF RespiteInv, RespiteKept
    <3>2. held' = held /\ calls' = [calls EXCEPT ![c].at = "sent"] BY <2>5 DEF Send
    <3> QED BY <1>2, <3>1, <3>2
  <2> QED BY <1>5, <2>3, <2>4, <2>5 DEF Turn
<1>6. ASSUME NEW c \in Callers, Answered(c) PROVE RespiteInv'
  <2>1. held[c] = 0 /\ held' = [held EXCEPT ![c] = 0]
    BY <1>1, <1>6 DEF Answered, RespiteInv, RespiteKept
  <2>2. CASE calls[c].left = 1
    <3>1. calls' = [calls EXCEPT ![c] = Ended(c)] BY <1>6, <2>2 DEF Answered
    <3>2. RespiteKept(Ended(c), 0) BY DEF RespiteKept, Ended, New
    <3> QED BY <1>1, <2>1, <3>1, <3>2, OneRespiteChanges
  <2>3. CASE calls[c].left # 1
    <3> DEFINE next == [New(c) EXCEPT !.at = "session", !.left = calls[c].left - 1]
    <3>1. calls' = [calls EXCEPT ![c] = next] BY <1>1, <1>6, <2>3 DEF Answered
    <3>2. RespiteKept(next, 0) BY DEF RespiteKept, New
    <3> HIDE DEF next
    <3> QED BY <1>1, <2>1, <3>1, <3>2, OneRespiteChanges
  <2> QED BY <2>2, <2>3
<1>7. ASSUME NEW c \in Callers, AnyFailure(c) PROVE RespiteInv'
  <2>1. PICK error \in Outcomes \cup {"OPERATION_ABORTED"}, header \in Headers :
          AnsweredBadly(c, error, IF error = "RATE_LIMIT_ERROR" THEN RetryAfter(header) ELSE {})
    BY <1>7 DEF AnyFailure
  <2> DEFINE hint == IF error = "RATE_LIMIT_ERROR" THEN RetryAfter(header) ELSE {}
  <2>2. hint \in {{}, RetryAfter(header)} /\ AnsweredBadly(c, error, hint) BY <2>1
  <2> HIDE DEF hint
  <2> QED BY <1>1, <2>2, AnswerOwes
<1>8. ASSUME NEW c \in Callers, BackoffEnds(c) PROVE RespiteInv'
  <2> DEFINE next ==
        [calls[c] EXCEPT !.at = "session", !.attempt = @ + 1, !.recovered = FALSE]
  <2>1. calls[c].at = "backoff" /\ calls[c].wait = 0 /\ held' = held
        /\ calls' = [calls EXCEPT ![c] = next]
    BY <1>8 DEF BackoffEnds
  <2>2. held[c] <= 0 /\ held[c] \in Nat BY <1>1, <2>1 DEF RespiteInv, RespiteKept
  <2>3. held[c] = 0 /\ held' = [held EXCEPT ![c] = 0] BY <1>1, <2>1, <2>2
  <2>4. RespiteKept(next, 0) BY <1>1 DEF RespiteKept, CallType
  <2> HIDE DEF next
  <2> QED BY <1>1, <2>1, <2>3, <2>4, OneRespiteChanges
<1>9. ASSUME NEW c \in Callers, AbortCall(c) PROVE RespiteInv'
  <2>1. held' = held /\ calls' \in {calls, [calls EXCEPT ![c] = Ended(c)]}
    BY <1>9 DEF AbortCall
  <2>2. CASE calls' = calls BY <1>1, <2>1, <2>2 DEF RespiteInv, RespiteKept
  <2>3. CASE calls' = [calls EXCEPT ![c] = Ended(c)]
    <3>1. RespiteKept(Ended(c), held[c]) BY DEF RespiteKept, Ended, New
    <3>2. held' = [held EXCEPT ![c] = held[c]] /\ held[c] \in Nat BY <1>1, <2>1
    <3> QED BY <1>1, <2>3, <3>1, <3>2, OneRespiteChanges
  <2> QED BY <2>1, <2>2, <2>3
<1>10. CASE Tick
  <2>1. ASSUME NEW c \in Callers
        PROVE  held'[c] \in Nat /\ RespiteKept(calls'[c], held'[c])
    <3> DEFINE call == calls[c]
    <3>1. /\ calls'[c] = IF call.wait > 0 THEN [call EXCEPT !.wait = @ - 1] ELSE call
          /\ held'[c] = Positive(held[c] - 1)
      BY <1>10 DEF Tick
    <3>2. call \in CallType /\ held[c] \in Nat /\ call.wait \in Nat
      BY <1>1, ClientAssumption DEF CallType
    <3>3. /\ calls'[c].at = call.at
          /\ calls'[c].wait = IF call.wait > 0 THEN call.wait - 1 ELSE call.wait
      BY <3>1, <3>2 DEF CallType
    <3>4. RespiteKept(call, held[c]) BY DEF RespiteInv
    <3> HIDE DEF call
    <3>5. held'[c] \in Nat /\ (held[c] = 0 => held'[c] = 0)
          /\ (held[c] > 0 => held'[c] = held[c] - 1)
      BY <3>1, <3>2 DEF Positive
    <3> QED BY <3>2, <3>3, <3>4, <3>5 DEF RespiteKept
  <2>2. held' \in [Callers -> Nat] BY <1>10, <2>1 DEF Tick
  <2>3. (\A c \in Callers : RespiteKept(calls[c], held[c]))' BY <2>1 DEF RespiteKept
  <2> QED BY <1>1, <2>2, <2>3 DEF RespiteInv
<1>11. CASE UNCHANGED vars
  <2>1. UNCHANGED <<calls, held>> BY <1>11 DEF vars, clientVars
  <2> QED BY <1>1, <2>1 DEF RespiteInv, RespiteKept
<1> QED BY <1>3, <1>4, <1>5, <1>6, <1>7, <1>8, <1>9, <1>10, <1>11 DEF Next

\* Nothing is sent for a call that was aborted, nor before the back-off and the time
\* Alarm.com asked for have passed.
THEOREM NothingSentEarly == Spec => SendsAreDue
<1>1. Init => RespiteInv
  <2> SUFFICES ASSUME Init PROVE RespiteInv OBVIOUS
  <2>1. ClientInv BY ClientInvInit
  <2> QED BY <2>1 DEF Init, RespiteInv, RespiteKept, New
<1>2. RespiteInv /\ [Next]_vars
        => [\A c \in Callers : Sends(c) => c \notin aborted /\ held[c] = 0]_vars
  <2> SUFFICES ASSUME RespiteInv, [Next]_vars, NEW c \in Callers, Sends(c)
               PROVE  c \notin aborted /\ held[c] = 0
    OBVIOUS
  <2>1. Send(c) /\ calls[c].at = "pacing" BY SenderWaited DEF RespiteInv
  <2> QED BY <2>1 DEF Send, RespiteInv, RespiteKept
<1> QED BY <1>1, <1>2, RespiteInvStep, PTL DEF Spec, SendsAreDue
=============================================================================
