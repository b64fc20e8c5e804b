------------------------ MODULE OutboundLimiterProofs ------------------------
(***************************************************************************)
(* Proofs about the limiters, for any callers, rates and bursts: the       *)
(* outbound one, with its invariant IInv, and the inbound one, with that   *)
(* of RequestLimiter.                                                      *)
(***************************************************************************)
EXTENDS Stores, FiniteSetTheorems, TLAPS

AtMost(a, b) == IF a <= b THEN a ELSE b

\* The code refills a bucket when it is looked at, by all that accrued since it was
\* looked at last.  Looking at it once more in between makes no difference, so that
\* it may as well be refilled on every tick.
LEMMA LazyRefill ==
    ASSUME NEW full \in Int, NEW level \in Int, NEW before \in Nat, NEW after \in Nat
    PROVE  AtMost(full, AtMost(full, level + before) + after)
               = AtMost(full, level + (before + after))
BY DEF AtMost

-----------------------------------------------------------------------------
\* Sizes of sets, as the modules of the limiters have them.
LEMMA SameCardinality ==
    /\ \A S : Outbound!Cardinality(S) = Cardinality(S)
    /\ \A S : Outbound!IsFiniteSet(S) <=> IsFiniteSet(S)
    /\ \A S : Inbound!Cardinality(S) = Cardinality(S)
    /\ \A S : Inbound!IsFiniteSet(S) <=> IsFiniteSet(S)
<1>1. \A S : Outbound!IsFiniteSet(S) <=> IsFiniteSet(S)
  BY SMT DEF Outbound!IsFiniteSet, IsFiniteSet
<1>2. \A S : Inbound!IsFiniteSet(S) <=> IsFiniteSet(S)
  BY SMT DEF Inbound!IsFiniteSet, IsFiniteSet
<1>3. \A S : Outbound!Cardinality(S) = Cardinality(S)
  BY SMT DEF Outbound!Cardinality, Cardinality, Outbound!IsFiniteSet, IsFiniteSet
<1>4. \A S : Inbound!Cardinality(S) = Cardinality(S)
  BY SMT DEF Inbound!Cardinality, Cardinality, Inbound!IsFiniteSet, IsFiniteSet
<1> QED BY <1>1, <1>2, <1>3, <1>4

\* Tokens and units.
LEMMA Units ==
    ASSUME Outbound!LimiterAssumption
    PROVE  /\ Cost \in Nat /\ Cost > 0
           /\ Outbound!Cardinality(Outbound!Callers) \in Nat
           /\ \A n \in Nat : Cost * n \in Nat
           /\ \A n \in Nat : Cost * (n + 1) = Cost * n + Cost
           /\ \A m, n \in Nat : m <= n => Cost * m <= Cost * n
<1>1. Cost \in Nat /\ Cost > 0 BY DEF Outbound!LimiterAssumption
<1>2. Outbound!Cardinality(Outbound!Callers) \in Nat
  BY SameCardinality, FS_CardinalityType DEF Outbound!LimiterAssumption
<1>3. \A n \in Nat : Cost * n \in Nat BY <1>1
<1>4. \A n \in Nat : Cost * (n + 1) = Cost * n + Cost BY <1>1
<1>5. \A m, n \in Nat : m <= n => Cost * m <= Cost * n BY <1>1
<1> QED BY <1>1, <1>2, <1>3, <1>4, <1>5

\* How many are due by a time, as callers fall asleep and wake.
LEMMA DueCount ==
    ASSUME Outbound!LimiterAssumption, Outbound!TypeOK, NEW S \in SUBSET Outbound!Callers
    PROVE  /\ Outbound!Cardinality(S) \in Nat
           /\ Outbound!Cardinality(S) <= Outbound!Cardinality(Outbound!Callers)
           /\ \A c \in Outbound!Callers \ S :
                 Outbound!Cardinality(S) + 1 <= Outbound!Cardinality(Outbound!Callers)
           /\ \A c \in S : Outbound!Cardinality(S \ {c}) = Outbound!Cardinality(S) - 1
<1> DEFINE All == Outbound!Callers
<1>1. IsFiniteSet(All) BY SameCardinality DEF Outbound!LimiterAssumption
<1>2. All = Outbound!Callers OBVIOUS
<1> HIDE DEF All
<1>3. IsFiniteSet(S) /\ Cardinality(S) \in Nat /\ Cardinality(S) <= Cardinality(All)
  BY <1>1, <1>2, FS_Subset, FS_CardinalityType
<1>4. ASSUME NEW c \in All \ S PROVE Cardinality(S) + 1 <= Cardinality(All)
  <2>1. Cardinality(S \cup {c}) = Cardinality(S) + 1 BY <1>3, FS_AddElement
  <2>2. S \cup {c} \in SUBSET All BY <1>2
  <2> QED BY <1>1, <2>1, <2>2, FS_Subset
<1>5. ASSUME NEW c \in S PROVE Cardinality(S \ {c}) = Cardinality(S) - 1
  BY <1>3, FS_RemoveElement
<1> QED BY <1>2, <1>3, <1>4, <1>5, SameCardinality

-----------------------------------------------------------------------------
LEMMA InitIInv ==
    ASSUME Outbound!LimiterAssumption PROVE Outbound!Init => Outbound!IInv
<1> SUFFICES ASSUME Outbound!Init PROVE Outbound!IInv
  OBVIOUS
<1>1. Burst \in Nat /\ Burst >= Cost BY DEF Outbound!LimiterAssumption
<1>2. Cost * Outbound!Cardinality(Outbound!Callers) \in Nat /\ Cost \in Nat BY Units
<1>3. Outbound!TypeOK
  <2>1. tokens \in Int /\ tokens <= Burst BY <1>1 DEF Outbound!Init
  <2>2. left \in [Outbound!Callers -> Nat] /\ \A c \in Outbound!Callers \ asleep : left[c] = 0
    BY DEF Outbound!Init
  <2>3. asleep \subseteq Outbound!Callers /\ unpaid \in BOOLEAN BY DEF Outbound!Init
  <2> QED BY <2>1, <2>2, <2>3 DEF Outbound!TypeOK
<1>4. Outbound!DebtBounded BY <1>1, <1>2 DEF Outbound!Init, Outbound!DebtBounded
<1>5. Outbound!WaitBounded BY <1>2 DEF Outbound!Init, Outbound!WaitBounded
<1>6. Outbound!ProvidedFor BY DEF Outbound!Init, Outbound!ProvidedFor
<1> QED BY <1>3, <1>4, <1>5, <1>6 DEF Outbound!IInv

\* A token that is there is taken from under sleepers that are due: they may still
\* overdraw the bucket, but the one who took it is not one of them.
LEMMA TakeNowStep ==
    ASSUME Outbound!LimiterAssumption, Outbound!IInv, NEW c \in Outbound!Callers,
           Outbound!TakeNow(c) PROVE Outbound!IInv'
<1>1. /\ c \notin asleep /\ tokens >= Cost /\ tokens' = tokens - Cost
      /\ asleep' = asleep /\ left' = left /\ unpaid' = unpaid
  BY DEF Outbound!TakeNow
<1>2. Outbound!TypeOK /\ tokens \in Int /\ asleep \subseteq Outbound!Callers
      /\ left \in [Outbound!Callers -> Nat]
  BY DEF Outbound!IInv, Outbound!TypeOK
<1>3. Outbound!TypeOK'
  <2>1. tokens' \in Int /\ tokens' <= Burst
    BY <1>1, Units DEF Outbound!LimiterAssumption, Outbound!IInv, Outbound!TypeOK
  <2> QED BY <1>1, <2>1 DEF Outbound!IInv, Outbound!TypeOK
<1>4. Outbound!Cardinality(Outbound!Callers) >= 1
      /\ Cost * Outbound!Cardinality(Outbound!Callers) >= Cost
  <2>1. {} \in SUBSET Outbound!Callers /\ c \in Outbound!Callers \ {} OBVIOUS
  <2>2. Outbound!Cardinality({}) = 0 BY FS_EmptySet, SameCardinality
  <2>3. Outbound!Cardinality({}) + 1 <= Outbound!Cardinality(Outbound!Callers)
    BY <1>2, <2>1, DueCount
  <2>4. Outbound!Cardinality(Outbound!Callers) \in Nat BY Units
  <2>5. Outbound!Cardinality(Outbound!Callers) - 1 \in Nat BY <2>2, <2>3, <2>4
  <2>6. Cost * ((Outbound!Cardinality(Outbound!Callers) - 1) + 1)
            = Cost * (Outbound!Cardinality(Outbound!Callers) - 1) + Cost
    BY <2>5, Units
  <2>7. Cost * (Outbound!Cardinality(Outbound!Callers) - 1) \in Nat BY <2>5, Units
  <2>8. (Outbound!Cardinality(Outbound!Callers) - 1) + 1 = Outbound!Cardinality(Outbound!Callers)
    BY Units
  <2> QED BY <2>2, <2>3, <2>6, <2>7, <2>8, Units
<1>5. Outbound!DebtBounded'
  <2>1. Cost \in Nat /\ Cost * Outbound!Cardinality(Outbound!Callers) \in Nat BY Units
  <2> QED BY <1>1, <1>2, <1>4, <2>1 DEF Outbound!DebtBounded
<1>6. Outbound!WaitBounded' BY <1>1 DEF Outbound!IInv, Outbound!WaitBounded
<1>7. Outbound!ProvidedFor'
  <2> SUFFICES ASSUME NEW d \in asleep
               PROVE  tokens' + left[d] >= Cost * Outbound!Cardinality(Outbound!DueBy(d)) + Cost
                                            - Cost * Outbound!Cardinality(Outbound!Callers)
    BY <1>1 DEF Outbound!ProvidedFor, Outbound!DueBy
  <2>1. Outbound!DueBy(d) \in SUBSET Outbound!Callers /\ c \in Outbound!Callers \ Outbound!DueBy(d)
    BY <1>1, <1>2 DEF Outbound!DueBy
  <2>2. /\ Outbound!Cardinality(Outbound!DueBy(d)) \in Nat
        /\ Outbound!Cardinality(Outbound!DueBy(d)) + 1 <= Outbound!Cardinality(Outbound!Callers)
    BY <1>2, <2>1, DueCount
  <2>3. Cost * (Outbound!Cardinality(Outbound!DueBy(d)) + 1)
            <= Cost * Outbound!Cardinality(Outbound!Callers)
    BY <2>2, Units
  <2>4. Cost * (Outbound!Cardinality(Outbound!DueBy(d)) + 1)
            = Cost * Outbound!Cardinality(Outbound!DueBy(d)) + Cost
    BY <2>2, Units
  <2>5. /\ Cost * Outbound!Cardinality(Outbound!DueBy(d)) \in Nat
        /\ Cost * Outbound!Cardinality(Outbound!Callers) \in Nat
        /\ Cost \in Nat /\ left[d] \in Nat
    BY <1>2, <2>2, Units
  <2> QED BY <1>1, <1>2, <2>3, <2>4, <2>5
<1> QED BY <1>3, <1>5, <1>6, <1>7 DEF Outbound!IInv

\* A caller that falls asleep is due when a whole token is there, and so are those
\* that are due after it.
LEMMA FallAsleepStep ==
    ASSUME Outbound!LimiterAssumption, Outbound!IInv, NEW c \in Outbound!Callers,
           Outbound!FallAsleep(c) PROVE Outbound!IInv'
<1>1. /\ c \notin asleep /\ tokens < Cost /\ tokens' = tokens
      /\ asleep' = asleep \cup {c} /\ left' = [left EXCEPT ![c] = Cost - tokens]
      /\ unpaid' = unpaid
  BY DEF Outbound!FallAsleep, Outbound!Deficit
<1>2. Outbound!TypeOK /\ tokens \in Int /\ asleep \subseteq Outbound!Callers
      /\ left \in [Outbound!Callers -> Nat]
  BY DEF Outbound!IInv, Outbound!TypeOK
<1>3. Cost \in Nat /\ Cost * Outbound!Cardinality(Outbound!Callers) \in Nat BY Units
<1>4. left'[c] = Cost - tokens /\ \A d \in Outbound!Callers \ {c} : left'[d] = left[d]
  BY <1>1, <1>2
<1>5. Outbound!TypeOK' BY <1>1, <1>3 DEF Outbound!IInv, Outbound!TypeOK
<1>6. Outbound!DebtBounded' BY <1>1 DEF Outbound!IInv, Outbound!DebtBounded
<1>7. Outbound!WaitBounded'
  <2>1. Cost - tokens <= Cost * Outbound!Cardinality(Outbound!Callers)
    BY <1>2, <1>3 DEF Outbound!IInv, Outbound!DebtBounded
  <2> QED BY <1>4, <2>1 DEF Outbound!IInv, Outbound!WaitBounded
<1>8. Outbound!ProvidedFor'
  <2> SUFFICES ASSUME NEW d \in asleep'
               PROVE  tokens + left'[d] >= Cost * Outbound!Cardinality(Outbound!DueBy(d)') + Cost
                                            - Cost * Outbound!Cardinality(Outbound!Callers)
    BY <1>1 DEF Outbound!ProvidedFor
  <2>1. Outbound!DueBy(d)' \in SUBSET Outbound!Callers BY <1>1, <1>2 DEF Outbound!DueBy
  <2>2. Outbound!Cardinality(Outbound!DueBy(d)') \in Nat
        /\ Cost * Outbound!Cardinality(Outbound!DueBy(d)')
               <= Cost * Outbound!Cardinality(Outbound!Callers)
    BY <1>2, <2>1, DueCount, Units
  <2>3. Cost * Outbound!Cardinality(Outbound!DueBy(d)') \in Nat BY <2>2, Units
  <2>4. CASE left'[c] <= left'[d]
    <3>1. left'[d] \in Nat BY <1>1, <1>2, <1>5 DEF Outbound!TypeOK
    <3>2. tokens + left'[d] >= Cost BY <1>2, <1>3, <1>4, <2>4, <3>1
    <3> QED BY <1>2, <1>3, <2>2, <2>3, <3>1, <3>2
  <2>5. CASE ~(left'[c] <= left'[d])
    <3>1. d \in asleep /\ d # c BY <1>1, <1>2, <1>3, <1>4, <2>5
    <3>2. Outbound!DueBy(d)' = Outbound!DueBy(d) BY <1>1, <1>2, <1>4, <2>5, <3>1 DEF Outbound!DueBy
    <3> QED BY <1>2, <1>4, <3>1, <3>2 DEF Outbound!IInv, Outbound!ProvidedFor
  <2> QED BY <2>4, <2>5
<1> QED BY <1>5, <1>6, <1>7, <1>8 DEF Outbound!IInv

\* One caller less is due.
LEMMA AwakeCount ==
    ASSUME Outbound!LimiterAssumption, Outbound!TypeOK, NEW c \in asleep, NEW d \in asleep, c # d,
           asleep' = asleep \ {c}, left'[d] = left[d],
           \A e \in asleep \ {c} : left'[e] = left[e]
    PROVE  /\ Outbound!Cardinality(Outbound!DueBy(d)') \in Nat
           /\ Outbound!Cardinality(Outbound!DueBy(d)) \in Nat
           /\ left[c] <= left[d] => Outbound!Cardinality(Outbound!DueBy(d)')
                  = Outbound!Cardinality(Outbound!DueBy(d)) - 1
           /\ ~(left[c] <= left[d]) => Outbound!DueBy(d)' = Outbound!DueBy(d)
<1>1. asleep \subseteq Outbound!Callers BY DEF Outbound!TypeOK
<1>2. Outbound!DueBy(d) \in SUBSET Outbound!Callers /\ Outbound!DueBy(d)' = Outbound!DueBy(d) \ {c}
  BY <1>1 DEF Outbound!DueBy
<1>3. left[c] <= left[d] <=> c \in Outbound!DueBy(d) BY DEF Outbound!DueBy
<1>4. Outbound!DueBy(d)' \in SUBSET Outbound!Callers BY <1>2
<1>5. Outbound!Cardinality(Outbound!DueBy(d)') \in Nat
      /\ Outbound!Cardinality(Outbound!DueBy(d)) \in Nat
  BY <1>2, <1>4, DueCount
<1>6. c \in Outbound!DueBy(d) => Outbound!Cardinality(Outbound!DueBy(d) \ {c})
          = Outbound!Cardinality(Outbound!DueBy(d)) - 1
  BY <1>2, DueCount
<1> QED BY <1>2, <1>3, <1>5, <1>6

\* A coroutine that wakes takes a token; the others that are due have one less to
\* share it with.
LEMMA WakeTaskStep ==
    ASSUME Outbound!LimiterAssumption, Outbound!IInv, NEW c \in Outbound!Callers,
           Outbound!WakeTask(c) PROVE Outbound!IInv'
<1>1. /\ c \in asleep /\ left[c] = 0 /\ tokens' = tokens - Cost
      /\ asleep' = asleep \ {c} /\ left' = left /\ unpaid' = unpaid
  BY DEF Outbound!WakeTask
<1>2. Outbound!TypeOK /\ tokens \in Int /\ asleep \subseteq Outbound!Callers
      /\ left \in [Outbound!Callers -> Nat]
  BY DEF Outbound!IInv, Outbound!TypeOK
<1>3. Cost \in Nat /\ Cost * Outbound!Cardinality(Outbound!Callers) \in Nat BY Units
<1>4. Outbound!TypeOK'
  <2>1. tokens' \in Int /\ tokens' <= Burst
    BY <1>1, Units DEF Outbound!LimiterAssumption, Outbound!IInv, Outbound!TypeOK
  <2> QED BY <1>1, <2>1 DEF Outbound!IInv, Outbound!TypeOK
<1>5. Outbound!DebtBounded'
  <2>1. c \in Outbound!DueBy(c) /\ Outbound!DueBy(c) \in SUBSET Outbound!Callers
    BY <1>1, <1>2 DEF Outbound!DueBy
  <2>2. /\ Outbound!Cardinality(Outbound!DueBy(c)) \in Nat
        /\ Outbound!Cardinality(Outbound!DueBy(c) \ {c})
               = Outbound!Cardinality(Outbound!DueBy(c)) - 1
    BY <1>2, <2>1, DueCount
  <2>3. Outbound!Cardinality(Outbound!DueBy(c) \ {c}) \in Nat BY <1>2, <2>1, DueCount
  <2>4. Cost * (Outbound!Cardinality(Outbound!DueBy(c) \ {c}) + 1)
            = Cost * Outbound!Cardinality(Outbound!DueBy(c) \ {c}) + Cost
        /\ Cost * Outbound!Cardinality(Outbound!DueBy(c) \ {c}) \in Nat
    BY <2>3, Units
  <2>5. Outbound!Cardinality(Outbound!DueBy(c))
            = Outbound!Cardinality(Outbound!DueBy(c) \ {c}) + 1 BY <2>2, <2>3
  <2>6. tokens >= Cost * Outbound!Cardinality(Outbound!DueBy(c)) + Cost
                  - Cost * Outbound!Cardinality(Outbound!Callers)
    <3>1. tokens + 0 >= Cost * Outbound!Cardinality(Outbound!DueBy(c)) + Cost
                        - Cost * Outbound!Cardinality(Outbound!Callers)
      BY <1>1 DEF Outbound!IInv, Outbound!ProvidedFor
    <3> QED BY <1>2, <3>1
  <2> QED BY <1>1, <1>2, <1>3, <2>4, <2>5, <2>6 DEF Outbound!DebtBounded
<1>6. Outbound!WaitBounded' BY <1>1 DEF Outbound!IInv, Outbound!WaitBounded
<1>7. Outbound!ProvidedFor'
  <2> SUFFICES ASSUME NEW d \in asleep, d # c
               PROVE  tokens' + left[d] >= Cost * Outbound!Cardinality(Outbound!DueBy(d)') + Cost
                                            - Cost * Outbound!Cardinality(Outbound!Callers)
    BY <1>1 DEF Outbound!ProvidedFor
  <2>1. left[d] \in Nat /\ left[c] <= left[d] BY <1>1, <1>2
  <2>2. /\ Outbound!Cardinality(Outbound!DueBy(d)') \in Nat
        /\ Outbound!Cardinality(Outbound!DueBy(d)) \in Nat
        /\ Outbound!Cardinality(Outbound!DueBy(d)') = Outbound!Cardinality(Outbound!DueBy(d)) - 1
    BY <1>1, <1>2, <2>1, AwakeCount
  <2>3. Outbound!Cardinality(Outbound!DueBy(d)) = Outbound!Cardinality(Outbound!DueBy(d)') + 1
    BY <2>2
  <2>4. Cost * (Outbound!Cardinality(Outbound!DueBy(d)') + 1)
            = Cost * Outbound!Cardinality(Outbound!DueBy(d)') + Cost
        /\ Cost * Outbound!Cardinality(Outbound!DueBy(d)') \in Nat
    BY <2>2, Units
  <2>5. tokens + left[d] >= Cost * Outbound!Cardinality(Outbound!DueBy(d)) + Cost
                            - Cost * Outbound!Cardinality(Outbound!Callers)
    BY DEF Outbound!IInv, Outbound!ProvidedFor
  <2> QED BY <1>1, <1>2, <1>3, <2>1, <2>3, <2>4, <2>5
<1> QED BY <1>4, <1>5, <1>6, <1>7 DEF Outbound!IInv

\* A sleeper that goes and takes nothing leaves more for the others.
LEMMA LeaveStep ==
    ASSUME Outbound!LimiterAssumption, Outbound!IInv, NEW c \in asleep, tokens' = tokens,
           asleep' = asleep \ {c},
           left' = [left EXCEPT ![c] = 0], unpaid' \in BOOLEAN
    PROVE  Outbound!IInv'
<1>2. Outbound!TypeOK /\ tokens \in Int /\ asleep \subseteq Outbound!Callers
      /\ left \in [Outbound!Callers -> Nat]
  BY DEF Outbound!IInv, Outbound!TypeOK
<1>3. Cost \in Nat /\ Cost * Outbound!Cardinality(Outbound!Callers) \in Nat BY Units
<1>4. Outbound!TypeOK' BY DEF Outbound!IInv, Outbound!TypeOK
<1>5. Outbound!DebtBounded' BY DEF Outbound!IInv, Outbound!DebtBounded
<1>6. Outbound!WaitBounded' BY <1>2, <1>3 DEF Outbound!IInv, Outbound!WaitBounded
<1>7. Outbound!ProvidedFor'
  <2> SUFFICES ASSUME NEW d \in asleep, d # c
               PROVE  tokens + left'[d] >= Cost * Outbound!Cardinality(Outbound!DueBy(d)') + Cost
                                            - Cost * Outbound!Cardinality(Outbound!Callers)
    BY DEF Outbound!ProvidedFor
  <2>1. left'[d] = left[d] /\ \A e \in asleep \ {c} : left'[e] = left[e] BY <1>2
  <2>2. /\ Outbound!Cardinality(Outbound!DueBy(d)') \in Nat
        /\ Outbound!Cardinality(Outbound!DueBy(d)) \in Nat
        /\ Outbound!Cardinality(Outbound!DueBy(d)') <= Outbound!Cardinality(Outbound!DueBy(d))
    BY <1>2, <2>1, AwakeCount
  <2>3. /\ Cost * Outbound!Cardinality(Outbound!DueBy(d)')
               <= Cost * Outbound!Cardinality(Outbound!DueBy(d))
        /\ Cost * Outbound!Cardinality(Outbound!DueBy(d)') \in Nat
        /\ Cost * Outbound!Cardinality(Outbound!DueBy(d)) \in Nat
    BY <2>2, Units
  <2>4. tokens + left[d] >= Cost * Outbound!Cardinality(Outbound!DueBy(d)) + Cost
                            - Cost * Outbound!Cardinality(Outbound!Callers)
    BY DEF Outbound!IInv, Outbound!ProvidedFor
  <2>5. left[d] \in Nat BY <1>2
  <2> QED BY <1>2, <1>3, <2>1, <2>3, <2>4, <2>5
<1> QED BY <1>4, <1>5, <1>6, <1>7 DEF Outbound!IInv

\* Time brings sleepers closer to their tokens and their tokens closer to them; those
\* that are overdue fall in with those that become due now.
LEMMA TickStep ==
    ASSUME Outbound!LimiterAssumption PROVE Outbound!IInv /\ Outbound!Tick => Outbound!IInv'
<1> SUFFICES ASSUME Outbound!IInv, Outbound!Tick PROVE Outbound!IInv'
  OBVIOUS
<1>1. /\ tokens' = IF tokens < Burst THEN tokens + 1 ELSE Burst
      /\ left' = [c \in Outbound!Callers |-> IF left[c] > 0 THEN left[c] - 1 ELSE 0]
      /\ asleep' = asleep /\ unpaid' = unpaid
  BY DEF Outbound!Tick
<1>2. Outbound!TypeOK /\ tokens \in Int /\ asleep \subseteq Outbound!Callers
      /\ left \in [Outbound!Callers -> Nat]
      /\ tokens <= Burst
  BY DEF Outbound!IInv, Outbound!TypeOK
<1>3. /\ Cost \in Nat /\ Cost * Outbound!Cardinality(Outbound!Callers) \in Nat
      /\ Burst \in Nat /\ Burst >= Cost
  BY Units DEF Outbound!LimiterAssumption
<1>4. Outbound!TypeOK' BY <1>1, <1>2, <1>3 DEF Outbound!IInv, Outbound!TypeOK
<1>5. Outbound!DebtBounded' BY <1>1, <1>2, <1>3 DEF Outbound!IInv, Outbound!DebtBounded
<1>6. Outbound!WaitBounded' BY <1>1, <1>2, <1>3 DEF Outbound!IInv, Outbound!WaitBounded
<1>7. Outbound!ProvidedFor'
  <2> SUFFICES ASSUME NEW c \in asleep
               PROVE  tokens' + left'[c] >= Cost * Outbound!Cardinality(Outbound!DueBy(c)') + Cost
                                            - Cost * Outbound!Cardinality(Outbound!Callers)
    BY <1>1 DEF Outbound!ProvidedFor
  <2> DEFINE need == Cost * Outbound!Cardinality(Outbound!DueBy(c)') + Cost
                     - Cost * Outbound!Cardinality(Outbound!Callers)
  <2>1. Outbound!DueBy(c)' \in SUBSET Outbound!Callers BY <1>1, <1>2 DEF Outbound!DueBy
  <2>2. Outbound!Cardinality(Outbound!DueBy(c)') \in Nat
        /\ Cost * Outbound!Cardinality(Outbound!DueBy(c)')
               <= Cost * Outbound!Cardinality(Outbound!Callers)
        /\ Cost * Outbound!Cardinality(Outbound!DueBy(c)') \in Nat
    BY <1>2, <2>1, DueCount, Units
  <2>3. need \in Int /\ need <= Cost BY <1>3, <2>2
  <2>4. c \in Outbound!Callers /\ left[c] \in Nat /\ left'[c] \in Nat BY <1>1, <1>2
  <2>5. CASE tokens >= Burst
    <3>1. tokens' = Burst BY <1>1, <1>2, <1>3, <2>5
    <3> QED BY <1>3, <2>3, <2>4, <3>1
  <2>6. CASE tokens < Burst /\ left[c] > 0
    <3>1. tokens' = tokens + 1 /\ left'[c] = left[c] - 1 BY <1>1, <2>4, <2>6
    <3>2. \A d \in asleep : left'[d] <= left'[c] <=> left[d] <= left[c]
      BY <1>1, <1>2, <2>4, <2>6
    <3>3. Outbound!DueBy(c)' = Outbound!DueBy(c) BY <1>1, <3>2 DEF Outbound!DueBy
    <3>4. tokens + left[c] >= need BY <3>3 DEF Outbound!IInv, Outbound!ProvidedFor
    <3> QED BY <1>2, <2>3, <2>4, <3>1, <3>4
  <2>7. CASE tokens < Burst /\ left[c] = 0 /\ \A d \in asleep : left[d] # 1
    <3>1. tokens' = tokens + 1 /\ left'[c] = 0 BY <1>1, <2>4, <2>7
    <3>2. \A d \in asleep : left'[d] <= left'[c] <=> left[d] <= left[c]
      BY <1>1, <1>2, <2>4, <2>7
    <3>3. Outbound!DueBy(c)' = Outbound!DueBy(c) BY <1>1, <3>2 DEF Outbound!DueBy
    <3>4. tokens + left[c] >= need BY <3>3 DEF Outbound!IInv, Outbound!ProvidedFor
    <3> QED BY <1>2, <2>3, <2>7, <3>1, <3>4
  <2>8. CASE tokens < Burst /\ left[c] = 0 /\ \E d \in asleep : left[d] = 1
    <3> PICK d \in asleep : left[d] = 1 BY <2>8
    <3>1. tokens' = tokens + 1 /\ left'[c] = 0 BY <1>1, <2>4, <2>8
    <3>2. \A e \in asleep : left'[e] <= left'[c] <=> left[e] <= left[d]
      BY <1>1, <1>2, <2>4, <2>8
    <3>3. Outbound!DueBy(c)' = Outbound!DueBy(d) BY <1>1, <3>2 DEF Outbound!DueBy
    <3>4. tokens + left[d] >= need BY <3>3 DEF Outbound!IInv, Outbound!ProvidedFor
    <3> QED BY <1>2, <2>3, <2>8, <3>1, <3>4
  <2> QED BY <1>2, <1>3, <2>4, <2>5, <2>6, <2>7, <2>8
<1> QED BY <1>4, <1>5, <1>6, <1>7 DEF Outbound!IInv

LEMMA NextIInv ==
    ASSUME Outbound!LimiterAssumption
        PROVE Outbound!IInv /\ [Outbound!Next]_(Outbound!vars) => Outbound!IInv'
<1> SUFFICES ASSUME Outbound!IInv, [Outbound!Next]_(Outbound!vars) PROVE Outbound!IInv'
  OBVIOUS
<1>1. ASSUME NEW c \in Outbound!Callers, Outbound!TakeNow(c) PROVE Outbound!IInv'
  BY <1>1, TakeNowStep
<1>2. ASSUME NEW c \in Outbound!Callers, Outbound!FallAsleep(c) PROVE Outbound!IInv'
  BY <1>2, FallAsleepStep
<1>3. ASSUME NEW c \in Outbound!Callers, Outbound!WakeTask(c) PROVE Outbound!IInv'
  BY <1>3, WakeTaskStep
<1>4. ASSUME NEW c \in Outbound!Callers, Outbound!WakeThread(c) PROVE Outbound!IInv'
  <2>1. left' = [left EXCEPT ![c] = 0]
    BY <1>4 DEF Outbound!WakeThread, Outbound!IInv, Outbound!TypeOK
  <2> QED BY <1>4, <2>1, LeaveStep DEF Outbound!WakeThread
<1>5. ASSUME NEW c \in Outbound!Callers, Outbound!Cancel(c) PROVE Outbound!IInv'
  <2>1. unpaid' \in BOOLEAN BY <1>5 DEF Outbound!Cancel, Outbound!IInv, Outbound!TypeOK
  <2> QED BY <1>5, <2>1, LeaveStep DEF Outbound!Cancel
<1>6. CASE Outbound!Tick BY <1>6, TickStep
<1>7. CASE UNCHANGED Outbound!vars
  BY <1>7 DEF Outbound!vars, Outbound!IInv, Outbound!TypeOK, Outbound!DebtBounded,
     Outbound!WaitBounded, Outbound!ProvidedFor, Outbound!DueBy
<1> QED BY <1>1, <1>2, <1>3, <1>4, <1>5, <1>6, <1>7 DEF Outbound!Next

\* A step of the stores is one of the outbound limiter, or leaves it alone.
LEMMA AllNextOutbound == [AllNext]_allVars => [Outbound!Next]_(Outbound!vars)
BY DEF AllNext, allVars, OnlyCache, OnlyAudit, OnlyCase, OnlyStore, OnlyWatch, OnlyAlerts,
       OnlyWeb, OnlyGuard, OnlyOutbound, OnlyInbound, outboundVars, Outbound!vars

THEOREM LimiterInvariance ==
    ASSUME Outbound!LimiterAssumption PROVE AllSpec => []Outbound!IInv
<1>1. AllInit => Outbound!IInv BY InitIInv DEF AllInit
<1>2. Outbound!IInv /\ [AllNext]_allVars => Outbound!IInv' BY NextIInv, AllNextOutbound
<1> QED BY <1>1, <1>2, PTL DEF AllSpec

\* The bucket and its sleepers are well-typed, for any rate and burst.
THEOREM LimiterTypeCorrect ==
    ASSUME Outbound!LimiterAssumption PROVE AllSpec => []Outbound!TypeOK
<1>1. Outbound!IInv => Outbound!TypeOK BY DEF Outbound!IInv
<1> QED BY <1>1, LimiterInvariance, PTL

\* The bucket is never overdrawn by more than a token for every caller but one.
THEOREM DebtIsBounded ==
    ASSUME Outbound!LimiterAssumption PROVE AllSpec => []DebtBounded
<1>1. Outbound!IInv => DebtBounded BY DEF DebtBounded, Outbound!IInv
<1> QED BY <1>1, LimiterInvariance, PTL

\* No caller has longer to sleep than a token for every caller takes to accrue.
THEOREM WaitIsBounded ==
    ASSUME Outbound!LimiterAssumption PROVE AllSpec => []WaitBounded
<1>1. Outbound!IInv => WaitBounded BY DEF WaitBounded, Outbound!IInv
<1> QED BY <1>1, LimiterInvariance, PTL

-----------------------------------------------------------------------------
\* The limiter of the API.  What a call may be granted on top of a bucket is a token, and
\* it was paid for when the call began while another was under way.

PriceOf(some) == TokenCost * Inbound!Cardinality(some)

Room == BucketSize + TokenCost * overlaps

LEMMA TokensFor ==
    ASSUME Inbound!RequestAssumption, NEW some \in SUBSET Handlers
    PROVE  /\ PriceOf(some) \in Nat /\ PriceOf({}) = 0
           /\ \A fewer \in SUBSET some : PriceOf(fewer) \in Nat /\ PriceOf(fewer) <= PriceOf(some)
           /\ \A c \in some : PriceOf(some) = PriceOf(some \ {c}) + TokenCost
<1>1. IsFiniteSet(Handlers) /\ TokenCost \in Nat \ {0}
  BY SameCardinality DEF Inbound!RequestAssumption
<1>3. \A S : PriceOf(S) = TokenCost * Cardinality(S) BY SameCardinality DEF PriceOf
<1>4. IsFiniteSet(some) BY <1>1, FS_Subset
<1>5. PICK n \in Nat : n = Cardinality(some) BY <1>4, FS_CardinalityType
<1>6. PriceOf({}) = 0 /\ PriceOf(some) \in Nat BY <1>1, <1>3, <1>5, FS_EmptySet
<1>7. ASSUME NEW fewer \in SUBSET some
    PROVE PriceOf(fewer) \in Nat /\ PriceOf(fewer) <= PriceOf(some)
  <2>1. IsFiniteSet(fewer) /\ Cardinality(fewer) <= n BY <1>4, <1>5, FS_Subset
  <2>2. PICK m \in Nat : m = Cardinality(fewer) /\ m <= n BY <2>1, FS_CardinalityType
  <2>3. TokenCost * m \in Nat /\ TokenCost * m <= TokenCost * n BY <1>1, <2>2
  <2> QED BY <1>3, <1>5, <2>2, <2>3
<1>8. ASSUME NEW c \in some PROVE PriceOf(some) = PriceOf(some \ {c}) + TokenCost
  <2>1. IsFiniteSet(some \ {c}) /\ Cardinality(some \ {c}) = n - 1 BY <1>4, <1>5, FS_RemoveElement
  <2>2. PICK m \in Nat : m = Cardinality(some \ {c}) /\ n = m + 1
    BY <1>5, <2>1, FS_CardinalityType
  <2>3. TokenCost * n = TokenCost * m + TokenCost BY <1>1, <2>2
  <2> QED BY <1>3, <1>5, <2>2, <2>3
<1> QED BY <1>6, <1>7, <1>8

\* What the state says, by itself and with the products put aside.
LEMMA InboundFacts ==
    ASSUME Inbound!RequestAssumption, Inbound!IInv
    PROVE  /\ TokenCost \in Nat \ {0} /\ BucketSize \in Nat /\ TokenCost <= BucketSize
           /\ NoTime \notin Nat /\ LimitTime \in Nat /\ MaxOverlaps \in Nat
           /\ monotonic \in Nat /\ monotonic <= LimitTime
           /\ granted \in Nat /\ overlaps \in 0..MaxOverlaps /\ Room \in Nat
           /\ bucket \in Inbound!Bucket /\ bucket.tokens <= BucketSize /\ bucket.last <= monotonic
           /\ bucket.tokens - bucket.last >= -monotonic
           /\ read \in [Handlers -> Inbound!Bucket]
           /\ \A c \in Handlers : /\ read[c].tokens <= BucketSize /\ read[c].last <= monotonic
                                  /\ read[c].tokens - read[c].last >= -monotonic
           /\ called \in [Handlers -> {NoTime} \cup 0..monotonic]
           /\ pc \in [Handlers -> {"idle", "now", "read", "refilled"}]
           /\ refused \in {NoTime} \cup 0..monotonic
           /\ Inbound!Under \in SUBSET Handlers
           /\ granted + (bucket.tokens - bucket.last) <= Room
           /\ \A c \in Inbound!Under : called[c] \in 0..monotonic
           /\ \A c \in Inbound!Under :
                  /\ granted + (bucket.tokens - bucket.last) + PriceOf(Inbound!Under \ {c}) <= Room
                  /\ pc[c] # "now" =>
                        granted + (read[c].tokens - read[c].last) + PriceOf(Inbound!Under \ {c})
                            <= Room
<1>1. /\ TokenCost \in Nat \ {0} /\ BucketSize \in Nat /\ TokenCost <= BucketSize
      /\ NoTime \notin Nat /\ LimitTime \in Nat /\ MaxOverlaps \in Nat
  BY DEF Inbound!RequestAssumption
<1>2. Inbound!TypeOK /\ Inbound!CallsTimed /\ Inbound!NotBeforeStart /\ Inbound!CallsPaid
  BY DEF Inbound!IInv
<1>3. /\ monotonic \in Nat /\ monotonic <= LimitTime /\ granted \in Nat
      /\ overlaps \in 0..MaxOverlaps
      /\ bucket \in Inbound!Bucket /\ bucket.tokens <= BucketSize /\ bucket.last <= monotonic
      /\ read \in [Handlers -> Inbound!Bucket]
      /\ \A c \in Handlers : read[c].tokens <= BucketSize /\ read[c].last <= monotonic
      /\ called \in [Handlers -> {NoTime} \cup 0..monotonic]
      /\ pc \in [Handlers -> {"idle", "now", "read", "refilled"}]
      /\ refused \in {NoTime} \cup 0..monotonic
  BY <1>1, <1>2 DEF Inbound!TypeOK
<1>4. /\ bucket.tokens - bucket.last >= -monotonic
      /\ \A c \in Handlers : read[c].tokens - read[c].last >= -monotonic
  BY <1>2 DEF Inbound!NotBeforeStart, Inbound!Worth
<1>5. Inbound!Under \in SUBSET Handlers BY DEF Inbound!Under
<1>6. Room \in Nat
  <2>1. overlaps \in Nat BY <1>1, <1>3
  <2> QED BY <1>1, <2>1 DEF Room
<1>7. PriceOf({}) = 0 BY <1>5, TokensFor
<1>8. \A b, S : Inbound!Covers(b, S) <=> granted + (b.tokens - b.last) + PriceOf(S) <= Room
  BY DEF Inbound!Covers, Inbound!Worth, PriceOf, Room
<1>9. granted + (bucket.tokens - bucket.last) + PriceOf({}) <= Room
  BY <1>2, <1>8 DEF Inbound!CallsPaid
<1>10. bucket.tokens \in Int /\ bucket.last \in Nat BY <1>3 DEF Inbound!Bucket
<1>11. granted + (bucket.tokens - bucket.last) <= Room BY <1>3, <1>6, <1>7, <1>9, <1>10
<1>12. \A c \in Inbound!Under :
          /\ granted + (bucket.tokens - bucket.last) + PriceOf(Inbound!Under \ {c}) <= Room
          /\ pc[c] # "now" =>
                granted + (read[c].tokens - read[c].last) + PriceOf(Inbound!Under \ {c}) <= Room
  BY <1>2, <1>8 DEF Inbound!CallsPaid
<1>13. \A c \in Inbound!Under : called[c] \in 0..monotonic
  BY <1>2 DEF Inbound!CallsTimed, Inbound!Under
<1> QED BY <1>1, <1>3, <1>4, <1>5, <1>6, <1>11, <1>12, <1>13

\* What the bound on what is granted rests on, for the state a step leads to.
LEMMA GrantsFollow ==
    ASSUME Inbound!RequestAssumption, Inbound!TypeOK', Inbound!NotBeforeStart', Inbound!CallsPaid'
    PROVE  Inbound!GrantsBounded'
<1>1. PriceOf({}) = 0 BY TokensFor
<1>2. granted' + (bucket'.tokens - bucket'.last) + PriceOf({}) <= Room'
  BY DEF Inbound!CallsPaid, Inbound!Covers, Inbound!Worth, PriceOf, Room
<1>3. bucket'.tokens - bucket'.last >= -monotonic' BY DEF Inbound!NotBeforeStart, Inbound!Worth
<1>4. /\ bucket'.tokens \in Int /\ bucket'.last \in Nat /\ monotonic' \in Nat /\ granted' \in Nat
      /\ overlaps' \in Nat
  BY DEF Inbound!TypeOK, Inbound!Bucket, Inbound!RequestAssumption
<1>5. BucketSize \in Nat /\ TokenCost \in Nat BY DEF Inbound!RequestAssumption
<1>6. \A n \in Nat : TokenCost * n \in Nat BY <1>5
<1>7. PICK extra : extra = TokenCost * overlaps' OBVIOUS
<1>8. extra \in Nat BY <1>4, <1>6, <1>7
<1>9. Room' = BucketSize + extra BY <1>7 DEF Room
<1>10. PICK worth : worth = bucket'.tokens - bucket'.last OBVIOUS
<1>11. worth \in Int BY <1>4, <1>10
<1>12. granted' + worth + PriceOf({}) <= BucketSize + extra BY <1>2, <1>9, <1>10
<1>13. granted' + worth <= BucketSize + extra BY <1>1, <1>4, <1>11, <1>12
<1>14. worth >= -monotonic' BY <1>3, <1>10
<1>15. granted' <= BucketSize + monotonic' + extra
  <2>1. PICK g, now : g = granted' /\ now = monotonic' OBVIOUS
  <2>2. g \in Nat /\ now \in Nat /\ g + worth <= BucketSize + extra /\ worth >= -now
    BY <1>4, <1>13, <1>14, <2>1
  <2>3. g <= BucketSize + now + extra BY <1>5, <1>8, <1>11, <2>2
  <2> QED BY <2>1, <2>3
<1> QED BY <1>7, <1>15 DEF Inbound!GrantsBounded

\* The pieces of the invariant, in the state a step leads to.
LEMMA InboundAgain ==
    ASSUME Inbound!RequestAssumption, Inbound!TypeOK', Inbound!CallsTimed', Inbound!NotBeforeStart',
           granted' + (bucket'.tokens - bucket'.last) <= Room',
           \A c \in Inbound!Under' :
              granted' + (bucket'.tokens - bucket'.last) + PriceOf(Inbound!Under' \ {c}) <= Room',
           \A c \in Inbound!Under' : pc'[c] # "now" =>
              granted' + (read'[c].tokens - read'[c].last) + PriceOf(Inbound!Under' \ {c}) <= Room',
           Inbound!AloneKnows', Inbound!RefusalCounts'
    PROVE  Inbound!IInv'
<1>1. PriceOf({}) = 0 BY TokensFor
<1>2. bucket'.tokens \in Int /\ bucket'.last \in Nat /\ granted' \in Nat
  BY DEF Inbound!TypeOK, Inbound!Bucket
<1>3. granted' + (bucket'.tokens - bucket'.last) + PriceOf({}) <= Room' BY <1>1, <1>2
<1>4. Inbound!CallsPaid'
  BY <1>3 DEF Inbound!CallsPaid, Inbound!Covers, Inbound!Worth, PriceOf, Room
<1>5. Inbound!GrantsBounded' BY <1>4, GrantsFollow
<1> QED BY <1>4, <1>5 DEF Inbound!IInv

LEMMA InboundStarts ==
    ASSUME Inbound!RequestAssumption, Inbound!Init
    PROVE  Inbound!IInv
<1>1. /\ BucketSize \in Nat /\ TokenCost \in Nat \ {0} /\ LimitTime \in Nat /\ MaxOverlaps \in Nat
  BY DEF Inbound!RequestAssumption
<1>2. /\ monotonic = 0 /\ bucket.tokens = BucketSize /\ bucket.last = 0
      /\ granted = 0 /\ overlaps = 0 /\ refused = NoTime
      /\ bucket \in Inbound!Bucket
      /\ \A c \in Handlers : /\ called[c] = NoTime /\ pc[c] = "idle"
                             /\ read[c].tokens = BucketSize /\ read[c].last = 0
      /\ read \in [Handlers -> Inbound!Bucket]
      /\ called \in [Handlers -> {NoTime}] /\ pc \in [Handlers -> {"idle"}]
  BY <1>1 DEF Inbound!Init, Inbound!Full, Inbound!Bucket
<1>3. Inbound!Under = {} BY <1>2 DEF Inbound!Under
<1>4. Inbound!TypeOK
  <2>1. \A b \in {bucket} \cup {read[c] : c \in Handlers} : b.tokens <= BucketSize /\ b.last
            <= monotonic
    BY <1>1, <1>2
  <2>2. called \in [Handlers -> {NoTime} \cup 0..monotonic] BY <1>2
  <2>3. pc \in [Handlers -> {"idle", "now", "read", "refilled"}] BY <1>2
  <2> QED BY <1>1, <1>2, <2>1, <2>2, <2>3 DEF Inbound!TypeOK
<1>5. Inbound!CallsTimed BY <1>2 DEF Inbound!CallsTimed
<1>6. Inbound!NotBeforeStart BY <1>1, <1>2 DEF Inbound!NotBeforeStart, Inbound!Worth
<1>7. PriceOf({}) = 0 BY TokensFor
<1>8. Inbound!CallsPaid
  <2>1. TokenCost * overlaps = 0 BY <1>1, <1>2
  <2>2. Inbound!Covers(bucket, {})
    BY <1>1, <1>2, <1>7, <2>1 DEF Inbound!Covers, Inbound!Worth, PriceOf
  <2> QED BY <1>3, <2>2 DEF Inbound!CallsPaid
<1>9. Inbound!GrantsBounded
  <2>1. TokenCost * overlaps = 0 BY <1>1, <1>2
  <2> QED BY <1>1, <1>2, <2>1 DEF Inbound!GrantsBounded
<1>10. Inbound!AloneKnows BY <1>3 DEF Inbound!AloneKnows
<1>11. Inbound!RefusalCounts BY <1>2 DEF Inbound!RefusalCounts
<1> QED BY <1>4, <1>5, <1>6, <1>8, <1>9, <1>10, <1>11 DEF Inbound!IInv

\* A call that begins during another pays for what it may be granted on top.
LEMMA InboundBegins ==
    ASSUME Inbound!RequestAssumption, Inbound!IInv, NEW h \in Handlers, Inbound!Begin(h)
    PROVE  Inbound!IInv'
<1>1. /\ TokenCost \in Nat \ {0} /\ BucketSize \in Nat /\ MaxOverlaps \in Nat
      /\ monotonic \in Nat /\ granted \in Nat /\ overlaps \in 0..MaxOverlaps /\ Room \in Nat
      /\ bucket.tokens \in Int /\ bucket.last \in Nat /\ bucket.last <= monotonic
      /\ called \in [Handlers -> {NoTime} \cup 0..monotonic]
      /\ pc \in [Handlers -> {"idle", "now", "read", "refilled"}]
      /\ read \in [Handlers -> Inbound!Bucket]
      /\ Inbound!Under \in SUBSET Handlers
  BY InboundFacts DEF Inbound!Bucket
<1>2. /\ pc[h] = "idle" /\ pc' = [pc EXCEPT ![h] = "now"]
      /\ called' = [called EXCEPT ![h] = monotonic]
      /\ monotonic' = monotonic /\ bucket' = bucket /\ read' = read /\ granted' = granted
      /\ refused' = refused
  BY DEF Inbound!Begin
<1>3. \/ Inbound!Under = {} /\ overlaps' = overlaps
      \/ overlaps < MaxOverlaps /\ overlaps' = overlaps + 1
  BY DEF Inbound!Begin, Inbound!Under
<1>4. /\ Inbound!Under' = Inbound!Under \cup {h} /\ h \notin Inbound!Under
      /\ Inbound!Under' \ {h} = Inbound!Under
  BY <1>1, <1>2 DEF Inbound!Under
<1>5. overlaps' \in 0..MaxOverlaps BY <1>1, <1>3
<1>6. Inbound!TypeOK'
  <2>1. Inbound!TypeOK BY DEF Inbound!IInv
  <2> QED BY <1>1, <1>2, <1>5, <2>1 DEF Inbound!TypeOK
<1>7. Inbound!CallsTimed'
  <2>1. Inbound!CallsTimed BY DEF Inbound!IInv
  <2> QED BY <1>1, <1>2, <2>1 DEF Inbound!CallsTimed
<1>8. Inbound!NotBeforeStart'
  <2>1. Inbound!NotBeforeStart BY DEF Inbound!IInv
  <2> QED BY <1>2, <2>1 DEF Inbound!NotBeforeStart, Inbound!Worth
<1>9. /\ Room' \in Nat /\ Room <= Room'
      /\ Inbound!Under # {} => Room' = Room + TokenCost
  <2>1. PICK n \in Nat : n = overlaps BY <1>1
  <2>2. PICK m \in Nat : m = TokenCost * overlaps BY <1>1, <2>1
  <2>3. TokenCost * (overlaps + 1) = TokenCost * overlaps + TokenCost BY <1>1
  <2> QED BY <1>1, <1>3, <2>2, <2>3 DEF Room
<1>10. granted + (bucket.tokens - bucket.last) <= Room BY InboundFacts
<1>11. granted + (bucket.tokens - bucket.last) <= Room' BY <1>1, <1>9, <1>10
<1>12. PriceOf(Inbound!Under) \in Nat
       /\ \A c \in Inbound!Under : PriceOf(Inbound!Under \ {c}) \in Nat
                                 /\ PriceOf(Inbound!Under)
                                        = PriceOf(Inbound!Under \ {c}) + TokenCost
  BY <1>1, TokensFor
<1>13. \A c \in Inbound!Under :
          /\ granted + (bucket.tokens - bucket.last) + PriceOf(Inbound!Under \ {c}) <= Room
          /\ pc[c] # "now" =>
                granted + (read[c].tokens - read[c].last) + PriceOf(Inbound!Under \ {c}) <= Room
  BY InboundFacts
<1>14. ASSUME NEW c \in Inbound!Under
       PROVE  /\ PriceOf(Inbound!Under' \ {c}) = PriceOf(Inbound!Under \ {c}) + TokenCost
              /\ PriceOf(Inbound!Under \ {c}) \in Nat
              /\ Room' = Room + TokenCost
  <2>1. c \in Inbound!Under' /\ Inbound!Under' \in SUBSET Handlers /\ h \in Inbound!Under'
    BY <1>1, <1>4
  <2>2. PriceOf(Inbound!Under') = PriceOf(Inbound!Under' \ {c}) + TokenCost BY <2>1, TokensFor
  <2>3. PriceOf(Inbound!Under') = PriceOf(Inbound!Under) + TokenCost BY <1>4, <2>1, TokensFor
  <2>4. PriceOf(Inbound!Under' \ {c}) \in Nat
    <3>1. Inbound!Under' \ {c} \in SUBSET Inbound!Under' OBVIOUS
    <3> QED BY <2>1, <3>1, TokensFor
  <2> QED BY <1>1, <1>9, <1>12, <2>2, <2>3, <2>4
<1>15. \A c \in Inbound!Under' :
          granted' + (bucket'.tokens - bucket'.last) + PriceOf(Inbound!Under' \ {c}) <= Room'
  <2> SUFFICES ASSUME NEW c \in Inbound!Under'
               PROVE  granted + (bucket.tokens - bucket.last) + PriceOf(Inbound!Under' \ {c})
                          <= Room'
    BY <1>2
  <2>1. CASE c \in Inbound!Under
    <3>1. PICK w, p, room : /\ w = granted + (bucket.tokens - bucket.last)
                            /\ p = PriceOf(Inbound!Under \ {c}) /\ room = Room
      OBVIOUS
    <3>2. w \in Int /\ p \in Nat /\ room \in Nat
      <4>1. w \in Int BY <1>1, <3>1
      <4>2. p \in Nat BY <1>14, <2>1, <3>1
      <4>3. room \in Nat BY <1>1, <3>1
      <4> QED BY <4>1, <4>2, <4>3
    <3>3. w + p <= room BY <1>13, <2>1, <3>1
    <3>4. w + (p + TokenCost) <= room + TokenCost BY <1>1, <3>2, <3>3
    <3> QED BY <1>14, <2>1, <3>1, <3>4
  <2>2. CASE c = h /\ Inbound!Under = {}
    <3>1. PriceOf(Inbound!Under) = 0 BY <2>2, TokensFor
    <3>2. PriceOf(Inbound!Under' \ {c}) = 0 BY <1>4, <2>2, <3>1
    <3> QED BY <1>1, <1>9, <1>11, <3>2
  <2>3. CASE c = h /\ Inbound!Under # {}
    <3>1. PICK d : d \in Inbound!Under BY <2>3
    <3>2. PriceOf(Inbound!Under) = PriceOf(Inbound!Under \ {d}) + TokenCost
          /\ PriceOf(Inbound!Under \ {d}) \in Nat
      BY <1>12, <3>1
    <3>3. PriceOf(Inbound!Under' \ {c}) = PriceOf(Inbound!Under \ {d}) + TokenCost
      BY <1>4, <2>3, <3>2
    <3>4. granted + (bucket.tokens - bucket.last) + PriceOf(Inbound!Under \ {d}) <= Room
      BY <1>13, <3>1
    <3> QED BY <1>1, <1>9, <2>3, <3>2, <3>3, <3>4
  <2> QED BY <1>4, <2>1, <2>2, <2>3
<1>16. \A c \in Inbound!Under' : pc'[c] # "now" =>
          granted' + (read'[c].tokens - read'[c].last) + PriceOf(Inbound!Under' \ {c}) <= Room'
  <2> SUFFICES ASSUME NEW c \in Inbound!Under', pc'[c] # "now"
               PROVE  granted + (read[c].tokens - read[c].last) + PriceOf(Inbound!Under' \ {c})
                          <= Room'
    BY <1>2
  <2>1. c \in Inbound!Under /\ pc[c] # "now" /\ c \in Handlers BY <1>1, <1>2, <1>4
  <2>2. read[c].tokens \in Int /\ read[c].last \in Nat BY <1>1, <2>1 DEF Inbound!Bucket
  <2>3. PICK w, p, room : /\ w = granted + (read[c].tokens - read[c].last)
                          /\ p = PriceOf(Inbound!Under \ {c}) /\ room = Room
    OBVIOUS
  <2>4. w \in Int /\ p \in Nat /\ room \in Nat
    <3>1. w \in Int BY <1>1, <2>2, <2>3
    <3>2. p \in Nat BY <1>14, <2>1, <2>3
    <3>3. room \in Nat BY <1>1, <2>3
    <3> QED BY <3>1, <3>2, <3>3
  <2>5. w + p <= room BY <1>13, <2>1, <2>3
  <2>6. w + (p + TokenCost) <= room + TokenCost BY <1>1, <2>4, <2>5
  <2> QED BY <1>14, <2>1, <2>3, <2>6
<1>17. Inbound!AloneKnows'
  <2> SUFFICES ASSUME overlaps' = 0
               PROVE  /\ \A c, d \in Inbound!Under' : c = d
                      /\ \A c \in Inbound!Under' : /\ bucket.last <= called'[c]
                                                   /\ pc'[c] # "now" => read'[c] = bucket
    BY <1>2 DEF Inbound!AloneKnows
  <2>1. Inbound!Under' = {h} BY <1>1, <1>3, <1>4
  <2>2. called'[h] = monotonic /\ pc'[h] = "now" BY <1>1, <1>2
  <2> QED BY <1>1, <2>1, <2>2
<1>18. Inbound!RefusalCounts'
  <2>1. Inbound!RefusalCounts BY DEF Inbound!IInv
  <2>2. overlaps' = 0 => overlaps = 0 BY <1>1, <1>3
  <2> QED BY <1>2, <2>1, <2>2 DEF Inbound!RefusalCounts, Inbound!Worth
<1>19. granted' + (bucket'.tokens - bucket'.last) <= Room' BY <1>2, <1>11
<1> QED BY <1>6, <1>7, <1>8, <1>15, <1>16, <1>17, <1>18, <1>19, InboundAgain

\* What a call reads of the bucket is worth what the bucket is.
LEMMA InboundReads ==
    ASSUME Inbound!RequestAssumption, Inbound!IInv, NEW h \in Handlers, Inbound!Read(h)
    PROVE  Inbound!IInv'
<1>1. /\ TokenCost \in Nat \ {0} /\ BucketSize \in Nat /\ MaxOverlaps \in Nat
      /\ monotonic \in Nat /\ granted \in Nat /\ overlaps \in 0..MaxOverlaps /\ Room \in Nat
      /\ bucket \in Inbound!Bucket /\ bucket.tokens <= BucketSize /\ bucket.last <= monotonic
      /\ called \in [Handlers -> {NoTime} \cup 0..monotonic]
      /\ pc \in [Handlers -> {"idle", "now", "read", "refilled"}]
      /\ read \in [Handlers -> Inbound!Bucket]
      /\ Inbound!Under \in SUBSET Handlers
  BY InboundFacts
<1>2. /\ pc[h] = "now" /\ pc' = [pc EXCEPT ![h] = "read"] /\ read' = [read EXCEPT ![h] = bucket]
      /\ monotonic' = monotonic /\ bucket' = bucket /\ called' = called /\ granted' = granted
      /\ overlaps' = overlaps /\ refused' = refused
  BY DEF Inbound!Read
<1>3. Inbound!Under' = Inbound!Under /\ h \in Inbound!Under BY <1>1, <1>2 DEF Inbound!Under
<1>4. Room' = Room BY <1>2 DEF Room
<1>5. Inbound!TypeOK'
  <2>1. Inbound!TypeOK BY DEF Inbound!IInv
  <2> QED BY <1>1, <1>2, <2>1 DEF Inbound!TypeOK
<1>6. Inbound!CallsTimed'
  <2>1. Inbound!CallsTimed BY DEF Inbound!IInv
  <2> QED BY <1>1, <1>2, <2>1 DEF Inbound!CallsTimed
<1>7. Inbound!NotBeforeStart'
  <2>1. Inbound!NotBeforeStart BY DEF Inbound!IInv
  <2> QED BY <1>1, <1>2, <2>1 DEF Inbound!NotBeforeStart
<1>8. granted' + (bucket'.tokens - bucket'.last) <= Room' BY <1>2, <1>4, InboundFacts
<1>9. \A c \in Inbound!Under :
          /\ granted + (bucket.tokens - bucket.last) + PriceOf(Inbound!Under \ {c}) <= Room
          /\ pc[c] # "now" =>
                granted + (read[c].tokens - read[c].last) + PriceOf(Inbound!Under \ {c}) <= Room
  BY InboundFacts
<1>10. \A c \in Inbound!Under' :
          granted' + (bucket'.tokens - bucket'.last) + PriceOf(Inbound!Under' \ {c}) <= Room'
  BY <1>2, <1>3, <1>4, <1>9
<1>11. \A c \in Inbound!Under' : pc'[c] # "now" =>
          granted' + (read'[c].tokens - read'[c].last) + PriceOf(Inbound!Under' \ {c}) <= Room'
  <2> SUFFICES ASSUME NEW c \in Inbound!Under, pc'[c] # "now"
               PROVE  granted + (read'[c].tokens - read'[c].last) + PriceOf(Inbound!Under \ {c})
                          <= Room
    BY <1>2, <1>3, <1>4
  <2>1. CASE c = h
    <3>1. read'[c] = bucket BY <1>1, <1>2, <2>1
    <3> QED BY <1>9, <3>1
  <2>2. CASE c # h
    <3>1. read'[c] = read[c] /\ pc'[c] = pc[c] BY <1>1, <1>2, <2>2
    <3> QED BY <1>9, <3>1
  <2> QED BY <2>1, <2>2
<1>12. Inbound!AloneKnows'
  <2>1. Inbound!AloneKnows BY DEF Inbound!IInv
  <2> QED BY <1>1, <1>2, <1>3, <2>1 DEF Inbound!AloneKnows
<1>13. Inbound!RefusalCounts'
  <2>1. Inbound!RefusalCounts BY DEF Inbound!IInv
  <2> QED BY <1>2, <2>1 DEF Inbound!RefusalCounts, Inbound!Worth
<1> QED BY <1>5, <1>6, <1>7, <1>8, <1>10, <1>11, <1>12, <1>13, InboundAgain

\* A refill makes a bucket worth no more than it was, for what accrued is of the time
\* it took, and what does not fit is lost.
LEMMA RefillIsWorth ==
    ASSUME NEW was, was \in Inbound!Bucket, NEW now \in Nat, NEW time \in Nat, BucketSize \in Nat,
           was.tokens - was.last >= -time, now <= time
    PROVE  \E n \in Int :
              /\ Inbound!Refilled(was, now) = [tokens |-> n, last |-> now]
              /\ n <= BucketSize
              /\ n - now <= was.tokens - was.last
              /\ n - now >= -time
              /\ n < BucketSize => n - now = was.tokens - was.last
<1>1. was.tokens \in Int /\ was.last \in Nat BY DEF Inbound!Bucket
<1>2. PICK all : all = was.tokens + now - was.last OBVIOUS
<1>3. all \in Int /\ all - now = was.tokens - was.last /\ all - now >= -time BY <1>1, <1>2
<1>4. Inbound!Refilled(was, now) = [tokens |-> Inbound!AtMostFull(all), last |-> now]
  BY <1>2 DEF Inbound!Refilled
<1>5. CASE all > BucketSize
  <2>1. Inbound!AtMostFull(all) = BucketSize BY <1>5 DEF Inbound!AtMostFull
  <2>2. BucketSize - now <= all - now /\ BucketSize - now >= -time BY <1>3, <1>5
  <2> QED BY <1>3, <1>4, <2>1, <2>2
<1>6. CASE ~(all > BucketSize)
  <2>1. Inbound!AtMostFull(all) = all BY <1>6 DEF Inbound!AtMostFull
  <2> QED BY <1>3, <1>4, <1>6, <2>1
<1> QED BY <1>5, <1>6

LEMMA InboundRefills ==
    ASSUME Inbound!RequestAssumption, Inbound!IInv, NEW h \in Handlers, Inbound!Refill(h)
    PROVE  Inbound!IInv'
<1>1. /\ TokenCost \in Nat \ {0} /\ BucketSize \in Nat /\ MaxOverlaps \in Nat
      /\ TokenCost <= BucketSize
      /\ monotonic \in Nat /\ granted \in Nat /\ overlaps \in 0..MaxOverlaps /\ Room \in Nat
      /\ bucket \in Inbound!Bucket /\ bucket.tokens <= BucketSize /\ bucket.last <= monotonic
      /\ called \in [Handlers -> {NoTime} \cup 0..monotonic]
      /\ pc \in [Handlers -> {"idle", "now", "read", "refilled"}]
      /\ read \in [Handlers -> Inbound!Bucket]
      /\ Inbound!Under \in SUBSET Handlers
      /\ NoTime \notin Nat
  BY InboundFacts
<1>2. /\ pc[h] = "read" /\ pc' = [pc EXCEPT ![h] = "refilled"]
      /\ bucket' = Inbound!Refilled(read[h], called[h]) /\ read' = [read EXCEPT ![h] = bucket']
      /\ monotonic' = monotonic /\ called' = called /\ granted' = granted
      /\ overlaps' = overlaps /\ refused' = refused
  BY DEF Inbound!Refill
<1>3. Inbound!Under' = Inbound!Under /\ h \in Inbound!Under BY <1>1, <1>2 DEF Inbound!Under
<1>4. Room' = Room BY <1>2 DEF Room
<1>5. called[h] \in 0..monotonic /\ read[h] \in Inbound!Bucket
      /\ read[h].tokens - read[h].last >= -monotonic
  BY <1>1, <1>3, InboundFacts
<1>6. PICK now, time : now = called[h] /\ time = monotonic OBVIOUS
<1>7. now \in Nat /\ time \in Nat /\ now <= time BY <1>1, <1>5, <1>6
<1>8. PICK n \in Int : /\ Inbound!Refilled(read[h], now) = [tokens |-> n, last |-> now]
                       /\ n <= BucketSize /\ n - now >= -time
                       /\ n - now <= read[h].tokens - read[h].last
                       /\ n < BucketSize => n - now = read[h].tokens - read[h].last
  <2>1. PICK was : was = read[h] OBVIOUS
  <2>2. was \in Inbound!Bucket /\ was.tokens - was.last >= -time BY <1>5, <1>6, <2>1
  <2>3. \E n \in Int : /\ Inbound!Refilled(was, now) = [tokens |-> n, last |-> now]
                       /\ n <= BucketSize
                       /\ n - now <= was.tokens - was.last
                       /\ n - now >= -time
                       /\ n < BucketSize => n - now = was.tokens - was.last
    BY <1>1, <1>7, <2>2, RefillIsWorth
  <2> QED BY <2>1, <2>3
<1>9. /\ bucket'.tokens = n /\ bucket'.last = now /\ bucket' \in Inbound!Bucket
      /\ read'[h] = bucket' /\ \A c \in Handlers \ {h} : read'[c] = read[c] /\ pc'[c] = pc[c]
      /\ pc'[h] = "refilled"
      /\ read' \in [Handlers -> Inbound!Bucket]
  <2>1. bucket' = [tokens |-> n, last |-> now] BY <1>2, <1>6, <1>8
  <2>2. bucket'.tokens = n /\ bucket'.last = now /\ bucket' \in Inbound!Bucket
    BY <1>7, <2>1 DEF Inbound!Bucket
  <2> QED BY <1>1, <1>2, <2>2
<1>10. Inbound!TypeOK'
  <2>1. Inbound!TypeOK BY DEF Inbound!IInv
  <2>2. \A c \in Handlers : read'[c].tokens <= BucketSize /\ read'[c].last <= monotonic
    BY <1>1, <1>6, <1>7, <1>8, <1>9, InboundFacts
  <2>3. bucket'.tokens <= BucketSize /\ bucket'.last <= monotonic BY <1>6, <1>7, <1>8, <1>9
  <2>4. pc' \in [Handlers -> {"idle", "now", "read", "refilled"}] BY <1>1, <1>2
  <2> QED BY <1>1, <1>2, <1>9, <2>1, <2>2, <2>3, <2>4 DEF Inbound!TypeOK
<1>11. Inbound!CallsTimed'
  <2>1. Inbound!CallsTimed BY DEF Inbound!IInv
  <2> QED BY <1>1, <1>2, <1>5, <1>6, <1>9, <2>1 DEF Inbound!CallsTimed
<1>12. Inbound!NotBeforeStart'
  <2>1. bucket'.tokens - bucket'.last >= -monotonic' BY <1>2, <1>6, <1>8, <1>9
  <2>2. \A c \in Handlers : read'[c].tokens - read'[c].last >= -monotonic'
    <3> TAKE c \in Handlers
    <3>1. CASE c = h BY <1>9, <2>1, <3>1
    <3>2. CASE c # h
      <4>1. read[c].tokens - read[c].last >= -monotonic BY InboundFacts
      <4> QED BY <1>2, <1>9, <3>2, <4>1
    <3> QED BY <3>1, <3>2
  <2> QED BY <2>1, <2>2 DEF Inbound!NotBeforeStart, Inbound!Worth
<1>13. \A c \in Inbound!Under :
          /\ granted + (bucket.tokens - bucket.last) + PriceOf(Inbound!Under \ {c}) <= Room
          /\ pc[c] # "now" =>
                granted + (read[c].tokens - read[c].last) + PriceOf(Inbound!Under \ {c}) <= Room
  BY InboundFacts
<1>14. \A c \in Inbound!Under :
          granted + (bucket'.tokens - bucket'.last) + PriceOf(Inbound!Under \ {c}) <= Room
  <2> SUFFICES ASSUME NEW c \in Inbound!Under
               PROVE  granted + (n - now) + PriceOf(Inbound!Under \ {c}) <= Room
    BY <1>9
  <2>1. PICK g, w, p, q, room : /\ g = granted /\ w = read[h].tokens - read[h].last
                                /\ p = PriceOf(Inbound!Under \ {h})
                                /\ q = PriceOf(Inbound!Under \ {c}) /\ room = Room
    OBVIOUS
  <2>2. g \in Nat /\ room \in Nat BY <1>1, <2>1
  <2>3. w \in Int BY <1>5, <2>1 DEF Inbound!Bucket
  <2>4. /\ Inbound!Under \ {h} \in SUBSET Inbound!Under
        /\ Inbound!Under \ {c} \in SUBSET Inbound!Under
    OBVIOUS
  <2>5. p \in Nat /\ q \in Nat BY <1>1, <2>1, <2>4, TokensFor
  <2>6. p = q
    <3>1. PriceOf(Inbound!Under) = PriceOf(Inbound!Under \ {h}) + TokenCost BY <1>1, <1>3, TokensFor
    <3>2. PriceOf(Inbound!Under) = PriceOf(Inbound!Under \ {c}) + TokenCost BY <1>1, TokensFor
    <3>3. p + TokenCost = q + TokenCost BY <2>1, <3>1, <3>2
    <3> QED BY <1>1, <2>5, <3>3
  <2>7. g + w + p <= room BY <1>2, <1>3, <1>13, <2>1
  <2>8. n - now <= w BY <1>8, <2>1
  <2>9. g + (n - now) + q <= room BY <1>7, <2>2, <2>3, <2>5, <2>6, <2>7, <2>8
  <2> QED BY <2>1, <2>9
<1>15. \A c \in Inbound!Under' :
          granted' + (bucket'.tokens - bucket'.last) + PriceOf(Inbound!Under' \ {c}) <= Room'
  BY <1>2, <1>3, <1>4, <1>14
<1>16. \A c \in Inbound!Under' : pc'[c] # "now" =>
          granted' + (read'[c].tokens - read'[c].last) + PriceOf(Inbound!Under' \ {c}) <= Room'
  <2> SUFFICES ASSUME NEW c \in Inbound!Under, pc'[c] # "now"
               PROVE  granted + (read'[c].tokens - read'[c].last) + PriceOf(Inbound!Under \ {c})
                          <= Room
    BY <1>2, <1>3, <1>4
  <2>1. CASE c = h
    <3>1. read'[c] = bucket' BY <1>9, <2>1
    <3> QED BY <1>14, <3>1
  <2>2. CASE c # h
    <3>1. read'[c] = read[c] /\ pc'[c] = pc[c] BY <1>1, <1>9, <2>2
    <3> QED BY <1>13, <3>1
  <2> QED BY <2>1, <2>2
<1>17. granted' + (bucket'.tokens - bucket'.last) <= Room'
  <2>1. granted + (n - now) + PriceOf(Inbound!Under \ {h}) <= Room BY <1>3, <1>9, <1>14
  <2>2. PriceOf(Inbound!Under \ {h}) \in Nat
    <3>1. Inbound!Under \ {h} \in SUBSET Inbound!Under OBVIOUS
    <3> QED BY <1>1, <3>1, TokensFor
  <2>3. PICK p, g, room : p = PriceOf(Inbound!Under \ {h}) /\ g = granted /\ room = Room OBVIOUS
  <2>4. g \in Nat /\ room \in Nat /\ p \in Nat BY <1>1, <2>2, <2>3
  <2>5. g + (n - now) + p <= room BY <2>1, <2>3
  <2>6. g + (n - now) <= room BY <1>7, <2>4, <2>5
  <2> QED BY <1>2, <1>4, <1>9, <2>3, <2>6
<1>18. overlaps = 0 => read[h] = bucket /\ bucket.last <= called[h] /\ \A c \in Inbound!Under :
           c = h
  <2>1. Inbound!AloneKnows BY DEF Inbound!IInv
  <2> QED BY <1>2, <1>3, <2>1 DEF Inbound!AloneKnows
<1>19. Inbound!AloneKnows'
  <2> SUFFICES ASSUME overlaps = 0
               PROVE  /\ \A c, d \in Inbound!Under' : c = d
                      /\ \A c \in Inbound!Under' : /\ bucket'.last <= called'[c]
                                                   /\ pc'[c] # "now" => read'[c] = bucket'
    BY <1>2 DEF Inbound!AloneKnows
  <2>1. \A c \in Inbound!Under' : c = h BY <1>3, <1>18
  <2>2. bucket'.last <= called'[h] /\ read'[h] = bucket' BY <1>2, <1>6, <1>7, <1>9
  <2> QED BY <2>1, <2>2
<1>20. Inbound!RefusalCounts'
  <2> SUFFICES ASSUME overlaps = 0, refused # NoTime
               PROVE  n >= TokenCost \/ n - now >= -refused
    BY <1>2, <1>9 DEF Inbound!RefusalCounts, Inbound!Worth
  <2>1. bucket.tokens >= TokenCost \/ bucket.tokens - bucket.last >= -refused
    BY DEF Inbound!IInv, Inbound!RefusalCounts, Inbound!Worth
  <2>2. PICK t, l, r : t = bucket.tokens /\ l = bucket.last /\ r = refused OBVIOUS
  <2>3. t \in Int /\ l \in Nat /\ l <= now BY <1>1, <1>6, <1>18, <2>2 DEF Inbound!Bucket
  <2>4. r \in Nat BY <1>1, <2>2, InboundFacts
  <2>5. n - now <= t - l /\ (n < BucketSize => n - now = t - l) BY <1>8, <1>18, <2>2
  <2>6. t >= TokenCost \/ t - l >= -r BY <2>1, <2>2
  <2>7. n >= TokenCost \/ n - now >= -r BY <1>1, <1>7, <1>8, <2>3, <2>4, <2>5, <2>6
  <2> QED BY <2>2, <2>7
<1> QED BY <1>10, <1>11, <1>12, <1>15, <1>16, <1>17, <1>19, <1>20, InboundAgain

\* A token is granted out of what the call wrote: what the bucket is worth falls by as
\* much as was granted, and the others may be granted one fewer on top of it.
LEMMA InboundGrants ==
    ASSUME Inbound!RequestAssumption, Inbound!IInv, NEW h \in Handlers, Inbound!Grant(h)
    PROVE  Inbound!IInv'
<1>1. /\ TokenCost \in Nat \ {0} /\ BucketSize \in Nat /\ MaxOverlaps \in Nat
      /\ TokenCost <= BucketSize
      /\ monotonic \in Nat /\ monotonic <= LimitTime /\ LimitTime \in Nat
      /\ granted \in Nat /\ overlaps \in 0..MaxOverlaps /\ Room \in Nat
      /\ called \in [Handlers -> {NoTime} \cup 0..monotonic]
      /\ pc \in [Handlers -> {"idle", "now", "read", "refilled"}]
      /\ read \in [Handlers -> Inbound!Bucket]
      /\ Inbound!Under \in SUBSET Handlers
      /\ NoTime \notin Nat
  BY InboundFacts
<1>2. /\ pc[h] = "refilled" /\ read[h].tokens >= TokenCost /\ pc' = [pc EXCEPT ![h] = "idle"]
      /\ bucket' = [tokens |-> read[h].tokens - TokenCost, last |-> monotonic]
      /\ read' = [read EXCEPT ![h] = Inbound!Full] /\ called' = [called EXCEPT ![h] = NoTime]
      /\ monotonic' = monotonic /\ granted' = granted + TokenCost
      /\ overlaps' = overlaps /\ refused' = NoTime
  BY DEF Inbound!Grant
<1>3. Inbound!Under' = Inbound!Under \ {h} /\ h \in Inbound!Under BY <1>1, <1>2 DEF Inbound!Under
<1>4. Room' = Room BY <1>2 DEF Room
<1>5. Inbound!CallsTimed BY DEF Inbound!IInv
<1>6. PICK n, l, now : n = read[h].tokens /\ l = read[h].last /\ now = monotonic OBVIOUS
<1>7. n \in Int /\ l \in Nat /\ now \in Nat /\ n <= BucketSize /\ n >= TokenCost
  BY <1>1, <1>2, <1>6, InboundFacts DEF Inbound!Bucket
<1>8. l <= now
  <2>1. l = called[h] /\ called[h] \in 0..now BY <1>2, <1>5, <1>6 DEF Inbound!CallsTimed
  <2> QED BY <2>1
<1>9. /\ bucket'.tokens = n - TokenCost /\ bucket'.last = now /\ bucket' \in Inbound!Bucket
      /\ read'[h].tokens = BucketSize /\ read'[h].last = 0 /\ pc'[h] = "idle" /\ called'[h] = NoTime
      /\ \A c \in Handlers \ {h} : read'[c] = read[c] /\ pc'[c] = pc[c] /\ called'[c] = called[c]
      /\ read' \in [Handlers -> Inbound!Bucket]
      /\ called' \in [Handlers -> {NoTime} \cup 0..monotonic]
      /\ pc' \in [Handlers -> {"idle", "now", "read", "refilled"}]
  <2>1. bucket'.tokens = n - TokenCost /\ bucket'.last = now BY <1>2, <1>6
  <2>2. bucket' \in Inbound!Bucket
    <3>1. n - TokenCost \in Int BY <1>1, <1>7
    <3> QED BY <1>2, <1>6, <1>7, <3>1 DEF Inbound!Bucket
  <2>3. /\ Inbound!Full \in Inbound!Bucket /\ Inbound!Full.tokens = BucketSize
        /\ Inbound!Full.last = 0
    BY <1>1 DEF Inbound!Full, Inbound!Bucket
  <2>4. read' \in [Handlers -> Inbound!Bucket] /\ read'[h] = Inbound!Full BY <1>1, <1>2, <2>3
  <2>5. \A c \in Handlers \ {h} : read'[c] = read[c] /\ pc'[c] = pc[c] /\ called'[c] = called[c]
    BY <1>1, <1>2
  <2>6. called' \in [Handlers -> {NoTime} \cup 0..monotonic] /\ called'[h] = NoTime BY <1>1, <1>2
  <2>7. pc' \in [Handlers -> {"idle", "now", "read", "refilled"}] /\ pc'[h] = "idle" BY <1>1, <1>2
  <2> QED BY <2>1, <2>2, <2>3, <2>4, <2>5, <2>6, <2>7
<1>10. Inbound!TypeOK'
  <2>1. \A c \in Handlers : read'[c].tokens <= BucketSize /\ read'[c].last <= monotonic
    <3> TAKE c \in Handlers
    <3>1. CASE c = h BY <1>1, <1>9, <3>1
    <3>2. CASE c # h BY <1>9, <3>2, InboundFacts
    <3> QED BY <3>1, <3>2
  <2>2. bucket'.tokens <= BucketSize /\ bucket'.last <= monotonic BY <1>1, <1>6, <1>7, <1>9
  <2>3. granted' \in Nat BY <1>1, <1>2
  <2>4. monotonic' \in 0..LimitTime /\ overlaps' \in 0..MaxOverlaps BY <1>1, <1>2
  <2> QED BY <1>2, <1>9, <2>1, <2>2, <2>3, <2>4 DEF Inbound!TypeOK
<1>11. Inbound!CallsTimed' BY <1>2, <1>5, <1>9 DEF Inbound!CallsTimed
<1>12. Inbound!NotBeforeStart'
  <2>1. bucket'.tokens - bucket'.last >= -monotonic' BY <1>1, <1>2, <1>6, <1>7, <1>9
  <2>2. \A c \in Handlers : read'[c].tokens - read'[c].last >= -monotonic'
    <3> TAKE c \in Handlers
    <3>1. CASE c = h BY <1>1, <1>2, <1>9, <3>1
    <3>2. CASE c # h
      <4>1. read[c].tokens - read[c].last >= -monotonic BY InboundFacts
      <4> QED BY <1>2, <1>9, <3>2, <4>1
    <3> QED BY <3>1, <3>2
  <2> QED BY <2>1, <2>2 DEF Inbound!NotBeforeStart, Inbound!Worth
<1>13. PICK g, room, most : g = granted /\ room = Room
       /\ most = PriceOf(Inbound!Under \ {h}) OBVIOUS
<1>14. g \in Nat /\ room \in Nat /\ most \in Nat
  <2>1. Inbound!Under \ {h} \in SUBSET Inbound!Under OBVIOUS
  <2>2. most \in Nat BY <1>1, <1>13, <2>1, TokensFor
  <2> QED BY <1>1, <1>13, <2>2
<1>15. g + (n - l) + most <= room BY <1>2, <1>3, <1>6, <1>13, InboundFacts
<1>16. (g + TokenCost) + ((n - TokenCost) - now) + most <= room BY <1>1, <1>7, <1>8, <1>14, <1>15
<1>17. \A c \in Inbound!Under \ {h} :
          /\ PriceOf((Inbound!Under \ {h}) \ {c}) \in Nat
          /\ PriceOf((Inbound!Under \ {h}) \ {c}) <= most
          /\ PriceOf(Inbound!Under \ {c}) = PriceOf((Inbound!Under \ {h}) \ {c}) + TokenCost
  <2> TAKE c \in Inbound!Under \ {h}
  <2>1. /\ (Inbound!Under \ {h}) \ {c} \in SUBSET (Inbound!Under \ {h})
        /\ Inbound!Under \ {h} \in SUBSET Handlers
    BY <1>1
  <2>2. /\ PriceOf((Inbound!Under \ {h}) \ {c}) \in Nat
        /\ PriceOf((Inbound!Under \ {h}) \ {c}) <= most
    BY <1>13, <2>1, TokensFor
  <2>3. /\ Inbound!Under \ {c} \in SUBSET Handlers /\ h \in Inbound!Under \ {c}
        /\ (Inbound!Under \ {c}) \ {h} = (Inbound!Under \ {h}) \ {c}
    BY <1>1, <1>3
  <2>4. PriceOf(Inbound!Under \ {c}) = PriceOf((Inbound!Under \ {c}) \ {h}) + TokenCost
    BY <2>3, TokensFor
  <2> QED BY <2>2, <2>3, <2>4
<1>18. granted' + (bucket'.tokens - bucket'.last) <= Room'
  <2>1. (g + TokenCost) + ((n - TokenCost) - now) <= room BY <1>1, <1>7, <1>14, <1>16
  <2> QED BY <1>2, <1>4, <1>9, <1>13, <2>1
<1>19. \A c \in Inbound!Under' :
          granted' + (bucket'.tokens - bucket'.last) + PriceOf(Inbound!Under' \ {c}) <= Room'
  <2> SUFFICES ASSUME NEW c \in Inbound!Under \ {h}
               PROVE  (g + TokenCost) + ((n - TokenCost) - now)
                         + PriceOf((Inbound!Under \ {h}) \ {c}) <= room
    BY <1>2, <1>3, <1>4, <1>9, <1>13
  <2>1. PICK p : p = PriceOf((Inbound!Under \ {h}) \ {c}) OBVIOUS
  <2>2. p \in Nat /\ p <= most BY <1>17, <2>1
  <2>3. (g + TokenCost) + ((n - TokenCost) - now) + p <= room
    BY <1>1, <1>7, <1>14, <1>16, <2>2
  <2> QED BY <2>1, <2>3
<1>20. \A c \in Inbound!Under' : pc'[c] # "now" =>
          granted' + (read'[c].tokens - read'[c].last) + PriceOf(Inbound!Under' \ {c}) <= Room'
  <2> SUFFICES ASSUME NEW c \in Inbound!Under \ {h}, pc[c] # "now"
               PROVE  (g + TokenCost) + (read[c].tokens - read[c].last)
                         + PriceOf((Inbound!Under \ {h}) \ {c}) <= room
    BY <1>1, <1>2, <1>3, <1>4, <1>9, <1>13
  <2>1. PICK p, w : p = PriceOf((Inbound!Under \ {h}) \ {c}) /\ w = read[c].tokens - read[c].last
    OBVIOUS
  <2>2. p \in Nat BY <1>17, <2>1
  <2>3. w \in Int
    <3>1. c \in Handlers BY <1>1
    <3>2. read[c] \in Inbound!Bucket BY <1>1, <3>1
    <3> QED BY <2>1, <3>2 DEF Inbound!Bucket
  <2>4. PriceOf(Inbound!Under \ {c}) = p + TokenCost BY <1>17, <2>1
  <2>5. granted + (read[c].tokens - read[c].last) + PriceOf(Inbound!Under \ {c}) <= Room
    BY InboundFacts
  <2>6. g + w + (p + TokenCost) <= room BY <1>13, <2>1, <2>4, <2>5
  <2>7. (g + TokenCost) + w + p <= room BY <1>1, <1>14, <2>2, <2>3, <2>6
  <2> QED BY <2>1, <2>7
<1>21. Inbound!AloneKnows'
  <2>1. overlaps = 0 => \A c \in Inbound!Under : c = h
    BY <1>3 DEF Inbound!IInv, Inbound!AloneKnows
  <2>2. overlaps = 0 => Inbound!Under' = {} BY <1>3, <2>1
  <2> QED BY <1>2, <2>2 DEF Inbound!AloneKnows
<1>22. Inbound!RefusalCounts' BY <1>2 DEF Inbound!RefusalCounts
<1> QED BY <1>10, <1>11, <1>12, <1>18, <1>19, <1>20, <1>21, <1>22, InboundAgain

\* One that is refused leaves the bucket as it is, with less than a token in it.
LEMMA InboundRefuses ==
    ASSUME Inbound!RequestAssumption, Inbound!IInv, NEW h \in Handlers, Inbound!Refuse(h)
    PROVE  Inbound!IInv'
<1>1. /\ TokenCost \in Nat \ {0} /\ BucketSize \in Nat /\ MaxOverlaps \in Nat
      /\ TokenCost <= BucketSize
      /\ monotonic \in Nat /\ monotonic <= LimitTime /\ LimitTime \in Nat
      /\ granted \in Nat /\ overlaps \in 0..MaxOverlaps /\ Room \in Nat
      /\ bucket \in Inbound!Bucket /\ bucket.tokens <= BucketSize /\ bucket.last <= monotonic
      /\ bucket.tokens - bucket.last >= -monotonic
      /\ called \in [Handlers -> {NoTime} \cup 0..monotonic]
      /\ pc \in [Handlers -> {"idle", "now", "read", "refilled"}]
      /\ read \in [Handlers -> Inbound!Bucket]
      /\ refused \in {NoTime} \cup 0..monotonic
      /\ Inbound!Under \in SUBSET Handlers
      /\ NoTime \notin Nat
  BY InboundFacts
<1>2. /\ pc[h] = "refilled" /\ read[h].tokens < TokenCost /\ pc' = [pc EXCEPT ![h] = "idle"]
      /\ read' = [read EXCEPT ![h] = Inbound!Full] /\ called' = [called EXCEPT ![h] = NoTime]
      /\ monotonic' = monotonic /\ bucket' = bucket /\ granted' = granted /\ overlaps' = overlaps
      /\ refused' = IF refused = NoTime THEN monotonic ELSE refused
  BY DEF Inbound!Refuse
<1>3. Inbound!Under' = Inbound!Under \ {h} /\ h \in Inbound!Under BY <1>1, <1>2 DEF Inbound!Under
<1>4. Room' = Room BY <1>2 DEF Room
<1>5. Inbound!CallsTimed BY DEF Inbound!IInv
<1>6. /\ read'[h].tokens = BucketSize /\ read'[h].last = 0 /\ pc'[h] = "idle" /\ called'[h] = NoTime
      /\ \A c \in Handlers \ {h} : read'[c] = read[c] /\ pc'[c] = pc[c] /\ called'[c] = called[c]
      /\ read' \in [Handlers -> Inbound!Bucket]
      /\ called' \in [Handlers -> {NoTime} \cup 0..monotonic]
      /\ pc' \in [Handlers -> {"idle", "now", "read", "refilled"}]
  <2>1. /\ Inbound!Full \in Inbound!Bucket /\ Inbound!Full.tokens = BucketSize
        /\ Inbound!Full.last = 0
    BY <1>1 DEF Inbound!Full, Inbound!Bucket
  <2>2. read' \in [Handlers -> Inbound!Bucket] /\ read'[h] = Inbound!Full BY <1>1, <1>2, <2>1
  <2>3. \A c \in Handlers \ {h} : read'[c] = read[c] /\ pc'[c] = pc[c] /\ called'[c] = called[c]
    BY <1>1, <1>2
  <2>4. called' \in [Handlers -> {NoTime} \cup 0..monotonic] /\ called'[h] = NoTime BY <1>1, <1>2
  <2>5. pc' \in [Handlers -> {"idle", "now", "read", "refilled"}] /\ pc'[h] = "idle" BY <1>1, <1>2
  <2> QED BY <2>1, <2>2, <2>3, <2>4, <2>5
<1>7. refused' \in 0..monotonic BY <1>1, <1>2
<1>8. Inbound!TypeOK'
  <2>1. \A c \in Handlers : read'[c].tokens <= BucketSize /\ read'[c].last <= monotonic
    <3> TAKE c \in Handlers
    <3>1. CASE c = h BY <1>1, <1>6, <3>1
    <3>2. CASE c # h BY <1>6, <3>2, InboundFacts
    <3> QED BY <3>1, <3>2
  <2>2. monotonic' \in 0..LimitTime /\ overlaps' \in 0..MaxOverlaps BY <1>1, <1>2
  <2> QED BY <1>1, <1>2, <1>6, <1>7, <2>1, <2>2 DEF Inbound!TypeOK
<1>9. Inbound!CallsTimed' BY <1>2, <1>5, <1>6 DEF Inbound!CallsTimed
<1>10. Inbound!NotBeforeStart'
  <2>1. \A c \in Handlers : read'[c].tokens - read'[c].last >= -monotonic'
    <3> TAKE c \in Handlers
    <3>1. CASE c = h BY <1>1, <1>2, <1>6, <3>1
    <3>2. CASE c # h
      <4>1. read[c].tokens - read[c].last >= -monotonic BY InboundFacts
      <4> QED BY <1>2, <1>6, <3>2, <4>1
    <3> QED BY <3>1, <3>2
  <2>2. bucket'.tokens - bucket'.last >= -monotonic' BY <1>1, <1>2
  <2> QED BY <2>1, <2>2 DEF Inbound!NotBeforeStart, Inbound!Worth
<1>11. \A c \in Inbound!Under \ {h} :
          /\ PriceOf((Inbound!Under \ {h}) \ {c}) \in Nat /\ PriceOf(Inbound!Under \ {c}) \in Nat
          /\ PriceOf((Inbound!Under \ {h}) \ {c}) <= PriceOf(Inbound!Under \ {c})
  <2> TAKE c \in Inbound!Under \ {h}
  <2>1. /\ (Inbound!Under \ {h}) \ {c} \in SUBSET (Inbound!Under \ {c})
        /\ Inbound!Under \ {c} \in SUBSET Handlers
    BY <1>1
  <2> QED BY <2>1, TokensFor
<1>12. ASSUME NEW c \in Inbound!Under \ {h}, NEW w \in Int,
              granted + w + PriceOf(Inbound!Under \ {c}) <= Room
       PROVE  granted + w + PriceOf((Inbound!Under \ {h}) \ {c}) <= Room
  <2>1. PICK g, room, p, q : /\ g = granted /\ room = Room
                             /\ p = PriceOf((Inbound!Under \ {h}) \ {c})
                             /\ q = PriceOf(Inbound!Under \ {c})
    OBVIOUS
  <2>2. g \in Nat /\ room \in Nat BY <1>1, <2>1
  <2>3. p \in Nat /\ q \in Nat /\ p <= q BY <1>11, <2>1
  <2>4. g + w + q <= room BY <1>12, <2>1
  <2>5. g + w + p <= room BY <1>12, <2>2, <2>3, <2>4
  <2> QED BY <2>1, <2>5
<1>13. \A c \in Inbound!Under' :
          granted' + (bucket'.tokens - bucket'.last) + PriceOf(Inbound!Under' \ {c}) <= Room'
  <2> SUFFICES ASSUME NEW c \in Inbound!Under \ {h}
               PROVE  granted + (bucket.tokens - bucket.last)
                         + PriceOf((Inbound!Under \ {h}) \ {c}) <= Room
    BY <1>2, <1>3, <1>4
  <2>1. PICK w : w = bucket.tokens - bucket.last OBVIOUS
  <2>2. w \in Int BY <1>1, <2>1 DEF Inbound!Bucket
  <2>3. granted + w + PriceOf(Inbound!Under \ {c}) <= Room BY <2>1, InboundFacts
  <2> QED BY <1>12, <2>1, <2>2, <2>3
<1>14. \A c \in Inbound!Under' : pc'[c] # "now" =>
          granted' + (read'[c].tokens - read'[c].last) + PriceOf(Inbound!Under' \ {c}) <= Room'
  <2> SUFFICES ASSUME NEW c \in Inbound!Under \ {h}, pc[c] # "now"
               PROVE  granted + (read[c].tokens - read[c].last)
                         + PriceOf((Inbound!Under \ {h}) \ {c}) <= Room
    BY <1>1, <1>2, <1>3, <1>4, <1>6
  <2>1. PICK w : w = read[c].tokens - read[c].last OBVIOUS
  <2>2. c \in Handlers BY <1>1
  <2>3. read[c] \in Inbound!Bucket BY <1>1, <2>2
  <2>4. w \in Int BY <2>1, <2>3 DEF Inbound!Bucket
  <2>5. granted + w + PriceOf(Inbound!Under \ {c}) <= Room BY <2>1, InboundFacts
  <2> QED BY <1>12, <2>1, <2>4, <2>5
<1>15. overlaps = 0 => read[h] = bucket /\ \A c \in Inbound!Under : c = h
  BY <1>2, <1>3 DEF Inbound!IInv, Inbound!AloneKnows
<1>16. Inbound!AloneKnows'
  <2>1. overlaps = 0 => Inbound!Under' = {} BY <1>3, <1>15
  <2> QED BY <1>2, <2>1 DEF Inbound!AloneKnows
<1>17. Inbound!RefusalCounts'
  <2> SUFFICES ASSUME overlaps = 0
               PROVE  bucket.tokens >= TokenCost \/ bucket.tokens - bucket.last >= -refused'
    BY <1>2 DEF Inbound!RefusalCounts, Inbound!Worth
  <2>1. CASE refused = NoTime BY <1>1, <1>2, <2>1
  <2>2. CASE refused # NoTime
    BY <1>2, <2>2 DEF Inbound!IInv, Inbound!RefusalCounts, Inbound!Worth
  <2> QED BY <2>1, <2>2
<1>18. granted' + (bucket'.tokens - bucket'.last) <= Room' BY <1>2, <1>4, InboundFacts
<1> QED BY <1>8, <1>9, <1>10, <1>13, <1>14, <1>16, <1>17, <1>18, InboundAgain

LEMMA InboundTicks ==
    ASSUME Inbound!RequestAssumption, Inbound!IInv, Inbound!Tick
    PROVE  Inbound!IInv'
<1>1. /\ TokenCost \in Nat \ {0} /\ BucketSize \in Nat /\ LimitTime \in Nat
      /\ monotonic \in Nat /\ monotonic <= LimitTime /\ granted \in Nat
      /\ bucket \in Inbound!Bucket /\ bucket.last <= monotonic
      /\ bucket.tokens - bucket.last >= -monotonic
      /\ read \in [Handlers -> Inbound!Bucket]
      /\ called \in [Handlers -> {NoTime} \cup 0..monotonic]
      /\ pc \in [Handlers -> {"idle", "now", "read", "refilled"}]
      /\ refused \in {NoTime} \cup 0..monotonic
      /\ Inbound!Under \in SUBSET Handlers
      /\ NoTime \notin Nat
  BY InboundFacts
<1>2. /\ monotonic < LimitTime /\ monotonic' = monotonic + 1 /\ bucket' = bucket
      /\ called' = called /\ read' = read
      /\ pc' = pc /\ granted' = granted /\ overlaps' = overlaps /\ refused' = refused
  BY DEF Inbound!Tick
<1>3. Inbound!Under' = Inbound!Under BY <1>2 DEF Inbound!Under
<1>4. Room' = Room BY <1>2 DEF Room
<1>5. 0..monotonic \subseteq 0..monotonic' /\ monotonic' \in 0..LimitTime BY <1>1, <1>2
<1>6. Inbound!TypeOK'
  <2>1. Inbound!TypeOK BY DEF Inbound!IInv
  <2>2. \A c \in Handlers : read[c].tokens <= BucketSize /\ read[c].last <= monotonic'
    <3> TAKE c \in Handlers
    <3>1. read[c].tokens <= BucketSize /\ read[c].last <= monotonic BY InboundFacts
    <3>2. read[c].last \in Nat BY <1>1 DEF Inbound!Bucket
    <3> QED BY <1>1, <1>2, <3>1, <3>2
  <2>3. bucket.tokens <= BucketSize /\ bucket.last <= monotonic'
    <3>1. bucket.tokens <= BucketSize BY InboundFacts
    <3>2. bucket.last \in Nat BY <1>1 DEF Inbound!Bucket
    <3> QED BY <1>1, <1>2, <3>1, <3>2
  <2>4. called' \in [Handlers -> {NoTime} \cup 0..monotonic'] BY <1>1, <1>2, <1>5
  <2>5. refused' \in {NoTime} \cup 0..monotonic' BY <1>1, <1>2, <1>5
  <2> QED BY <1>1, <1>2, <1>5, <2>1, <2>2, <2>3, <2>4, <2>5 DEF Inbound!TypeOK
<1>7. Inbound!CallsTimed'
  <2>1. Inbound!CallsTimed BY DEF Inbound!IInv
  <2> QED BY <1>2, <1>5, <2>1 DEF Inbound!CallsTimed
<1>8. Inbound!NotBeforeStart'
  <2>1. ASSUME NEW b, b \in Inbound!Bucket, b.tokens - b.last >= -monotonic
        PROVE  b.tokens - b.last >= -monotonic'
    <3>1. PICK w, now : w = b.tokens - b.last /\ now = monotonic OBVIOUS
    <3>2. w \in Int /\ now \in Nat BY <1>1, <2>1, <3>1 DEF Inbound!Bucket
    <3>3. w >= -now BY <2>1, <3>1
    <3>4. w >= -(now + 1) BY <3>2, <3>3
    <3> QED BY <1>2, <3>1, <3>4
  <2>2. bucket'.tokens - bucket'.last >= -monotonic' BY <1>1, <1>2, <2>1
  <2>3. \A c \in Handlers : read'[c].tokens - read'[c].last >= -monotonic'
    <3> TAKE c \in Handlers
    <3>1. read[c].tokens - read[c].last >= -monotonic BY InboundFacts
    <3>2. read[c] \in Inbound!Bucket BY <1>1
    <3>3. PICK b : b = read[c] OBVIOUS
    <3>4. b.tokens - b.last >= -monotonic' BY <2>1, <3>1, <3>2, <3>3
    <3> QED BY <1>2, <3>3, <3>4
  <2> QED BY <2>2, <2>3 DEF Inbound!NotBeforeStart, Inbound!Worth
<1>9. Inbound!AloneKnows'
  <2>1. Inbound!AloneKnows BY DEF Inbound!IInv
  <2> QED BY <1>2, <1>3, <2>1 DEF Inbound!AloneKnows
<1>10. Inbound!RefusalCounts'
  <2>1. Inbound!RefusalCounts BY DEF Inbound!IInv
  <2> QED BY <1>2, <2>1 DEF Inbound!RefusalCounts, Inbound!Worth
<1>11. /\ granted + (bucket.tokens - bucket.last) <= Room
       /\ \A c \in Inbound!Under :
             /\ granted + (bucket.tokens - bucket.last) + PriceOf(Inbound!Under \ {c}) <= Room
             /\ pc[c] # "now" =>
                   granted + (read[c].tokens - read[c].last) + PriceOf(Inbound!Under \ {c}) <= Room
  BY InboundFacts
<1>12. /\ granted' + (bucket'.tokens - bucket'.last) <= Room'
       /\ \A c \in Inbound!Under' :
             granted' + (bucket'.tokens - bucket'.last) + PriceOf(Inbound!Under' \ {c}) <= Room'
       /\ \A c \in Inbound!Under' : pc'[c] # "now" =>
             granted' + (read'[c].tokens - read'[c].last) + PriceOf(Inbound!Under' \ {c}) <= Room'
  BY <1>2, <1>3, <1>4, <1>11
<1> QED BY <1>6, <1>7, <1>8, <1>9, <1>10, <1>12, InboundAgain

LEMMA InboundStays ==
    Inbound!IInv /\ UNCHANGED inboundVars => Inbound!IInv'
<1> SUFFICES ASSUME Inbound!IInv, UNCHANGED inboundVars PROVE Inbound!IInv'
  OBVIOUS
<1>1. /\ monotonic' = monotonic /\ bucket' = bucket /\ called' = called /\ read' = read
      /\ pc' = pc /\ granted' = granted /\ overlaps' = overlaps /\ refused' = refused
  BY DEF inboundVars
<1>2. Inbound!Under' = Inbound!Under BY <1>1 DEF Inbound!Under
<1>3. Inbound!TypeOK' BY <1>1 DEF Inbound!IInv, Inbound!TypeOK
<1>4. Inbound!GrantsBounded' BY <1>1 DEF Inbound!IInv, Inbound!GrantsBounded
<1>5. Inbound!CallsTimed' BY <1>1 DEF Inbound!IInv, Inbound!CallsTimed
<1>6. Inbound!NotBeforeStart' BY <1>1 DEF Inbound!IInv, Inbound!NotBeforeStart, Inbound!Worth
<1>7. Inbound!CallsPaid'
  BY <1>1, <1>2 DEF Inbound!IInv, Inbound!CallsPaid, Inbound!Covers, Inbound!Worth
<1>8. Inbound!AloneKnows' BY <1>1, <1>2 DEF Inbound!IInv, Inbound!AloneKnows
<1>9. Inbound!RefusalCounts' BY <1>1 DEF Inbound!IInv, Inbound!RefusalCounts, Inbound!Worth
<1> QED BY <1>3, <1>4, <1>5, <1>6, <1>7, <1>8, <1>9 DEF Inbound!IInv

\* A step of the stores is one of the limiter of the API, or leaves it alone.
LEMMA AllNextInbound == [AllNext]_allVars => Inbound!Next \/ UNCHANGED inboundVars
BY DEF AllNext, allVars, OnlyCache, OnlyAudit, OnlyCase, OnlyStore, OnlyWatch, OnlyAlerts,
       OnlyWeb, OnlyGuard, OnlyOutbound, OnlyInbound, inboundVars

LEMMA InboundInvariance ==
    ASSUME Inbound!RequestAssumption, Inbound!IInv, [AllNext]_allVars
    PROVE  Inbound!IInv'
<1>1. CASE Inbound!Next
  <2>1. ASSUME NEW h \in Handlers, Inbound!Begin(h) PROVE Inbound!IInv' BY <2>1, InboundBegins
  <2>2. ASSUME NEW h \in Handlers, Inbound!Read(h) PROVE Inbound!IInv' BY <2>2, InboundReads
  <2>3. ASSUME NEW h \in Handlers, Inbound!Refill(h) PROVE Inbound!IInv' BY <2>3, InboundRefills
  <2>4. ASSUME NEW h \in Handlers, Inbound!Grant(h) PROVE Inbound!IInv' BY <2>4, InboundGrants
  <2>5. ASSUME NEW h \in Handlers, Inbound!Refuse(h) PROVE Inbound!IInv' BY <2>5, InboundRefuses
  <2>6. CASE Inbound!Tick BY <2>6, InboundTicks
  <2> QED BY <1>1, <2>1, <2>2, <2>3, <2>4, <2>5, <2>6 DEF Inbound!Next
<1>2. CASE UNCHANGED inboundVars BY <1>2, InboundStays
<1>3. Inbound!Next \/ UNCHANGED inboundVars
  BY AllNextInbound
<1> QED BY <1>1, <1>2, <1>3

\* A call that is refused again while no calls overlapped has seen a bucket with less than
\* a token, although all that accrued since the first refusal was in it.
LEMMA RefusalsEnd ==
    ASSUME Inbound!RequestAssumption, Inbound!IInv, [AllNext]_allVars
    PROVE  [\A c \in Handlers :
              /\ pc[c] = "refilled" /\ pc'[c] = "idle" /\ granted' = granted
              /\ refused # NoTime /\ overlaps = 0
              => called[c] - refused < TokenCost]_(Inbound!vars)
<1> SUFFICES ASSUME NEW c \in Handlers, pc[c] = "refilled", refused # NoTime, overlaps = 0
             PROVE  pc'[c] = "idle" /\ granted' = granted => called[c] - refused < TokenCost
  OBVIOUS
<1>1. /\ TokenCost \in Nat \ {0} /\ monotonic \in Nat /\ granted \in Nat /\ NoTime \notin Nat
      /\ pc \in [Handlers -> {"idle", "now", "read", "refilled"}]
      /\ bucket \in Inbound!Bucket /\ refused \in {NoTime} \cup 0..monotonic
      /\ Inbound!Under \in SUBSET Handlers
  BY InboundFacts
<1>2. c \in Inbound!Under BY DEF Inbound!Under
<1>3. read[c] = bucket /\ read[c].last = called[c] /\ called[c] \in 0..monotonic
  BY <1>2 DEF Inbound!IInv, Inbound!AloneKnows, Inbound!CallsTimed
<1>4. bucket.tokens >= TokenCost \/ bucket.tokens - bucket.last >= -refused
  BY DEF Inbound!IInv, Inbound!RefusalCounts, Inbound!Worth
<1>5. PICK t, l, r : t = bucket.tokens /\ l = bucket.last /\ r = refused OBVIOUS
<1>6. t \in Int /\ l \in Nat /\ r \in Nat BY <1>1, <1>5 DEF Inbound!Bucket
<1>7. t < TokenCost => called[c] - refused < TokenCost
  <2>1. t >= TokenCost \/ t - l >= -r BY <1>4, <1>5
  <2>2. t < TokenCost => l - r < TokenCost BY <1>1, <1>6, <2>1
  <2> QED BY <1>3, <1>5, <2>2
<1>8. CASE Inbound!Next
  <2>1. ASSUME NEW h \in Handlers, Inbound!Begin(h) PROVE pc'[c] # "idle"
    BY <1>1, <2>1 DEF Inbound!Begin
  <2>2. ASSUME NEW h \in Handlers, Inbound!Read(h) PROVE pc'[c] # "idle"
    BY <1>1, <2>2 DEF Inbound!Read
  <2>3. ASSUME NEW h \in Handlers, Inbound!Refill(h) PROVE pc'[c] # "idle"
    BY <1>1, <2>3 DEF Inbound!Refill
  <2>4. ASSUME NEW h \in Handlers, Inbound!Grant(h) PROVE granted' # granted
    BY <1>1, <2>4 DEF Inbound!Grant
  <2>5. ASSUME NEW h \in Handlers, Inbound!Refuse(h), pc'[c] = "idle"
      PROVE called[c] - refused < TokenCost
    <3>1. h = c BY <1>1, <2>5 DEF Inbound!Refuse
    <3>2. t < TokenCost BY <1>3, <1>5, <2>5, <3>1 DEF Inbound!Refuse
    <3> QED BY <1>7, <3>2
  <2>6. CASE Inbound!Tick BY <2>6 DEF Inbound!Tick
  <2> QED BY <1>8, <2>1, <2>2, <2>3, <2>4, <2>5, <2>6 DEF Inbound!Next
<1>9. CASE UNCHANGED inboundVars BY <1>9 DEF inboundVars
<1>10. Inbound!Next \/ UNCHANGED inboundVars
  BY AllNextInbound
<1> QED BY <1>8, <1>9, <1>10

\* A client of the API is granted no more than a burst, what accrues, and a token for
\* every call that began during another, for any number of callers and any rates; and
\* while none do, one that was refused is not refused again after a token's time.
THEOREM RequestsBounded ==
    ASSUME Inbound!RequestAssumption
    PROVE  AllSpec => InboundHolds
<1>1. AllInit => Inbound!IInv BY InboundStarts DEF AllInit
<1>2. Inbound!IInv /\ [AllNext]_allVars => (Inbound!IInv)' BY InboundInvariance
<1>3. Inbound!IInv => Inbound!TypeOK /\ Inbound!GrantsBounded BY DEF Inbound!IInv
<1>4. Inbound!IInv /\ [AllNext]_allVars =>
         [\A c \in Handlers :
            /\ pc[c] = "refilled" /\ pc'[c] = "idle" /\ granted' = granted
            /\ refused # NoTime /\ overlaps = 0
            => called[c] - refused < TokenCost]_(Inbound!vars)
  BY RefusalsEnd
<1>5. AllSpec => [](Inbound!TypeOK /\ Inbound!GrantsBounded) BY <1>1, <1>2, <1>3, PTL DEF AllSpec
<1>6. AllSpec => Inbound!RetryAfterSuffices
  BY <1>1, <1>2, <1>4, PTL DEF AllSpec, Inbound!RetryAfterSuffices
<1> QED BY <1>5, <1>6 DEF InboundHolds

=============================================================================
