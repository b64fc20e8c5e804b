--------------------------- MODULE TosGuardProofs ---------------------------
(***************************************************************************)
(* Proofs about the terms-of-service guard, for any number of sources, any *)
(* burst, cost and flush interval, and any bounds on time and restarts.    *)
(***************************************************************************)
EXTENDS Stores, TLAPS

-----------------------------------------------------------------------------
\* _refill turns any bucket into one that is of now and within its burst.
LEMMA RefillTyped ==
    ASSUME Guard!GuardAssumption, wallClock \in Guard!Time, NEW b \in Guard!Bucket
    PROVE  /\ Guard!Refilled(b) \in Guard!Bucket
           /\ Guard!Refilled(b).tokens <= Allowance
           /\ Guard!Refilled(b).last = wallClock
<1>1. GuardTime \in Nat /\ Allowance \in Nat BY DEF Guard!GuardAssumption
<1> QED BY <1>1 DEF Guard!Refilled, Guard!Bucket, Guard!Time, Guard!AtMost

\* Refilling a bucket of now that is within its burst changes nothing.
LEMMA RefillSettles ==
    ASSUME Guard!GuardAssumption, wallClock \in Guard!Time, NEW b \in Guard!Bucket, b.last
        = wallClock, b.tokens <= Allowance
    PROVE  Guard!Level(b) = b.tokens
<1>1. GuardTime \in Nat /\ Allowance \in Nat BY DEF Guard!GuardAssumption
<1> QED BY <1>1 DEF Guard!Level, Guard!Refilled, Guard!Bucket, Guard!Time, Guard!AtMost

\* The copy a query is answered from, and the bucket in it, are well-formed.
LEMMA CopyTyped ==
    ASSUME Guard!GuardAssumption, Guard!TypeOK, NEW s \in Sources
    PROVE  /\ Guard!AreBuckets(Guard!Copy(s))
           /\ Guard!BucketIn(Guard!Copy(s), s) \in Guard!Bucket
           /\ Guard!BucketIn(Guard!Copy(s), s).tokens <= Allowance
<1>1. Guard!AreBuckets(Guard!Copy(s)) BY DEF Guard!TypeOK, Guard!Copy
<1>2. Guard!Full \in Guard!Bucket /\ Guard!Full.tokens <= Allowance
  BY DEF Guard!GuardAssumption, Guard!TypeOK, Guard!Full, Guard!Bucket
<1> QED BY <1>1, <1>2 DEF Guard!AreBuckets, Guard!BucketIn

\* What acquire leaves in the copy: the other buckets as they were, and the
\* bucket of s refilled and, when it held a token, one token lighter.
LEMMA AcquiredFacts ==
    ASSUME Guard!GuardAssumption, Guard!TypeOK, NEW s \in Sources
    PROVE  /\ Guard!AreBuckets(Guard!Acquired(s))
           /\ DOMAIN Guard!Acquired(s) = DOMAIN Guard!Copy(s) \cup {s}
           /\ \A k \in DOMAIN Guard!Copy(s) \ {s} : Guard!Acquired(s)[k] = Guard!Copy(s)[k]
           /\ Guard!Acquired(s)[s].last = wallClock
           /\ Guard!Level(Guard!Acquired(s)[s]) =
                  Guard!Level(Guard!BucketIn(Guard!Copy(s), s))
                      - (IF Guard!HasToken(s) THEN QueryCost ELSE 0)
<1> DEFINE full   == Guard!Refilled(Guard!BucketIn(Guard!Copy(s), s))
           lighter == IF Guard!HasToken(s) THEN [full EXCEPT !.tokens = @ - QueryCost] ELSE full
<1>1. wallClock \in Guard!Time /\ QueryCost \in Nat /\ Allowance \in Nat
  BY DEF Guard!GuardAssumption, Guard!TypeOK
<1>2. full \in Guard!Bucket /\ full.tokens <= Allowance /\ full.last = wallClock
  BY <1>1, CopyTyped, RefillTyped
<1>3. /\ lighter \in Guard!Bucket
      /\ lighter.last = wallClock
      /\ lighter.tokens = full.tokens - (IF Guard!HasToken(s) THEN QueryCost ELSE 0)
      /\ lighter.tokens <= Allowance
  <2> HIDE DEF full
  <2> QED BY <1>1, <1>2 DEF Guard!Bucket
<1>4. Guard!Acquired(s)
          = [k \in DOMAIN Guard!Copy(s) \cup {s} |-> IF k = s THEN lighter ELSE Guard!Copy(s)[k]]
  BY DEF Guard!Acquired
<1>5. /\ DOMAIN Guard!Acquired(s) = DOMAIN Guard!Copy(s) \cup {s}
      /\ Guard!Acquired(s)[s] = lighter
      /\ \A k \in DOMAIN Guard!Copy(s) \ {s} : Guard!Acquired(s)[k] = Guard!Copy(s)[k]
  <2> HIDE DEF lighter
  <2> QED BY <1>4
<1>6. Guard!AreBuckets(Guard!Acquired(s))
  <2> HIDE DEF lighter
  <2> QED BY <1>3, <1>4, CopyTyped DEF Guard!AreBuckets
<1>7. Guard!Level(lighter) = lighter.tokens
  <2> HIDE DEF lighter
  <2> QED BY <1>1, <1>3, RefillSettles
<1>8. Guard!Level(Guard!BucketIn(Guard!Copy(s), s)) = full.tokens BY DEF Guard!Level
<1> HIDE DEF lighter, full
<1> QED BY <1>3, <1>5, <1>6, <1>7, <1>8

-----------------------------------------------------------------------------
\* The inductive invariant holds initially.
LEMMA InitIInv ==
    ASSUME Guard!GuardAssumption PROVE Guard!Init => Guard!IInv
<1> SUFFICES ASSUME Guard!Init PROVE Guard!IInv OBVIOUS
<1>1. Guard!TypeOK
  BY DEF Guard!GuardAssumption, Guard!Init, Guard!TypeOK, Guard!AreBuckets, Guard!Nothing,
     Guard!NeverFlushed, Guard!Time
<1>2. Guard!CopiesGenerous BY DEF Guard!Init, Guard!CopiesGenerous, Guard!Nothing
<1>3. Guard!OwnCopyBounded BY DEF Guard!Init, Guard!OwnCopyBounded
<1> QED BY <1>1, <1>2, <1>3 DEF Guard!IInv

\* A query, whether its write succeeds, is put off or fails, keeps the invariant.
LEMMA QueryStep ==
    ASSUME Guard!GuardAssumption, Guard!IInv, NEW s \in Sources, Guard!Take(s),
           stateFile' \in {stateFile, Guard!Nothing, Guard!Acquired(s)},
           dirty' \in [Sources -> BOOLEAN],
           \A o \in Sources \ {s} : dirty'[o] = dirty[o],
           lastFlush' \in [Sources -> Guard!Time \cup {Guard!NeverFlushed}],
           UNCHANGED <<wallClock, restarts, setBacks>>
    PROVE  Guard!IInv'
<1> USE DEF Guard!IInv
<1>1. /\ Guard!AreBuckets(Guard!Acquired(s))
      /\ DOMAIN Guard!Acquired(s) = DOMAIN Guard!Copy(s) \cup {s}
      /\ \A k \in DOMAIN Guard!Copy(s) \ {s} : Guard!Acquired(s)[k] = Guard!Copy(s)[k]
      /\ Guard!Acquired(s)[s].last = wallClock
      /\ Guard!Level(Guard!Acquired(s)[s]) =
             Guard!Level(Guard!BucketIn(Guard!Copy(s), s))
                 - (IF Guard!HasToken(s) THEN QueryCost ELSE 0)
  BY AcquiredFacts
<1>2. /\ wallClock \in Guard!Time /\ wallClock \in Int /\ QueryCost \in Nat \ {0}
      /\ Allowance \in Nat
      /\ ceiling \in [Sources -> Int]
      /\ restarts \in Nat
      /\ restarts * Allowance \in Int
  BY DEF Guard!GuardAssumption, Guard!TypeOK, Guard!Time
<1>3. /\ ceiling' \in [Sources -> Int]
      /\ ceiling'[s] = ceiling[s] - (IF Guard!HasToken(s) THEN QueryCost ELSE 0)
      /\ \A o \in Sources \ {s} : ceiling'[o] = ceiling[o]
  BY <1>2 DEF Guard!Take
<1>4. /\ limiters' = limiters \cup {s}
      /\ state' \in [Sources -> {state[o] : o \in Sources} \cup {Guard!Acquired(s)}]
      /\ state'[s] = Guard!Acquired(s)
      /\ \A o \in Sources \ {s} : state'[o] = state[o]
  <2>1. state = [o \in Sources |-> state[o]]
    BY DEF Guard!TypeOK
  <2> QED BY <2>1 DEF Guard!Take, Guard!TypeOK
<1>5. \A b : Guard!Level(b)' = Guard!Level(b)
  BY DEF Guard!Level, Guard!Refilled
<1>6. /\ Guard!Level(Guard!BucketIn(Guard!Copy(s), s)) \in Int
      /\ Guard!Level(Guard!BucketIn(Guard!Copy(s), s)) <= Allowance
      /\ Guard!HasToken(s) <=> Guard!Level(Guard!BucketIn(Guard!Copy(s), s)) >= QueryCost
  <2>1. Guard!BucketIn(Guard!Copy(s), s) \in Guard!Bucket BY CopyTyped
  <2>2. Guard!Refilled(Guard!BucketIn(Guard!Copy(s), s)) \in Guard!Bucket
        /\ Guard!Refilled(Guard!BucketIn(Guard!Copy(s), s)).tokens <= Allowance
    BY <1>2, <2>1, RefillTyped
  <2> QED BY <2>2 DEF Guard!Level, Guard!HasToken, Guard!Bucket
<1>7. Guard!TypeOK'
  <2>1. state' = [o \in Sources |-> state'[o]] /\ \A o \in Sources : Guard!AreBuckets(state'[o])
    BY <1>1, <1>4 DEF Guard!TypeOK
  <2>2. Guard!AreBuckets(stateFile')
    BY <1>1 DEF Guard!TypeOK, Guard!AreBuckets, Guard!Nothing
  <2>3. ceiling' \in [Sources -> Int] /\ \A o \in Sources : ceiling'[o] <= Allowance
    BY <1>2, <1>3 DEF Guard!TypeOK
  <2>4. limiters' \subseteq Sources
        /\ \A o \in Sources \ limiters' : state'[o] = Guard!Nothing /\ ~dirty'[o]
    BY <1>4 DEF Guard!TypeOK
  <2>5. /\ wallClock' \in Guard!Time /\ restarts' \in 0..MaxRestarts
        /\ setBacks' \in 0..MaxSetBacks
    BY DEF Guard!TypeOK
  <2>6. \A o \in Sources : Guard!AreBuckets(state[o])' <=> Guard!AreBuckets(state'[o])
    BY DEF Guard!AreBuckets
  <2>7. Guard!AreBuckets(stateFile)' <=> Guard!AreBuckets(stateFile')
    BY DEF Guard!AreBuckets
  <2> QED
    BY <2>1, <2>2, <2>3, <2>4, <2>5, <2>6, <2>7 DEF Guard!TypeOK, Guard!NeverFlushed, Guard!Time
<1>8. Guard!CopiesGenerous'
  <2> SUFFICES ASSUME setBacks = 0
               PROVE  \A k \in Sources :
                        /\ k \in DOMAIN stateFile' =>
                             stateFile'[k].last <= wallClock
                             /\ Guard!Level(stateFile'[k]) >= ceiling'[k]
                        /\ \A h \in limiters' : k \in DOMAIN state'[h] =>
                             /\ state'[h][k].last <= wallClock
                             /\ Guard!Level(state'[h][k]) >= ceiling'[k]
    BY <1>5 DEF Guard!CopiesGenerous
  <2>0. \A b \in Guard!Bucket : Guard!Level(b) \in Int
    BY <1>2, RefillTyped DEF Guard!Level, Guard!Bucket
  <2>1. \A k \in Sources : ceiling'[k] \in Int /\ ceiling'[k] <= ceiling[k]
    BY <1>2, <1>3
  <2>2. \A k \in DOMAIN Guard!Copy(s) :
            Guard!Copy(s)[k].last <= wallClock /\ Guard!Level(Guard!Copy(s)[k]) >= ceiling[k]
    <3>1. DOMAIN Guard!Copy(s) \subseteq Sources BY CopyTyped DEF Guard!AreBuckets
    <3> QED BY <3>1 DEF Guard!CopiesGenerous, Guard!Copy
  <2>3. Guard!Level(Guard!BucketIn(Guard!Copy(s), s)) >= ceiling[s]
    <3>1. CASE s \in DOMAIN Guard!Copy(s) BY <3>1, <2>2 DEF Guard!BucketIn
    <3>2. CASE s \notin DOMAIN Guard!Copy(s)
      <4>1. Guard!Full \in Guard!Bucket /\ Guard!Full.last = wallClock
            /\ Guard!Full.tokens = Allowance
        BY <1>2 DEF Guard!Full, Guard!Bucket
      <4>2. Guard!Level(Guard!Full) = Allowance BY <1>2, <4>1, RefillSettles
      <4>3. Guard!BucketIn(Guard!Copy(s), s) = Guard!Full BY <3>2 DEF Guard!BucketIn
      <4> QED BY <4>2, <4>3 DEF Guard!TypeOK
    <3> QED BY <3>1, <3>2
  <2>4. \A k \in DOMAIN Guard!Acquired(s) :
            Guard!Acquired(s)[k].last <= wallClock
            /\ Guard!Level(Guard!Acquired(s)[k]) >= ceiling'[k]
    <3> SUFFICES ASSUME NEW k \in DOMAIN Guard!Acquired(s)
                 PROVE  /\ Guard!Acquired(s)[k].last <= wallClock
                        /\ Guard!Level(Guard!Acquired(s)[k]) >= ceiling'[k]
      OBVIOUS
    <3>1. CASE k = s
      <4>1. Guard!Level(Guard!Acquired(s)[s]) >= ceiling'[s]
        BY <1>1, <1>2, <1>3, <1>6, <2>3
      <4> QED BY <3>1, <4>1, <1>1, <1>2
    <3>2. CASE k # s
      <4>1. k \in DOMAIN Guard!Copy(s) \ {s} /\ k \in Sources
        BY <3>2, <1>1 DEF Guard!AreBuckets
      <4> QED BY <4>1, <1>1, <1>3, <2>2
    <3> QED BY <3>1, <3>2
  <2>5. \A k \in DOMAIN stateFile :
            stateFile[k].last <= wallClock /\ Guard!Level(stateFile[k]) >= ceiling'[k]
    <3> SUFFICES ASSUME NEW k \in DOMAIN stateFile
                 PROVE  stateFile[k].last <= wallClock /\ Guard!Level(stateFile[k]) >= ceiling'[k]
      OBVIOUS
    <3>1. k \in Sources /\ stateFile[k] \in Guard!Bucket BY DEF Guard!TypeOK, Guard!AreBuckets
    <3>2. stateFile[k].last <= wallClock /\ Guard!Level(stateFile[k]) >= ceiling[k]
      BY <3>1 DEF Guard!CopiesGenerous
    <3> QED BY <3>1, <3>2, <2>0, <2>1, <1>2
  <2>6. \A k \in DOMAIN stateFile' :
            stateFile'[k].last <= wallClock /\ Guard!Level(stateFile'[k]) >= ceiling'[k]
    BY <2>4, <2>5 DEF Guard!Nothing
  <2>7. \A h \in limiters : \A k \in DOMAIN state[h] :
            state[h][k].last <= wallClock /\ Guard!Level(state[h][k]) >= ceiling'[k]
    <3> SUFFICES ASSUME NEW h \in limiters, NEW k \in DOMAIN state[h]
                 PROVE  state[h][k].last <= wallClock /\ Guard!Level(state[h][k]) >= ceiling'[k]
      OBVIOUS
    <3>1. h \in Sources /\ k \in Sources /\ state[h][k] \in Guard!Bucket
      BY DEF Guard!TypeOK, Guard!AreBuckets
    <3>2. state[h][k].last <= wallClock /\ Guard!Level(state[h][k]) >= ceiling[k]
      BY <3>1 DEF Guard!CopiesGenerous
    <3> QED BY <3>1, <3>2, <2>0, <2>1, <1>2
  <2>8. \A h \in limiters' : \A k \in DOMAIN state'[h] :
            state'[h][k].last <= wallClock /\ Guard!Level(state'[h][k]) >= ceiling'[k]
    <3>1. limiters \subseteq Sources BY DEF Guard!TypeOK
    <3> QED BY <3>1, <1>4, <2>4, <2>7
  <2> QED BY <2>6, <2>8
<1>9. Guard!OwnCopyBounded'
  <2> SUFFICES ASSUME NEW o \in Sources
               PROVE  IF o \in limiters'
                      THEN /\ o \in DOMAIN state'[o]
                           /\ ceiling'[o] >= -(restarts * Allowance)
                           /\ Guard!Level(state'[o][o]) <= ceiling'[o] + restarts * Allowance
                      ELSE IF restarts = 0 THEN ceiling'[o] = Allowance
                           ELSE ceiling'[o] >= -((restarts - 1) * Allowance)
    BY <1>5 DEF Guard!OwnCopyBounded
  <2>1. CASE o # s
    BY <2>1, <1>3, <1>4 DEF Guard!OwnCopyBounded
  <2>2. CASE o = s
    <3>1. /\ ceiling[s] >= -(restarts * Allowance)
          /\ Guard!Level(Guard!BucketIn(Guard!Copy(s), s)) <= ceiling[s] + restarts * Allowance
      <4>1. CASE s \in limiters
        <5>1. s \in DOMAIN state[s] /\ Guard!Copy(s) = state[s]
          BY <4>1 DEF Guard!OwnCopyBounded, Guard!Copy
        <5>2. Guard!BucketIn(Guard!Copy(s), s) = state[s][s]
          BY <5>1 DEF Guard!BucketIn
        <5> QED BY <4>1, <5>2 DEF Guard!OwnCopyBounded
      <4>2. CASE s \notin limiters /\ restarts = 0
        <5>1. ceiling[s] = Allowance BY <4>2 DEF Guard!OwnCopyBounded
        <5>2. restarts * Allowance = 0 BY <4>2, <1>2
        <5> QED BY <5>1, <5>2, <1>2, <1>6
      <4>3. CASE s \notin limiters /\ restarts # 0
        <5>1. ceiling[s] >= -((restarts - 1) * Allowance)
          BY <4>3 DEF Guard!OwnCopyBounded
        <5>2. (restarts - 1) * Allowance = restarts * Allowance - Allowance
          BY <1>2
        <5> QED BY <5>1, <5>2, <1>2, <1>6
      <4> QED BY <4>1, <4>2, <4>3
    <3>2. Guard!Level(Guard!Acquired(s)[s]) <= ceiling'[s] + restarts * Allowance
      BY <3>1, <1>1, <1>2, <1>3, <1>6
    <3>3. ceiling'[s] >= -(restarts * Allowance)
      BY <3>1, <1>2, <1>3, <1>6
    <3>4. s \in limiters' /\ s \in DOMAIN state'[s]
      BY <1>1, <1>4
    <3> QED BY <2>2, <3>2, <3>3, <3>4, <1>4
  <2> QED BY <2>1, <2>2
<1> QED BY <1>7, <1>8, <1>9

\* So does the loss of all limiters, with the file whole or truncated.
LEMMA ForgetStep ==
    ASSUME Guard!GuardAssumption, Guard!IInv, Guard!ForgetLimiters,
           stateFile' \in {stateFile, Guard!Nothing},
           UNCHANGED <<wallClock, ceiling, setBacks>>
    PROVE  Guard!IInv'
<1> USE DEF Guard!IInv
<1>1. /\ Allowance \in Nat /\ MaxRestarts \in Nat /\ restarts \in Nat
      /\ ceiling \in [Sources -> Int]
      /\ restarts' = restarts + 1
      /\ limiters' = {}
  BY DEF Guard!GuardAssumption, Guard!TypeOK, Guard!ForgetLimiters
<1>2. Guard!TypeOK'
  <2>1. Guard!AreBuckets(stateFile)'
    BY DEF Guard!TypeOK, Guard!AreBuckets, Guard!Nothing
  <2>2. state' = [o \in Sources |-> state'[o]] /\ \A s \in Sources : Guard!AreBuckets(state[s])'
    BY DEF Guard!ForgetLimiters, Guard!AreBuckets, Guard!Nothing
  <2>3. restarts' \in 0..MaxRestarts
    BY <1>1 DEF Guard!ForgetLimiters
  <2>4. /\ limiters' \subseteq Sources
        /\ dirty' \in [Sources -> BOOLEAN]
        /\ lastFlush' \in [Sources -> Guard!Time \cup {Guard!NeverFlushed}]
        /\ \A s \in Sources : state'[s] = Guard!Nothing /\ ~dirty'[s]
    BY DEF Guard!ForgetLimiters
  <2> QED BY <2>1, <2>2, <2>3, <2>4 DEF Guard!TypeOK, Guard!NeverFlushed, Guard!Time
<1>3. Guard!CopiesGenerous'
  <2>1. \A b : Guard!Level(b)' = Guard!Level(b) BY DEF Guard!Level, Guard!Refilled
  <2> QED BY <1>1, <2>1 DEF Guard!CopiesGenerous, Guard!Nothing
<1>4. Guard!OwnCopyBounded'
  <2>1. \A s \in Sources : ceiling[s] >= -(restarts * Allowance)
    <3> SUFFICES ASSUME NEW s \in Sources PROVE ceiling[s] >= -(restarts * Allowance)
      OBVIOUS
    <3>1. CASE s \in limiters BY <3>1 DEF Guard!OwnCopyBounded
    <3>2. CASE s \notin limiters /\ restarts = 0
      BY <3>2, <1>1 DEF Guard!OwnCopyBounded
    <3>3. CASE s \notin limiters /\ restarts # 0
      <4>1. (restarts - 1) * Allowance = restarts * Allowance - Allowance
            /\ restarts * Allowance \in Int
        BY <1>1
      <4> QED BY <3>3, <4>1, <1>1 DEF Guard!OwnCopyBounded
    <3> QED BY <3>1, <3>2, <3>3
  <2>2. restarts' # 0 /\ (restarts' - 1) = restarts
    BY <1>1
  <2> QED BY <1>1, <2>1, <2>2 DEF Guard!OwnCopyBounded
<1> QED BY <1>2, <1>3, <1>4

\* Time gives every bucket, true or copied, at most the same one unit; and
\* stepping the clock back never fills a copy.
LEMMA ClockStep ==
    ASSUME Guard!GuardAssumption, Guard!IInv, Guard!Tick \/ Guard!SetBack
    PROVE  Guard!IInv'
<1> USE DEF Guard!IInv
<1>1. /\ wallClock \in Int /\ wallClock' \in Int /\ wallClock' \in Guard!Time
      /\ Allowance \in Nat /\ GuardTime \in Nat /\ restarts \in Nat
      /\ restarts * Allowance \in Int /\ setBacks \in Nat
      /\ ceiling \in [Sources -> Int]
      /\ \A s \in Sources : ceiling[s] <= Allowance
  BY DEF Guard!GuardAssumption, Guard!TypeOK, Guard!Tick, Guard!SetBack, Guard!Time
<1>2. UNCHANGED <<limiters, state, dirty, lastFlush, stateFile, restarts>>
  BY DEF Guard!Tick, Guard!SetBack
<1>3. \A s \in Sources : ceiling'[s] =
          IF Guard!Tick THEN Guard!AtMost(Allowance, ceiling[s] + 1) ELSE ceiling[s]
  BY DEF Guard!Tick, Guard!SetBack
<1>4. ceiling' \in [Sources -> Int] /\ \A s \in Sources : ceiling'[s] <= Allowance
  <2>1. ceiling' \in [Sources -> Int]
    <3>1. CASE Guard!Tick BY <3>1, <1>1 DEF Guard!Tick, Guard!AtMost
    <3>2. CASE Guard!SetBack BY <3>2, <1>1 DEF Guard!SetBack
    <3> QED BY <3>1, <3>2
  <2> QED BY <1>1, <1>3, <2>1 DEF Guard!AtMost
<1>5. setBacks' \in 0..MaxSetBacks
  BY DEF Guard!GuardAssumption, Guard!Tick, Guard!SetBack, Guard!TypeOK
<1>6. Guard!TypeOK'
  <2>1. Guard!AreBuckets(stateFile)'
    BY <1>2 DEF Guard!TypeOK, Guard!AreBuckets, Guard!Bucket
  <2>2. state' = [o \in Sources |-> state'[o]] /\ \A s \in Sources : Guard!AreBuckets(state[s])'
    BY <1>2 DEF Guard!TypeOK, Guard!AreBuckets
  <2> QED BY <1>1, <1>2, <1>4, <1>5, <2>1, <2>2 DEF Guard!TypeOK, Guard!NeverFlushed, Guard!Time
<1>7. Guard!CopiesGenerous'
  <2> SUFFICES ASSUME setBacks' = 0 PROVE Guard!CopiesGenerous'
    BY DEF Guard!CopiesGenerous
  <2>1. Guard!Tick /\ setBacks = 0 /\ wallClock' = wallClock + 1
    BY <1>1 DEF Guard!Tick, Guard!SetBack
  <2>2. ASSUME NEW b \in Guard!Bucket, NEW s \in Sources,
               b.last <= wallClock, Guard!Level(b) >= ceiling[s]
        PROVE  b.last <= wallClock' /\ Guard!Level(b)' >= ceiling'[s]
    <3>1. ceiling'[s] = Guard!AtMost(Allowance, ceiling[s] + 1) /\ ceiling[s] \in Int
      BY <1>1, <1>3, <2>1
    <3>2. Guard!Level(b) = Guard!AtMost(Allowance, b.tokens + (wallClock - b.last))
          /\ Guard!Level(b)' = Guard!AtMost(Allowance, b.tokens + (wallClock' - b.last))
      BY DEF Guard!Level, Guard!Refilled
    <3>3. b.tokens \in Int /\ b.last \in Int
      BY <1>1 DEF Guard!Bucket, Guard!Time
    <3> QED BY <1>1, <2>1, <2>2, <3>1, <3>2, <3>3 DEF Guard!AtMost
  <2>3. \A s \in Sources : s \in DOMAIN stateFile =>
            stateFile[s].last <= wallClock' /\ Guard!Level(stateFile[s])' >= ceiling'[s]
    <3> SUFFICES ASSUME NEW s \in Sources, s \in DOMAIN stateFile
                 PROVE  stateFile[s].last <= wallClock' /\ Guard!Level(stateFile[s])' >= ceiling'[s]
      OBVIOUS
    <3>1. stateFile[s] \in Guard!Bucket BY DEF Guard!TypeOK, Guard!AreBuckets
    <3>2. stateFile[s].last <= wallClock /\ Guard!Level(stateFile[s]) >= ceiling[s]
      BY <2>1 DEF Guard!CopiesGenerous
    <3>3. stateFile'[s] = stateFile[s] BY <1>2
    <3>4. /\ stateFile[s].last <= wallClock'
          /\ Guard!AtMost(Allowance, stateFile[s].tokens + (wallClock' - stateFile[s].last))
                 >= ceiling'[s]
      BY <2>2, <3>1, <3>2 DEF Guard!Level, Guard!Refilled
    <3> QED BY <3>3, <3>4 DEF Guard!Level, Guard!Refilled
  <2>4. \A s \in Sources, h \in limiters : s \in DOMAIN state[h] =>
            state[h][s].last <= wallClock' /\ Guard!Level(state[h][s])' >= ceiling'[s]
    <3> SUFFICES ASSUME NEW s \in Sources, NEW h \in limiters, s \in DOMAIN state[h]
                 PROVE  state[h][s].last <= wallClock' /\ Guard!Level(state[h][s])' >= ceiling'[s]
      OBVIOUS
    <3>1. state[h][s] \in Guard!Bucket BY DEF Guard!TypeOK, Guard!AreBuckets
    <3>2. state[h][s].last <= wallClock /\ Guard!Level(state[h][s]) >= ceiling[s]
      BY <2>1 DEF Guard!CopiesGenerous
    <3>3. state'[h][s] = state[h][s] BY <1>2
    <3>4. /\ state[h][s].last <= wallClock'
          /\ Guard!AtMost(Allowance, state[h][s].tokens + (wallClock' - state[h][s].last))
                 >= ceiling'[s]
      BY <2>2, <3>1, <3>2 DEF Guard!Level, Guard!Refilled
    <3> QED BY <3>3, <3>4 DEF Guard!Level, Guard!Refilled
  <2> QED BY <1>2, <2>3, <2>4 DEF Guard!CopiesGenerous
<1>8. Guard!OwnCopyBounded'
  <2> SUFFICES ASSUME NEW s \in Sources
               PROVE  IF s \in limiters
                      THEN /\ s \in DOMAIN state[s]
                           /\ ceiling'[s] >= -(restarts * Allowance)
                           /\ Guard!Level(state[s][s])' <= ceiling'[s] + restarts * Allowance
                      ELSE IF restarts = 0 THEN ceiling'[s] = Allowance
                           ELSE ceiling'[s] >= -((restarts - 1) * Allowance)
    BY <1>2 DEF Guard!OwnCopyBounded
  <2>1. ceiling'[s] \in Int /\ ceiling[s] \in Int /\ ceiling'[s] >= ceiling[s]
        /\ (ceiling[s] = Allowance => ceiling'[s] = Allowance)
    BY <1>1, <1>3, <1>4 DEF Guard!AtMost
  <2>2. CASE s \in limiters
    <3>1. /\ s \in DOMAIN state[s] /\ ceiling[s] >= -(restarts * Allowance)
          /\ Guard!Level(state[s][s]) <= ceiling[s] + restarts * Allowance
      BY <2>2 DEF Guard!OwnCopyBounded
    <3>2. state[s][s] \in Guard!Bucket
      BY <3>1 DEF Guard!TypeOK, Guard!AreBuckets
    <3>3. state[s][s].tokens \in Int /\ state[s][s].last \in Int
      BY <3>2, <1>1 DEF Guard!Bucket, Guard!Time
    <3>4. /\ Guard!Level(state[s][s]) =
               Guard!AtMost(Allowance, state[s][s].tokens + (wallClock - state[s][s].last))
          /\ Guard!Level(state[s][s])' =
               Guard!AtMost(Allowance, state[s][s].tokens + (wallClock' - state[s][s].last))
      BY <1>2 DEF Guard!Level, Guard!Refilled
    <3>5. Guard!Level(state[s][s])' <= ceiling'[s] + restarts * Allowance
      <4>1. CASE Guard!Tick
        <5>1. wallClock' = wallClock + 1 /\ ceiling'[s] = Guard!AtMost(Allowance, ceiling[s] + 1)
          BY <4>1, <1>3 DEF Guard!Tick
        <5>2. restarts * Allowance >= 0 BY <1>1
        <5> QED BY <1>1, <2>1, <3>1, <3>3, <3>4, <5>1, <5>2 DEF Guard!AtMost
      <4>2. CASE Guard!SetBack
        <5>1. wallClock' < wallClock /\ ceiling'[s] = ceiling[s]
          BY <4>2 DEF Guard!SetBack
        <5> QED BY <1>1, <2>1, <3>1, <3>3, <3>4, <5>1 DEF Guard!AtMost
      <4> QED BY <4>1, <4>2
    <3> QED BY <2>1, <2>2, <3>1, <3>5, <1>1
  <2>3. CASE s \notin limiters
    <3>1. CASE restarts = 0 BY <2>1, <2>3, <3>1 DEF Guard!OwnCopyBounded
    <3>2. CASE restarts # 0
      <4>1. (restarts - 1) * Allowance \in Int BY <1>1
      <4> QED BY <2>1, <2>3, <3>2, <4>1 DEF Guard!OwnCopyBounded
    <3> QED BY <3>1, <3>2
  <2> QED BY <2>2, <2>3
<1> QED BY <1>6, <1>7, <1>8

\* Every step of the guard keeps the inductive invariant.
LEMMA NextIInv ==
    ASSUME Guard!GuardAssumption PROVE Guard!IInv /\ [Guard!Next]_(Guard!vars) => Guard!IInv'
<1> SUFFICES ASSUME Guard!IInv, [Guard!Next]_(Guard!vars) PROVE Guard!IInv'
  OBVIOUS
<1>1. ASSUME NEW s \in Sources, Guard!Allow(s) \/ Guard!Throttle(s)
      PROVE  Guard!IInv'
  <2>1. Guard!Take(s) /\ Guard!SaveOrBatch(s) /\ UNCHANGED <<wallClock, restarts, setBacks>>
    BY <1>1 DEF Guard!Allow, Guard!Throttle
  <2>2. stateFile' \in {stateFile, Guard!Nothing, Guard!Acquired(s)} BY <2>1 DEF Guard!SaveOrBatch
  <2>3. dirty' \in [Sources -> BOOLEAN] /\ \A o \in Sources \ {s} : dirty'[o] = dirty[o]
    BY <2>1 DEF Guard!SaveOrBatch, Guard!IInv, Guard!TypeOK
  <2>4. lastFlush' \in [Sources -> Guard!Time \cup {Guard!NeverFlushed}]
    BY <2>1 DEF Guard!SaveOrBatch, Guard!IInv, Guard!TypeOK
  <2> QED BY <2>1, <2>2, <2>3, <2>4, QueryStep
<1>2. ASSUME NEW s \in Sources, Guard!FlushFails(s)
      PROVE  Guard!IInv'
  <2>1. Guard!Take(s) /\ UNCHANGED <<wallClock, restarts, setBacks>>
    BY <1>2 DEF Guard!FlushFails
  <2>2. stateFile' \in {stateFile, Guard!Nothing, Guard!Acquired(s)} BY <1>2 DEF Guard!FlushFails
  <2>3. dirty' \in [Sources -> BOOLEAN] /\ \A o \in Sources \ {s} : dirty'[o] = dirty[o]
    BY <1>2 DEF Guard!FlushFails, Guard!IInv, Guard!TypeOK
  <2>4. lastFlush' \in [Sources -> Guard!Time \cup {Guard!NeverFlushed}]
    BY <1>2 DEF Guard!FlushFails, Guard!IInv, Guard!TypeOK
  <2> QED BY <2>1, <2>2, <2>3, <2>4, QueryStep
<1>3. ASSUME NEW s \in Sources, Guard!CrashInFlush(s)
      PROVE  Guard!IInv'
  BY <1>3, ForgetStep DEF Guard!CrashInFlush
<1>4. CASE Guard!Restart BY <1>4, ForgetStep DEF Guard!Restart
<1>5. CASE Guard!Tick \/ Guard!SetBack BY <1>5, ClockStep
<1>6. CASE UNCHANGED Guard!vars
  <2>1. \A b : Guard!Level(b)' = Guard!Level(b) BY <1>6 DEF Guard!vars, Guard!Level, Guard!Refilled
  <2>2. Guard!TypeOK'
    BY <1>6 DEF Guard!vars, Guard!IInv, Guard!TypeOK, Guard!AreBuckets, Guard!NeverFlushed,
       Guard!Time
  <2>3. Guard!CopiesGenerous' BY <1>6, <2>1 DEF Guard!vars, Guard!IInv, Guard!CopiesGenerous
  <2>4. Guard!OwnCopyBounded' BY <1>6, <2>1 DEF Guard!vars, Guard!IInv, Guard!OwnCopyBounded
  <2> QED BY <2>2, <2>3, <2>4 DEF Guard!IInv
<1> QED BY <1>1, <1>2, <1>3, <1>4, <1>5, <1>6 DEF Guard!Next

\* A step of the stores is one of the guard, or leaves it alone.
LEMMA AllNextGuard == [AllNext]_allVars => [Guard!Next]_(Guard!vars)
BY DEF AllNext, allVars, OnlyCache, OnlyAudit, OnlyCase, OnlyStore, OnlyWatch, OnlyAlerts,
       OnlyWeb, OnlyGuard, OnlyOutbound, OnlyInbound, guardVars, Guard!vars

\* The inductive invariant holds in every reachable state.
THEOREM GuardInvariance ==
    ASSUME Guard!GuardAssumption PROVE AllSpec => []Guard!IInv
<1>1. AllInit => Guard!IInv BY InitIInv DEF AllInit
<1>2. Guard!IInv /\ [AllNext]_allVars => Guard!IInv' BY NextIInv, AllNextGuard
<1> QED BY <1>1, <1>2, PTL DEF AllSpec

-----------------------------------------------------------------------------
\* The variables hold values of their types.
THEOREM GuardTypeCorrect ==
    ASSUME Guard!GuardAssumption PROVE AllSpec => []Guard!TypeOK
<1>1. Guard!IInv => Guard!TypeOK BY DEF Guard!IInv
<1> QED BY <1>1, GuardInvariance, PTL

\* Restarts, lost writes and corrupt files grant a source at most one full burst
\* each beyond its ceiling, and without them it never exceeds the ceiling.
THEOREM ExcessIsBounded ==
    ASSUME Guard!GuardAssumption PROVE AllSpec => []ExcessBounded
<1>1. Guard!IInv => ExcessBounded
  <2> SUFFICES ASSUME Guard!IInv, NEW s \in Sources
               PROVE  ceiling[s] >= -(restarts * Allowance)
    BY DEF ExcessBounded, Guard!ExcessBounded, Guard!IInv
  <2>1. Allowance \in Nat /\ restarts \in Nat /\ ceiling[s] \in Int
    BY DEF Guard!GuardAssumption, Guard!IInv, Guard!TypeOK
  <2>2. CASE s \in limiters BY <2>2 DEF Guard!IInv, Guard!OwnCopyBounded
  <2>3. CASE s \notin limiters /\ restarts = 0
    BY <2>1, <2>3 DEF Guard!IInv, Guard!OwnCopyBounded
  <2>4. CASE s \notin limiters /\ restarts # 0
    <3>1. (restarts - 1) * Allowance = restarts * Allowance - Allowance
          /\ restarts * Allowance \in Int
      BY <2>1
    <3> QED BY <2>1, <2>4, <3>1 DEF Guard!IInv, Guard!OwnCopyBounded
  <2> QED BY <2>2, <2>3, <2>4
<1> QED BY <1>1, GuardInvariance, PTL

\* As long as the clock only advances, a throttled source has used up its true
\* allowance: the guard never skips a query the ceiling permits.
THEOREM ThrottlingIsJustified ==
    ASSUME Guard!GuardAssumption PROVE AllSpec => ThrottlesWithReason
<1>1. Guard!IInv =>
          [\A s \in Sources : Guard!Throttle(s) /\ setBacks = 0
              => ceiling[s] < QueryCost]_(Guard!vars)
  <2> SUFFICES ASSUME Guard!IInv, NEW s \in Sources, Guard!Throttle(s), setBacks = 0
               PROVE  ceiling[s] < QueryCost
    OBVIOUS
  <2>1. wallClock \in Guard!Time /\ Allowance \in Nat /\ QueryCost \in Nat /\ ceiling[s] \in Int
        /\ ceiling[s] <= Allowance
    BY DEF Guard!GuardAssumption, Guard!IInv, Guard!TypeOK
  <2>2. Guard!BucketIn(Guard!Copy(s), s) \in Guard!Bucket BY CopyTyped DEF Guard!IInv
  <2>3. Guard!Level(Guard!BucketIn(Guard!Copy(s), s)) \in Int
    BY <2>1, <2>2, RefillTyped DEF Guard!Level, Guard!Bucket
  <2>4. Guard!Level(Guard!BucketIn(Guard!Copy(s), s)) < QueryCost
    BY <2>1, <2>3 DEF Guard!Throttle, Guard!HasToken, Guard!Level
  <2>5. CASE s \in DOMAIN Guard!Copy(s)
    <3>1. Guard!Level(Guard!Copy(s)[s]) >= ceiling[s]
      BY <2>5 DEF Guard!IInv, Guard!CopiesGenerous, Guard!Copy
    <3> QED BY <2>1, <2>3, <2>4, <2>5, <3>1 DEF Guard!BucketIn
  <2>6. CASE s \notin DOMAIN Guard!Copy(s)
    <3>1. Guard!Full \in Guard!Bucket /\ Guard!Full.last = wallClock
          /\ Guard!Full.tokens = Allowance
      BY <2>1 DEF Guard!Full, Guard!Bucket
    <3>2. Guard!Level(Guard!Full) = Allowance BY <2>1, <3>1, RefillSettles
    <3> QED BY <2>1, <2>4, <2>6, <3>2 DEF Guard!BucketIn
  <2> QED BY <2>5, <2>6
<1> QED BY <1>1, GuardInvariance, PTL DEF ThrottlesWithReason, Guard!ThrottlesWithReason

=============================================================================
