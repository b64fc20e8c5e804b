------------------------------ MODULE EndsProofs ------------------------------
(***************************************************************************)
(* Proofs that what is begun comes to a sound end, for any endpoints,      *)
(* plugins, sites, handles, searches and plans.  The parts have no state   *)
(* in common: each has an inductive invariant of its own (IInv of its      *)
(* module) that a step of any other part leaves as it is.                  *)
(***************************************************************************)
EXTENDS Ends, Subsequences, FiniteSetTheorems, TLAPS

-----------------------------------------------------------------------------
\* The call of the AI client.  An endpoint sleeps what its delay has grown by, and the
\* delay may be doubled as often as attempts are left.

LEMMA OmniInit == ASSUME Omni!OmniAssumption, Omni!Init PROVE Omni!IInv
<1> USE DEF Omni!OmniAssumption, Omni!Init
<1>1. 1 \in DOMAIN Clients /\ Len(Clients) \in Nat \ {0} /\ 1 \in 1..CallRetries
  OBVIOUS
<1>2. Omni!TypeOK BY <1>1 DEF Omni!TypeOK
<1>3. 2 ^ CallRetries \in Nat \ {0} /\ Omni!Longest \in Nat /\ MinDelay <= Omni!Longest
  BY DEF Omni!Longest
<1>4. Omni!SleptSoFar
  <2>1. Omni!DoublingsLeft = CallRetries BY DEF Omni!DoublingsLeft
  <2> QED BY <1>3, <2>1 DEF Omni!SleptSoFar, Omni!Longest
<1>5. Omni!CallBounded
  <2>1. Len(Clients) * MinDelay * (2 ^ CallRetries - 1) >= 0 BY <1>1, <1>3
  <2> QED BY <2>1 DEF Omni!CallBounded
<1> QED BY <1>2, <1>4, <1>5
    DEF Omni!IInv, Omni!OverrideOncePerEndpoint, Omni!SentSound, Omni!FirstIsOverride

\* What an endpoint has slept, and those before it, is within the bound of the call.
LEMMA OmniSleptBound ==
    ASSUME Omni!OmniAssumption, NEW c \in DOMAIN Clients, NEW d \in Nat, NEW s \in Nat,
           d <= Omni!Longest, MinDelay <= d,
           s <= (c - 1) * (Omni!Longest - MinDelay) + (d - MinDelay)
    PROVE  /\ s <= c * (Omni!Longest - MinDelay)
           /\ s <= Len(Clients) * MinDelay * (2 ^ CallRetries - 1)
<1>1. /\ MinDelay \in Nat /\ 2 ^ CallRetries \in Nat \ {0} /\ Omni!Longest \in Nat
      /\ Len(Clients) \in Nat /\ c \in 1..Len(Clients)
  BY DEF Omni!OmniAssumption, Omni!Longest
<1> DEFINE g == Omni!Longest - MinDelay
<1>2. g \in Nat /\ d - MinDelay <= g BY <1>1
<1>3. g = MinDelay * (2 ^ CallRetries - 1) BY <1>1 DEF Omni!Longest
<1>4. Len(Clients) * g = Len(Clients) * MinDelay * (2 ^ CallRetries - 1)
  BY <1>1 DEF Omni!Longest
<1>5. s <= (c - 1) * g + g BY <1>1, <1>2
<1> HIDE DEF g
<1>6. \A m, n \in Nat : m <= n => m * g <= n * g
  <2> SUFFICES ASSUME NEW m \in Nat, NEW n \in Nat, m <= n PROVE m * g <= n * g
    OBVIOUS
  <2>1. n - m \in Nat OBVIOUS
  <2>2. (n - m) * g \in Nat BY <1>2, <2>1
  <2>3. (n - m) * g = n * g - m * g BY <1>2
  <2>4. m * g \in Int /\ n * g \in Int BY <1>2
  <2> QED BY <2>2, <2>3, <2>4
<1>7. (c - 1) * g + g = c * g BY <1>1, <1>2
<1>8. c * g <= Len(Clients) * g /\ c * g \in Nat /\ Len(Clients) * g \in Nat
  BY <1>1, <1>2, <1>6
<1>9. s <= c * g BY <1>5, <1>7
<1>10. s <= Len(Clients) * g BY <1>8, <1>9
<1>11. c * g = c * (Omni!Longest - MinDelay) BY DEF g
<1> QED BY <1>4, <1>9, <1>10, <1>11

\* A request is recorded after those of the endpoints before.
LEMMA OmniSends ==
    ASSUME Omni!OmniAssumption, Omni!IInv, state = "sending",
           sent' = Append(sent, [client |-> client, model |-> model]),
           client' \in DOMAIN Clients, client' >= client
    PROVE  /\ Omni!SentSound' /\ Omni!OverrideOncePerEndpoint'
           /\ \A i, j \in DOMAIN sent' : i < j => sent'[i].client <= sent'[j].client
           /\ \A i \in DOMAIN sent' : sent'[i].client \in DOMAIN Clients
           /\ sent' # << >> /\ sent'[Len(sent')].client = client
<1> DEFINE last == [client |-> client, model |-> model]
<1>1. /\ sent \in Seq([client : DOMAIN Clients, model : {Default, Override}])
      /\ last \in [client : DOMAIN Clients, model : {Default, Override}]
      /\ last.client = client /\ last.model = model
      /\ DOMAIN Clients \subseteq Nat /\ client \in DOMAIN Clients
      /\ \A i \in DOMAIN sent : sent[i].client <= client /\ sent[i].client \in DOMAIN Clients
  BY DEF Omni!IInv, Omni!TypeOK, Omni!SentSound, Omni!OmniAssumption
<1> HIDE DEF last
<1>2. /\ sent' \in Seq([client : DOMAIN Clients, model : {Default, Override}])
      /\ Len(sent) \in Nat /\ Len(sent') = Len(sent) + 1
      /\ DOMAIN sent' = DOMAIN sent \cup {Len(sent) + 1}
      /\ sent'[Len(sent) + 1] = last /\ \A i \in DOMAIN sent : sent'[i] = sent[i]
      /\ DOMAIN sent = 1..Len(sent)
  BY <1>1 DEF last
<1>3. Omni!SentSound' BY <1>1, <1>2 DEF Omni!SentSound
<1>4. Omni!OverrideOncePerEndpoint'
  <2> SUFFICES ASSUME NEW i \in DOMAIN sent'
               PROVE  sent'[i].model = IF i = 1 \/ sent'[i - 1].client # sent'[i].client
                                       THEN Override ELSE Default
    BY DEF Omni!OverrideOncePerEndpoint
  <2>1. CASE i \in DOMAIN sent
    <3>1. i # 1 => i - 1 \in DOMAIN sent BY <1>2, <2>1
    <3> QED BY <1>2, <2>1, <3>1 DEF Omni!IInv, Omni!OverrideOncePerEndpoint
  <2>2. CASE i = Len(sent) + 1
    <3>0. sent # << >> <=> Len(sent) # 0 BY <1>1
    <3>1. PICK n \in Nat : n = Len(sent) BY <1>2
    <3>2. n # 0 => n \in 1..n BY <3>1
    <3>3. n + 1 - 1 = n BY <3>1
    <3>4. n # 0 => n + 1 # 1 BY <3>1
    <3>5. sent # << >> => Len(sent) \in DOMAIN sent /\ i - 1 = Len(sent) /\ i # 1
      BY <1>2, <2>2, <3>0, <3>1, <3>2, <3>3, <3>4
    <3>6. sent = << >> => i = 1 BY <2>2, <3>0, <3>1
    <3>7. model = IF sent # << >> /\ sent[Len(sent)].client = client THEN Default ELSE Override
      BY DEF Omni!IInv, Omni!FirstIsOverride, Omni!Ended
    <3>8. sent # << >> => sent'[i - 1] = sent[Len(sent)] BY <1>2, <3>5
    <3> QED BY <1>1, <1>2, <2>2, <3>5, <3>6, <3>7, <3>8
  <2> QED BY <1>2, <2>1, <2>2
<1>5. \A i, j \in DOMAIN sent' : i < j => sent'[i].client <= sent'[j].client
  BY <1>1, <1>2, SMTT(30) DEF Omni!IInv, Omni!CallBounded
<1> QED BY <1>1, <1>2, <1>3, <1>4, <1>5

\* The next endpoint begins with the delay of the first attempt, when what this one has
\* slept is within its share of the bound.
LEMMA OmniGivesUp ==
    ASSUME Omni!OmniAssumption, Omni!IInv, Omni!GiveUp, slept' = slept
    PROVE  /\ client' \in DOMAIN Clients /\ client' >= client /\ Omni!SleptSoFar'
           /\ state' \in {"sending", "failed"} /\ attempt' \in 1..CallRetries /\ delay' \in Nat
           /\ model' \in {Default, Override}
           /\ \/ state' = "failed" /\ client' = client
              \/ client' > client /\ model' = Override
<1> USE DEF Omni!IInv, Omni!TypeOK
<1>1. /\ MinDelay \in Nat \ {0} /\ 2 ^ CallRetries \in Nat \ {0} /\ Omni!Longest \in Nat
      /\ MinDelay <= Omni!Longest /\ Len(Clients) \in Nat /\ client \in 1..Len(Clients)
      /\ DOMAIN Clients = 1..Len(Clients) /\ CallRetries \in Nat \ {0}
  BY DEF Omni!OmniAssumption, Omni!Longest
<1>2. CASE client < Len(Clients)
  <2>1. /\ state' = "sending" /\ client' = client + 1 /\ attempt' = 1 /\ delay' = MinDelay
        /\ model' = Override
    BY <1>2 DEF Omni!GiveUp, Omni!Enter
  <2>2. slept <= client * (Omni!Longest - MinDelay)
    BY <1>1, OmniSleptBound DEF Omni!SleptSoFar
  <2>3. slept' <= (client' - 1) * (Omni!Longest - MinDelay) + (delay' - MinDelay)
    BY <1>1, <2>1, <2>2
  <2>4. Omni!DoublingsLeft' = CallRetries BY <1>1, <2>1 DEF Omni!DoublingsLeft
  <2>5. Omni!SleptSoFar' BY <1>1, <2>1, <2>3, <2>4 DEF Omni!SleptSoFar, Omni!Longest
  <2>6. client + 1 \in DOMAIN Clients /\ client + 1 > client /\ client + 1 >= client
    BY <1>1, <1>2
  <2>7. 1 \in 1..CallRetries BY <1>1
  <2> HIDE DEF Omni!IInv, Omni!TypeOK
  <2> QED BY <1>1, <2>1, <2>5, <2>6, <2>7
<1>3. CASE ~ client < Len(Clients)
  <2>1. state' = "failed" /\ UNCHANGED <<client, attempt, delay, model>>
    BY <1>3 DEF Omni!GiveUp
  <2>2. Omni!SleptSoFar' BY <2>1 DEF Omni!SleptSoFar, Omni!Ended, Omni!Longest
  <2> QED BY <1>1, <2>1, <2>2
<1> QED BY <1>2, <1>3

\* The bound of the call follows from what the endpoints have slept.
LEMMA OmniBounded ==
    ASSUME Omni!OmniAssumption, client \in DOMAIN Clients, delay \in Nat, slept \in Nat,
           Omni!SleptSoFar
    PROVE  slept <= Len(Clients) * MinDelay * (2 ^ CallRetries - 1)
BY OmniSleptBound DEF Omni!SleptSoFar

LEMMA OmniStep ==
    ASSUME Omni!OmniAssumption
    PROVE  Omni!IInv /\ [Omni!Next]_(Omni!vars) => Omni!IInv'
<1> SUFFICES ASSUME Omni!IInv, [Omni!Next]_(Omni!vars)
             PROVE  /\ Omni!TypeOK' /\ Omni!OverrideOncePerEndpoint' /\ Omni!SentSound'
                    /\ Omni!FirstIsOverride' /\ Omni!SleptSoFar'
                    /\ \A i, j \in DOMAIN sent' : i < j => sent'[i].client <= sent'[j].client
  <2>1. (Omni!TypeOK /\ Omni!SleptSoFar)'
            => (slept <= Len(Clients) * MinDelay * (2 ^ CallRetries - 1))'
    BY OmniBounded, PTL DEF Omni!TypeOK
  <2> QED BY <2>1 DEF Omni!IInv, Omni!CallBounded
<1>0. /\ state \in {"sending", "sleeping", "answered", "failed"} /\ client \in DOMAIN Clients
      /\ attempt \in 1..CallRetries /\ delay \in Nat /\ slept \in Nat
      /\ model \in {Default, Override} /\ DOMAIN Clients = 1..Len(Clients) /\ Len(Clients) \in Nat
      /\ CallRetries \in Nat \ {0} /\ MinDelay \in Nat \ {0} /\ 2 ^ CallRetries \in Nat \ {0}
      /\ Omni!Longest \in Nat
  BY DEF Omni!IInv, Omni!TypeOK, Omni!OmniAssumption, Omni!Longest
<1>s. /\ sent \in Seq([client : DOMAIN Clients, model : {Default, Override}])
      /\ \A i \in DOMAIN sent : sent[i].client \in Nat /\ sent[i].client <= client
  <2>1. PICK R : R = [client : DOMAIN Clients, model : {Default, Override}] OBVIOUS
  <2>2. sent \in Seq(R) BY <2>1 DEF Omni!IInv, Omni!SentSound
  <2>3. \A i \in DOMAIN sent : sent[i] \in R BY <2>2
  <2>4. \A i \in DOMAIN sent : sent[i].client \in DOMAIN Clients BY <2>1, <2>3
  <2> QED BY <1>0, <2>1, <2>2, <2>4 DEF Omni!IInv, Omni!SentSound
<1>1. CASE Omni!Answers
  <2>1. /\ state = "sending" /\ state' = "answered" /\ UNCHANGED <<client, attempt, delay, slept>>
        /\ sent' = Append(sent, [client |-> client, model |-> model]) /\ model' = Default
    BY <1>1 DEF Omni!Answers, Omni!Send
  <2>2. Omni!SleptSoFar' BY <2>1 DEF Omni!IInv, Omni!SleptSoFar, Omni!Ended, Omni!Longest
  <2>s. /\ Omni!SentSound' /\ Omni!OverrideOncePerEndpoint'
        /\ \A i, j \in DOMAIN sent' : i < j => sent'[i].client <= sent'[j].client
        /\ \A i \in DOMAIN sent' : sent'[i].client \in DOMAIN Clients
        /\ sent' # << >> /\ sent'[Len(sent')].client = client
    BY <1>0, <2>1, OmniSends
  <2> QED BY <1>0, <2>1, <2>2, <2>s DEF Omni!TypeOK, Omni!FirstIsOverride, Omni!Ended
<1>2. CASE Omni!FailsForNow
  <2>1. /\ state = "sending" /\ state' = "sleeping" /\ UNCHANGED <<client, attempt>>
        /\ slept' = slept + delay /\ delay' = 2 * delay
        /\ sent' = Append(sent, [client |-> client, model |-> model]) /\ model' = Default
    BY <1>2 DEF Omni!FailsForNow, Omni!Send
  <2> DEFINE n == CallRetries - attempt
  <2>2. n \in 0..CallRetries /\ 2 ^ n \in Nat \ {0} /\ 2 ^ (n + 1) = 2 * 2 ^ n
    BY <1>0 DEF Omni!OmniAssumption
  <2>3. Omni!DoublingsLeft = n + 1 /\ Omni!DoublingsLeft' = n
    BY <2>1 DEF Omni!DoublingsLeft
  <2>4. delay * 2 ^ (n + 1) = Omni!Longest
    BY <2>1, <2>3 DEF Omni!IInv, Omni!SleptSoFar, Omni!Ended
  <2> HIDE DEF n
  <2>5. PICK w \in Nat \ {0} : w = 2 ^ n BY <2>2
  <2>6. delay' * w = Omni!Longest /\ delay' \in Nat BY <1>0, <2>1, <2>2, <2>4, <2>5
  <2>7. delay' <= Omni!Longest
    <3>0. PICK d \in Nat : d = delay' BY <2>6
    <3>1. w - 1 \in Nat /\ d * (w - 1) \in Nat BY <2>5
    <3>2. d * (w - 1) = d * w - d /\ d * w \in Nat BY <2>5
    <3>3. d <= d * w BY <3>1, <3>2
    <3> QED BY <2>6, <3>0, <3>3
  <2>8. slept' <= (client - 1) * (Omni!Longest - MinDelay) + (delay' - MinDelay)
        /\ MinDelay <= delay'
    <3> DEFINE before == (client - 1) * (Omni!Longest - MinDelay)
    <3>1. slept <= before + (delay - MinDelay) /\ MinDelay <= delay
      BY DEF Omni!IInv, Omni!SleptSoFar
    <3>2. before \in Int BY <1>0
    <3> HIDE DEF before
    <3>3. slept' <= before + (delay' - MinDelay) /\ MinDelay <= delay'
      BY <1>0, <2>1, <3>1, <3>2
    <3> QED BY <3>3 DEF before
  <2>9. Omni!SleptSoFar'
    BY <2>1, <2>3, <2>5, <2>6, <2>7, <2>8 DEF Omni!SleptSoFar, Omni!Longest
  <2>s. /\ Omni!SentSound' /\ Omni!OverrideOncePerEndpoint'
        /\ \A i, j \in DOMAIN sent' : i < j => sent'[i].client <= sent'[j].client
        /\ \A i \in DOMAIN sent' : sent'[i].client \in DOMAIN Clients
        /\ sent' # << >> /\ sent'[Len(sent')].client = client
    BY <1>0, <2>1, OmniSends
  <2>t. slept' \in Nat BY <1>0, <2>1
  <2> QED BY <1>0, <2>1, <2>6, <2>9, <2>s, <2>t DEF Omni!TypeOK, Omni!FirstIsOverride
<1>3. CASE Omni!FailsForGood
  <2>1. /\ state = "sending" /\ Omni!GiveUp /\ slept' = slept
        /\ sent' = Append(sent, [client |-> client, model |-> model])
    BY <1>3 DEF Omni!FailsForGood
  <2>g. /\ client' \in DOMAIN Clients /\ client' >= client /\ Omni!SleptSoFar'
        /\ state' \in {"sending", "failed"} /\ attempt' \in 1..CallRetries /\ delay' \in Nat
        /\ model' \in {Default, Override}
        /\ \/ state' = "failed" /\ client' = client
           \/ client' > client /\ model' = Override
    BY <2>1, OmniGivesUp
  <2>s. /\ Omni!SentSound' /\ Omni!OverrideOncePerEndpoint'
        /\ \A i, j \in DOMAIN sent' : i < j => sent'[i].client <= sent'[j].client
        /\ \A i \in DOMAIN sent' : sent'[i].client \in DOMAIN Clients
        /\ sent' # << >> /\ sent'[Len(sent')].client = client
    BY <1>0, <2>1, <2>g, OmniSends
  <2> QED BY <1>0, <2>1, <2>g, <2>s DEF Omni!TypeOK, Omni!FirstIsOverride, Omni!Ended
<1>4. CASE Omni!Wake
  <2>1. state = "sleeping" /\ sent' = sent /\ slept' = slept BY <1>4 DEF Omni!Wake
  <2>2. CASE attempt < CallRetries
    <3>1. state' = "sending" /\ attempt' = attempt + 1 /\ UNCHANGED <<client, delay, model>>
      BY <1>4, <2>2 DEF Omni!Wake
    <3>2. Omni!DoublingsLeft' = Omni!DoublingsLeft BY <1>0, <2>1, <3>1 DEF Omni!DoublingsLeft
    <3>3. Omni!SleptSoFar'
      BY <2>1, <3>1, <3>2 DEF Omni!IInv, Omni!SleptSoFar, Omni!Ended, Omni!Longest
    <3> QED BY <1>0, <2>1, <2>2, <3>1, <3>3
            DEF Omni!IInv, Omni!TypeOK, Omni!OverrideOncePerEndpoint, Omni!SentSound,
                Omni!FirstIsOverride, Omni!CallBounded, Omni!Ended
  <2>3. CASE ~ attempt < CallRetries
    <3>1. Omni!GiveUp BY <1>4, <2>3 DEF Omni!Wake
    <3>2. /\ client' \in DOMAIN Clients /\ client' >= client /\ Omni!SleptSoFar'
          /\ state' \in {"sending", "failed"} /\ attempt' \in 1..CallRetries /\ delay' \in Nat
          /\ model' \in {Default, Override}
          /\ \/ state' = "failed" /\ client' = client
             \/ client' > client /\ model' = Override
      BY <2>1, <3>1, OmniGivesUp
    <3>3. state' = "failed" => UNCHANGED <<client, model>>
      BY <3>1 DEF Omni!GiveUp, Omni!Enter
    <3>4. client' \in Nat /\ client \in Nat BY <1>0, <3>2
    <3>5. \A i \in DOMAIN sent : sent[i].client <= client' BY <1>s, <3>2, <3>4
    <3>6. Omni!SentSound' BY <1>s, <2>1, <3>5 DEF Omni!SentSound
    <3>7. Omni!FirstIsOverride'
      <4>1. CASE state' = "failed" BY <4>1 DEF Omni!FirstIsOverride, Omni!Ended
      <4>2. CASE client' > client /\ model' = Override
        <5>1. sent # << >> => Len(sent) \in DOMAIN sent BY <1>s
        <5>2. sent # << >> => sent[Len(sent)].client # client' BY <1>s, <3>4, <4>2, <5>1
        <5> QED BY <2>1, <4>2, <5>2 DEF Omni!FirstIsOverride
      <4> QED BY <3>2, <4>1, <4>2
    <3>8. Omni!OverrideOncePerEndpoint' BY <2>1 DEF Omni!IInv, Omni!OverrideOncePerEndpoint
    <3>9. /\ \A i, j \in DOMAIN sent' : i < j => sent'[i].client <= sent'[j].client
          /\ \A i \in DOMAIN sent' : sent'[i].client \in DOMAIN Clients
      BY <2>1 DEF Omni!IInv, Omni!TypeOK, Omni!CallBounded
    <3>10. Omni!TypeOK' BY <1>0, <2>1, <3>2, <3>9 DEF Omni!TypeOK
    <3> QED BY <3>2, <3>6, <3>7, <3>8, <3>9, <3>10
  <2> QED BY <2>2, <2>3
<1>5. CASE UNCHANGED Omni!vars
  BY <1>5 DEF Omni!vars, Omni!IInv, Omni!TypeOK, Omni!OverrideOncePerEndpoint, Omni!SentSound,
              Omni!FirstIsOverride, Omni!SleptSoFar, Omni!CallBounded, Omni!DoublingsLeft,
              Omni!Ended, Omni!Longest
<1> QED BY <1>1, <1>2, <1>3, <1>4, <1>5 DEF Omni!Next

LEMMA AllNextOmni == [AllNext]_allVars => [Omni!Next]_(Omni!vars)
BY DEF AllNext, allVars, OnlyGraph, OnlyJobs, OnlyAgent, OnlyOmni, OnlyHooks, OnlyCrawl,
       OnlyHandles, OnlySearch, omniVars, Omni!vars

\* For any endpoints, retries and delay: every endpoint is asked first, and then no more,
\* for the model of the call, none is gone back to, and the sleeps stay within the doubled delays.
THEOREM CallKeeps == ASSUME Omni!OmniAssumption PROVE AllSpec => []CallKeepsItsTerms
<1>1. AllInit => Omni!IInv BY OmniInit DEF AllInit
<1>2. Omni!IInv /\ [AllNext]_allVars => Omni!IInv' BY OmniStep, AllNextOmni
<1>3. Omni!IInv => CallKeepsItsTerms BY DEF Omni!IInv, CallKeepsItsTerms
<1> QED BY <1>1, <1>2, <1>3, PTL DEF AllSpec

-----------------------------------------------------------------------------
\* What a condition picks from a list.

\* A selection has what its places have, and nothing else; it repeats nothing that the
\* list does not repeat.
LEMMA SelectionFacts ==
    ASSUME NEW S, NEW s \in Seq(S), NEW places \in SUBSET DOMAIN s,
           NEW t \in Selections(s, places)
    PROVE  /\ t \in Seq(S)
           /\ \A k \in DOMAIN t : \E i \in places : t[k] = s[i]
           /\ \A i \in places : \E k \in DOMAIN t : t[k] = s[i]
           /\ (\A i, j \in DOMAIN s : s[i] = s[j] => i = j) =>
                  \A j, k \in DOMAIN t : t[j] = t[k] => j = k
<1>1. IsFiniteSet(1..Len(s)) BY FS_Interval
<1>2. IsFiniteSet(places) BY <1>1, FS_Subset
<1>3. Cardinality(places) \in Nat BY <1>2, FS_CardinalityType
<1>4. PICK f \in [1..Cardinality(places) -> places] :
          /\ \A j, k \in DOMAIN f : j < k => f[j] < f[k]
          /\ \A i \in places : \E k \in DOMAIN f : f[k] = i
          /\ t = [k \in DOMAIN f |-> s[f[k]]]
  BY DEF Selections, InOrder
<1>5. DOMAIN f = 1..Cardinality(places) /\ DOMAIN t = DOMAIN f BY <1>4
<1>6. \A k \in 1..Cardinality(places) : t[k] = s[f[k]] /\ f[k] \in places BY <1>4
<1>7. t \in Seq(S)
  <2>1. \A i \in places : s[i] \in S OBVIOUS
  <2>2. \A k \in 1..Cardinality(places) : t[k] \in S BY <1>6, <2>1
  <2>3. t = [k \in 1..Cardinality(places) |-> t[k]] BY <1>4, <1>5
  <2> QED BY <1>3, <2>2, <2>3
<1>8. ASSUME \A i, j \in DOMAIN s : s[i] = s[j] => i = j, NEW j \in DOMAIN t, NEW k \in DOMAIN t,
             t[j] = t[k]
      PROVE  j = k
  <2>1. f[j] = f[k] BY <1>5, <1>6, <1>8
  <2>2. j \in Nat /\ k \in Nat /\ f[j] \in Nat BY <1>3, <1>5, <1>6
  <2> QED BY <1>4, <1>5, <2>1, <2>2
<1> QED BY <1>4, <1>5, <1>6, <1>7, <1>8

-----------------------------------------------------------------------------
\* A dispatch to the plugins.

LEMMA HooksInit == ASSUME Hooks!PluginAssumption, Hooks!Init PROVE Hooks!IInv
BY DEF Hooks!Init, Hooks!IInv, Hooks!TypeOK, Hooks!NamesDiffer, Hooks!CallsAreListeners, Hooks!Elems

\* get_hooks returns the registered plugins that list the hook, each once.
LEMMA HooksListeners ==
    ASSUME Hooks!PluginAssumption, Hooks!IInv, NEW called \in Hooks!Listeners
    PROVE  /\ called \in Seq(Plugins)
           /\ \A i, j \in DOMAIN called : called[i] = called[j] => i = j
           /\ Hooks!Elems(called) = Hooked \cap Hooks!Elems(registry)
<1> DEFINE places == {i \in DOMAIN registry : registry[i] \in Hooked}
<1>1. Hooks!Cardinality(places) = Cardinality(places)
  BY SMT DEF Hooks!Cardinality, Cardinality, Hooks!IsFiniteSet, IsFiniteSet
<1>2. called \in Selections(registry, places)
  BY <1>1 DEF Hooks!Listeners, Hooks!Selections, Hooks!InOrder, Selections, InOrder
<1>3. registry \in Seq(Plugins) /\ \A i, j \in DOMAIN registry : registry[i] = registry[j] => i = j
  BY DEF Hooks!IInv, Hooks!NamesDiffer
<1>4. places \in SUBSET DOMAIN registry OBVIOUS
<1>p. \A i : i \in places <=> i \in DOMAIN registry /\ registry[i] \in Hooked OBVIOUS
<1> HIDE DEF places
<1>5. /\ called \in Seq(Plugins)
      /\ \A k \in DOMAIN called : \E i \in places : called[k] = registry[i]
      /\ \A i \in places : \E k \in DOMAIN called : called[k] = registry[i]
      /\ \A j, k \in DOMAIN called : called[j] = called[k] => j = k
  BY <1>2, <1>3, <1>4, SelectionFacts
<1>6. Hooks!Elems(called) = Hooked \cap Hooks!Elems(registry) BY <1>5, <1>p DEF Hooks!Elems
<1> QED BY <1>5, <1>6

LEMMA HooksRegister ==
    ASSUME Hooks!PluginAssumption, Hooks!IInv, NEW p \in Plugins, Hooks!Register(p)
    PROVE  Hooks!IInv'
<1>1. /\ mode = "discover" /\ registry' = Append(registry, p)
      /\ \A q \in Hooks!Elems(registry) : NameOf[q] # NameOf[p]
      /\ UNCHANGED <<mode, calls, running, over, returned>>
  BY DEF Hooks!Register
<1>2. registry \in Seq(Plugins) /\ calls = << >>
  BY <1>1 DEF Hooks!IInv, Hooks!NamesDiffer, Hooks!CallsAreListeners
<1>3. /\ registry' \in Seq(Plugins) /\ DOMAIN registry' = DOMAIN registry \cup {Len(registry) + 1}
      /\ registry'[Len(registry) + 1] = p /\ \A i \in DOMAIN registry : registry'[i] = registry[i]
  BY <1>1, <1>2
<1>4. Hooks!Elems(registry') = Hooks!Elems(registry) \cup {p} BY <1>3 DEF Hooks!Elems
<1>5. Hooks!TypeOK' BY <1>1, <1>4 DEF Hooks!IInv, Hooks!TypeOK
<1>6. \A i \in DOMAIN registry : NameOf[registry[i]] # NameOf[p] BY <1>1 DEF Hooks!Elems
<1>7. Hooks!NamesDiffer' BY <1>1, <1>2, <1>3, <1>6 DEF Hooks!IInv, Hooks!NamesDiffer
<1>8. Hooks!CallsAreListeners' BY <1>1, <1>2 DEF Hooks!CallsAreListeners
<1> QED BY <1>5, <1>7, <1>8 DEF Hooks!IInv

LEMMA HooksDispatch ==
    ASSUME Hooks!PluginAssumption, Hooks!IInv, Hooks!Dispatch \/ Hooks!DispatchOrdered
    PROVE  Hooks!IInv'
<1>1. /\ mode = "discover" /\ mode' \in {"dispatch", "ordered"} /\ calls' \in Hooks!Listeners
      /\ running' \in {running, Hooks!Elems(calls')} /\ UNCHANGED <<registry, over, returned>>
  BY DEF Hooks!Dispatch, Hooks!DispatchOrdered
<1>2. calls = << >> /\ running = {} /\ over = {}
  BY <1>1 DEF Hooks!IInv, Hooks!TypeOK, Hooks!CallsAreListeners, Hooks!Elems
<1>3. /\ calls' \in Seq(Plugins) /\ \A i, j \in DOMAIN calls' : calls'[i] = calls'[j] => i = j
      /\ Hooks!Elems(calls') = Hooked \cap Hooks!Elems(registry)
  BY <1>1, HooksListeners
<1>4. Hooks!TypeOK' BY <1>1, <1>2, <1>3 DEF Hooks!IInv, Hooks!TypeOK
<1>5. Hooks!NamesDiffer' BY <1>1, <1>3 DEF Hooks!IInv, Hooks!NamesDiffer
<1>6. Hooks!CallsAreListeners' BY <1>1, <1>3 DEF Hooks!CallsAreListeners
<1> QED BY <1>4, <1>5, <1>6 DEF Hooks!IInv

\* A hook runs or ends, however it ends, and a dispatch returns when all have.
LEMMA HooksRun ==
    ASSUME Hooks!PluginAssumption, Hooks!IInv, Hooks!Step
    PROVE  Hooks!IInv'
<1> USE DEF Hooks!IInv
<1>1. CASE Hooks!CallNext
  <2>1. PICK i \in DOMAIN calls : /\ Hooks!Elems(SubSeq(calls, 1, i - 1)) = over
                                  /\ running' = {calls[i]}
    BY <1>1 DEF Hooks!CallNext
  <2>2. mode = "ordered" /\ running = {} /\ UNCHANGED <<registry, mode, calls, over, returned>>
    BY <1>1 DEF Hooks!CallNext
  <2>3. calls[i] \notin over
    <3>1. calls \in Seq(Plugins) /\ i \in 1..Len(calls) /\ Len(calls) \in Nat
      BY DEF Hooks!NamesDiffer
    <3>2. \A k \in DOMAIN SubSeq(calls, 1, i - 1) :
              k \in DOMAIN calls /\ k < i /\ SubSeq(calls, 1, i - 1)[k] = calls[k]
      BY <3>1
    <3> QED BY <2>1, <3>1, <3>2 DEF Hooks!NamesDiffer, Hooks!Elems
  <2>4. Hooks!TypeOK' BY <2>1, <2>2, <2>3 DEF Hooks!TypeOK, Hooks!Elems
  <2> QED BY <2>2, <2>4 DEF Hooks!NamesDiffer, Hooks!CallsAreListeners
<1>2. CASE Hooks!Return
  BY <1>2 DEF Hooks!Return, Hooks!TypeOK, Hooks!NamesDiffer, Hooks!CallsAreListeners
<1>3. ASSUME NEW p \in running, Hooks!HookReturns(p) \/ Hooks!HookRaises(p) \/ Hooks!HookCancels(p)
      PROVE  Hooks!IInv'
  <2>1. /\ running' = running \ {p} /\ over' = over \cup {p} /\ mode' \in {mode, "cancelled"}
        /\ returned' \in {returned, Append(returned, p)} /\ UNCHANGED <<registry, calls>>
    BY <1>3 DEF Hooks!HookReturns, Hooks!HookRaises, Hooks!HookCancels
  <2>2. mode \notin {"discover", "returned"}
    BY <1>3 DEF Hooks!TypeOK, Hooks!CallsAreListeners, Hooks!Elems
  <2>3. Hooks!Elems(returned') \subseteq Hooks!Elems(returned) \cup {p} BY <2>1 DEF Hooks!Elems
  <2>4. Hooks!TypeOK' BY <1>3, <2>1, <2>3 DEF Hooks!TypeOK
  <2> QED BY <2>1, <2>2, <2>4 DEF Hooks!TypeOK, Hooks!NamesDiffer, Hooks!CallsAreListeners
<1> QED BY <1>1, <1>2, <1>3 DEF Hooks!Step

LEMMA HooksStep ==
    ASSUME Hooks!PluginAssumption
    PROVE  Hooks!IInv /\ [Hooks!Next]_(Hooks!vars) => Hooks!IInv'
<1> SUFFICES ASSUME Hooks!IInv, [Hooks!Next]_(Hooks!vars) PROVE Hooks!IInv'
  OBVIOUS
<1>1. CASE UNCHANGED Hooks!vars
  BY <1>1 DEF Hooks!vars, Hooks!IInv, Hooks!TypeOK, Hooks!NamesDiffer, Hooks!CallsAreListeners
<1> QED BY <1>1, HooksRegister, HooksDispatch, HooksRun DEF Hooks!Next

\* A dispatch that returned has run the hook of all that list it, each under its own name.
LEMMA HooksHeard == ASSUME Hooks!PluginAssumption, Hooks!IInv PROVE EveryListenerHeard
<1> USE DEF Hooks!IInv
<1>1. ASSUME mode = "returned"
      PROVE  /\ over = Hooked \cap Hooks!Elems(registry) /\ running = {}
             /\ \A p, q \in over : NameOf[p] = NameOf[q] => p = q
  BY <1>1, ZenonT(60) DEF Hooks!CallsAreListeners, Hooks!NamesDiffer, Hooks!Elems
<1> QED BY <1>1 DEF EveryListenerHeard, Hooks!EveryListenerHeard

LEMMA AllNextHooks == [AllNext]_allVars => [Hooks!Next]_(Hooks!vars)
BY DEF AllNext, allVars, OnlyGraph, OnlyJobs, OnlyAgent, OnlyOmni, OnlyHooks, OnlyCrawl,
       OnlyHandles, OnlySearch, hookVars, Hooks!vars

\* For any plugins and names: a dispatch that returned has run the hook of every plugin
\* that lists it to its end, and of no two of one name.
THEOREM ListenersHeard == ASSUME Hooks!PluginAssumption PROVE AllSpec => []EveryListenerHeard
<1>1. AllInit => Hooks!IInv BY HooksInit DEF AllInit
<1>2. Hooks!IInv /\ [AllNext]_allVars => Hooks!IInv' BY HooksStep, AllNextHooks
<1>3. Hooks!IInv => EveryListenerHeard BY HooksHeard
<1> QED BY <1>1, <1>2, <1>3, PTL DEF AllSpec

-----------------------------------------------------------------------------
\* The check of derived handles.

LEMMA HandleCounts ==
    ASSUME NEW S
    PROVE  Handle!Cardinality(S) = Cardinality(S) /\ (Handle!IsFiniteSet(S) <=> IsFiniteSet(S))
BY SMT DEF Handle!Cardinality, Cardinality, Handle!IsFiniteSet, IsFiniteSet

\* A handle is rated low exactly when no platform shows it.
LEMMA ConfidenceSound ==
    ASSUME Handle!HandleAssumption, NEW outcomes \in [Platforms -> Handle!Answered]
    PROVE  /\ Handle!Confidence(outcomes) \in {0, 1, 2, 5, 7, 9}
           /\ Handle!Confidence(outcomes) \in 0..2 <=> \A p \in Platforms : outcomes[p] # "found"
<1> DEFINE all(o) == {p \in DOMAIN outcomes : outcomes[p] = o}
<1>1. IsFiniteSet(Platforms) /\ DOMAIN outcomes = Platforms
  BY HandleCounts DEF Handle!HandleAssumption
<1>2. \A o : /\ IsFiniteSet(all(o)) /\ Cardinality(all(o)) \in Nat
             /\ Cardinality(all(o)) = 0 <=> all(o) = {}
             /\ Cardinality(all(o)) = Cardinality(Platforms) => all(o) = Platforms
  <2> SUFFICES ASSUME NEW o
               PROVE  /\ IsFiniteSet(all(o)) /\ Cardinality(all(o)) \in Nat
                      /\ Cardinality(all(o)) = 0 <=> all(o) = {}
                      /\ Cardinality(all(o)) = Cardinality(Platforms) => all(o) = Platforms
    OBVIOUS
  <2>1. all(o) \in SUBSET Platforms BY <1>1
  <2> HIDE DEF all
  <2> QED BY <1>1, <2>1, FS_Subset, FS_CardinalityType, FS_EmptySet
<1>3. Cardinality(Platforms) = 0 <=> Platforms = {} BY <1>1, FS_EmptySet
<1>4. \A o : Handle!Count(outcomes, o) = Cardinality(all(o)) BY HandleCounts DEF Handle!Count
<1>5. Handle!Cardinality(DOMAIN outcomes) = Cardinality(Platforms) BY <1>1, HandleCounts
<1>6. \A p \in Platforms : outcomes[p] # "found" <=> p \notin all("found") BY <1>1
<1>7. \A p \in Platforms : p \in all("error") \/ p \in all("not_found") => p \notin all("found")
  BY <1>1
<1>8. all("found") \subseteq Platforms BY <1>1
<1>9. PICK q, e, n \in Nat : /\ q = Cardinality(Platforms) /\ e = Cardinality(all("error"))
                             /\ n = Cardinality(all("not_found"))
  BY <1>1, <1>2, FS_CardinalityType
<1>10. PICK f \in Nat : f = Cardinality(all("found")) BY <1>2
<1>11. f = 0 <=> \A p \in Platforms : outcomes[p] # "found" BY <1>2, <1>6, <1>8, <1>10
<1>12. q = 0 \/ e = q \/ n = q => f = 0
  <2> HIDE DEF all
  <2>1. f = 0 <=> all("found") = {} BY <1>2, <1>10
  <2>2. q = 0 => all("found") = {} BY <1>3, <1>8, <1>9
  <2>3. e = q => all("error") = Platforms BY <1>2, <1>9
  <2>4. n = q => all("not_found") = Platforms BY <1>2, <1>9
  <2> QED BY <1>7, <1>8, <2>1, <2>2, <2>3, <2>4
<1>13. Handle!Confidence(outcomes) =
          IF q = 0 \/ e = q \/ n = q THEN 0 ELSE IF f >= 3 THEN 9 ELSE IF f = 2 THEN 7
          ELSE IF f = 1 THEN 5 ELSE IF n > 0 THEN 0 ELSE IF e > 0 THEN 2 ELSE 1
  BY <1>4, <1>5, <1>9, <1>10 DEF Handle!Confidence
<1>14. Handle!Confidence(outcomes) \in {0, 1, 2, 5, 7, 9} BY <1>13
<1>15. Handle!Confidence(outcomes) \in 0..2 <=> f = 0 BY <1>12, <1>13
<1> QED BY <1>11, <1>14, <1>15

\* Every check that is under way has a permit of its own.
LEMMA PermitsGiven ==
    ASSUME Handle!HandleAssumption, Handle!IInv
    PROVE  /\ IsFiniteSet(Handle!Checking) /\ Handle!Checking \subseteq Handles
           /\ permits = MaxConcurrency - Cardinality(Handle!Checking)
           /\ Cardinality(Handle!Checking) \in Nat /\ permits \in Nat /\ MaxConcurrency \in Nat
<1>1. Handle!Checking \in SUBSET Handles BY DEF Handle!Checking
<1>2. IsFiniteSet(Handles) BY HandleCounts DEF Handle!HandleAssumption
<1>3. IsFiniteSet(Handle!Checking) /\ Cardinality(Handle!Checking) \in Nat
  BY <1>1, <1>2, FS_Subset, FS_CardinalityType
<1>4. permits = MaxConcurrency - Cardinality(Handle!Checking) /\ permits >= 0
  BY HandleCounts DEF Handle!IInv, Handle!TypeOK
<1> QED BY <1>1, <1>3, <1>4 DEF Handle!HandleAssumption

LEMMA HandleInit == ASSUME Handle!HandleAssumption, Handle!Init PROVE Handle!IInv
<1>1. Handle!Checking = {} BY DEF Handle!Init, Handle!Checking
<1>2. Handle!Cardinality({}) = 0 BY HandleCounts, FS_EmptySet
<1>3. MaxConcurrency \in Nat BY DEF Handle!HandleAssumption
<1>4. Handle!TypeOK
  BY <1>1, <1>2, <1>3 DEF Handle!Init, Handle!TypeOK, Handle!NoResult
<1> QED BY <1>1, <1>4 DEF Handle!Init, Handle!IInv, Handle!DoubtedIfShownNowhere,
                          Handle!ResultsOfProbes, Handle!NoResult

LEMMA HandleSends ==
    ASSUME Handle!HandleAssumption, Handle!IInv, NEW h \in Handles, Handle!Send(h)
    PROVE  Handle!IInv'
<1> USE DEF Handle!IInv
<1>1. /\ h \in waiting /\ permits > 0 /\ permits' = permits - 1 /\ waiting' = waiting \ {h}
      /\ probes' = [probes EXCEPT ![h] = [p \in Platforms |-> "pending"]]
      /\ UNCHANGED <<confidence, unverified>>
  BY DEF Handle!Send
<1>2. unverified = Handle!Undecided BY <1>1 DEF Handle!ResultsOfProbes
<1>3. Handle!Checking' = Handle!Checking \cup {h}
  BY <1>1 DEF Handle!TypeOK, Handle!Checking, Handle!ResultsOfProbes, Handle!NoResult
<1>4. h \notin Handle!Checking BY <1>1 DEF Handle!Checking
<1>5. Cardinality(Handle!Checking') = Cardinality(Handle!Checking) + 1
  BY <1>3, <1>4, PermitsGiven, FS_AddElement
<1>6. Handle!TypeOK'
  <2>1. permits' = MaxConcurrency - Handle!Cardinality(Handle!Checking') /\ permits' >= 0
    BY <1>1, <1>5, PermitsGiven, HandleCounts
  <2> QED BY <1>1, <2>1 DEF Handle!TypeOK
<1>7. Handle!ResultsOfProbes'
  <2>1. confidence[h] = Handle!NoResult BY <1>1 DEF Handle!ResultsOfProbes
  <2>2. \A g \in Handles : g # h => probes'[g] = probes[g] BY <1>1 DEF Handle!TypeOK
  <2>3. Handle!NoResult' = Handle!NoResult /\ Handle!Dropped' = Handle!Dropped
    BY DEF Handle!NoResult, Handle!Dropped
  <2> QED BY <1>1, <1>2, <2>1, <2>2, <2>3 DEF Handle!ResultsOfProbes
<1>8. Handle!DoubtedIfShownNowhere' BY <1>1, <1>2 DEF Handle!DoubtedIfShownNowhere, Handle!Undecided
<1> QED BY <1>6, <1>7, <1>8

LEMMA HandleProbed ==
    ASSUME Handle!HandleAssumption, Handle!IInv, NEW h \in Handles, NEW p \in Platforms,
           Handle!Probed(h, p)
    PROVE  Handle!IInv'
<1> USE DEF Handle!IInv
<1>1. PICK o \in Handle!Answered : probes' = [probes EXCEPT ![h][p] = o] BY DEF Handle!Probed
<1>2. h \in Handle!Checking /\ UNCHANGED <<waiting, confidence, permits, unverified>>
  BY DEF Handle!Probed
<1>3. unverified = Handle!Undecided BY <1>2 DEF Handle!ResultsOfProbes
<1>4. Handle!Checking' = Handle!Checking BY <1>2 DEF Handle!Checking, Handle!NoResult
<1>5. probes' \in [Handles -> [Platforms -> Handle!Answered \cup {"none", "pending"}]]
  BY <1>1 DEF Handle!TypeOK
<1>6. Handle!TypeOK'
  BY <1>2, <1>4, <1>5 DEF Handle!TypeOK
<1>7. Handle!ResultsOfProbes'
  <2>1. confidence[h] = Handle!NoResult BY <1>2 DEF Handle!Checking
  <2>2. \A g \in Handles : g # h => probes'[g] = probes[g] BY <1>1 DEF Handle!TypeOK
  <2> QED BY <1>2, <1>3, <2>1, <2>2 DEF Handle!ResultsOfProbes
<1>8. Handle!DoubtedIfShownNowhere' BY <1>2, <1>3 DEF Handle!DoubtedIfShownNowhere
<1> QED BY <1>6, <1>7, <1>8

\* A check that ends, with a result or without, gives its permit back.
LEMMA HandleEnds ==
    ASSUME Handle!HandleAssumption, Handle!IInv, NEW h \in Handles,
           Handle!Verified(h) \/ Handle!CheckRaises(h)
    PROVE  Handle!IInv'
<1> USE DEF Handle!IInv
<1>1. h \in Handle!Checking /\ permits' = permits + 1 /\ UNCHANGED <<waiting, probes, unverified>>
  BY DEF Handle!Verified, Handle!CheckRaises
<1>2. PICK c : /\ confidence' = [confidence EXCEPT ![h] = c]
               /\ \/ c = Handle!Dropped
                  \/ probes[h] \in [Platforms -> Handle!Answered] /\ c
                      = Handle!Confidence(probes[h])
  BY <1>1 DEF Handle!Verified, Handle!CheckRaises, Handle!Checking, Handle!TypeOK
<1>3. c \in {Handle!Dropped, 0, 1, 2, 5, 7, 9} BY <1>2, ConfidenceSound
<1>4. c # Handle!NoResult BY <1>3 DEF Handle!NoResult, Handle!Dropped
<1>5. unverified = Handle!Undecided BY <1>1 DEF Handle!ResultsOfProbes
<1>6. /\ confidence'[h] = c /\ \A g \in Handles : g # h => confidence'[g] = confidence[g]
      /\ confidence' \in [Handles -> {Handle!NoResult, Handle!Dropped, 0, 1, 2, 5, 7, 9}]
      /\ h \in Handles /\ h \notin waiting
  BY <1>1, <1>2, <1>3 DEF Handle!TypeOK, Handle!Checking
<1>7. Handle!Checking' = Handle!Checking \ {h}
  BY <1>1, <1>4, <1>6 DEF Handle!Checking, Handle!NoResult
<1>8. Cardinality(Handle!Checking') = Cardinality(Handle!Checking) - 1
  BY <1>1, <1>7, PermitsGiven, FS_RemoveElement
<1>9. Handle!TypeOK'
  <2>1. permits' = MaxConcurrency - Handle!Cardinality(Handle!Checking') /\ permits' >= 0
    BY <1>1, <1>8, PermitsGiven, HandleCounts
  <2> QED BY <1>1, <1>6, <2>1 DEF Handle!TypeOK
<1>10. Handle!ResultsOfProbes' BY <1>1, <1>2, <1>5, <1>6 DEF Handle!ResultsOfProbes, Handle!TypeOK
<1>11. Handle!DoubtedIfShownNowhere' BY <1>1, <1>5 DEF Handle!DoubtedIfShownNowhere
<1> QED BY <1>9, <1>10, <1>11

LEMMA HandleJudges ==
    ASSUME Handle!HandleAssumption, Handle!IInv, Handle!Judge
    PROVE  Handle!IInv'
<1> USE DEF Handle!IInv
<1>1. /\ waiting = {} /\ Handle!Checking = {}
      /\ unverified' = {h \in Handles : confidence[h] \in 0..2}
      /\ UNCHANGED <<waiting, probes, confidence, permits>>
  BY DEF Handle!Judge
<1>2. Handle!Checking' = Handle!Checking BY <1>1 DEF Handle!Checking
<1>3. Handle!TypeOK' BY <1>1, <1>2 DEF Handle!TypeOK
<1>4. Handle!ResultsOfProbes' BY <1>1, <1>2 DEF Handle!ResultsOfProbes
<1>5. \A h \in Handles : confidence[h] # Handle!NoResult BY <1>1 DEF Handle!Checking
<1>6. \A h \in Handles : confidence[h] \in 0..2 <=>
          confidence[h] # Handle!Dropped /\ \A p \in Platforms : probes[h][p] # "found"
  <2> SUFFICES ASSUME NEW h \in Handles
               PROVE  confidence[h] \in 0..2 <=>
                         confidence[h] # Handle!Dropped /\ \A p \in Platforms :
                             probes[h][p] # "found"
    OBVIOUS
  <2>1. CASE confidence[h] = Handle!Dropped BY <2>1 DEF Handle!Dropped
  <2>2. CASE confidence[h] # Handle!Dropped
    <3>1. probes[h] \in [Platforms -> Handle!Answered]
          /\ confidence[h] = Handle!Confidence(probes[h])
      BY <1>5, <2>2 DEF Handle!ResultsOfProbes
    <3> QED BY <2>2, <3>1, ConfidenceSound
  <2> QED BY <2>1, <2>2
<1>7. Handle!DoubtedIfShownNowhere' BY <1>1, <1>6 DEF Handle!DoubtedIfShownNowhere
<1> QED BY <1>3, <1>4, <1>7

LEMMA HandleStep ==
    ASSUME Handle!HandleAssumption
    PROVE  Handle!IInv /\ [Handle!Next]_(Handle!vars) => Handle!IInv'
<1> SUFFICES ASSUME Handle!IInv, [Handle!Next]_(Handle!vars) PROVE Handle!IInv'
  OBVIOUS
<1>1. CASE UNCHANGED Handle!vars
  <2>1. UNCHANGED <<waiting, probes, confidence, permits, unverified>> BY <1>1 DEF Handle!vars
  <2>2. Handle!Checking' = Handle!Checking BY <2>1 DEF Handle!Checking
  <2> QED
    BY <2>1, <2>2 DEF Handle!IInv, Handle!TypeOK, Handle!DoubtedIfShownNowhere,
       Handle!ResultsOfProbes
<1> QED BY <1>1, HandleSends, HandleProbed, HandleEnds, HandleJudges DEF Handle!Next

LEMMA AllNextHandles == [AllNext]_allVars => [Handle!Next]_(Handle!vars)
BY DEF AllNext, allVars, OnlyGraph, OnlyJobs, OnlyAgent, OnlyOmni, OnlyHooks, OnlyCrawl,
       OnlyHandles, OnlySearch, checkVars, Handle!vars

\* For any handles, platforms and number of permits: the scan doubts of the handles that
\* could be checked exactly those that no platform shows.
THEOREM HandlesDoubted == ASSUME Handle!HandleAssumption PROVE AllSpec => []DoubtedIfShownNowhere
<1>1. AllInit => Handle!IInv BY HandleInit DEF AllInit
<1>2. Handle!IInv /\ [AllNext]_allVars => Handle!IInv' BY HandleStep, AllNextHandles
<1>3. Handle!IInv => DoubtedIfShownNowhere BY DEF Handle!IInv, DoubtedIfShownNowhere
<1> QED BY <1>1, <1>2, <1>3, PTL DEF AllSpec

-----------------------------------------------------------------------------
\* Searches that share the threads for their providers.

LEMMA SearchCounts ==
    ASSUME NEW S
    PROVE  Search!Cardinality(S) = Cardinality(S) /\ (Search!IsFiniteSet(S) <=> IsFiniteSet(S))
BY SMT DEF Search!Cardinality, Cardinality, Search!IsFiniteSet, IsFiniteSet

LEMMA SearchQueued == ASSUME NEW s
    PROVE \A x : x \in Search!Range(s) <=> \E i \in DOMAIN s : s[i] = x
BY DEF Search!Range

\* What a query may have come to, and that its parts are a search and a provider.
LEMMA SearchReplies ==
    ASSUME Search!RepliesTyped, NEW q \in Search!Query
    PROVE  /\ replies[q] = Search!NoReply \/ replies[q] = Search!Failed
              \/ \E found \in Finds : replies[q] = [outcome |-> "ok", found |-> found]
           /\ q[1] \in Search!Searches /\ q[2] \in Search!Range(Providers) /\ q = <<q[1], q[2]>>
<1>1. replies[q] \in {Search!NoReply, Search!Failed} \cup {[outcome |-> "ok", found |-> found] :
                                                           found \in Finds}
  BY DEF Search!RepliesTyped
<1>2. q[1] \in Search!Searches /\ q[2] \in Search!Range(Providers) /\ q = <<q[1], q[2]>>
  BY DEF Search!Query
<1> QED BY <1>1, <1>2

\* The parts of the invariant that say where a query is.
LEMMA QueuedOnce ==
    Search!OnePlace => backlog \in Seq(Search!Query)
                       /\ \A i, j \in DOMAIN backlog : backlog[i] = backlog[j] => i = j
BY DEF Search!OnePlace

LEMMA QueuedWaits ==
    Search!OnePlace =>
        \A i \in DOMAIN backlog : backlog[i] \notin busy /\ search[backlog[i][1]] = "waiting"
BY DEF Search!OnePlace

LEMMA UnansweredOpen ==
    Search!OnePlace => \A q \in Search!Query : q \in busy \cup Search!Range(backlog) =>
        replies[q] = Search!NoReply /\ search[q[1]] \in {"waiting", "given up"}
BY DEF Search!OnePlace

LEMMA IdleUnanswered ==
    Search!OnePlace => \A q \in Search!Query : search[q[1]] = "idle" => replies[q] = Search!NoReply
BY DEF Search!OnePlace

\* Queries that have a thread are no more than there are threads.
LEMMA WithinThreads ==
    ASSUME NEW held, IsFiniteSet(held), Search!Cardinality(held) <= Threads, Threads \in Nat,
           NEW some \in SUBSET held
    PROVE  Search!Cardinality(some) <= Threads
<1>1. Search!Cardinality(some) = Cardinality(some) /\ Search!Cardinality(held) = Cardinality(held)
  BY SearchCounts
<1>2. Cardinality(some) <= Cardinality(held) /\ Cardinality(some) \in Nat
      /\ Cardinality(held) \in Nat
  BY FS_Subset, FS_CardinalityType
<1> QED BY <1>1, <1>2

\* A search that was given up has no query but those that have a thread.
LEMMA OrphansHaveThreads == Search!OnePlace => Search!Orphans \in SUBSET busy
<1> SUFFICES ASSUME Search!OnePlace, NEW q \in Search!Orphans, q \notin busy PROVE FALSE
  OBVIOUS
<1>1. q \in Search!Range(backlog) /\ search[q[1]] = "given up" BY DEF Search!Orphans
<1>2. PICK i \in DOMAIN backlog : backlog[i] = q BY <1>1, SearchQueued
<1>3. search[backlog[i][1]] = "waiting" BY DEF Search!OnePlace
<1> QED BY <1>1, <1>2, <1>3

LEMMA SearchInit == ASSUME Search!ProviderAssumption, Search!Init PROVE Search!IInv
<1> USE DEF Search!ProviderAssumption, Search!Init
<1>1. Search!Range(backlog) = {} BY SearchQueued
<1>2. IsFiniteSet(busy) /\ Search!Cardinality(busy) = 0 /\ Search!IsFiniteSet(busy)
  BY SearchCounts, FS_EmptySet
<1>4. \A q \in Search!Query : replies[q] = Search!NoReply /\ q[1] \in Search!Searches
  BY DEF Search!Query
<1>5. Search!TypeOK BY <1>1, <1>2, <1>4 DEF Search!TypeOK, Search!NoReply
<1>6. Search!EveryReplyReported BY DEF Search!EveryReplyReported
<1>7. Search!RepliesTyped BY DEF Search!RepliesTyped
<1>8. Search!OnePlace
  <2>1. backlog \in Seq(Search!Query) /\ DOMAIN backlog = {} OBVIOUS
  <2>2. \A q \in Search!Query : q \notin busy \cup Search!Range(backlog) BY <1>1
  <2> QED BY <1>2, <1>4, <2>1, <2>2 DEF Search!OnePlace
<1>9. Search!OrphansHoldThreadsOnly
  <2>1. Search!Orphans \in SUBSET busy BY <1>8, OrphansHaveThreads
  <2>2. Threads \in Nat /\ 0 <= Threads OBVIOUS
  <2> QED BY <1>2, <2>1, <2>2, WithinThreads DEF Search!OrphansHoldThreadsOnly
<1> QED BY <1>5, <1>6, <1>7, <1>8, <1>9 DEF Search!IInv

\* A search begins with all its queries at the end of the queue.
LEMMA SearchBegins ==
    ASSUME Search!ProviderAssumption, Search!IInv, NEW s \in Search!Searches, Search!Begin(s)
    PROVE  Search!IInv'
<1> USE DEF Search!IInv
<1>1. /\ search[s] = "idle" /\ search' = [search EXCEPT ![s] = "waiting"]
      /\ backlog' = backlog \o [i \in 1..Len(Providers) |-> <<s, Providers[i]>>]
      /\ UNCHANGED <<busy, replies, report>>
  BY DEF Search!Begin
<1>2. search'[s] = "waiting" /\ \A r \in Search!Searches : r # s => search'[r] = search[r]
  BY <1>1 DEF Search!TypeOK
<1>3. /\ Len(Providers) \in Nat /\ DOMAIN Providers = 1..Len(Providers)
      /\ \A i \in 1..Len(Providers) : <<s, Providers[i]>> \in Search!Query
  BY SearchQueued DEF Search!ProviderAssumption, Search!Query
<1>4. backlog \in Seq(Search!Query) /\ Len(backlog) \in Nat /\ DOMAIN backlog = 1..Len(backlog)
  <2>1. backlog \in Seq(Search!Query) BY DEF Search!OnePlace
  <2> HIDE DEF Search!IInv
  <2> QED BY <2>1
<1> DEFINE asks == [i \in 1..Len(Providers) |-> <<s, Providers[i]>>]
<1>5. /\ asks \in Seq(Search!Query) /\ Len(asks) = Len(Providers)
      /\ \A i \in 1..Len(Providers) : asks[i] = <<s, Providers[i]>>
      /\ backlog' = backlog \o asks
  <2>1. asks \in [1..Len(Providers) -> Search!Query] BY <1>3
  <2>2. \A i \in 1..Len(Providers) : asks[i] = <<s, Providers[i]>> OBVIOUS
  <2>3. backlog' = backlog \o asks BY <1>1
  <2> HIDE DEF asks
  <2> QED BY <1>3, <2>1, <2>2, <2>3
<1> HIDE DEF asks
<1>6. /\ backlog' \in Seq(Search!Query) /\ DOMAIN backlog' = 1..(Len(backlog) + Len(Providers))
      /\ \A i \in DOMAIN backlog : backlog'[i] = backlog[i]
      /\ \A i \in DOMAIN backlog' : i \notin DOMAIN backlog =>
             i - Len(backlog) \in 1..Len(Providers)
             /\ backlog'[i] = <<s, Providers[i - Len(backlog)]>>
  BY <1>1, <1>3, <1>4, <1>5
<1>7. \A i \in DOMAIN backlog' : i \in DOMAIN backlog \/ backlog'[i][1] = s
  BY <1>6
<1>8. \A q \in Search!Query : q[1] = s =>
          q \notin busy \cup Search!Range(backlog) /\ replies[q] = Search!NoReply
  BY <1>1 DEF Search!OnePlace
<1>9. \A i \in DOMAIN backlog' : backlog'[i] \in Search!Query BY <1>6
<1>o. IsFiniteSet(busy) BY SearchCounts DEF Search!OnePlace
<1>10. Search!TypeOK' /\ Search!OnePlace'
  <2>1. \A i, j \in DOMAIN backlog' : backlog'[i] = backlog'[j] => i = j
    <3> SUFFICES ASSUME NEW i \in DOMAIN backlog', NEW j \in DOMAIN backlog', backlog'[i]
                     = backlog'[j]
                 PROVE  i = j
      OBVIOUS
    <3>1. CASE i \in DOMAIN backlog /\ j \in DOMAIN backlog
      BY <1>6, <3>1 DEF Search!OnePlace
    <3>2. CASE i \notin DOMAIN backlog /\ j \notin DOMAIN backlog
      <4>1. Providers[i - Len(backlog)] = Providers[j - Len(backlog)] BY <1>6, <3>2
      <4>2. i - Len(backlog) = j - Len(backlog)
        BY <1>3, <1>6, <3>2, <4>1 DEF Search!ProviderAssumption
      <4> QED BY <1>4, <1>6, <4>2
    <3>3. ASSUME NEW k \in DOMAIN backlog, NEW l \in DOMAIN backlog', l \notin DOMAIN backlog,
                 backlog[k] = backlog'[l]
          PROVE  FALSE
      <4>1. backlog[k] \in Search!Range(backlog) BY SearchQueued
      <4> QED BY <1>7, <1>8, <1>9, <3>3, <4>1
    <3> QED BY <1>6, <3>1, <3>2, <3>3
  <2>2. \A i \in DOMAIN backlog' : backlog'[i] \notin busy /\ search'[backlog'[i][1]] = "waiting"
    <3> SUFFICES ASSUME NEW i \in DOMAIN backlog'
                 PROVE  backlog'[i] \notin busy /\ search'[backlog'[i][1]] = "waiting"
      OBVIOUS
    <3>1. CASE backlog'[i][1] = s BY <1>2, <1>8, <1>9, <3>1
    <3>2. CASE backlog'[i][1] # s
      <4>1. i \in DOMAIN backlog /\ backlog'[i] = backlog[i] BY <1>6, <1>7, <3>2
      <4>2. backlog'[i][1] \in Search!Searches BY <1>9, SearchReplies
      <4>3. backlog[i] \notin busy /\ search[backlog[i][1]] = "waiting"
        BY <4>1 DEF Search!OnePlace
      <4> HIDE DEF Search!IInv
      <4> QED BY <1>2, <3>2, <4>1, <4>2, <4>3
    <3> QED BY <3>1, <3>2
  <2>3. \A q \in Search!Query : q \in busy \cup Search!Range(backlog') =>
            replies[q] = Search!NoReply /\ search'[q[1]] \in {"waiting", "given up"}
    <3> SUFFICES ASSUME NEW q \in Search!Query, q \in busy \cup Search!Range(backlog')
                 PROVE  replies[q] = Search!NoReply /\ search'[q[1]] \in {"waiting", "given up"}
      OBVIOUS
    <3>1. CASE q[1] = s BY <1>2, <1>8, <3>1
    <3>2. CASE q[1] # s
      <4>1. q \in busy \cup Search!Range(backlog) BY <1>6, <1>7, <3>2, SearchQueued
      <4> QED BY <1>2, <3>2, <4>1, SearchReplies DEF Search!OnePlace
    <3> QED BY <3>1, <3>2
  <2>4. \A q \in Search!Query : search'[q[1]] = "idle" => replies[q] = Search!NoReply
    BY <1>2, SearchReplies DEF Search!OnePlace
  <2>5. Search!OnePlace' BY <1>1, <1>6, <2>1, <2>2, <2>3, <2>4 DEF Search!OnePlace, Search!NoReply
  <2>6. Search!Range(backlog') \subseteq Search!Query BY <1>9, SearchQueued
  <2>7. search' \in [Search!Searches -> {"idle", "waiting", "done", "given up"}]
    BY <1>1 DEF Search!TypeOK
  <2>8. \A r \in Search!Searches : search'[r] # "done" => report[r] = Search!NoReport
    BY <1>1, <1>2 DEF Search!TypeOK
  <2> QED BY <1>1, <2>5, <2>6, <2>7, <2>8 DEF Search!TypeOK, Search!NoReport
<1>11. Search!EveryReplyReported' BY <1>1, <1>2 DEF Search!EveryReplyReported
<1>12. Search!RepliesTyped' BY <1>1 DEF Search!RepliesTyped, Search!NoReply, Search!Failed
<1>13. Search!OrphansHoldThreadsOnly'
  <2>1. /\ Search!Cardinality(busy) <= Threads /\ Threads \in Nat /\ busy' = busy
    BY <1>1 DEF Search!TypeOK, Search!ProviderAssumption
  <2>2. Search!OnePlace' => (Search!Orphans \in SUBSET busy)' BY OrphansHaveThreads, PTL
  <2> QED BY <1>10, <1>o, <2>1, <2>2, WithinThreads DEF Search!OrphansHoldThreadsOnly
<1> QED BY <1>10, <1>11, <1>12, <1>13

\* A thread is free: the first query of the queue has it.
LEMMA SearchTakes ==
    ASSUME Search!ProviderAssumption, Search!IInv, Search!TakeThread
    PROVE  Search!IInv'
<1>0. /\ Search!OnePlace /\ Search!TypeOK /\ Search!EveryReplyReported /\ Search!RepliesTyped
  BY DEF Search!IInv
<1>1. /\ backlog # << >> /\ Search!Cardinality(busy) < Threads
      /\ busy' = busy \cup {Head(backlog)} /\ backlog' = Tail(backlog)
      /\ UNCHANGED <<search, replies, report>>
  BY DEF Search!TakeThread
<1>2. backlog \in Seq(Search!Query) BY <1>0, QueuedOnce
<1> DEFINE q == Head(backlog)
<1>3. /\ backlog' \in Seq(Search!Query) /\ q \in Search!Query /\ q = backlog[1]
      /\ 1 \in DOMAIN backlog
      /\ \A i \in DOMAIN backlog' : i + 1 \in DOMAIN backlog /\ i + 1 # 1 /\ backlog'[i]
             = backlog[i + 1]
      /\ DOMAIN backlog' \subseteq Nat
  <2> QED BY <1>1, <1>2
<1> HIDE DEF q
<1>4. q \notin busy BY <1>0, <1>3, QueuedWaits
<1>5. busy' = busy \cup {q} BY <1>1 DEF q
<1>6. IsFiniteSet(busy) BY <1>0, SearchCounts DEF Search!OnePlace
<1>7. /\ IsFiniteSet(busy') /\ Search!IsFiniteSet(busy') /\ Search!Cardinality(busy') <= Threads
      /\ Threads \in Nat
  <2>1. IsFiniteSet(busy') /\ Cardinality(busy') = Cardinality(busy) + 1
        /\ Cardinality(busy) \in Nat
    BY <1>4, <1>5, <1>6, FS_AddElement, FS_CardinalityType
  <2>2. /\ Search!Cardinality(busy) = Cardinality(busy)
        /\ Search!Cardinality(busy') = Cardinality(busy')
        /\ Search!IsFiniteSet(busy')
    BY <2>1, SearchCounts
  <2>3. Threads \in Nat BY DEF Search!ProviderAssumption
  <2> QED BY <1>1, <2>1, <2>2, <2>3
<1>8. Search!OnePlace'
  <2>1. \A i, j \in DOMAIN backlog' : backlog'[i] = backlog'[j] => i = j
    <3> SUFFICES ASSUME NEW i \in DOMAIN backlog', NEW j \in DOMAIN backlog', backlog'[i]
                     = backlog'[j]
                 PROVE  i = j
      OBVIOUS
    <3>1. i + 1 = j + 1 BY <1>0, <1>3, QueuedOnce
    <3> QED BY <1>3, <3>1
  <2>2. \A i \in DOMAIN backlog' : backlog'[i] \notin busy' /\ search[backlog'[i][1]] = "waiting"
    BY <1>0, <1>3, <1>4, <1>5, QueuedWaits, QueuedOnce
  <2>3. \A r \in Search!Query : r \in busy' \cup Search!Range(backlog') =>
            r \in busy \cup Search!Range(backlog)
    BY <1>3, <1>5, SearchQueued
  <2>4. \A r \in Search!Query : r \in busy' \cup Search!Range(backlog') =>
            replies[r] = Search!NoReply /\ search[r[1]] \in {"waiting", "given up"}
    BY <1>0, <2>3, UnansweredOpen
  <2>5. \A r \in Search!Query : search[r[1]] = "idle" => replies[r] = Search!NoReply
    BY <1>0, IdleUnanswered
  <2> QED BY <1>1, <1>3, <1>7, <2>1, <2>2, <2>4, <2>5 DEF Search!OnePlace, Search!NoReply
<1>9. Search!TypeOK'
  <2>1. Search!Range(backlog') \subseteq Search!Query /\ busy' \subseteq Search!Query
    <3>1. \A i \in DOMAIN backlog' : backlog'[i] \in Search!Query BY <1>3
    <3>2. Search!Range(backlog') \subseteq Search!Query BY <3>1, SearchQueued
    <3>3. busy \subseteq Search!Query BY <1>0 DEF Search!TypeOK
    <3> QED BY <1>3, <1>5, <3>2, <3>3
  <2> QED BY <1>0, <1>1, <1>7, <2>1 DEF Search!TypeOK, Search!NoReport
<1>10. Search!EveryReplyReported' /\ Search!RepliesTyped'
  BY <1>0, <1>1 DEF Search!EveryReplyReported, Search!RepliesTyped, Search!Reported,
     Search!NoReply, Search!Failed
<1>11. Search!OrphansHoldThreadsOnly'
  <2>1. Search!OnePlace' => (Search!Orphans \in SUBSET busy)' BY OrphansHaveThreads, PTL
  <2> QED BY <1>7, <1>8, <2>1, WithinThreads DEF Search!OrphansHoldThreadsOnly
<1> QED BY <1>8, <1>9, <1>10, <1>11 DEF Search!IInv

\* A provider answers or fails: its search has not told its results yet.
LEMMA SearchHears ==
    ASSUME Search!ProviderAssumption, Search!IInv, NEW q \in Search!Query, Search!Reply(q)
    PROVE  Search!IInv'
<1>0. /\ Search!OnePlace /\ Search!TypeOK /\ Search!EveryReplyReported /\ Search!RepliesTyped
  BY DEF Search!IInv
<1>1. q \in busy /\ busy' = busy \ {q} /\ UNCHANGED <<search, backlog, report>> BY DEF Search!Reply
<1>2. PICK reply : /\ replies' = [replies EXCEPT ![q] = reply]
                   /\ \/ reply = Search!Failed
                      \/ \E found \in Finds : reply = [outcome |-> "ok", found |-> found]
  BY DEF Search!Reply
<1>3. search[q[1]] \in {"waiting", "given up"} BY <1>0, <1>1, UnansweredOpen
<1>4. /\ \A r \in Search!Query : r # q => replies'[r] = replies[r]
      /\ replies'[q] = reply
  BY <1>0, <1>2 DEF Search!RepliesTyped
<1>5. reply.outcome \in {"ok", "error"} BY <1>2 DEF Search!Failed
<1>6. IsFiniteSet(busy) BY <1>0, SearchCounts DEF Search!OnePlace
<1>7. /\ IsFiniteSet(busy') /\ Search!IsFiniteSet(busy') /\ Search!Cardinality(busy') <= Threads
      /\ Threads \in Nat
  <2>1. busy' \in SUBSET busy BY <1>1
  <2>2. IsFiniteSet(busy') /\ Search!IsFiniteSet(busy') BY <1>6, <2>1, FS_Subset, SearchCounts
  <2>3. Search!Cardinality(busy) <= Threads /\ Threads \in Nat
    BY <1>0 DEF Search!TypeOK, Search!ProviderAssumption
  <2> QED BY <1>6, <2>1, <2>2, <2>3, WithinThreads
<1>8. Search!OnePlace'
  <2>1. q \notin Search!Range(backlog) BY <1>0, <1>1, SearchQueued, QueuedWaits
  <2>2. \A r \in Search!Query : r \in busy' \cup Search!Range(backlog) =>
            replies'[r] = Search!NoReply /\ search[r[1]] \in {"waiting", "given up"}
    BY <1>0, <1>1, <1>4, <2>1, UnansweredOpen
  <2>3. \A r \in Search!Query : search[r[1]] = "idle" => replies'[r] = Search!NoReply
    BY <1>0, <1>3, <1>4, IdleUnanswered
  <2>4. /\ backlog \in Seq(Search!Query)
        /\ \A i, j \in DOMAIN backlog : backlog[i] = backlog[j] => i = j
        /\ \A i \in DOMAIN backlog : backlog[i] \notin busy /\ search[backlog[i][1]] = "waiting"
    BY <1>0, QueuedOnce, QueuedWaits
  <2> QED BY <1>1, <1>7, <2>2, <2>3, <2>4 DEF Search!OnePlace, Search!NoReply
<1>9. Search!TypeOK'
  <2>1. \A r \in Search!Query : replies'[r].outcome \in {"none", "ok", "error"}
    BY <1>0, <1>4, <1>5 DEF Search!TypeOK
  <2> QED BY <1>0, <1>1, <1>7, <2>1 DEF Search!TypeOK, Search!NoReport
<1>10. Search!RepliesTyped'
  BY <1>0, <1>1, <1>2 DEF Search!RepliesTyped, Search!NoReply, Search!Failed
<1>11. Search!EveryReplyReported'
  <2> SUFFICES ASSUME NEW s \in Search!Searches, NEW p \in Search!Range(Providers), search[s]
                   = "done"
               PROVE  Search!Reported(s, p, replies'[<<s, p>>], report[s])
    BY <1>1, ZenonT(60) DEF Search!EveryReplyReported, Search!Reported
  <2>1. <<s, p>> \in Search!Query BY DEF Search!Query
  <2>3. <<s, p>>[1] = s OBVIOUS
  <2>4. <<s, p>> # q BY <1>3, <2>3
  <2>2. replies'[<<s, p>>] = replies[<<s, p>>] BY <1>4, <2>1, <2>4
  <2> QED BY <1>0, <2>2 DEF Search!EveryReplyReported
<1>12. Search!OrphansHoldThreadsOnly'
  <2>1. Search!OnePlace' => (Search!Orphans \in SUBSET busy)' BY OrphansHaveThreads, PTL
  <2> QED BY <1>7, <1>8, <2>1, WithinThreads DEF Search!OrphansHoldThreadsOnly
<1> QED BY <1>8, <1>9, <1>10, <1>11, <1>12 DEF Search!IInv

\* What a provider replied is told when its search collects the results.
LEMMA SearchTells ==
    ASSUME Search!ProviderAssumption, Search!RepliesTyped, NEW s \in Search!Searches,
           NEW p \in Search!Range(Providers)
    PROVE  Search!Reported(s, p, replies[<<s, p>>],
               [status   |-> IF Search!Errored(s) = {} THEN "ok" ELSE "partial",
                errors   |-> Search!Errored(s),
                breaches |-> IF s \in Leaks THEN Search!Breaches(s) ELSE {},
                profiles |-> IF s \in People THEN Search!Profiles(s) ELSE {}])
<1> DEFINE told == [status   |-> IF Search!Errored(s) = {} THEN "ok" ELSE "partial",
                    errors   |-> Search!Errored(s),
                    breaches |-> IF s \in Leaks THEN Search!Breaches(s) ELSE {},
                    profiles |-> IF s \in People THEN Search!Profiles(s) ELSE {}]
<1>1. /\ told.errors = Search!Errored(s)
      /\ Search!Errored(s) # {} => told.status = "partial"
      /\ s \in Leaks => told.breaches = Search!Breaches(s)
      /\ s \notin Leaks => told.profiles = Search!Profiles(s)
  BY DEF Search!Searches
<1> HIDE DEF told
<1>2. <<s, p>> \in Search!Query BY DEF Search!Query
<1>3. PICK reply : reply = replies[<<s, p>>] OBVIOUS
<1>4. \/ reply = Search!NoReply \/ reply = Search!Failed
      \/ \E found \in Finds : reply = [outcome |-> "ok", found |-> found]
  BY <1>2, <1>3, SearchReplies
<1>5. reply.outcome = "error" <=> p \in told.errors BY <1>1, <1>3 DEF Search!Errored
<1>6. reply.outcome = "error" => told.status = "partial" BY <1>1, <1>5
<1>7. ASSUME NEW item \in reply.found
      PROVE  IF s \in Leaks THEN [source |-> p, key |-> item.key] \in told.breaches
             ELSE \E r \in told.profiles : /\ r.key = item.key /\ p \in r.sources
                                           /\ item.status = "found" => r.status = "found"
  <2>1. reply.outcome = "ok" /\ reply.found \in Finds
    BY <1>4, <1>7 DEF Search!NoReply, Search!Failed
  <2>2. p \in Search!Answered(s) BY <1>3, <2>1 DEF Search!Answered
  <2>3. item = [key |-> item.key, status |-> item.status]
    BY <1>7, <2>1 DEF Search!ProviderAssumption
  <2>4. CASE s \in Leaks
    <3>1. [source |-> p, key |-> item.key] \in Search!Breaches(s)
      BY <1>3, <1>7, <2>2 DEF Search!Breaches
    <3> QED BY <1>1, <2>4, <3>1
  <2>5. CASE s \notin Leaks
    <3>1. PICK r : r = [key |-> item.key, status |-> Search!Status(s, item.key),
                        sources |-> Search!Finders(s, item.key)]
      OBVIOUS
    <3>2. r \in Search!Profiles(s) BY <1>3, <1>7, <2>2, <3>1 DEF Search!Profiles
    <3>3. p \in Search!Finders(s, item.key) BY <1>3, <1>7, <2>2 DEF Search!Finders
    <3>4. item.status = "found" => Search!Status(s, item.key) = "found"
      BY <1>3, <1>7, <2>2, <2>3 DEF Search!Status
    <3>5. r.key = item.key /\ p \in r.sources /\ (item.status = "found" => r.status = "found")
      BY <3>1, <3>3, <3>4
    <3> QED BY <1>1, <2>5, <3>2, <3>5
  <2> QED BY <2>4, <2>5
<1> QED BY <1>3, <1>5, <1>6, <1>7 DEF Search!Reported, told

\* A search that collects its results has no query left.
LEMMA SearchCollects ==
    ASSUME Search!ProviderAssumption, Search!IInv, NEW s \in Search!Searches, Search!Collect(s)
    PROVE  Search!IInv'
<1>0. /\ Search!OnePlace /\ Search!TypeOK /\ Search!EveryReplyReported /\ Search!RepliesTyped
      /\ Search!OrphansHoldThreadsOnly
  BY DEF Search!IInv
<1> DEFINE told == [status   |-> IF Search!Errored(s) = {} THEN "ok" ELSE "partial",
                    errors   |-> Search!Errored(s),
                    breaches |-> IF s \in Leaks THEN Search!Breaches(s) ELSE {},
                    profiles |-> IF s \in People THEN Search!Profiles(s) ELSE {}]
<1>1. /\ search[s] = "waiting" /\ search' = [search EXCEPT ![s] = "done"]
      /\ report' = [report EXCEPT ![s] = told] /\ UNCHANGED <<backlog, busy, replies>>
      /\ Search!Errored(s) \cup Search!Answered(s) = Search!Range(Providers)
  BY DEF Search!Collect
<1>2. \A p \in Search!Range(Providers) : Search!Reported(s, p, replies[<<s, p>>], told)
  BY <1>0, SearchTells
<1> HIDE DEF told
<1>3. /\ search'[s] = "done" /\ \A r \in Search!Searches : r # s => search'[r] = search[r]
      /\ report'[s] = told /\ \A r \in Search!Searches : r # s => report'[r] = report[r]
      /\ DOMAIN report' = Search!Searches
      /\ search' \in [Search!Searches -> {"idle", "waiting", "done", "given up"}]
  BY <1>0, <1>1 DEF Search!TypeOK, Search!RepliesTyped
<1>4. \A q \in Search!Query : q \in busy \cup Search!Range(backlog) => q[1] # s
  <2> SUFFICES ASSUME NEW q \in Search!Query, q \in busy \cup Search!Range(backlog), q[1] = s
               PROVE  FALSE
    OBVIOUS
  <2>1. replies[q] = Search!NoReply BY <1>0, UnansweredOpen
  <2>2. q[2] \in Search!Range(Providers) /\ q = <<s, q[2]>> BY <1>0, SearchReplies
  <2>3. replies[q].outcome \in {"error", "ok"}
    BY <1>1, <2>2 DEF Search!Errored, Search!Answered
  <2> QED BY <2>1, <2>3 DEF Search!NoReply
<1>5. \A i \in DOMAIN backlog : backlog[i] \in Search!Query /\ backlog[i] \in Search!Range(backlog)
  BY <1>0, QueuedOnce, SearchQueued
<1>6. Search!OnePlace'
  <2>1. \A i \in DOMAIN backlog : backlog[i] \notin busy /\ search'[backlog[i][1]] = "waiting"
    BY <1>0, <1>3, <1>4, <1>5, QueuedWaits, SearchReplies
  <2>2. \A q \in Search!Query : q \in busy \cup Search!Range(backlog) =>
            replies[q] = Search!NoReply /\ search'[q[1]] \in {"waiting", "given up"}
    BY <1>0, <1>3, <1>4, UnansweredOpen, SearchReplies
  <2>3. \A q \in Search!Query : search'[q[1]] = "idle" => replies[q] = Search!NoReply
    BY <1>0, <1>3, IdleUnanswered, SearchReplies
  <2>4. /\ backlog \in Seq(Search!Query) /\ Search!IsFiniteSet(busy)
        /\ \A i, j \in DOMAIN backlog : backlog[i] = backlog[j] => i = j
    BY <1>0, QueuedOnce DEF Search!OnePlace
  <2> QED BY <1>1, <2>1, <2>2, <2>3, <2>4 DEF Search!OnePlace, Search!NoReply
<1>7. Search!TypeOK'
  <2>1. \A r \in Search!Searches : search'[r] # "done" => report'[r] = Search!NoReport
    BY <1>0, <1>3 DEF Search!TypeOK
  <2> QED BY <1>0, <1>1, <1>3, <2>1 DEF Search!TypeOK, Search!NoReport
<1>8. Search!RepliesTyped'
  BY <1>0, <1>1, <1>3 DEF Search!RepliesTyped, Search!NoReply, Search!Failed
<1>9. Search!EveryReplyReported'
  <2> SUFFICES ASSUME NEW r \in Search!Searches, NEW p \in Search!Range(Providers), search'[r]
                   = "done"
               PROVE  Search!Reported(r, p, replies[<<r, p>>], report'[r])
    BY <1>1, ZenonT(60) DEF Search!EveryReplyReported, Search!Reported
  <2>1. CASE r = s BY <1>2, <1>3, <2>1
  <2>2. CASE r # s BY <1>0, <1>3, <2>2 DEF Search!EveryReplyReported
  <2> QED BY <2>1, <2>2
<1>10. Search!OrphansHoldThreadsOnly'
  <2>1. Search!OnePlace' => (Search!Orphans \in SUBSET busy)' BY OrphansHaveThreads, PTL
  <2>2. IsFiniteSet(busy) /\ Search!Cardinality(busy) <= Threads /\ Threads \in Nat
    BY <1>0, SearchCounts DEF Search!OnePlace, Search!TypeOK, Search!ProviderAssumption
  <2> QED BY <1>1, <1>6, <2>1, <2>2, WithinThreads DEF Search!OrphansHoldThreadsOnly
<1> QED BY <1>6, <1>7, <1>8, <1>9, <1>10 DEF Search!IInv

\* A search that is given up takes its queries out of the queue.
LEMMA SearchGivesUp ==
    ASSUME Search!ProviderAssumption, Search!IInv, NEW s \in Search!Searches, Search!GiveUp(s)
    PROVE  Search!IInv'
<1>0. /\ Search!OnePlace /\ Search!TypeOK /\ Search!EveryReplyReported /\ Search!RepliesTyped
  BY DEF Search!IInv
<1> DEFINE places == {i \in DOMAIN backlog : backlog[i][1] # s}
<1>1. /\ search[s] = "waiting" /\ search' = [search EXCEPT ![s] = "given up"]
      /\ backlog' \in Search!Selections(backlog, places) /\ UNCHANGED <<busy, replies, report>>
  BY DEF Search!GiveUp
<1>2. backlog' \in Selections(backlog, places)
  <2>1. Search!Cardinality(places) = Cardinality(places) BY SearchCounts
  <2> QED BY <1>1, <2>1 DEF Search!Selections, Search!InOrder, Selections, InOrder
<1>3. places \in SUBSET DOMAIN backlog /\ \A i \in places : backlog[i][1] # s OBVIOUS
<1> HIDE DEF places
<1>4. /\ backlog' \in Seq(Search!Query)
      /\ \A k \in DOMAIN backlog' : \E i \in places : backlog'[k] = backlog[i]
      /\ \A i, j \in DOMAIN backlog' : backlog'[i] = backlog'[j] => i = j
  BY <1>0, <1>2, <1>3, SelectionFacts, QueuedOnce
<1>5. /\ search'[s] = "given up" /\ \A r \in Search!Searches : r # s => search'[r] = search[r]
      /\ search' \in [Search!Searches -> {"idle", "waiting", "done", "given up"}]
  BY <1>0, <1>1 DEF Search!TypeOK
<1>6. IsFiniteSet(busy) /\ Search!IsFiniteSet(busy) /\ Search!Cardinality(busy) <= Threads
      /\ Threads \in Nat
  BY <1>0, SearchCounts DEF Search!OnePlace, Search!TypeOK, Search!ProviderAssumption
<1>7. \A q \in Search!Query : q \in Search!Range(backlog') => q \in Search!Range(backlog)
  BY <1>3, <1>4, SearchQueued
<1>8. Search!OnePlace'
  <2>1. \A k \in DOMAIN backlog' : backlog'[k] \notin busy /\ search'[backlog'[k][1]] = "waiting"
    <3> SUFFICES ASSUME NEW k \in DOMAIN backlog'
                 PROVE  backlog'[k] \notin busy /\ search'[backlog'[k][1]] = "waiting"
      OBVIOUS
    <3>1. PICK i \in places : backlog'[k] = backlog[i] BY <1>4
    <3>2. i \in DOMAIN backlog /\ backlog[i][1] # s BY <1>3
    <3>3. backlog[i][1] \in Search!Searches BY <1>0, <3>2, QueuedOnce, SearchReplies
    <3>4. backlog[i] \notin busy /\ search[backlog[i][1]] = "waiting" BY <1>0, <3>2, QueuedWaits
    <3> QED BY <1>5, <3>1, <3>2, <3>3, <3>4
  <2>2. \A q \in Search!Query : q \in busy \cup Search!Range(backlog') =>
            replies[q] = Search!NoReply /\ search'[q[1]] \in {"waiting", "given up"}
    BY <1>0, <1>5, <1>7, UnansweredOpen, SearchReplies
  <2>3. \A q \in Search!Query : search'[q[1]] = "idle" => replies[q] = Search!NoReply
    BY <1>0, <1>5, IdleUnanswered, SearchReplies
  <2> QED BY <1>1, <1>4, <1>6, <2>1, <2>2, <2>3 DEF Search!OnePlace, Search!NoReply
<1>9. Search!TypeOK'
  <2>1. \A r \in Search!Searches : search'[r] # "done" => report[r] = Search!NoReport
    BY <1>0, <1>1, <1>5 DEF Search!TypeOK
  <2>2. \A i \in DOMAIN backlog' : backlog'[i] \in Search!Query BY <1>4
  <2>3. Search!Range(backlog') \subseteq Search!Query BY <2>2, SearchQueued
  <2> QED BY <1>0, <1>1, <1>5, <2>1, <2>3 DEF Search!TypeOK, Search!NoReport
<1>10. Search!RepliesTyped' BY <1>0, <1>1 DEF Search!RepliesTyped, Search!NoReply, Search!Failed
<1>11. Search!EveryReplyReported'
  <2>1. \A r \in Search!Searches : search'[r] = "done" => search[r] = "done" BY <1>5
  <2> QED BY <1>0, <1>1, <2>1, ZenonT(60) DEF Search!EveryReplyReported, Search!Reported
<1>12. Search!OrphansHoldThreadsOnly'
  <2>1. Search!OnePlace' => (Search!Orphans \in SUBSET busy)' BY OrphansHaveThreads, PTL
  <2> QED BY <1>1, <1>6, <1>8, <2>1, WithinThreads DEF Search!OrphansHoldThreadsOnly
<1> QED BY <1>8, <1>9, <1>10, <1>11, <1>12 DEF Search!IInv

LEMMA SearchStep ==
    ASSUME Search!ProviderAssumption
    PROVE  Search!IInv /\ [Search!Next]_(Search!vars) => Search!IInv'
<1> SUFFICES ASSUME Search!IInv, [Search!Next]_(Search!vars) PROVE Search!IInv'
  OBVIOUS
<1>1. CASE UNCHANGED Search!vars
  <2>1. UNCHANGED <<search, backlog, busy, replies, report>> BY <1>1 DEF Search!vars
  <2>2. Search!TypeOK' BY <2>1 DEF Search!IInv, Search!TypeOK, Search!NoReport
  <2>3. Search!EveryReplyReported'
    BY <2>1, ZenonT(60) DEF Search!IInv, Search!EveryReplyReported, Search!Reported
  <2>4. Search!OrphansHoldThreadsOnly'
    <3>1. Search!Orphans' = Search!Orphans BY <2>1 DEF Search!Orphans
    <3> QED BY <3>1 DEF Search!IInv, Search!OrphansHoldThreadsOnly
  <2>5. Search!RepliesTyped'
    BY <2>1 DEF Search!IInv, Search!RepliesTyped, Search!NoReply, Search!Failed
  <2>6. Search!OnePlace' BY <2>1 DEF Search!IInv, Search!OnePlace, Search!NoReply
  <2> QED BY <2>2, <2>3, <2>4, <2>5, <2>6 DEF Search!IInv
<1> QED
  BY <1>1, SearchTakes, SearchBegins, SearchCollects, SearchGivesUp, SearchHears DEF Search!Next

LEMMA AllNextSearch == [AllNext]_allVars => [Search!Next]_(Search!vars)
BY DEF AllNext, allVars, OnlyGraph, OnlyJobs, OnlyAgent, OnlyOmni, OnlyHooks, OnlyCrawl,
       OnlyHandles, OnlySearch, askVars, Search!vars

\* For any searches, providers, finds and number of threads: what providers replied is in
\* the report of a search that is done, and searches that were given up keep no more
\* than the threads.
THEOREM ProvidersCounted == ASSUME Search!ProviderAssumption
    PROVE AllSpec => []ProvidersAccountedFor
<1>1. AllInit => Search!IInv BY SearchInit DEF AllInit
<1>2. Search!IInv /\ [AllNext]_allVars => Search!IInv' BY SearchStep, AllNextSearch
<1>3. Search!IInv => ProvidersAccountedFor BY DEF Search!IInv, ProvidersAccountedFor
<1> QED BY <1>1, <1>2, <1>3, PTL DEF AllSpec

-----------------------------------------------------------------------------
\* The crawls.  What is said of one is said of its nested calls, the pages it visited, their
\* answers, the requests for them and the links picked from them.

\* The innermost call is changed, returns, or calls another.
LEMMA TopReturned ==
    ASSUME NEW S, NEW stack \in Seq(S), stack # << >>
    PROVE  /\ Crawl!Front(stack) \in Seq(S) /\ Len(Crawl!Front(stack)) = Len(stack) - 1
           /\ DOMAIN Crawl!Front(stack) = DOMAIN stack \ {Len(stack)}
           /\ \A i \in DOMAIN stack : i # Len(stack) => Crawl!Front(stack)[i] = stack[i]
<1>1. PICK n \in Nat : n = Len(stack) /\ n # 0 /\ DOMAIN stack = 1..n OBVIOUS
<1>2. PICK front : front = SubSeq(stack, 1, n - 1) /\ front = Crawl!Front(stack)
  BY <1>1 DEF Crawl!Front
<1>3. /\ front \in Seq(S) /\ Len(front) = n - 1 /\ DOMAIN front = 1..(n - 1)
      /\ \A i \in 1..(n - 1) : front[i] = stack[i]
  BY <1>1, <1>2
<1>4. DOMAIN front = DOMAIN stack \ {n} BY <1>1, <1>3
<1> QED BY <1>1, <1>2, <1>3, <1>4

LEMMA TopReplaced ==
    ASSUME NEW S, NEW stack \in Seq(S), stack # << >>, NEW top \in S,
           NEW after, after = Append(Crawl!Front(stack), top)
    PROVE  /\ after \in Seq(S) /\ Len(after) = Len(stack) /\ DOMAIN after = DOMAIN stack
           /\ after # << >>
           /\ after[Len(stack)] = top /\ \A i \in DOMAIN stack : i # Len(stack) => after[i]
                  = stack[i]
<1>1. PICK n \in Nat : n = Len(stack) /\ n # 0 /\ DOMAIN stack = 1..n OBVIOUS
<1>2. PICK front \in Seq(S) : /\ front = Crawl!Front(stack) /\ Len(front) = n - 1
                              /\ \A i \in 1..(n - 1) : front[i] = stack[i]
  <2>1. Crawl!Front(stack) \in Seq(S) BY TopReturned
  <2>2. \A i \in 1..(n - 1) : i \in DOMAIN stack /\ i # n BY <1>1
  <2> QED BY <1>1, <2>1, <2>2, TopReturned
<1>3. after = Append(front, top) BY <1>2
<1>4. /\ after \in Seq(S) /\ Len(after) = n /\ DOMAIN after = 1..n
      /\ after[n] = top /\ \A i \in 1..(n - 1) : after[i] = stack[i]
  BY <1>1, <1>2, <1>3
<1>5. after # << >> BY <1>1, <1>4
<1>6. \A i \in 1..n : i # n => i \in 1..(n - 1) BY <1>1
<1> QED BY <1>1, <1>4, <1>5, <1>6

LEMMA TopCalls ==
    ASSUME NEW S, NEW stack \in Seq(S), NEW top \in S
    PROVE  /\ Append(stack, top) \in Seq(S) /\ Len(Append(stack, top)) = Len(stack) + 1
           /\ DOMAIN Append(stack, top) = DOMAIN stack \cup {Len(stack) + 1}
           /\ Append(stack, top)[Len(stack) + 1] = top
           /\ \A i \in DOMAIN stack : Append(stack, top)[i] = stack[i]
OBVIOUS

LEMMA TopThere ==
    ASSUME NEW S, NEW stack \in Seq(S), stack # << >>
    PROVE  /\ Len(stack) \in DOMAIN stack /\ Len(stack) \in Nat /\ DOMAIN stack = 1..Len(stack)
           /\ 1 \in DOMAIN stack /\ Crawl!Last(stack) = stack[Len(stack)] /\ Crawl!Last(stack) \in S
BY DEF Crawl!Last

\* The calls remain a way when the innermost one changes what it is about to do.
LEMMA WayReplaced ==
    ASSUME Crawl!CrawlAssumption, NEW c \in Crawls, NEW seen, NEW stack \in Seq(Crawl!Call),
           stack # << >>, Crawl!IsWay(c, stack, seen), NEW top \in Crawl!Call,
           top.url = Crawl!Last(stack).url, top.todo \subseteq Links[top.url],
           top.follows => Len(stack) <= MaxDepth, ~ top.follows => top.todo = {},
           NEW after, after = Append(Crawl!Front(stack), top)
    PROVE  Crawl!IsWay(c, after, seen)
<1>1. /\ Len(after) = Len(stack) /\ DOMAIN after = DOMAIN stack /\ DOMAIN stack = 1..Len(stack)
      /\ after[Len(stack)] = top /\ \A i \in DOMAIN stack : i # Len(stack) => after[i] = stack[i]
      /\ Len(stack) \in Nat /\ Len(stack) \in DOMAIN stack /\ 1 \in DOMAIN stack
      /\ top.url = stack[Len(stack)].url
  BY TopReplaced, TopThere
<1>2. \A i \in DOMAIN stack : after[i].url = stack[i].url BY <1>1
<1>3. ASSUME NEW i \in DOMAIN stack
      PROVE  /\ after[i].url \in seen
             /\ \A j \in DOMAIN stack : after[i].url = after[j].url => i = j
             /\ after[i].todo \subseteq Links[after[i].url]
             /\ after[i].follows => i <= MaxDepth
             /\ ~ after[i].follows => i = Len(stack) /\ after[i].todo = {}
             /\ i > 1 => after[i].url \in Links[after[i - 1].url]
  <2>1. after[i].url \in seen /\ \A j \in DOMAIN stack : after[i].url = after[j].url => i = j
    BY <1>2, <1>3 DEF Crawl!IsWay
  <2>2. i > 1 => i - 1 \in DOMAIN stack BY <1>1, <1>3
  <2>3. i > 1 => after[i].url \in Links[after[i - 1].url]
    BY <1>2, <1>3, <2>2 DEF Crawl!IsWay
  <2>4. CASE i = Len(stack) BY <1>1, <2>1, <2>3, <2>4
  <2>5. CASE i # Len(stack) BY <1>1, <1>3, <2>1, <2>3, <2>5 DEF Crawl!IsWay
  <2> QED BY <2>4, <2>5
<1>4. after # << >> => after[1].url = Root[c] BY <1>1, <1>2 DEF Crawl!IsWay
<1>5. Len(stack) <= MaxDepth + 1 BY DEF Crawl!IsWay
<1> QED BY <1>1, <1>3, <1>4, <1>5 DEF Crawl!IsWay

\* The innermost call returns an answer for its page, when it has no link left to follow.
LEMMA OrderlyReturned ==
    ASSUME Crawl!CrawlAssumption, NEW c \in Crawls, NEW stack \in Seq(Crawl!Call), stack # << >>,
           NEW seen \in SUBSET Urls, NEW gave \in [Urls -> Crawl!Statuses],
           NEW requests \in [Urls -> Nat], NEW links \in [Urls -> SUBSET Urls],
           Crawl!Orderly(c, stack, seen, gave, requests, links),
           Crawl!Last(stack).todo = {}, NEW said \in Crawl!Statuses, said # "none",
           NEW asks, \/ asks = requests
                     \/ /\ ~ Crawl!Last(stack).follows
                        /\ asks = [requests EXCEPT ![Crawl!Last(stack).url] = @ + 1]
    PROVE  Crawl!Orderly(c, Crawl!Front(stack), seen,
                         [gave EXCEPT ![Crawl!Last(stack).url] = said], asks, links)
<1> USE DEF Crawl!Orderly
<1>1. PICK top \in Crawl!Call : top = Crawl!Last(stack) BY TopThere
<1>2. PICK n \in Nat \ {0} : n = Len(stack) /\ DOMAIN stack = 1..n /\ top = stack[n]
  BY <1>1, TopThere
<1>3. PICK after \in Seq(Crawl!Call) :
          /\ after = Crawl!Front(stack) /\ Len(after) = n - 1 /\ DOMAIN after = DOMAIN stack \ {n}
          /\ \A i \in DOMAIN stack : i # n => after[i] = stack[i]
  <2>1. Crawl!Front(stack) \in Seq(Crawl!Call) BY TopReturned
  <2> QED BY <1>2, <2>1, TopReturned
<1>4. top.url \in Urls /\ top.attempt \in 1..PageRetries /\ top.todo = {} BY <1>1 DEF Crawl!Call
<1>5. Crawl!IsWay(c, after, seen)
  <2>0. Len(stack) <= MaxDepth + 1 /\ stack[1].url = Root[c] /\ MaxDepth \in Nat
    BY DEF Crawl!IsWay, Crawl!CrawlAssumption
  <2>1. Len(after) <= MaxDepth + 1 BY <1>2, <1>3, <2>0
  <2>2. after # << >> => 1 \in DOMAIN after /\ after[1].url = Root[c] BY <1>2, <1>3, <2>0
  <2>3. \A i \in DOMAIN after : i \in DOMAIN stack /\ i # n /\ after[i] = stack[i]
    BY <1>3
  <2>4. \A i \in DOMAIN after : i > 1 => i - 1 \in DOMAIN after BY <1>2, <1>3
  <2> QED BY <1>2, <1>3, <2>1, <2>2, <2>3, <2>4 DEF Crawl!IsWay
<1>6. Crawl!AskedInCall(after, seen, asks, links)
  <2>1. \A i \in DOMAIN after : after[i].follows BY <1>2, <1>3 DEF Crawl!IsWay
  <2>2. top.url \in seen BY <1>2 DEF Crawl!IsWay
  <2>3. \A u \in Urls : u # top.url => asks[u] = requests[u] BY <1>1
  <2>4. asks[top.url] <= PageRetries
    <3>1. CASE asks = requests BY <1>4, <3>1 DEF Crawl!AskedInCall
    <3>2. CASE asks # requests
      <4>1. requests[top.url] = top.attempt - 1 BY <1>1, <1>2, <1>4, <3>2 DEF Crawl!AskedInCall
      <4>2. asks[top.url] = requests[top.url] + 1 BY <1>1, <1>4, <3>2
      <4>3. PageRetries \in Nat BY DEF Crawl!CrawlAssumption
      <4> QED BY <1>4, <4>1, <4>2, <4>3
    <3> QED BY <3>1, <3>2
  <2> QED BY <2>1, <2>2, <2>3, <2>4 DEF Crawl!AskedInCall
<1>7. PICK answers : answers = [gave EXCEPT ![Crawl!Last(stack).url] = said] OBVIOUS
<1>8. answers[top.url] = said /\ \A u \in Urls : u # top.url => answers[u] = gave[u]
  BY <1>1, <1>4, <1>7
<1>9. \A u \in Urls : gave[u] # "none" \/ Crawl!Within(stack, u) =>
          answers[u] # "none" \/ Crawl!Within(after, u)
  BY <1>2, <1>3, <1>8 DEF Crawl!Within
<1>10. Crawl!NothingForgotten(after, seen, answers, links, {})
  <2> SUFFICES ASSUME NEW u \in seen
               PROVE  /\ answers[u] # "none" \/ Crawl!Within(after, u)
                      /\ \A v \in links[u] :
                            \/ answers[v] # "none" \/ Crawl!Within(after, v) \/ v \in {}
                            \/ \E i \in DOMAIN after : after[i].url = u /\ v \in after[i].todo
    BY DEF Crawl!NothingForgotten
  <2>1. answers[u] # "none" \/ Crawl!Within(after, u) BY <1>9 DEF Crawl!NothingForgotten
  <2>2. ASSUME NEW v \in links[u]
        PROVE  \/ answers[v] # "none" \/ Crawl!Within(after, v)
               \/ \E i \in DOMAIN after : after[i].url = u /\ v \in after[i].todo
    <3>1. v \in Urls OBVIOUS
    <3>2. \/ gave[v] # "none" \/ Crawl!Within(stack, v)
          \/ \E i \in DOMAIN stack : stack[i].url = u /\ v \in stack[i].todo
      BY <2>2 DEF Crawl!NothingForgotten
    <3>3. ASSUME NEW i \in DOMAIN stack, stack[i].url = u, v \in stack[i].todo
          PROVE  i \in DOMAIN after /\ after[i].url = u /\ v \in after[i].todo
      BY <1>2, <1>3, <1>4, <3>3
    <3> QED BY <1>9, <3>1, <3>2, <3>3
  <2> QED BY <2>1, <2>2
<1> QED BY <1>3, <1>5, <1>6, <1>7, <1>10

\* A page that fails is asked for again, or one that arrives has its links to follow.
LEMMA OrderlyAsked ==
    ASSUME Crawl!CrawlAssumption, NEW c \in Crawls, NEW stack \in Seq(Crawl!Call), stack # << >>,
           NEW seen \in SUBSET Urls, NEW gave \in [Urls -> Crawl!Statuses],
           NEW requests \in [Urls -> Nat], NEW links \in [Urls -> SUBSET Urls],
           Crawl!Orderly(c, stack, seen, gave, requests, links), ~ Crawl!Last(stack).follows,
           NEW top \in Crawl!Call, top.url = Crawl!Last(stack).url,
           NEW taken \in SUBSET Urls,
           \/ /\ ~ top.follows /\ top.attempt = Crawl!Last(stack).attempt + 1
              /\ top.todo = {} /\ taken = links[top.url]
           \/ /\ top.follows /\ top.todo = taken /\ taken \subseteq Links[top.url]
              /\ Len(stack) <= MaxDepth
    PROVE  Crawl!Orderly(c, Append(Crawl!Front(stack), top), seen, gave,
                         [requests EXCEPT ![top.url] = @ + 1], [links EXCEPT ![top.url] = taken])
<1> USE DEF Crawl!Orderly
<1>1. PICK was \in Crawl!Call : was = Crawl!Last(stack) /\ was.url = top.url /\ ~ was.follows
  BY TopThere
<1>2. PICK n \in Nat \ {0} : n = Len(stack) /\ DOMAIN stack = 1..n /\ was = stack[n]
      /\ n \in DOMAIN stack
  BY <1>1, TopThere
<1>3. PICK after : after = Append(Crawl!Front(stack), top) OBVIOUS
<1>4. /\ DOMAIN after = DOMAIN stack /\ after[n] = top
      /\ \A i \in DOMAIN stack : i # n => after[i] = stack[i]
  BY <1>2, <1>3, TopReplaced, SMTT(30)
<1>5. /\ top.url \in Urls /\ top.attempt \in 1..PageRetries /\ was.attempt \in 1..PageRetries
      /\ PageRetries \in Nat /\ top.todo \subseteq Links[top.url] /\ taken \subseteq Urls
  BY <1>1 DEF Crawl!Call, Crawl!CrawlAssumption
<1>6. Crawl!IsWay(c, after, seen) BY <1>3, <1>5, WayReplaced
<1>7. /\ was.todo = {} /\ was.url \in seen
      /\ \A i \in DOMAIN stack : i # n => stack[i].url # top.url /\ stack[i].follows
  BY <1>1, <1>2 DEF Crawl!IsWay
<1>8. requests[top.url] = was.attempt - 1 BY <1>1, <1>2, <1>5 DEF Crawl!AskedInCall
<1>9. PICK asks : asks = [requests EXCEPT ![top.url] = @ + 1] OBVIOUS
<1>10. PICK picks : picks = [links EXCEPT ![top.url] = taken] OBVIOUS
<1>11. /\ asks[top.url] = was.attempt /\ \A u \in Urls : u # top.url => asks[u] = requests[u]
       /\ picks[top.url] = taken /\ \A u \in Urls : u # top.url => picks[u] = links[u]
  BY <1>5, <1>8, <1>9, <1>10
<1>12. Crawl!AskedInCall(after, seen, asks, picks)
  <2> SUFFICES ASSUME NEW u \in Urls
               PROVE  /\ asks[u] <= PageRetries
                      /\ u \notin seen => asks[u] = 0 /\ picks[u] = {}
                      /\ \A i \in DOMAIN after :
                            after[i].url = u /\ ~ after[i].follows => asks[u] = after[i].attempt - 1
    BY DEF Crawl!AskedInCall
  <2>1. CASE u = top.url
    <3>1. \A i \in DOMAIN after : ~ after[i].follows => i = n BY <1>4, <1>7
    <3>2. ~ top.follows => asks[u] = top.attempt - 1 BY <1>1, <1>5, <1>11, <2>1
    <3> QED BY <1>1, <1>4, <1>5, <1>7, <1>11, <2>1, <3>1, <3>2
  <2>2. CASE u # top.url
    BY <1>4, <1>11, <2>2 DEF Crawl!AskedInCall
  <2> QED BY <2>1, <2>2
<1>13. \A u : Crawl!Within(after, u) <=> Crawl!Within(stack, u) BY <1>1, <1>2, <1>4 DEF Crawl!Within
<1>14. Crawl!NothingForgotten(after, seen, gave, picks, {})
  <2> SUFFICES ASSUME NEW u \in seen
               PROVE  /\ gave[u] # "none" \/ Crawl!Within(after, u)
                      /\ \A v \in picks[u] :
                            \/ gave[v] # "none" \/ Crawl!Within(after, v) \/ v \in {}
                            \/ \E i \in DOMAIN after : after[i].url = u /\ v \in after[i].todo
    BY DEF Crawl!NothingForgotten
  <2>1. gave[u] # "none" \/ Crawl!Within(after, u) BY <1>13 DEF Crawl!NothingForgotten
  <2>2. ASSUME NEW v \in picks[u]
        PROVE  \/ gave[v] # "none" \/ Crawl!Within(after, v)
               \/ \E i \in DOMAIN after : after[i].url = u /\ v \in after[i].todo
    <3>1. CASE u = top.url /\ top.follows
      <4>1. v \in after[n].todo /\ after[n].url = u BY <1>4, <1>11, <2>2, <3>1
      <4> QED BY <1>2, <1>4, <4>1
    <3>2. CASE ~ (u = top.url /\ top.follows)
      <4>1. v \in links[u] BY <1>11, <2>2, <3>2
      <4>2. \/ gave[v] # "none" \/ Crawl!Within(stack, v)
            \/ \E i \in DOMAIN stack : stack[i].url = u /\ v \in stack[i].todo
        BY <4>1 DEF Crawl!NothingForgotten
      <4>3. ASSUME NEW i \in DOMAIN stack, stack[i].url = u, v \in stack[i].todo
            PROVE  i \in DOMAIN after /\ after[i].url = u /\ v \in after[i].todo
        BY <1>2, <1>4, <1>7, <4>3
      <4> QED BY <1>13, <4>2, <4>3
    <3> QED BY <3>1, <3>2
  <2> QED BY <2>1, <2>2
<1> QED BY <1>3, <1>6, <1>9, <1>10, <1>12, <1>14

\* A call that has looked at a link has it behind it, and nothing else is forgotten.
LEMMA LinkLookedAt ==
    ASSUME Crawl!CrawlAssumption, NEW c \in Crawls, NEW stack \in Seq(Crawl!Call), stack # << >>,
           NEW seen \in SUBSET Urls, NEW gave, NEW requests, NEW links,
           Crawl!Orderly(c, stack, seen, gave, requests, links), Crawl!Last(stack).follows,
           NEW u \in Crawl!Last(stack).todo,
           NEW top \in Crawl!Call, top.url = Crawl!Last(stack).url, top.follows,
           top.todo = Crawl!Last(stack).todo \ {u},
           NEW after, after = Append(Crawl!Front(stack), top)
    PROVE  /\ after \in Seq(Crawl!Call) /\ after # << >> /\ Crawl!Last(after).follows
           /\ u \in Urls /\ u \in Links[Crawl!Last(after).url]
           /\ Crawl!IsWay(c, after, seen) /\ Crawl!AskedInCall(after, seen, requests, links)
           /\ Crawl!NothingForgotten(after, seen, gave, links, {u})
<1> USE DEF Crawl!Orderly
<1>1. PICK was \in Crawl!Call : was = Crawl!Last(stack) /\ was.follows BY TopThere
<1>2. PICK n \in Nat \ {0} : n = Len(stack) /\ DOMAIN stack = 1..n /\ was = stack[n]
      /\ n \in DOMAIN stack
  BY <1>1, TopThere
<1>4. /\ top \in Crawl!Call /\ top.url = was.url /\ top.follows /\ top.todo = was.todo \ {u}
      /\ was.todo \subseteq Urls /\ was.url \in Urls
  BY <1>1 DEF Crawl!Call
<1>5. after = Append(Crawl!Front(stack), top) OBVIOUS
<1>6. /\ after \in Seq(Crawl!Call) /\ after # << >> /\ Len(after) = n /\ DOMAIN after = DOMAIN stack
      /\ after[n] = top /\ \A i \in DOMAIN stack : i # n => after[i] = stack[i]
  <2>0. PICK front \in Seq(Crawl!Call) : front = Crawl!Front(stack) BY TopReturned
  <2>1. after \in Seq(Crawl!Call) /\ after # << >>
    <3>1. after = Append(front, top) BY <2>0
    <3> QED BY <3>1
  <2>2. Len(after) = n /\ DOMAIN after = DOMAIN stack BY <1>2, <1>4, <1>5, TopReplaced
  <2>3. after[n] = top /\ \A i \in DOMAIN stack : i # n => after[i] = stack[i]
    BY <1>2, <1>4, <1>5, TopReplaced
  <2> QED BY <2>1, <2>2, <2>3
<1>7. was.todo \subseteq Links[was.url] /\ n <= MaxDepth BY <1>1, <1>2 DEF Crawl!IsWay
<1>8. Crawl!IsWay(c, after, seen)
  BY <1>1, <1>2, <1>4, <1>5, <1>7, WayReplaced
<1>9. Crawl!Last(after) = top BY <1>6 DEF Crawl!Last
<1>10. Crawl!AskedInCall(after, seen, requests, links)
  <2>1. \A i \in DOMAIN after : ~ after[i].follows => i # n BY <1>4, <1>6
  <2>2. \A i \in DOMAIN after : ~ after[i].follows => i \in DOMAIN stack /\ after[i] = stack[i]
    BY <1>6, <2>1
  <2> QED BY <2>2 DEF Crawl!AskedInCall
<1>11. \A w : Crawl!Within(after, w) <=> Crawl!Within(stack, w) BY <1>2, <1>4, <1>6 DEF Crawl!Within
<1>12. \A i \in DOMAIN stack : \A v : after[i].url
           = stack[i].url /\ (v \in stack[i].todo => v \in after[i].todo \/ v = u)
  BY <1>2, <1>4, <1>6
<1>13. Crawl!NothingForgotten(after, seen, gave, links, {u})
  <2> SUFFICES ASSUME NEW w \in seen
               PROVE  /\ gave[w] # "none" \/ Crawl!Within(after, w)
                      /\ \A v \in links[w] :
                            \/ gave[v] # "none" \/ Crawl!Within(after, v) \/ v \in {u}
                            \/ \E i \in DOMAIN after : after[i].url = w /\ v \in after[i].todo
    BY DEF Crawl!NothingForgotten
  <2>1. gave[w] # "none" \/ Crawl!Within(after, w) BY <1>11 DEF Crawl!NothingForgotten
  <2>2. ASSUME NEW v \in links[w], v # u
        PROVE  \/ gave[v] # "none" \/ Crawl!Within(after, v)
               \/ \E i \in DOMAIN after : after[i].url = w /\ v \in after[i].todo
    <3>1. \/ gave[v] # "none" \/ Crawl!Within(stack, v)
          \/ \E i \in DOMAIN stack : stack[i].url = w /\ v \in stack[i].todo
      BY <2>2 DEF Crawl!NothingForgotten
    <3> QED BY <1>6, <1>11, <1>12, <2>2, <3>1
  <2> QED BY <2>1, <2>2
<1> QED BY <1>1, <1>4, <1>6, <1>7, <1>8, <1>9, <1>10, <1>13

\* A link to a page that was visited is passed over.
LEMMA OrderlyPassedOver ==
    ASSUME NEW c \in Crawls, NEW stack, NEW seen, NEW gave, NEW requests, NEW links,
           Crawl!IsWay(c, stack, seen), Crawl!AskedInCall(stack, seen, requests, links),
           seen \subseteq Crawl!Near(c), NEW u \in seen,
           Crawl!NothingForgotten(stack, seen, gave, links, {u})
    PROVE  Crawl!Orderly(c, stack, seen, gave, requests, links)
<1>1. gave[u] # "none" \/ Crawl!Within(stack, u) BY DEF Crawl!NothingForgotten
<1>2. Crawl!NothingForgotten(stack, seen, gave, links, {}) BY <1>1 DEF Crawl!NothingForgotten
<1> QED BY <1>2 DEF Crawl!Orderly

\* A page that is called by the innermost call is as near as there are calls.
LEMMA CalledIsNear ==
    ASSUME Crawl!CrawlAssumption, NEW c \in Crawls, NEW stack \in Seq(Crawl!Call), NEW seen,
           Crawl!IsWay(c, stack, seen), NEW u \in Urls,
           \/ stack = << >> /\ u = Root[c]
           \/ stack # << >> /\ Crawl!Last(stack).follows /\ u \in Links[Crawl!Last(stack).url]
    PROVE  u \in Crawl!Near(c) /\ Len(stack) <= MaxDepth
<1>1. PICK d \in Nat : d = Len(stack) /\ DOMAIN stack = 1..d BY TopThere
<1>2. MaxDepth \in Nat BY DEF Crawl!CrawlAssumption
<1>3. d <= MaxDepth
  <2>1. CASE stack = << >> BY <1>1, <1>2, <2>1
  <2>2. CASE stack # << >>
    <3>1. d \in DOMAIN stack /\ Crawl!Last(stack) = stack[d] BY <1>1, <2>2, TopThere
    <3> QED BY <2>2, <3>1 DEF Crawl!IsWay
  <2> QED BY <2>1, <2>2
<1> DEFINE way == [i \in 0..d |-> IF i = d THEN u ELSE stack[i + 1].url]
<1>4. \A i \in 0..d : i # d => i + 1 \in DOMAIN stack /\ stack[i + 1].url \in Urls
  <2>1. \A r \in Crawl!Call : r.url \in Urls BY DEF Crawl!Call
  <2>2. \A i \in DOMAIN stack : stack[i] \in Crawl!Call OBVIOUS
  <2>3. \A i \in 0..d : i # d => i + 1 \in DOMAIN stack BY <1>1
  <2> QED BY <2>1, <2>2, <2>3
<1>5. way \in [0..d -> Urls] BY <1>4
<1>6. way[d] = u BY <1>1
<1>7. way[0] = Root[c]
  <2>1. CASE d = 0
    <3>1. stack = << >> BY <1>1, <2>1
    <3> QED BY <1>1, <2>1, <3>1
  <2>2. CASE d # 0
    <3>1. stack # << >> BY <1>1, <2>2
    <3>2. way[0] = stack[1].url BY <1>1, <2>2
    <3> QED BY <3>1, <3>2 DEF Crawl!IsWay
  <2> QED BY <2>1, <2>2
<1>8. ASSUME NEW i \in 1..d PROVE way[i] \in Links[way[i - 1]]
  <2>1. i - 1 \in 0..d /\ i - 1 # d /\ i \in DOMAIN stack /\ (i - 1) + 1 = i BY <1>1, <1>8
  <2>2. way[i - 1] = stack[i].url BY <2>1
  <2>3. stack # << >> BY <2>1
  <2>4. CASE i = d
    <3>1. way[i] = u /\ Crawl!Last(stack) = stack[i] BY <1>1, <2>3, <2>4, TopThere
    <3> QED BY <2>2, <2>3, <3>1
  <2>5. CASE i # d
    <3>1. i + 1 \in DOMAIN stack /\ i + 1 > 1 /\ (i + 1) - 1 = i /\ i \in 0..d BY <1>1, <1>8, <2>5
    <3>2. way[i] = stack[i + 1].url BY <2>5, <3>1
    <3>3. stack[i + 1].url \in Links[stack[(i + 1) - 1].url] BY <3>1 DEF Crawl!IsWay
    <3> QED BY <2>2, <3>1, <3>2, <3>3
  <2> QED BY <2>4, <2>5
<1> HIDE DEF way
<1>9. way \in Crawl!Ways(c, u, d) BY <1>5, <1>6, <1>7, <1>8 DEF Crawl!Ways
<1>10. d \in 0..MaxDepth BY <1>1, <1>2, <1>3
<1> QED BY <1>1, <1>3, <1>9, <1>10 DEF Crawl!Near

\* A page that was not visited is refused, comes from the cache, or is called.
LEMMA OrderlyEntered ==
    ASSUME Crawl!CrawlAssumption, NEW c \in Crawls, NEW stack \in Seq(Crawl!Call),
           NEW seen \in SUBSET Urls, NEW gave \in [Urls -> Crawl!Statuses],
           NEW requests \in [Urls -> Nat], NEW links \in [Urls -> SUBSET Urls],
           Crawl!IsWay(c, stack, seen), Crawl!AskedInCall(stack, seen, requests, links),
           seen \subseteq Crawl!Near(c), NEW u \in Urls, u \notin seen,
           Crawl!NothingForgotten(stack, seen, gave, links, {u}),
           \/ stack = << >> /\ u = Root[c]
           \/ stack # << >> /\ Crawl!Last(stack).follows /\ u \in Links[Crawl!Last(stack).url]
    PROVE  /\ Crawl!Orderly(c, stack, seen, [gave EXCEPT ![u] = "skipped"], requests, links)
           /\ Crawl!Orderly(c, stack, seen \cup {u}, [gave EXCEPT ![u] = "cached"], requests, links)
           /\ \A called \in Crawl!Call :
                called.url = u /\ called.attempt = 1 /\ ~ called.follows /\ called.todo = {} =>
                  Crawl!Orderly(c, Append(stack, called), seen \cup {u}, gave, requests, links)
<1>1. u \in Crawl!Near(c) /\ Len(stack) <= MaxDepth BY CalledIsNear
<1>2. requests[u] = 0 /\ links[u] = {} BY DEF Crawl!AskedInCall
<1>3. ASSUME NEW now \in {seen, seen \cup {u}}
      PROVE  Crawl!IsWay(c, stack, now) /\ Crawl!AskedInCall(stack, now, requests, links)
             /\ now \subseteq Crawl!Near(c)
  BY <1>1 DEF Crawl!IsWay, Crawl!AskedInCall
<1>4. ASSUME NEW now \in {seen, seen \cup {u}}, NEW said \in {"skipped", "cached"}
      PROVE  Crawl!NothingForgotten(stack, now, [gave EXCEPT ![u] = said], links, {})
  <2>1. PICK answers : answers = [gave EXCEPT ![u] = said] OBVIOUS
  <2>2. answers[u] = said /\ said # "none" /\ \A v \in Urls : v # u => answers[v] = gave[v]
    BY <2>1
  <2>3. \A w \in seen : \A v \in links[w] : v \in Urls OBVIOUS
  <2>4. Crawl!NothingForgotten(stack, now, answers, links, {})
    BY <1>2, <2>2, <2>3 DEF Crawl!NothingForgotten
  <2> QED BY <2>1, <2>4
<1>5. ASSUME NEW called \in Crawl!Call, called.url = u, called.attempt = 1, ~ called.follows,
             called.todo = {}
      PROVE  Crawl!Orderly(c, Append(stack, called), seen \cup {u}, gave, requests, links)
  <2>1. PICK after : after = Append(stack, called) OBVIOUS
  <2>2. PICK n \in Nat : n = Len(stack) /\ DOMAIN stack = 1..n BY TopThere
  <2>3. /\ Len(after) = n + 1 /\ DOMAIN after = 1..(n + 1) /\ after[n + 1] = called
        /\ \A i \in 1..n : after[i] = stack[i]
    BY <2>1, <2>2, TopCalls
  <2>4. MaxDepth \in Nat BY DEF Crawl!CrawlAssumption
  <2>5. \A i \in 1..n : stack[i].url \in seen /\ stack[i].url # u /\ stack[i].follows
    <3> SUFFICES ASSUME NEW i \in 1..n PROVE stack[i].url \in seen /\ stack[i].follows OBVIOUS
    <3>1. stack[i].url \in seen BY <2>2 DEF Crawl!IsWay
    <3>2. stack # << >> BY <2>2
    <3>3. Crawl!Last(stack) = stack[n] /\ stack[n].follows BY <2>2, <3>2, TopThere
    <3>4. stack[i].follows BY <2>2, <3>3 DEF Crawl!IsWay
    <3> QED BY <3>1, <3>4
  <2>6. Crawl!IsWay(c, after, seen \cup {u})
    <3>1. Len(after) <= MaxDepth + 1 BY <1>1, <2>2, <2>3, <2>4
    <3>2. after[1].url = Root[c]
      <4>1. CASE n = 0
        <5>1. stack = << >> BY <2>2, <4>1
        <5> QED BY <1>5, <2>3, <4>1, <5>1
      <4>2. CASE n # 0
        <5>1. 1 \in 1..n /\ stack # << >> BY <2>2, <4>2
        <5> QED BY <2>3, <5>1 DEF Crawl!IsWay
      <4> QED BY <4>1, <4>2
    <3>3. ASSUME NEW i \in 1..(n + 1)
          PROVE  /\ after[i].url \in seen \cup {u}
                 /\ \A j \in 1..(n + 1) : after[i].url = after[j].url => i = j
                 /\ after[i].todo \subseteq Links[after[i].url]
                 /\ after[i].follows => i <= MaxDepth
                 /\ ~ after[i].follows => i = n + 1 /\ after[i].todo = {}
                 /\ i > 1 => after[i].url \in Links[after[i - 1].url]
      <4>1. CASE i = n + 1
        <5>1. \A j \in 1..n : after[j].url # u BY <2>3, <2>5
        <5>2. \A j \in 1..(n + 1) : j = n + 1 \/ j \in 1..n BY <2>2
        <5>3. i > 1 => after[i].url \in Links[after[i - 1].url]
          <6> SUFFICES ASSUME i > 1 PROVE u \in Links[after[i - 1].url] BY <1>5, <2>3, <4>1
          <6>1. n \in 1..n /\ i - 1 = n BY <2>2, <4>1
          <6>2. stack # << >> BY <2>2, <6>1
          <6> QED BY <2>2, <2>3, <6>1, <6>2, TopThere
        <5> QED BY <1>5, <2>3, <4>1, <5>1, <5>2, <5>3
      <4>2. CASE i # n + 1
        <5>1. i \in 1..n /\ i \in DOMAIN stack /\ after[i] = stack[i] BY <2>2, <2>3, <3>3, <4>2
        <5>2. \A j \in 1..(n + 1) : after[i].url = after[j].url => i = j
          <6> SUFFICES ASSUME NEW j \in 1..(n + 1), after[i].url = after[j].url PROVE i = j
            OBVIOUS
          <6>1. j # n + 1 BY <1>5, <2>3, <2>5, <5>1
          <6>2. j \in 1..n BY <2>2, <6>1
          <6> QED BY <2>2, <2>3, <5>1, <6>2, SMTT(30) DEF Crawl!IsWay
        <5>3. i > 1 => i - 1 \in 1..n BY <2>2, <5>1
        <5>4. i > 1 => after[i].url \in Links[after[i - 1].url]
          BY <2>2, <2>3, <5>1, <5>3 DEF Crawl!IsWay
        <5>5. after[i].todo \subseteq Links[after[i].url] /\ after[i].follows /\ i <= MaxDepth
          BY <2>2, <2>5, <5>1 DEF Crawl!IsWay
        <5> QED BY <2>5, <5>1, <5>2, <5>4, <5>5
      <4> QED BY <4>1, <4>2
    <3> QED BY <2>3, <3>1, <3>2, <3>3 DEF Crawl!IsWay
  <2>7. \A i \in DOMAIN after : ~ after[i].follows => after[i] = called
    BY <2>2, <2>3, <2>5, SMTT(30)
  <2>8. Crawl!AskedInCall(after, seen \cup {u}, requests, links)
    BY <1>2, <1>5, <2>7 DEF Crawl!AskedInCall
  <2>9. \A i \in DOMAIN stack : i \in DOMAIN after /\ after[i] = stack[i] BY <2>2, <2>3
  <2>10. Crawl!Within(after, u) /\ \A v : Crawl!Within(stack, v) => Crawl!Within(after, v)
    BY <1>5, <2>2, <2>3, <2>9, SMTT(30) DEF Crawl!Within
  <2>11. Crawl!NothingForgotten(after, seen \cup {u}, gave, links, {})
    BY <1>2, <2>9, <2>10 DEF Crawl!NothingForgotten
  <2>12. seen \cup {u} \subseteq Crawl!Near(c) BY <1>1
  <2> QED BY <2>1, <2>6, <2>8, <2>11, <2>12 DEF Crawl!Orderly
<1> QED BY <1>3, <1>4, <1>5 DEF Crawl!Orderly

\* What the state says of one crawl.
LEMMA CrawlTyped ==
    ASSUME Crawl!IInv, NEW c \in Crawls
    PROVE  /\ nested[c] \in Seq(Crawl!Call) /\ crawled[c] \in SUBSET Urls
           /\ answer[c] \in [Urls -> Crawl!Statuses] /\ asked[c] \in [Urls -> Nat]
           /\ picked[c] \in [Urls -> SUBSET Urls]
           /\ Crawl!Orderly(c, nested[c], crawled[c], answer[c], asked[c], picked[c])
BY DEF Crawl!IInv, Crawl!TypeOK

LEMMA CallTyped ==
    ASSUME NEW r \in Crawl!Call
    PROVE  r.url \in Urls /\ r.attempt \in 1..PageRetries /\ r.follows \in BOOLEAN
           /\ r.todo \subseteq Urls
BY DEF Crawl!Call

\* A count or an answer of one page of one crawl changes.
LEMMA OneRequest ==
    ASSUME NEW f \in [Crawls -> [Urls -> Nat]], NEW c \in Crawls, NEW u \in Urls,
           NEW g, g = [f EXCEPT ![c][u] = @ + 1]
    PROVE  /\ g \in [Crawls -> [Urls -> Nat]] /\ g[c] = [f[c] EXCEPT ![u] = @ + 1]
           /\ \A d \in Crawls \ {c} : g[d] = f[d]
<1>1. f[c] \in [Urls -> Nat] /\ f[c][u] + 1 \in Nat OBVIOUS
<1>2. PICK h : h = [f[c] EXCEPT ![u] = f[c][u] + 1] OBVIOUS
<1>3. h \in [Urls -> Nat] BY <1>1, <1>2
<1>4. g = [f EXCEPT ![c] = h] BY <1>2
<1> QED BY <1>2, <1>3, <1>4

LEMMA OneOfCrawl ==
    ASSUME NEW S, NEW f \in [Crawls -> [Urls -> S]], NEW c \in Crawls, NEW u \in Urls,
           NEW x \in S, NEW g, g = [f EXCEPT ![c][u] = x]
    PROVE  /\ g \in [Crawls -> [Urls -> S]] /\ g[c] = [f[c] EXCEPT ![u] = x]
           /\ \A d \in Crawls \ {c} : g[d] = f[d]
OBVIOUS

\* A crawl that returns from a call is in order again, and the others are as they were.
LEMMA CrawlReturns ==
    ASSUME Crawl!CrawlAssumption, Crawl!IInv, NEW c \in Crawls, nested[c] # << >>,
           NEW url \in Urls, url = Crawl!Last(nested[c]).url,
           Crawl!Last(nested[c]).todo = {}, NEW said \in Crawl!Statuses, said # "none",
           Crawl!Returns(c, said), UNCHANGED <<crawled, picked>>,
           \/ UNCHANGED asked
           \/ ~ Crawl!Last(nested[c]).follows /\ asked' = [asked EXCEPT ![c][url] = @ + 1]
    PROVE  /\ Crawl!TypeOK'
           /\ \A d \in Crawls \ {c} : /\ nested'[d] = nested[d] /\ crawled'[d] = crawled[d]
                                      /\ answer'[d] = answer[d] /\ asked'[d] = asked[d]
                                      /\ picked'[d] = picked[d]
           /\ Crawl!Orderly(c, nested'[c], crawled'[c], answer'[c], asked'[c], picked'[c])
<1>2. nested' = [nested EXCEPT ![c] = Crawl!Front(nested[c])]
      /\ answer' = [answer EXCEPT ![c][url] = said]
  BY DEF Crawl!Returns, Crawl!Becomes, Crawl!Answers
<1>3. Crawl!Front(nested[c]) \in Seq(Crawl!Call) BY CrawlTyped, TopReturned
<1>4. /\ crawled \in [Crawls -> SUBSET Urls] /\ nested \in [Crawls -> Seq(Crawl!Call)]
      /\ answer \in [Crawls -> [Urls -> Crawl!Statuses]] /\ asked \in [Crawls -> [Urls -> Nat]]
      /\ picked \in [Crawls -> [Urls -> SUBSET Urls]]
  BY DEF Crawl!IInv, Crawl!TypeOK
<1>5. /\ nested' \in [Crawls -> Seq(Crawl!Call)] /\ nested'[c] = Crawl!Front(nested[c])
      /\ \A d \in Crawls \ {c} : nested'[d] = nested[d]
  BY <1>2, <1>3, <1>4
<1>6. /\ answer' \in [Crawls -> [Urls -> Crawl!Statuses]]
      /\ answer'[c] = [answer[c] EXCEPT ![url] = said]
      /\ \A d \in Crawls \ {c} : answer'[d] = answer[d]
  BY <1>2, <1>4, OneOfCrawl
<1>7. /\ asked' \in [Crawls -> [Urls -> Nat]]
      /\ \/ asked'[c] = asked[c]
         \/ ~ Crawl!Last(nested[c]).follows /\ asked'[c] = [asked[c] EXCEPT ![url] = @ + 1]
      /\ \A d \in Crawls \ {c} : asked'[d] = asked[d]
  <2>1. CASE UNCHANGED asked BY <1>4, <2>1
  <2>2. CASE ~ Crawl!Last(nested[c]).follows /\ asked' = [asked EXCEPT ![c][url] = @ + 1]
    BY <1>4, <2>2, OneRequest
  <2> QED BY <2>1, <2>2
<1>8. Crawl!TypeOK' BY <1>4, <1>5, <1>6, <1>7 DEF Crawl!TypeOK, Crawl!Statuses, Crawl!Call
<1>9. Crawl!Orderly(c, nested'[c], crawled[c], answer'[c], asked'[c], picked[c])
  <2>1. PICK stack \in Seq(Crawl!Call), seen \in SUBSET Urls, gave \in [Urls -> Crawl!Statuses],
             requests \in [Urls -> Nat], links \in [Urls -> SUBSET Urls] :
          /\ stack = nested[c] /\ seen = crawled[c] /\ gave = answer[c] /\ requests = asked[c]
          /\ links = picked[c] /\ Crawl!Orderly(c, stack, seen, gave, requests, links)
    BY CrawlTyped
  <2>2. PICK asks : /\ asks = asked'[c]
                    /\ \/ asks = requests
                       \/ /\ ~ Crawl!Last(stack).follows
                          /\ asks = [requests EXCEPT ![Crawl!Last(stack).url] = @ + 1]
    BY <1>7, <2>1
  <2>3. stack # << >> /\ Crawl!Last(stack).todo = {} BY <2>1
  <2>4. Crawl!Orderly(c, Crawl!Front(stack), seen,
                      [gave EXCEPT ![Crawl!Last(stack).url] = said], asks, links)
    BY <2>1, <2>2, <2>3, OrderlyReturned
  <2> QED BY <1>5, <1>6, <2>1, <2>2, <2>4
<1> QED BY <1>5, <1>6, <1>7, <1>8, <1>9

\* The same when a page is asked for again, or has arrived with links to follow.
LEMMA CrawlAsks ==
    ASSUME Crawl!CrawlAssumption, Crawl!IInv, NEW c \in Crawls, nested[c] # << >>,
           ~ Crawl!Last(nested[c]).follows, NEW top \in Crawl!Call,
           top.url = Crawl!Last(nested[c]).url, NEW taken \in SUBSET Urls,
           \/ /\ ~ top.follows /\ top.attempt = Crawl!Last(nested[c]).attempt + 1
              /\ top.todo = {} /\ taken = picked[c][top.url]
           \/ /\ top.follows /\ top.todo
               = taken /\ taken \subseteq Links[top.url] /\ Len(nested[c]) <= MaxDepth,
           nested' = [nested EXCEPT ![c] = Append(Crawl!Front(nested[c]), top)],
           asked' = [asked EXCEPT ![c][top.url] = @ + 1],
           picked' = [picked EXCEPT ![c][top.url] = taken], UNCHANGED <<crawled, answer>>
    PROVE  /\ Crawl!TypeOK'
           /\ \A d \in Crawls \ {c} : /\ nested'[d] = nested[d] /\ crawled'[d] = crawled[d]
                                      /\ answer'[d] = answer[d] /\ asked'[d] = asked[d]
                                      /\ picked'[d] = picked[d]
           /\ Crawl!Orderly(c, nested'[c], crawled'[c], answer'[c], asked'[c], picked'[c])
<1>1. PICK stack \in Seq(Crawl!Call), seen \in SUBSET Urls, gave \in [Urls -> Crawl!Statuses],
           requests \in [Urls -> Nat], links \in [Urls -> SUBSET Urls] :
        /\ stack = nested[c] /\ seen = crawled[c] /\ gave = answer[c] /\ requests = asked[c]
        /\ links = picked[c] /\ Crawl!Orderly(c, stack, seen, gave, requests, links)
  BY CrawlTyped
<1>2. /\ crawled \in [Crawls -> SUBSET Urls] /\ nested \in [Crawls -> Seq(Crawl!Call)]
      /\ answer \in [Crawls -> [Urls -> Crawl!Statuses]] /\ asked \in [Crawls -> [Urls -> Nat]]
      /\ picked \in [Crawls -> [Urls -> SUBSET Urls]]
  BY DEF Crawl!IInv, Crawl!TypeOK
<1>3. PICK front \in Seq(Crawl!Call) : front = Crawl!Front(stack) BY <1>1, TopReturned
<1>4a. PICK after : after = Append(front, top) OBVIOUS
<1>4. after \in Seq(Crawl!Call) BY <1>4a
<1>5. /\ nested' \in [Crawls -> Seq(Crawl!Call)] /\ nested'[c] = after
      /\ \A d \in Crawls \ {c} : nested'[d] = nested[d]
  BY <1>1, <1>2, <1>3, <1>4, <1>4a
<1>6. top.url \in Urls /\ taken \in SUBSET Urls BY CallTyped DEF Crawl!CrawlAssumption
<1>7. /\ asked' \in [Crawls -> [Urls -> Nat]] /\ asked'[c] = [requests EXCEPT ![top.url] = @ + 1]
      /\ \A d \in Crawls \ {c} : asked'[d] = asked[d]
  BY <1>1, <1>2, <1>6, OneRequest
<1>8. /\ picked' \in [Crawls -> [Urls -> SUBSET Urls]]
      /\ picked'[c] = [links EXCEPT ![top.url] = taken]
      /\ \A d \in Crawls \ {c} : picked'[d] = picked[d]
  BY <1>1, <1>2, <1>6, OneOfCrawl
<1>9. Crawl!TypeOK' BY <1>2, <1>5, <1>7, <1>8 DEF Crawl!TypeOK, Crawl!Statuses, Crawl!Call
<1>10. Crawl!Orderly(c, Append(Crawl!Front(stack), top), seen, gave,
                     [requests EXCEPT ![top.url] = @ + 1], [links EXCEPT ![top.url] = taken])
  <2>1. stack # << >> /\ ~ Crawl!Last(stack).follows /\ top.url = Crawl!Last(stack).url BY <1>1
  <2>2. \/ /\ ~ top.follows /\ top.attempt = Crawl!Last(stack).attempt + 1
           /\ top.todo = {} /\ taken = links[top.url]
        \/ /\ top.follows /\ top.todo = taken /\ taken \subseteq Links[top.url] /\ Len(stack)
            <= MaxDepth
    BY <1>1
  <2> QED BY <1>1, <2>1, <2>2, OrderlyAsked
<1> QED BY <1>1, <1>3, <1>4, <1>4a, <1>5, <1>7, <1>8, <1>9, <1>10

\* A page is entered by the calls in stack, which have it behind them.
LEMMA CrawlEnters ==
    ASSUME Crawl!CrawlAssumption, Crawl!IInv, NEW c \in Crawls, NEW stack \in Seq(Crawl!Call),
           NEW u \in Urls, u \notin crawled[c], Crawl!IsWay(c, stack, crawled[c]),
           Crawl!AskedInCall(stack, crawled[c], asked[c], picked[c]),
           Crawl!NothingForgotten(stack, crawled[c], answer[c], picked[c], {u}),
           \/ stack = << >> /\ u = Root[c]
           \/ stack # << >> /\ Crawl!Last(stack).follows /\ u \in Links[Crawl!Last(stack).url],
           Crawl!Enter(c, u, stack), UNCHANGED <<asked, picked>>
    PROVE  /\ Crawl!TypeOK'
           /\ \A d \in Crawls \ {c} : /\ nested'[d] = nested[d] /\ crawled'[d] = crawled[d]
                                      /\ answer'[d] = answer[d] /\ asked'[d] = asked[d]
                                      /\ picked'[d] = picked[d]
           /\ Crawl!Orderly(c, nested'[c], crawled'[c], answer'[c], asked'[c], picked'[c])
<1>1. PICK seen \in SUBSET Urls, gave \in [Urls -> Crawl!Statuses],
           requests \in [Urls -> Nat], links \in [Urls -> SUBSET Urls] :
        /\ seen = crawled[c] /\ gave = answer[c] /\ requests = asked[c]
        /\ links = picked[c] /\ seen \subseteq Crawl!Near(c)
  BY CrawlTyped DEF Crawl!Orderly
<1>2. /\ crawled \in [Crawls -> SUBSET Urls] /\ nested \in [Crawls -> Seq(Crawl!Call)]
      /\ answer \in [Crawls -> [Urls -> Crawl!Statuses]] /\ asked \in [Crawls -> [Urls -> Nat]]
      /\ picked \in [Crawls -> [Urls -> SUBSET Urls]]
  BY DEF Crawl!IInv, Crawl!TypeOK
<1>3. /\ Crawl!Orderly(c, stack, seen, [gave EXCEPT ![u] = "skipped"], requests, links)
      /\ Crawl!Orderly(c, stack, seen \cup {u}, [gave EXCEPT ![u] = "cached"], requests, links)
      /\ \A called \in Crawl!Call :
           called.url = u /\ called.attempt = 1 /\ ~ called.follows /\ called.todo = {} =>
             Crawl!Orderly(c, Append(stack, called), seen \cup {u}, gave, requests, links)
  <2>1. /\ u \notin seen /\ Crawl!IsWay(c, stack, seen)
        /\ Crawl!AskedInCall(stack, seen, requests, links)
        /\ Crawl!NothingForgotten(stack, seen, gave, links, {u})
    BY <1>1
  <2> QED BY <1>1, <2>1, OrderlyEntered
<1>4. "skipped" \in Crawl!Statuses /\ "cached" \in Crawl!Statuses BY DEF Crawl!Statuses
<1>5. CASE u \in Blocked
  <2>1. /\ answer' = [answer EXCEPT ![c][u] = "skipped"] /\ nested' = [nested EXCEPT ![c] = stack]
        /\ UNCHANGED <<crawled, asked, picked>>
    BY <1>5 DEF Crawl!Enter, Crawl!Answers, Crawl!Becomes
  <2>2. /\ nested' \in [Crawls -> Seq(Crawl!Call)] /\ nested'[c] = stack
        /\ \A d \in Crawls \ {c} : nested'[d] = nested[d]
    BY <1>2, <2>1
  <2>3. /\ answer' \in [Crawls -> [Urls -> Crawl!Statuses]]
        /\ answer'[c] = [gave EXCEPT ![u] = "skipped"]
        /\ \A d \in Crawls \ {c} : answer'[d] = answer[d]
    BY <1>1, <1>2, <1>4, <2>1, OneOfCrawl
  <2>4. Crawl!TypeOK' BY <1>2, <2>1, <2>2, <2>3 DEF Crawl!TypeOK, Crawl!Statuses, Crawl!Call
  <2> QED BY <1>1, <1>3, <2>1, <2>2, <2>3, <2>4
<1>6. ASSUME u \notin Blocked, crawled' = [crawled EXCEPT ![c] = @ \cup {u}],
             Crawl!Answers(c, u, "cached"), Crawl!Becomes(c, stack)
      PROVE  /\ Crawl!TypeOK'
             /\ \A d \in Crawls \ {c} : /\ nested'[d] = nested[d] /\ crawled'[d] = crawled[d]
                                        /\ answer'[d] = answer[d] /\ asked'[d] = asked[d]
                                        /\ picked'[d] = picked[d]
             /\ Crawl!Orderly(c, nested'[c], crawled'[c], answer'[c], asked'[c], picked'[c])
  <2>1. /\ answer' = [answer EXCEPT ![c][u] = "cached"] /\ nested' = [nested EXCEPT ![c] = stack]
    BY <1>6 DEF Crawl!Answers, Crawl!Becomes
  <2>2. /\ nested' \in [Crawls -> Seq(Crawl!Call)] /\ nested'[c] = stack
        /\ \A d \in Crawls \ {c} : nested'[d] = nested[d]
    BY <1>2, <2>1
  <2>3. /\ answer' \in [Crawls -> [Urls -> Crawl!Statuses]]
        /\ answer'[c] = [gave EXCEPT ![u] = "cached"]
        /\ \A d \in Crawls \ {c} : answer'[d] = answer[d]
    BY <1>1, <1>2, <1>4, <2>1, OneOfCrawl
  <2>4. /\ crawled' \in [Crawls -> SUBSET Urls] /\ crawled'[c] = seen \cup {u}
        /\ \A d \in Crawls \ {c} : crawled'[d] = crawled[d]
    BY <1>1, <1>2, <1>6
  <2>5. Crawl!TypeOK' BY <1>2, <2>2, <2>3, <2>4 DEF Crawl!TypeOK, Crawl!Statuses, Crawl!Call
  <2> QED BY <1>1, <1>3, <2>2, <2>3, <2>4, <2>5
<1>7. ASSUME u \notin Blocked, crawled' = [crawled EXCEPT ![c] = @ \cup {u}], UNCHANGED answer,
             Crawl!Becomes(c, Append(stack, [url |-> u, attempt |-> 1, follows |-> FALSE, todo |-> {}]))
      PROVE  /\ Crawl!TypeOK'
             /\ \A d \in Crawls \ {c} : /\ nested'[d] = nested[d] /\ crawled'[d] = crawled[d]
                                        /\ answer'[d] = answer[d] /\ asked'[d] = asked[d]
                                        /\ picked'[d] = picked[d]
             /\ Crawl!Orderly(c, nested'[c], crawled'[c], answer'[c], asked'[c], picked'[c])
  <2>1a. 1 \in 1..PageRetries BY DEF Crawl!CrawlAssumption
  <2>1b. PICK called : called = [url |-> u, attempt |-> 1, follows |-> FALSE, todo |-> {}] OBVIOUS
  <2>1. /\ called \in Crawl!Call
        /\ called.url = u /\ called.attempt = 1 /\ ~ called.follows /\ called.todo = {}
    BY <2>1a, <2>1b DEF Crawl!Call
  <2>2. nested' = [nested EXCEPT ![c] = Append(stack, called)] BY <1>7, <2>1b DEF Crawl!Becomes
  <2>3a. PICK after : after = Append(stack, called) OBVIOUS
  <2>3. after \in Seq(Crawl!Call) BY <2>1, <2>3a
  <2>4. /\ nested' \in [Crawls -> Seq(Crawl!Call)] /\ nested'[c] = after
        /\ \A d \in Crawls \ {c} : nested'[d] = nested[d]
    BY <1>2, <2>2, <2>3, <2>3a
  <2>5. /\ crawled' \in [Crawls -> SUBSET Urls] /\ crawled'[c] = seen \cup {u}
        /\ \A d \in Crawls \ {c} : crawled'[d] = crawled[d]
    BY <1>1, <1>2, <1>7
  <2>6. Crawl!TypeOK' BY <1>2, <1>7, <2>4, <2>5 DEF Crawl!TypeOK, Crawl!Statuses, Crawl!Call
  <2>7. Crawl!Orderly(c, after, seen \cup {u}, gave, requests, links) BY <1>3, <2>1, <2>3a
  <2> QED BY <1>1, <1>7, <2>4, <2>5, <2>6, <2>7
<1>8. u \notin Blocked =>
        /\ crawled' = [crawled EXCEPT ![c] = @ \cup {u}]
        /\ \/ Crawl!Answers(c, u, "cached") /\ Crawl!Becomes(c, stack)
           \/ /\ Crawl!Becomes(c, Append(stack, [url |-> u, attempt |-> 1, follows |-> FALSE, todo |-> {}]))
              /\ UNCHANGED answer
  BY DEF Crawl!Enter
<1> QED BY <1>5, <1>6, <1>7, <1>8

\* A call that follows its links passes over one to a page that was visited, or enters it.
LEMMA CrawlFollows ==
    ASSUME Crawl!CrawlAssumption, Crawl!IInv, NEW c \in Crawls, Crawl!FollowLink(c)
    PROVE  /\ Crawl!TypeOK'
           /\ \A d \in Crawls \ {c} : /\ nested'[d] = nested[d] /\ crawled'[d] = crawled[d]
                                      /\ answer'[d] = answer[d] /\ asked'[d] = asked[d]
                                      /\ picked'[d] = picked[d]
           /\ Crawl!Orderly(c, nested'[c], crawled'[c], answer'[c], asked'[c], picked'[c])
<1>1. PICK stack \in Seq(Crawl!Call), seen \in SUBSET Urls, gave \in [Urls -> Crawl!Statuses],
           requests \in [Urls -> Nat], links \in [Urls -> SUBSET Urls] :
        /\ stack = nested[c] /\ seen = crawled[c] /\ gave = answer[c] /\ requests = asked[c]
        /\ links = picked[c] /\ Crawl!Orderly(c, stack, seen, gave, requests, links)
  BY CrawlTyped
<1>2. stack # << >> /\ Crawl!Last(stack).follows BY <1>1 DEF Crawl!FollowLink, Crawl!Follows
<1>3. PICK was \in Crawl!Call : was = Crawl!Last(stack) /\ was.follows BY <1>2, TopThere
<1>4. PICK u \in was.todo : \E top :
        /\ top = [was EXCEPT !.todo = @ \ {u}]
        /\ IF u \in seen
           THEN /\ Crawl!Becomes(c, Append(Crawl!Front(stack), top))
                /\ UNCHANGED <<crawled, answer>>
           ELSE Crawl!Enter(c, u, Append(Crawl!Front(stack), top))
  BY <1>1, <1>3 DEF Crawl!FollowLink
<1>4a. PICK top :
        /\ top = [was EXCEPT !.todo = @ \ {u}]
        /\ IF u \in seen
           THEN /\ Crawl!Becomes(c, Append(Crawl!Front(stack), top))
                /\ UNCHANGED <<crawled, answer>>
           ELSE Crawl!Enter(c, u, Append(Crawl!Front(stack), top))
  BY <1>4
<1>5. UNCHANGED <<asked, picked>> BY DEF Crawl!FollowLink
<1>6. /\ top \in Crawl!Call /\ top.url = was.url /\ top.follows /\ top.todo = was.todo \ {u}
  BY <1>3, <1>4a DEF Crawl!Call
<1>7. PICK after : after = Append(Crawl!Front(stack), top) OBVIOUS
<1>8. /\ after \in Seq(Crawl!Call) /\ after # << >> /\ Crawl!Last(after).follows
      /\ u \in Urls /\ u \in Links[Crawl!Last(after).url]
      /\ Crawl!IsWay(c, after, seen) /\ Crawl!AskedInCall(after, seen, requests, links)
      /\ Crawl!NothingForgotten(after, seen, gave, links, {u})
  BY <1>1, <1>2, <1>3, <1>6, <1>7, LinkLookedAt, ZenonT(60)
<1>9. CASE u \in seen
  <2>1. nested' = [nested EXCEPT ![c] = after] /\ UNCHANGED <<crawled, answer>>
    BY <1>4a, <1>7, <1>9 DEF Crawl!Becomes
  <2>2. /\ crawled \in [Crawls -> SUBSET Urls] /\ nested \in [Crawls -> Seq(Crawl!Call)]
        /\ answer \in [Crawls -> [Urls -> Crawl!Statuses]] /\ asked \in [Crawls -> [Urls -> Nat]]
        /\ picked \in [Crawls -> [Urls -> SUBSET Urls]]
    BY DEF Crawl!IInv, Crawl!TypeOK
  <2>3. /\ nested' \in [Crawls -> Seq(Crawl!Call)] /\ nested'[c] = after
        /\ \A d \in Crawls \ {c} : nested'[d] = nested[d]
    BY <1>8, <2>1, <2>2
  <2>4. Crawl!TypeOK' BY <1>5, <2>1, <2>2, <2>3 DEF Crawl!TypeOK, Crawl!Statuses, Crawl!Call
  <2>5. seen \subseteq Crawl!Near(c) BY <1>1 DEF Crawl!Orderly
  <2>6. Crawl!Orderly(c, after, seen, gave, requests, links)
    BY <1>8, <1>9, <2>5, OrderlyPassedOver
  <2> QED BY <1>1, <1>5, <2>1, <2>3, <2>4, <2>6
<1>10. CASE u \notin seen
  <2>1. Crawl!Enter(c, u, after) BY <1>4a, <1>7, <1>10
  <2>2. /\ Crawl!IsWay(c, after, crawled[c])
        /\ Crawl!AskedInCall(after, crawled[c], asked[c], picked[c])
        /\ Crawl!NothingForgotten(after, crawled[c], answer[c], picked[c], {u})
        /\ u \notin crawled[c]
    BY <1>1, <1>8, <1>10
  <2> QED BY <1>5, <1>8, <2>1, <2>2, CrawlEnters
<1> QED BY <1>9, <1>10

\* A crawl begins with nothing behind it.
LEMMA CrawlBegins ==
    ASSUME Crawl!CrawlAssumption, Crawl!IInv, NEW c \in Crawls, Crawl!Begin(c)
    PROVE  /\ Crawl!TypeOK'
           /\ \A d \in Crawls \ {c} : /\ nested'[d] = nested[d] /\ crawled'[d] = crawled[d]
                                      /\ answer'[d] = answer[d] /\ asked'[d] = asked[d]
                                      /\ picked'[d] = picked[d]
           /\ Crawl!Orderly(c, nested'[c], crawled'[c], answer'[c], asked'[c], picked'[c])
<1>1. PICK stack, seen, gave, requests, links, u :
        /\ stack \in Seq(Crawl!Call) /\ stack = nested[c] /\ seen = crawled[c] /\ gave = answer[c]
        /\ requests = asked[c]
        /\ links = picked[c] /\ u = Root[c] /\ Crawl!Orderly(c, stack, seen, gave, requests, links)
  BY CrawlTyped
<1>2. stack = << >> /\ gave[u] = "none" BY <1>1 DEF Crawl!Begin
<1>3. u \in Urls BY <1>1 DEF Crawl!CrawlAssumption
<1>4. u \notin seen
  BY <1>1, <1>2 DEF Crawl!Orderly, Crawl!NothingForgotten, Crawl!Within
<1>5. /\ Crawl!IsWay(c, stack, seen) /\ Crawl!AskedInCall(stack, seen, requests, links)
      /\ Crawl!NothingForgotten(stack, seen, gave, links, {u})
  BY <1>1 DEF Crawl!Orderly, Crawl!NothingForgotten
<1>6. Crawl!Enter(c, u, stack) /\ UNCHANGED <<asked, picked>> BY <1>1, <1>2 DEF Crawl!Begin
<1>7. /\ u \notin crawled[c] /\ Crawl!IsWay(c, stack, crawled[c])
      /\ Crawl!AskedInCall(stack, crawled[c], asked[c], picked[c])
      /\ Crawl!NothingForgotten(stack, crawled[c], answer[c], picked[c], {u})
  BY <1>1, <1>4, <1>5
<1> QED BY <1>1, <1>2, <1>3, <1>6, <1>7, CrawlEnters

\* A request has an outcome: the call returns, asks again, or has links to follow.
LEMMA CrawlHears ==
    ASSUME Crawl!CrawlAssumption, Crawl!IInv, NEW c \in Crawls,
           Crawl!PageArrives(c) \/ Crawl!RequestFails(c) \/ Crawl!RequestBreaks(c)
    PROVE  /\ Crawl!TypeOK'
           /\ \A d \in Crawls \ {c} : /\ nested'[d] = nested[d] /\ crawled'[d] = crawled[d]
                                      /\ answer'[d] = answer[d] /\ asked'[d] = asked[d]
                                      /\ picked'[d] = picked[d]
           /\ Crawl!Orderly(c, nested'[c], crawled'[c], answer'[c], asked'[c], picked'[c])
<1>1. Crawl!Requests(c) BY DEF Crawl!PageArrives, Crawl!RequestFails, Crawl!RequestBreaks
<1>2. nested[c] \in Seq(Crawl!Call) /\ nested[c] # << >> BY <1>1, CrawlTyped DEF Crawl!Requests
<1>3. PICK was \in Crawl!Call, n \in Nat :
         was = Crawl!Last(nested[c]) /\ n = Len(nested[c]) /\ n \in DOMAIN nested[c]
         /\ nested[c][n] = was
  BY <1>2, TopThere
<1>4. was.url \in Urls /\ was.attempt \in 1..PageRetries /\ PageRetries \in Nat
  BY CallTyped DEF Crawl!CrawlAssumption
<1>5. /\ ~ was.follows /\ asked' = [asked EXCEPT ![c][was.url] = @ + 1] /\ UNCHANGED crawled
  BY <1>1, <1>3 DEF Crawl!Requests
<1>6. was.todo = {} BY <1>3, <1>5, CrawlTyped DEF Crawl!Orderly, Crawl!IsWay
<1>7. ASSUME NEW said \in {"ok", "error"}, Crawl!Returns(c, said), UNCHANGED picked
      PROVE  /\ Crawl!TypeOK'
             /\ \A d \in Crawls \ {c} : /\ nested'[d] = nested[d] /\ crawled'[d] = crawled[d]
                                        /\ answer'[d] = answer[d] /\ asked'[d] = asked[d]
                                        /\ picked'[d] = picked[d]
             /\ Crawl!Orderly(c, nested'[c], crawled'[c], answer'[c], asked'[c], picked'[c])
  <2>1. said \in Crawl!Statuses /\ said # "none" BY DEF Crawl!Statuses
  <2> QED BY <1>2, <1>3, <1>4, <1>5, <1>6, <1>7, <2>1, CrawlReturns
<1>8. CASE Crawl!RequestBreaks(c) BY <1>7, <1>8 DEF Crawl!RequestBreaks
<1>9. CASE Crawl!RequestFails(c)
  <2>1. CASE was.attempt = PageRetries BY <1>3, <1>7, <1>9, <2>1 DEF Crawl!RequestFails
  <2>2. CASE was.attempt # PageRetries
    <3>1. PICK top : top = [was EXCEPT !.attempt = @ + 1] OBVIOUS
    <3>2. was.attempt + 1 \in 1..PageRetries BY <1>4, <2>2
    <3>3. /\ top \in Crawl!Call /\ top.url = was.url /\ ~ top.follows
          /\ top.attempt = was.attempt + 1 /\ top.todo = {}
      BY <1>5, <1>6, <3>1, <3>2 DEF Crawl!Call
    <3>4. /\ nested' = [nested EXCEPT ![c] = Append(Crawl!Front(nested[c]), top)]
          /\ UNCHANGED <<answer, picked>>
      BY <1>3, <1>9, <2>2, <3>1 DEF Crawl!RequestFails, Crawl!Becomes
    <3>5. PICK taken : taken = picked[c][was.url] OBVIOUS
    <3>6. picked' = [picked EXCEPT ![c][was.url] = taken]
      <4>1. picked \in [Crawls -> [Urls -> SUBSET Urls]] BY DEF Crawl!IInv, Crawl!TypeOK
      <4>2. picked' = picked BY <3>4
      <4> QED BY <1>4, <3>5, <4>1, <4>2
    <3>7. taken \in SUBSET Urls BY <1>4, <3>5, CrawlTyped
    <3>8. /\ ~ top.follows /\ top.attempt = Crawl!Last(nested[c]).attempt + 1
          /\ top.todo = {} /\ taken = picked[c][top.url] /\ top.url = Crawl!Last(nested[c]).url
          /\ ~ Crawl!Last(nested[c]).follows
      BY <1>3, <1>5, <3>3, <3>5
    <3>9. /\ asked' = [asked EXCEPT ![c][top.url] = @ + 1]
          /\ picked' = [picked EXCEPT ![c][top.url] = taken]
      BY <1>5, <3>3, <3>6
    <3> QED BY <1>2, <1>5, <3>3, <3>4, <3>7, <3>8, <3>9, CrawlAsks
  <2> QED BY <2>1, <2>2
<1>10. CASE Crawl!PageArrives(c)
  <2>1. PICK depth : depth = n - 1 /\ depth = Crawl!Depth(c) BY <1>3 DEF Crawl!Depth
  <2>2. CASE was.url \notin Markup \/ depth >= MaxDepth
    BY <1>3, <1>7, <1>10, <2>1, <2>2 DEF Crawl!PageArrives
  <2>3. CASE ~ (was.url \notin Markup \/ depth >= MaxDepth) /\ was.url \in Broken
    BY <1>3, <1>7, <1>10, <2>1, <2>3 DEF Crawl!PageArrives
  <2>4. CASE ~ (was.url \notin Markup \/ depth >= MaxDepth) /\ was.url \notin Broken
    <3>0. PICK few \in Crawl!Some(Links[was.url]) :
             /\ Crawl!Becomes(c, Append(Crawl!Front(nested[c]), [was EXCEPT !.follows = TRUE, !.todo = few]))
             /\ picked' = [picked EXCEPT ![c][was.url] = few] /\ UNCHANGED answer
      BY <1>3, <1>10, <2>1, <2>4 DEF Crawl!PageArrives
    <3>1. PICK top :
             /\ top = [was EXCEPT !.follows = TRUE, !.todo = few]
             /\ Crawl!Becomes(c, Append(Crawl!Front(nested[c]), top))
             /\ picked' = [picked EXCEPT ![c][was.url] = few] /\ UNCHANGED answer
      BY <3>0
    <3>2. few \subseteq Links[was.url] /\ few \in SUBSET Urls
      BY <1>4 DEF Crawl!Some, Crawl!CrawlAssumption
    <3>3. /\ top \in Crawl!Call /\ top.url = was.url /\ top.follows /\ top.todo = few
      BY <3>1, <3>2 DEF Crawl!Call
    <3>4. n <= MaxDepth BY <2>1, <2>4 DEF Crawl!CrawlAssumption
    <3>5. nested' = [nested EXCEPT ![c] = Append(Crawl!Front(nested[c]), top)]
      BY <3>1 DEF Crawl!Becomes
    <3> QED BY <1>2, <1>3, <1>5, <3>1, <3>2, <3>3, <3>4, <3>5, CrawlAsks
  <2> QED BY <2>2, <2>3, <2>4
<1> QED BY <1>8, <1>9, <1>10

LEMMA CrawlMoves ==
    ASSUME Crawl!CrawlAssumption, Crawl!IInv, NEW c \in Crawls, Crawl!CrawlStep(c)
    PROVE  Crawl!IInv'
<1>1. /\ Crawl!TypeOK'
      /\ \A d \in Crawls \ {c} : /\ nested'[d] = nested[d] /\ crawled'[d] = crawled[d]
                                 /\ answer'[d] = answer[d] /\ asked'[d] = asked[d]
                                 /\ picked'[d] = picked[d]
      /\ Crawl!Orderly(c, nested'[c], crawled'[c], answer'[c], asked'[c], picked'[c])
  <2>1. CASE Crawl!Begin(c) BY <2>1, CrawlBegins
  <2>2. CASE Crawl!PageArrives(c) \/ Crawl!RequestFails(c) \/ Crawl!RequestBreaks(c)
    BY <2>2, CrawlHears
  <2>3. CASE Crawl!FollowLink(c) BY <2>3, CrawlFollows
  <2>4. CASE Crawl!AllFollowed(c)
    <3>1. nested[c] # << >> /\ Crawl!Last(nested[c]).todo = {} /\ nested[c] \in Seq(Crawl!Call)
      BY <2>4, CrawlTyped DEF Crawl!AllFollowed, Crawl!Follows
    <3>2. PICK url \in Urls : url = Crawl!Last(nested[c]).url BY <3>1, TopThere, CallTyped
    <3>3. Crawl!Returns(c, "ok") /\ UNCHANGED <<crawled, asked, picked>>
      BY <2>4 DEF Crawl!AllFollowed
    <3>4. "ok" \in Crawl!Statuses /\ "ok" # "none" BY DEF Crawl!Statuses
    <3> QED BY <3>1, <3>2, <3>3, <3>4, CrawlReturns
  <2> QED BY <2>1, <2>2, <2>3, <2>4 DEF Crawl!CrawlStep
<1>2. \A d \in Crawls \ {c} :
         Crawl!Orderly(d, nested'[d], crawled'[d], answer'[d], asked'[d], picked'[d])
  BY <1>1, CrawlTyped
<1>3. \A d \in Crawls :
         Crawl!Orderly(d, nested'[d], crawled'[d], answer'[d], asked'[d], picked'[d])
  BY <1>1, <1>2
<1> QED BY <1>1, <1>3 DEF Crawl!IInv

LEMMA CrawlInit == ASSUME Crawl!CrawlAssumption PROVE Crawl!Init => Crawl!IInv
<1> SUFFICES ASSUME Crawl!Init PROVE Crawl!IInv OBVIOUS
<1>1. << >> \in Seq(Crawl!Call) /\ Len(<< >>) = 0 /\ DOMAIN << >> = {} OBVIOUS
<1>2. Crawl!TypeOK
  BY <1>1 DEF Crawl!Init, Crawl!TypeOK, Crawl!Statuses, Crawl!CrawlAssumption
<1>3. ASSUME NEW c \in Crawls
      PROVE  Crawl!Orderly(c, nested[c], crawled[c], answer[c], asked[c], picked[c])
  <2>1. PICK requests, links : requests = asked[c] /\ links = picked[c] OBVIOUS
  <2>2. nested[c] = << >> /\ crawled[c] = {} BY DEF Crawl!Init
  <2>3. \A u \in Urls : requests[u] = 0 /\ links[u] = {} BY <2>1 DEF Crawl!Init
  <2>4. Crawl!IsWay(c, << >>, {}) BY <1>1 DEF Crawl!IsWay, Crawl!CrawlAssumption
  <2>5. Crawl!AskedInCall(<< >>, {}, requests, links)
    BY <1>1, <2>3 DEF Crawl!AskedInCall, Crawl!CrawlAssumption
  <2>6. Crawl!NothingForgotten(<< >>, {}, answer[c], links, {}) BY DEF Crawl!NothingForgotten
  <2> QED BY <2>1, <2>2, <2>4, <2>5, <2>6 DEF Crawl!Orderly
<1> QED BY <1>2, <1>3 DEF Crawl!IInv

LEMMA CrawlKept ==
    ASSUME Crawl!CrawlAssumption
    PROVE  Crawl!IInv /\ [Crawl!Next]_(Crawl!vars) => Crawl!IInv'
<1> SUFFICES ASSUME Crawl!IInv, [Crawl!Next]_(Crawl!vars) PROVE Crawl!IInv'
  OBVIOUS
<1>1. CASE UNCHANGED Crawl!vars
  <2>1. UNCHANGED <<crawled, nested, answer, asked, picked>> BY <1>1 DEF Crawl!vars
  <2>2. Crawl!TypeOK' BY <2>1 DEF Crawl!IInv, Crawl!TypeOK, Crawl!Statuses, Crawl!Call
  <2>3. \A d \in Crawls :
           Crawl!Orderly(d, nested'[d], crawled'[d], answer'[d], asked'[d], picked'[d])
    BY <2>1, CrawlTyped
  <2> QED BY <2>2, <2>3 DEF Crawl!IInv
<1>2. CASE Crawl!Next BY <1>2, CrawlMoves DEF Crawl!Next
<1> QED BY <1>1, <1>2

LEMMA AllNextCrawl == [AllNext]_allVars => [Crawl!Next]_(Crawl!vars)
BY DEF AllNext, allVars, OnlyGraph, OnlyJobs, OnlyAgent, OnlyOmni, OnlyHooks, OnlyCrawl,
       OnlyHandles, OnlySearch, crawlVars, Crawl!vars

LEMMA OrderIsKept == ASSUME Crawl!CrawlAssumption PROVE Crawl!IInv => CrawlIsOrderly
<1> SUFFICES ASSUME Crawl!IInv PROVE CrawlIsOrderly OBVIOUS
<1>1. ASSUME NEW c \in Crawls, NEW u \in Urls PROVE asked[c][u] <= PageRetries
  BY CrawlTyped DEF Crawl!Orderly, Crawl!AskedInCall
<1>2. ASSUME NEW c \in Crawls
    PROVE Len(nested[c]) <= MaxDepth + 1 /\ crawled[c] \subseteq Crawl!Near(c)
  BY CrawlTyped DEF Crawl!Orderly, Crawl!IsWay
<1>3. ASSUME NEW c \in Crawls, nested[c] = << >>, NEW u \in crawled[c]
      PROVE  answer[c][u] # "none" /\ \A v \in picked[c][u] : answer[c][v] # "none"
  <2>1. Crawl!NothingForgotten(<< >>, crawled[c], answer[c], picked[c], {})
    BY <1>3, CrawlTyped DEF Crawl!Orderly
  <2> QED BY <2>1 DEF Crawl!NothingForgotten, Crawl!Within
<1> QED BY <1>1, <1>2, <1>3 DEF CrawlIsOrderly, Crawl!IInv, Crawl!PagesAskedOnce,
                                Crawl!WithinDepth, Crawl!NoLinkDropped

\* For any site, however its pages link to one another, any crawls, depth and retries: no
\* page is asked for more often than the retries allow or beyond the depth, and a crawl
\* that is over has an answer for every link it set out to follow.
THEOREM CrawlsInOrder == ASSUME Crawl!CrawlAssumption PROVE AllSpec => []CrawlIsOrderly
<1>1. AllInit => Crawl!IInv BY CrawlInit DEF AllInit
<1>2. Crawl!IInv /\ [AllNext]_allVars => Crawl!IInv' BY CrawlKept, AllNextCrawl
<1>3. Crawl!IInv => CrawlIsOrderly BY OrderIsKept
<1> QED BY <1>1, <1>2, <1>3, PTL DEF AllSpec

-----------------------------------------------------------------------------

\* The agent loop.  The runnable steps have their ranks in the order of the plan, without
\* gaps, and a batch is a range of ranks.

LEMMA AgentCounts ==
    ASSUME NEW S
    PROVE  Agent!Cardinality(S) = Cardinality(S) /\ (Agent!IsFiniteSet(S) <=> IsFiniteSet(S))
BY SMT DEF Agent!Cardinality, Cardinality, Agent!IsFiniteSet, IsFiniteSet

LEMMA StepsAreFinite ==
    ASSUME Agent!AgentAssumption, NEW some \in SUBSET Agent!Step
    PROVE  /\ IsFiniteSet(some) /\ Agent!Cardinality(some) \in Nat
           /\ Agent!Cardinality(some) = 0 <=> some = {}
           /\ \A fewer \in SUBSET some : /\ Agent!Cardinality(fewer) <= Agent!Cardinality(some)
                                         /\ Agent!Cardinality(fewer) = Agent!Cardinality(some)
                                                => fewer = some
<1>1. IsFiniteSet(Agent!Step) BY FS_Interval DEF Agent!AgentAssumption, Agent!Step
<1>2. IsFiniteSet(some) BY <1>1, FS_Subset
<1>3. Cardinality(some) \in Nat /\ (Cardinality(some) = 0 <=> some = {})
  BY <1>2, FS_CardinalityType, FS_EmptySet
<1>4. \A fewer \in SUBSET some : /\ Cardinality(fewer) <= Cardinality(some)
                                 /\ Cardinality(some) = Cardinality(fewer) => some = fewer
  BY <1>2, FS_Subset
<1> QED BY <1>2, <1>3, <1>4, AgentCounts

\* What the sets of steps count that are taken apart.
LEMMA StepsApart ==
    ASSUME Agent!AgentAssumption, NEW some \in SUBSET Agent!Step, NEW others \in SUBSET Agent!Step,
           some \cap others = {}
    PROVE  Agent!Cardinality(some \cup others) = Agent!Cardinality(some) + Agent!Cardinality(others)
<1>1. IsFiniteSet(some) /\ IsFiniteSet(others) BY StepsAreFinite
<1>2. Cardinality(some \cup others) = Cardinality(some) + Cardinality(others) - Cardinality({})
  BY <1>1, FS_Union
<1>3. Cardinality(some) \in Nat /\ Cardinality(others) \in Nat /\ Cardinality({}) = 0
  BY <1>1, FS_CardinalityType, FS_EmptySet
<1> QED BY <1>2, <1>3, AgentCounts

LEMMA RanksOf ==
    ASSUME Agent!AgentAssumption, NEW these \in SUBSET Agent!Step, NEW i \in these
    PROVE  /\ Agent!Cardinality({j \in these : j <= i}) \in Nat \ {0}
           /\ \A h \in these : h < i =>
                 Agent!Cardinality({j \in these : j <= h}) < Agent!Cardinality({j \in these : j <= i})
<1>0. PICK upTo : upTo = {j \in these : j <= i} OBVIOUS
<1>1. upTo \in SUBSET Agent!Step /\ \A j \in Agent!Step : j \in Int
  <2>1. upTo \in SUBSET Agent!Step BY <1>0
  <2>2. \A j \in Agent!Step : j \in Int BY DEF Agent!Step, Agent!AgentAssumption
  <2> QED BY <2>1, <2>2
<1>1a. i \in upTo /\ upTo # {} BY <1>0, <1>1
<1>2. Agent!Cardinality(upTo) \in Nat \ {0} BY <1>1, <1>1a, StepsAreFinite
<1>3. ASSUME NEW h \in these, h < i
      PROVE  Agent!Cardinality({j \in these : j <= h}) < Agent!Cardinality({j \in these : j <= i})
  <2>1. PICK before : before = {j \in these : j <= h} OBVIOUS
  <2>2. before \subseteq upTo /\ i \notin before /\ before \in SUBSET Agent!Step
    BY <1>0, <1>1, <1>3, <2>1
  <2>3. /\ Agent!Cardinality(before) \in Nat /\ Agent!Cardinality(before) <= Agent!Cardinality(upTo)
        /\ Agent!Cardinality(before) # Agent!Cardinality(upTo)
    BY <1>1, <1>1a, <2>2, StepsAreFinite
  <2> QED BY <1>0, <1>2, <2>1, <2>3
<1> QED BY <1>0, <1>2, <1>3

LEMMA Ranked ==
    ASSUME Agent!AgentAssumption
    PROVE  /\ \A i \in Agent!Allowed : Agent!Rank(i) \in Nat \ {0}
           /\ \A i, h \in Agent!Allowed : h < i => Agent!Rank(h) < Agent!Rank(i)
           /\ \A i, h \in Agent!Allowed : Agent!Rank(h) = Agent!Rank(i) => h = i
           /\ \A i \in Agent!Runnable : Agent!Rank(i) <= Agent!Cardinality(Agent!Runnable)
<1>1. Agent!Allowed \in SUBSET Agent!Step BY DEF Agent!Allowed
<1>2. \A i \in Agent!Allowed : Agent!Rank(i) \in Nat \ {0} BY <1>1, RanksOf DEF Agent!Rank
<1>3. \A i, h \in Agent!Allowed : h < i => Agent!Rank(h) < Agent!Rank(i)
  BY <1>1, RanksOf DEF Agent!Rank
<1>4. \A i, h \in Agent!Allowed : Agent!Rank(h) = Agent!Rank(i) => h = i
  <2> SUFFICES ASSUME NEW i \in Agent!Allowed, NEW h \in Agent!Allowed, h # i
               PROVE  Agent!Rank(h) # Agent!Rank(i)
    OBVIOUS
  <2>1. h < i \/ i < h BY <1>1 DEF Agent!Step, Agent!AgentAssumption
  <2>2. Agent!Rank(i) \in Nat /\ Agent!Rank(h) \in Nat BY <1>2
  <2> QED BY <1>3, <2>1, <2>2
<1>5. ASSUME NEW i \in Agent!Runnable PROVE Agent!Rank(i) <= Agent!Cardinality(Agent!Runnable)
  <2>1. i \in Agent!Allowed /\ Agent!Rank(i) <= MaxSources BY DEF Agent!Runnable
  <2>2. PICK upTo : upTo = {j \in Agent!Allowed : j <= i} OBVIOUS
  <2>3. upTo \subseteq Agent!Runnable
    <3> SUFFICES ASSUME NEW j \in upTo PROVE Agent!Rank(j) <= MaxSources
      BY <2>2 DEF Agent!Runnable
    <3>1. j \in Agent!Allowed /\ (j < i \/ j = i)
      BY <1>1, <2>1, <2>2 DEF Agent!Step, Agent!AgentAssumption
    <3>2. Agent!Rank(j) \in Nat /\ Agent!Rank(i) \in Nat /\ Agent!Rank(j) <= Agent!Rank(i)
      BY <1>2, <1>3, <2>1, <3>1
    <3> QED BY <2>1, <3>2 DEF Agent!AgentAssumption
  <2>4. Agent!Runnable \in SUBSET Agent!Step BY <1>1 DEF Agent!Runnable
  <2> QED BY <2>2, <2>3, <2>4, StepsAreFinite DEF Agent!Rank
<1> QED BY <1>2, <1>3, <1>4, <1>5

LEMMA BatchIsSmall ==
    ASSUME Agent!AgentAssumption, NEW n \in Nat
    PROVE  /\ Agent!Batch(n) \in SUBSET Agent!Step
           /\ Agent!Cardinality(Agent!Batch(n)) \in Nat /\ Agent!Cardinality(Agent!Batch(n)) <= Wave
<1>1. Agent!Batch(n) \in SUBSET Agent!Step BY DEF Agent!Batch, Agent!Runnable, Agent!Allowed
<1>2. PICK f : f = [i \in Agent!Batch(n) |-> Agent!Rank(i)] OBVIOUS
<1>3. \A i \in Agent!Batch(n) : i \in Agent!Allowed /\ n < Agent!Rank(i) /\ Agent!Rank(i)
          <= n + Wave
  BY DEF Agent!Batch, Agent!Runnable
<1>4. \A i \in Agent!Batch(n) : Agent!Rank(i) \in (n + 1)..(n + Wave)
  BY <1>3, Ranked DEF Agent!AgentAssumption
<1>5. f \in Injection(Agent!Batch(n), (n + 1)..(n + Wave))
  BY <1>2, <1>3, <1>4, Ranked DEF Injection, IsInjective
<1>6. Wave \in Nat \ {0} BY DEF Agent!AgentAssumption
<1>7. IsFiniteSet((n + 1)..(n + Wave)) /\ Cardinality((n + 1)..(n + Wave)) = Wave
  BY <1>6, FS_Interval
<1>8. Cardinality(Agent!Batch(n)) <= Wave BY <1>5, <1>7, FS_Injection
<1> QED BY <1>1, <1>8, AgentCounts, StepsAreFinite

\* What a state has started, by rank, and that primaries are those of the first wave.
LEMMA FirstsArePrimary ==
    ASSUME Agent!AgentAssumption
    PROVE  /\ Agent!Primary = {i \in Agent!Runnable : Agent!Rank(i) <= Wave}
           /\ \A n \in Nat : n >= Wave => /\ Agent!Batch(n) \subseteq Agent!Alternate
                                          /\ Agent!Batch(n) \cap Agent!Primary = {}
<1>1. \A i \in Agent!Runnable : Agent!Rank(i) \in Nat BY Ranked DEF Agent!Runnable
<1>2. Wave \in Nat BY DEF Agent!AgentAssumption
<1> QED BY <1>1, <1>2 DEF Agent!Primary, Agent!Alternate, Agent!Batch

\* The steps keep their ranks when none of them is skipped or unskipped.
LEMMA SameRanks ==
    ASSUME Agent!Allowed' = Agent!Allowed
    PROVE  /\ \A i : (Agent!Rank(i))' = Agent!Rank(i)
           /\ Agent!Runnable' = Agent!Runnable /\ Agent!Primary' = Agent!Primary
           /\ Agent!Alternate' = Agent!Alternate
           /\ \A n : (Agent!Batch(n))' = Agent!Batch(n)
<1>1. \A i : (Agent!Rank(i))' = Agent!Rank(i) BY DEF Agent!Rank
<1>2. Agent!Runnable' = Agent!Runnable BY <1>1 DEF Agent!Runnable
<1>3. Agent!Primary' = Agent!Primary BY <1>1, <1>2 DEF Agent!Primary
<1>4. Agent!Alternate' = Agent!Alternate BY <1>2, <1>3 DEF Agent!Alternate
<1>5. \A n : (Agent!Batch(n))' = Agent!Batch(n) BY <1>1, <1>2 DEF Agent!Batch
<1> QED BY <1>1, <1>2, <1>3, <1>4, <1>5

\* A batch starts the steps that come after those started, and changes no other.
LEMMA BatchStarts ==
    ASSUME Agent!AgentAssumption, Agent!TypeOK, Agent!StartBatch, Agent!With("running") = {},
           Agent!With("running") \cup Agent!Tried
               = {i \in Agent!Runnable : Agent!Rank(i) <= reached}
    PROVE  /\ status' \in [Agent!Step -> {"planned", "skipped", "running", "ok", "mute", "failed"}]
           /\ reached' = reached + Wave /\ reached' \in Nat
           /\ Agent!Allowed' = Agent!Allowed
           /\ (Agent!With("running"))' = Agent!Batch(reached)
           /\ Agent!Answered' = Agent!Answered
           /\ (Agent!With("failed"))' = Agent!With("failed")
           /\ (Agent!With("running") \cup Agent!Tried)'
               = {i \in Agent!Runnable : Agent!Rank(i) <= reached + Wave}
<1>1. /\ status \in [Agent!Step -> {"planned", "skipped", "running", "ok", "mute", "failed"}]
      /\ reached \in Nat /\ Wave \in Nat
  BY DEF Agent!TypeOK, Agent!AgentAssumption
<1>2. PICK batch : batch = Agent!Batch(reached) OBVIOUS
<1>3. /\ batch \subseteq Agent!Step /\ batch \subseteq Agent!Allowed
      /\ \A i \in batch : i \in Agent!Runnable /\ reached < Agent!Rank(i) /\ Agent!Rank(i)
             <= reached + Wave
  BY <1>2 DEF Agent!Batch, Agent!Runnable, Agent!Allowed
<1>4. \A i \in Agent!Runnable : Agent!Rank(i) \in Nat BY Ranked DEF Agent!Runnable
<1>5. \A i \in batch : status[i] \notin {"running", "ok", "mute", "failed", "skipped"}
  <2>1. \A i \in batch : ~ (Agent!Rank(i) <= reached) BY <1>1, <1>3, <1>4
  <2>2. \A i \in batch : i \notin Agent!With("running") \cup Agent!Tried
    BY <2>1
  <2> QED BY <1>3, <2>2 DEF Agent!With, Agent!Allowed, Agent!Answered, Agent!Tried
<1>6. /\ status' \in [Agent!Step -> {"planned", "skipped", "running", "ok", "mute", "failed"}]
      /\ \A i \in Agent!Step : status'[i] = IF i \in batch THEN "running" ELSE status[i]
      /\ reached' = reached + Wave
  BY <1>1, <1>2 DEF Agent!StartBatch
<1>7. Agent!Allowed' = Agent!Allowed BY <1>3, <1>5, <1>6 DEF Agent!Allowed
<1>8. \A i \in Agent!Step : status[i] # "running" BY DEF Agent!With
<1>9. (Agent!With("running"))' = batch BY <1>3, <1>6, <1>8 DEF Agent!With
<1>10. Agent!Answered' = Agent!Answered BY <1>5, <1>6 DEF Agent!With, Agent!Answered
<1>11. (Agent!With("failed"))' = Agent!With("failed") BY <1>5, <1>6 DEF Agent!With
<1>12. batch \cup {i \in Agent!Runnable : Agent!Rank(i) <= reached}
         = {i \in Agent!Runnable : Agent!Rank(i) <= reached + Wave}
  BY <1>1, <1>2, <1>4 DEF Agent!Batch
<1>13. Agent!Tried' = Agent!Tried BY <1>10, <1>11 DEF Agent!Tried
<1> QED BY <1>1, <1>2, <1>6, <1>7, <1>9, <1>10, <1>11, <1>12, <1>13

\* The alternates that answered are those before a batch and those of it.
LEMMA StoodInByBatch ==
    ASSUME Agent!AgentAssumption, NEW n \in Nat, n >= Wave
    PROVE  /\ Agent!StoodIn(n) \in Nat
           /\ Agent!StoodIn(n + Wave) = Agent!StoodIn(n)
                + Agent!Cardinality(Agent!Answered \cap Agent!Batch(n))
           /\ Agent!Cardinality(Agent!Answered \cap Agent!Batch(n)) \in 0..Wave
<1>1. PICK before, now, good :
        /\ good = Agent!Answered
        /\ before = good \cap {i \in Agent!Alternate : Agent!Rank(i) <= n}
        /\ now = good \cap Agent!Batch(n)
  OBVIOUS
<1>2. before \in SUBSET Agent!Step /\ now \in SUBSET Agent!Step
  BY <1>1 DEF Agent!With, Agent!Answered
<1>3. \A i \in Agent!Runnable : Agent!Rank(i) \in Nat BY Ranked DEF Agent!Runnable
<1>4. Wave \in Nat BY DEF Agent!AgentAssumption
<1>5. Agent!Batch(n) = {i \in Agent!Runnable : n < Agent!Rank(i) /\ Agent!Rank(i) <= n + Wave}
  BY DEF Agent!Batch
<1>6. Agent!Alternate \subseteq Agent!Runnable /\ Agent!Batch(n) \subseteq Agent!Alternate
  BY FirstsArePrimary DEF Agent!Alternate
<1>7. before \cap now = {} BY <1>1, <1>3, <1>5, <1>6
<1>8. before \cup now = good \cap {i \in Agent!Alternate : Agent!Rank(i) <= n + Wave}
  BY <1>1, <1>3, <1>4, <1>5, <1>6
<1>9. Agent!Cardinality(before \cup now) = Agent!Cardinality(before) + Agent!Cardinality(now)
  BY <1>2, <1>7, StepsApart
<1>10. Agent!StoodIn(n) \in Nat BY <1>1, <1>2, StepsAreFinite DEF Agent!StoodIn
<1>11. Agent!Cardinality(now) \in Nat /\ Agent!Cardinality(now) <= Agent!Cardinality(Agent!Batch(n))
  BY <1>1, <1>2, BatchIsSmall, StepsAreFinite
<1>12. Agent!Cardinality(Agent!Batch(n)) \in Nat /\ Agent!Cardinality(Agent!Batch(n)) <= Wave
  BY BatchIsSmall
<1>13. Agent!Cardinality(now) \in 0..Wave BY <1>4, <1>11, <1>12
<1>14. Agent!StoodIn(n + Wave) = Agent!Cardinality(before \cup now)
  BY <1>1, <1>8 DEF Agent!StoodIn
<1>15. Agent!StoodIn(n) = Agent!Cardinality(before) BY <1>1 DEF Agent!StoodIn
<1> QED BY <1>1, <1>9, <1>10, <1>13, <1>14, <1>15

LEMMA AgentInit == ASSUME Agent!AgentAssumption, Agent!Init PROVE Agent!IInv
<1>1. wave = "planning" /\ status = [i \in Agent!Step |-> "planned"] /\ owed = 0 /\ reached = 0
  BY DEF Agent!Init
<1>2. \A s : s # "planned" => Agent!With(s) = {} BY <1>1 DEF Agent!With
<1>3. \A i \in Agent!Runnable : ~ (Agent!Rank(i) <= reached) BY <1>1, Ranked DEF Agent!Runnable
<1>4. Agent!Tried = {} BY <1>2 DEF Agent!Tried, Agent!Answered
<1> QED BY <1>1, <1>2, <1>3, <1>4
    DEF Agent!IInv, Agent!TypeOK, Agent!StartedInOrder, Agent!OwedIsMissing

\* Planning skips some steps and starts none.
LEMMA AgentPlans == ASSUME Agent!AgentAssumption, Agent!IInv, Agent!Plan PROVE Agent!IInv'
<1>1. PICK consent \in SUBSET Agent!Step :
         status' = [i \in Agent!Step |-> IF i \in consent THEN "skipped" ELSE "planned"]
  BY DEF Agent!Plan
<1>2. wave' = "ready" /\ owed' = owed /\ reached' = reached /\ reached = 0
  BY DEF Agent!Plan, Agent!IInv, Agent!StartedInOrder
<1>3. (Agent!With("running"))' = {} /\ Agent!Tried' = {}
  BY <1>1 DEF Agent!With, Agent!Tried, Agent!Answered
<1>4. \A i \in Agent!Runnable' : ~ ((Agent!Rank(i))' <= reached')
  <2>1. Agent!Allowed' \in SUBSET Agent!Step BY DEF Agent!Allowed
  <2>2. \A i \in Agent!Allowed' : Agent!Cardinality({j \in Agent!Allowed' : j <= i}) \in Nat \ {0}
    BY <2>1, RanksOf
  <2> QED BY <1>2, <2>2 DEF Agent!Rank, Agent!Runnable
<1>5. Agent!TypeOK' BY <1>1, <1>2 DEF Agent!TypeOK, Agent!IInv
<1> QED BY <1>2, <1>3, <1>4, <1>5 DEF Agent!IInv, Agent!StartedInOrder, Agent!OwedIsMissing

\* The first batch are the primaries.
LEMMA AgentStarts == ASSUME Agent!AgentAssumption, Agent!IInv, Agent!StartPrimary PROVE Agent!IInv'
<1>1. /\ wave = "ready" /\ Agent!StartBatch /\ owed' = owed /\ owed \in Int
      /\ wave' = (IF Agent!Runnable = {} THEN "done" ELSE "primary")
  BY DEF Agent!StartPrimary, Agent!IInv, Agent!TypeOK
<1>2. /\ reached = 0 /\ Agent!With("running") = {}
      /\ Agent!With("running") \cup Agent!Tried
           = {i \in Agent!Runnable : Agent!Rank(i) <= reached}
  BY <1>1 DEF Agent!IInv, Agent!StartedInOrder
<1>3. /\ status' \in [Agent!Step -> {"planned", "skipped", "running", "ok", "mute", "failed"}]
      /\ reached' = Wave /\ reached' \in Nat
      /\ Agent!Allowed' = Agent!Allowed
      /\ (Agent!With("running"))' = Agent!Batch(0)
      /\ (Agent!With("running") \cup Agent!Tried)'
           = {i \in Agent!Runnable : Agent!Rank(i) <= Wave}
  <2>1. Agent!TypeOK /\ 0 + Wave = Wave BY DEF Agent!IInv, Agent!AgentAssumption
  <2> QED BY <1>1, <1>2, <2>1, BatchStarts
<1>4. \A i : (Agent!Rank(i))' = Agent!Rank(i) BY <1>3, SameRanks
<1>5. Agent!Runnable' = Agent!Runnable BY <1>3, SameRanks
<1>6. Agent!TypeOK' BY <1>1, <1>3 DEF Agent!TypeOK
<1>7. Agent!Runnable = {} => Agent!Batch(0) = {} BY DEF Agent!Batch
<1>8. Agent!StartedInOrder'
  BY <1>1, <1>3, <1>4, <1>5, <1>7 DEF Agent!StartedInOrder
<1>9. Agent!OwedIsMissing' BY <1>1, <1>5 DEF Agent!OwedIsMissing
<1> QED BY <1>6, <1>8, <1>9 DEF Agent!IInv

\* A source of the batch under way answers, fails quietly, raises or times out.
LEMMA AgentHears ==
    ASSUME Agent!AgentAssumption, Agent!IInv, NEW i \in Agent!With("running"),
           Agent!Answer(i) \/ Agent!FailsQuietly(i) \/ Agent!Raise(i)
    PROVE  Agent!IInv'
<1>1. PICK said \in {"ok", "mute", "failed"} : status' = [status EXCEPT ![i] = said]
  BY DEF Agent!Answer, Agent!FailsQuietly, Agent!Raise
<1>2. /\ wave' = wave /\ owed' = owed /\ reached' = reached /\ i \in Agent!Step
      /\ status[i] = "running"
      /\ status \in [Agent!Step -> {"planned", "skipped", "running", "ok", "mute", "failed"}]
      /\ reached \in Nat /\ Wave \in Nat
  BY DEF Agent!Answer, Agent!FailsQuietly, Agent!Raise, Agent!With, Agent!IInv, Agent!TypeOK,
     Agent!AgentAssumption
<1>3. /\ status' \in [Agent!Step -> {"planned", "skipped", "running", "ok", "mute", "failed"}]
      /\ status'[i] = said /\ \A j \in Agent!Step : j # i => status'[j] = status[j]
  BY <1>1, <1>2
<1>4. /\ (Agent!With("running"))' = Agent!With("running") \ {i}
      /\ Agent!Answered' = Agent!Answered \cup (IF said = "failed" THEN {} ELSE {i})
      /\ (Agent!With("failed"))' = Agent!With("failed") \cup (IF said = "failed" THEN {i} ELSE {})
  BY <1>2, <1>3 DEF Agent!With, Agent!Answered
<1>5. Agent!Allowed' = Agent!Allowed BY <1>2, <1>3 DEF Agent!Allowed
<1>6. /\ \A j : (Agent!Rank(j))' = Agent!Rank(j)
      /\ Agent!Runnable' = Agent!Runnable /\ Agent!Primary' = Agent!Primary
      /\ Agent!Alternate' = Agent!Alternate
      /\ \A n : (Agent!Batch(n))' = Agent!Batch(n)
  BY <1>5, SameRanks
<1>7. wave \in {"primary", "fallback"}
  BY DEF Agent!IInv, Agent!TypeOK, Agent!StartedInOrder
<1>8. (Agent!With("running") \cup Agent!Tried)'
        = {j \in Agent!Runnable : Agent!Rank(j) <= reached}
  <2>1. (Agent!With("running") \cup Agent!Tried)'
          = Agent!With("running") \cup Agent!Tried
    BY <1>4 DEF Agent!Tried
  <2> QED BY <2>1 DEF Agent!IInv, Agent!StartedInOrder
<1>9. Agent!TypeOK' BY <1>2, <1>3 DEF Agent!IInv, Agent!TypeOK
<1>10. Agent!StartedInOrder'
  <2>1. /\ wave = "primary" => reached = Wave
        /\ wave = "fallback" => reached >= 2 * Wave
        /\ wave = "fallback" => Agent!With("running") \subseteq Agent!Batch(reached - Wave)
    BY DEF Agent!IInv, Agent!StartedInOrder
  <2>2. (Agent!Batch(reached - Wave))' = Agent!Batch(reached - Wave) BY <1>2, <1>6 DEF Agent!Batch
  <2>3. {j \in Agent!Runnable' : (Agent!Rank(j))' <= reached'} = {j \in Agent!Runnable :
            Agent!Rank(j) <= reached}
    BY <1>2, <1>6
  <2> QED BY <1>2, <1>4, <1>7, <1>8, <2>1, <2>2, <2>3 DEF Agent!StartedInOrder
<1>11. Agent!OwedIsMissing'
  <2>1. CASE wave = "primary" BY <1>2, <2>1 DEF Agent!OwedIsMissing
  <2>2. CASE wave = "fallback"
    <3>1. /\ i \in Agent!Batch(reached - Wave) /\ reached - Wave \in Nat /\ reached - Wave >= Wave
      BY <1>2, <2>2 DEF Agent!IInv, Agent!StartedInOrder
    <3>2. i \in Agent!Alternate /\ i \notin Agent!Primary BY <3>1, FirstsArePrimary
    <3>3. ~ (Agent!Rank(i) <= reached - Wave)
      <4>1. i \in Agent!Allowed /\ reached - Wave < Agent!Rank(i)
        BY <3>1 DEF Agent!Batch, Agent!Runnable
      <4> QED BY <3>1, <4>1, Ranked
    <3>4. (Agent!With("failed"))' \cap Agent!Primary = Agent!With("failed") \cap Agent!Primary
      BY <1>4, <3>2
    <3>5. PICK n : n = reached - Wave /\ n = (reached - Wave)' BY <1>2
    <3>6. /\ Agent!Answered' \cap {j \in Agent!Alternate : Agent!Rank(j) <= n}
               = Agent!Answered \cap {j \in Agent!Alternate : Agent!Rank(j) <= n}
      BY <1>4, <3>3, <3>5
    <3>7. Agent!Missed' = Agent!Missed BY <1>6, <3>4 DEF Agent!Missed
    <3>8. (Agent!StoodIn(reached - Wave))' = Agent!StoodIn(reached - Wave)
      BY <1>6, <3>5, <3>6 DEF Agent!StoodIn
    <3>9. owed = Agent!Missed - Agent!StoodIn(reached - Wave) /\ owed > 0
      BY <2>2 DEF Agent!IInv, Agent!OwedIsMissing
    <3> QED BY <1>2, <2>2, <3>7, <3>8, <3>9 DEF Agent!OwedIsMissing
  <2> QED BY <1>7, <2>1, <2>2
<1> QED BY <1>9, <1>10, <1>11 DEF Agent!IInv

\* After a batch, the next one is started while answers are missing and alternates left.
LEMMA AgentGoesOn ==
    ASSUME Agent!AgentAssumption, Agent!IInv, Agent!With("running") = {},
           NEW missing \in Int, missing = Agent!Missed - Agent!StoodIn(reached), missing + Wave > 0,
           Agent!Missed = 0 => reached = Wave, reached >= Wave, Agent!Onwards(missing)
    PROVE  Agent!IInv'
<1>1. /\ reached \in Nat /\ Wave \in Nat /\ owed' = missing
      /\ status \in [Agent!Step -> {"planned", "skipped", "running", "ok", "mute", "failed"}]
  BY DEF Agent!IInv, Agent!TypeOK, Agent!AgentAssumption, Agent!Onwards
<1>2. Agent!With("running") \cup Agent!Tried
        = {i \in Agent!Runnable : Agent!Rank(i) <= reached}
  BY DEF Agent!IInv, Agent!StartedInOrder
<1>3. CASE missing > 0 /\ reached < Agent!Cardinality(Agent!Runnable)
  <2>1. wave' = "fallback" /\ Agent!StartBatch BY <1>3 DEF Agent!Onwards
  <2>2. /\ status' \in [Agent!Step -> {"planned", "skipped", "running", "ok", "mute", "failed"}]
        /\ reached' = reached + Wave /\ reached' \in Nat
        /\ Agent!Allowed' = Agent!Allowed
        /\ (Agent!With("running"))' = Agent!Batch(reached)
        /\ Agent!Answered' = Agent!Answered
        /\ (Agent!With("failed"))' = Agent!With("failed")
        /\ (Agent!With("running") \cup Agent!Tried)'
             = {i \in Agent!Runnable : Agent!Rank(i) <= reached + Wave}
    <3>1. Agent!TypeOK BY DEF Agent!IInv
    <3> QED BY <1>2, <2>1, <3>1, BatchStarts
  <2>3. /\ \A i : (Agent!Rank(i))' = Agent!Rank(i)
        /\ Agent!Runnable' = Agent!Runnable /\ Agent!Primary' = Agent!Primary
        /\ Agent!Alternate' = Agent!Alternate
        /\ \A n : (Agent!Batch(n))' = Agent!Batch(n)
    BY <2>2, SameRanks
  <2>4. reached' - Wave = reached BY <1>1, <2>2
  <2>5. Agent!TypeOK' BY <1>1, <2>1, <2>2 DEF Agent!TypeOK
  <2>6. (Agent!Batch(reached - Wave))' = Agent!Batch(reached) BY <2>3, <2>4 DEF Agent!Batch
  <2>7. {i \in Agent!Runnable' : (Agent!Rank(i))' <= reached'} = {i \in Agent!Runnable :
            Agent!Rank(i) <= reached + Wave}
    BY <2>2, <2>3
  <2>8. reached' >= 2 * Wave BY <1>1, <2>2
  <2>9. Agent!StartedInOrder' BY <2>1, <2>2, <2>6, <2>7, <2>8 DEF Agent!StartedInOrder
  <2>10. Agent!Missed' = Agent!Missed BY <2>2, <2>3 DEF Agent!Missed
  <2>11. (Agent!StoodIn(reached - Wave))' = Agent!StoodIn(reached)
    BY <2>2, <2>3, <2>4 DEF Agent!StoodIn
  <2>12. Agent!OwedIsMissing' BY <1>1, <1>3, <2>1, <2>10, <2>11 DEF Agent!OwedIsMissing
  <2> QED BY <2>5, <2>9, <2>12 DEF Agent!IInv
<1>4. CASE ~ (missing > 0 /\ reached < Agent!Cardinality(Agent!Runnable))
  <2>1. wave' = "done" /\ status' = status /\ reached' = reached BY <1>4 DEF Agent!Onwards
  <2>2. Agent!TypeOK' BY <1>1, <2>1 DEF Agent!TypeOK
  <2>3. /\ Agent!Allowed' = Agent!Allowed /\ \A s : (Agent!With(s))' = Agent!With(s)
        /\ Agent!Answered' = Agent!Answered /\ Agent!Tried' = Agent!Tried
    BY <2>1 DEF Agent!Allowed, Agent!With, Agent!Answered, Agent!Tried
  <2>4. /\ \A i : (Agent!Rank(i))' = Agent!Rank(i)
        /\ Agent!Runnable' = Agent!Runnable /\ Agent!Primary' = Agent!Primary
        /\ Agent!Alternate' = Agent!Alternate
    BY <2>3, SameRanks
  <2>5. /\ Agent!Missed' = Agent!Missed
        /\ (Agent!StoodIn(reached))' = Agent!StoodIn(reached)
    BY <2>1, <2>3, <2>4 DEF Agent!Missed, Agent!StoodIn
  <2>6. missing <= 0 \/ Agent!Runnable = {i \in Agent!Runnable : Agent!Rank(i) <= reached}
    <3> SUFFICES ASSUME missing > 0, NEW i \in Agent!Runnable PROVE Agent!Rank(i) <= reached
      OBVIOUS
    <3>1. Agent!Runnable \in SUBSET Agent!Step BY DEF Agent!Runnable, Agent!Allowed
    <3>2. Agent!Cardinality(Agent!Runnable) \in Nat BY <3>1, StepsAreFinite
    <3>3. Agent!Rank(i) \in Nat /\ Agent!Rank(i) <= Agent!Cardinality(Agent!Runnable)
      BY Ranked DEF Agent!Runnable
    <3> QED BY <1>1, <1>4, <3>2, <3>3
  <2>7. {i \in Agent!Runnable' : (Agent!Rank(i))' <= reached'} = {i \in Agent!Runnable :
            Agent!Rank(i) <= reached}
    BY <2>1, <2>4
  <2>8. Agent!StartedInOrder' BY <1>2, <2>1, <2>3, <2>7 DEF Agent!StartedInOrder
  <2>9. Agent!OwedIsMissing' BY <1>1, <2>1, <2>4, <2>5, <2>6, <2>7 DEF Agent!OwedIsMissing
  <2> QED BY <2>2, <2>8, <2>9 DEF Agent!IInv
<1> QED BY <1>3, <1>4

\* At the end of the first wave what is missing are the primaries that failed.
LEMMA PrimaryEnds == ASSUME Agent!AgentAssumption, Agent!IInv, Agent!EndPrimary PROVE Agent!IInv'
<1>1. /\ wave = "primary" /\ Agent!With("running") = {} /\ reached = Wave /\ Wave \in Nat \ {0}
      /\ Agent!Onwards(Agent!Cardinality(Agent!With("failed")))
      /\ Agent!With("running") \cup Agent!Tried = Agent!Primary
  BY FirstsArePrimary DEF Agent!EndPrimary, Agent!IInv, Agent!StartedInOrder, Agent!AgentAssumption
<1>2. Agent!With("failed") \cap Agent!Primary = Agent!With("failed") BY <1>1 DEF Agent!Tried
<1>3. Agent!With("failed") \in SUBSET Agent!Step BY DEF Agent!With
<1>4. Agent!Missed = Agent!Cardinality(Agent!With("failed")) /\ Agent!Missed \in Nat
  BY <1>2, <1>3, StepsAreFinite DEF Agent!Missed
<1>5. Agent!Answered \cap {i \in Agent!Alternate : Agent!Rank(i) <= reached} = {}
  BY <1>1 DEF Agent!Alternate, Agent!Tried
<1>6. Agent!StoodIn(reached) = 0
  <2>1. {} \in SUBSET Agent!Step OBVIOUS
  <2> QED BY <1>5, <2>1, StepsAreFinite DEF Agent!StoodIn
<1>7. Agent!Missed = Agent!Missed - Agent!StoodIn(reached) BY <1>4, <1>6
<1>8. Agent!Missed + Wave > 0 /\ Agent!Onwards(Agent!Missed) /\ Agent!Missed \in Int
      /\ reached >= Wave
  BY <1>1, <1>4
<1> QED BY <1>1, <1>7, <1>8, AgentGoesOn

\* At the end of a batch the alternates that answered in it are taken from what was owed.
LEMMA BatchEnds == ASSUME Agent!AgentAssumption, Agent!IInv, Agent!EndBatch PROVE Agent!IInv'
<1>1. /\ wave = "fallback" /\ Agent!With("running") = {} /\ reached >= 2 * Wave
      /\ reached \in Nat /\ Wave \in Nat /\ owed \in Int
      /\ owed = Agent!Missed - Agent!StoodIn(reached - Wave) /\ owed > 0
  BY DEF Agent!EndBatch, Agent!IInv, Agent!TypeOK, Agent!StartedInOrder, Agent!OwedIsMissing,
         Agent!AgentAssumption
<1>2. PICK n \in Nat : n = reached - Wave /\ n >= Wave /\ n + Wave = reached BY <1>1
<1>3. PICK came : came = Agent!Cardinality(Agent!Answered \cap Agent!Batch(n)) OBVIOUS
<1>4. /\ Agent!StoodIn(n) \in Nat /\ Agent!StoodIn(reached) = Agent!StoodIn(n) + came
      /\ came \in 0..Wave
  BY <1>2, <1>3, StoodInByBatch
<1>5. Agent!Missed \in Nat
  <2>1. Agent!With("failed") \cap Agent!Primary \in SUBSET Agent!Step BY DEF Agent!With
  <2> QED BY <2>1, StepsAreFinite DEF Agent!Missed
<1>6. Agent!Onwards(owed - came) BY <1>2, <1>3 DEF Agent!EndBatch
<1>7. /\ owed - came \in Int /\ owed - came = Agent!Missed - Agent!StoodIn(reached)
      /\ (owed - came) + Wave > 0 /\ Agent!Missed # 0 /\ reached >= Wave
  BY <1>1, <1>2, <1>4, <1>5
<1> QED BY <1>1, <1>6, <1>7, AgentGoesOn

LEMMA AgentStep ==
    ASSUME Agent!AgentAssumption
    PROVE  Agent!IInv /\ [Agent!Next]_(Agent!vars) => Agent!IInv'
<1> SUFFICES ASSUME Agent!IInv, [Agent!Next]_(Agent!vars) PROVE Agent!IInv'
  OBVIOUS
<1>1. CASE UNCHANGED Agent!vars
  <2>1. wave' = wave /\ status' = status /\ owed' = owed /\ reached' = reached
    BY <1>1 DEF Agent!vars
  <2>2. /\ Agent!Allowed' = Agent!Allowed /\ \A s : (Agent!With(s))' = Agent!With(s)
        /\ Agent!Answered' = Agent!Answered /\ Agent!Tried' = Agent!Tried
    BY <2>1 DEF Agent!Allowed, Agent!With, Agent!Answered, Agent!Tried
  <2>3. /\ \A i : (Agent!Rank(i))' = Agent!Rank(i)
        /\ Agent!Runnable' = Agent!Runnable /\ Agent!Primary' = Agent!Primary
        /\ Agent!Alternate' = Agent!Alternate /\ \A n : (Agent!Batch(n))' = Agent!Batch(n)
    BY <2>2, SameRanks
  <2>4. Agent!Missed' = Agent!Missed BY <2>2, <2>3 DEF Agent!Missed
  <2>5. \A n : (Agent!StoodIn(n))' = Agent!StoodIn(n) BY <2>2, <2>3 DEF Agent!StoodIn
  <2>6. Agent!TypeOK' BY <2>1 DEF Agent!IInv, Agent!TypeOK
  <2>7. (Agent!Batch(reached - Wave))' = Agent!Batch(reached - Wave) BY <2>1, <2>3 DEF Agent!Batch
  <2>8. /\ (Agent!StoodIn(reached))' = Agent!StoodIn(reached)
        /\ (Agent!StoodIn(reached - Wave))' = Agent!StoodIn(reached - Wave)
    BY <2>1, <2>2, <2>3 DEF Agent!StoodIn
  <2>9. {i \in Agent!Runnable' : (Agent!Rank(i))' <= reached'} = {i \in Agent!Runnable :
            Agent!Rank(i) <= reached}
    BY <2>1, <2>3
  <2>10. Agent!StartedInOrder'
    BY <2>1, <2>2, <2>7, <2>9 DEF Agent!IInv, Agent!StartedInOrder
  <2>11. Agent!OwedIsMissing'
    BY <2>1, <2>3, <2>4, <2>8, <2>9 DEF Agent!IInv, Agent!OwedIsMissing
  <2> QED BY <2>6, <2>10, <2>11 DEF Agent!IInv
<1>2. CASE Agent!Next
  BY <1>2, AgentPlans, AgentStarts, AgentHears, PrimaryEnds, BatchEnds DEF Agent!Next
<1> QED BY <1>1, <1>2

\* What the end of a run says of its alternates.
LEMMA StandInsSuffice == ASSUME Agent!AgentAssumption PROVE Agent!IInv => AlternatesStandIn
<1> SUFFICES ASSUME Agent!IInv PROVE AlternatesStandIn OBVIOUS
<1>1. /\ wave \in {"planning", "ready", "primary", "fallback", "done"}
      /\ reached \in Nat /\ Wave \in Nat \ {0} /\ owed \in Int
  BY DEF Agent!IInv, Agent!TypeOK, Agent!AgentAssumption
<1>2. PICK good, bad, upTo :
        /\ good = Agent!Answered /\ bad = Agent!With("failed")
        /\ upTo = {i \in Agent!Runnable : Agent!Rank(i) <= reached}
        /\ Agent!With("running") \cup good \cup bad = upTo /\ Agent!Tried = good \cup bad
  BY DEF Agent!IInv, Agent!StartedInOrder, Agent!Tried
<1>3. Agent!Alternate \subseteq Agent!Runnable /\ Agent!Alternate \cap Agent!Primary = {}
  BY DEF Agent!Alternate
<1>4. PICK answered : answered = good \cap Agent!Alternate OBVIOUS
<1>5. answered = good \cap {i \in Agent!Alternate : Agent!Rank(i) <= reached} BY <1>2, <1>3, <1>4
<1>6. PICK stoodIn : stoodIn = Agent!Cardinality(answered) OBVIOUS
<1>7. stoodIn = Agent!StoodIn(reached) BY <1>2, <1>5, <1>6 DEF Agent!StoodIn
<1>8. PICK missed : missed = Agent!Cardinality(bad \cap Agent!Primary) OBVIOUS
<1>9. missed = Agent!Missed BY <1>2, <1>8 DEF Agent!Missed
<1>10. bad \cap Agent!Primary \in SUBSET Agent!Step /\ answered \in SUBSET Agent!Step
  BY <1>2, <1>4 DEF Agent!With, Agent!Answered
<1>11. stoodIn \in Nat /\ missed \in Nat /\ (missed = 0 <=> bad \cap Agent!Primary = {})
  BY <1>6, <1>8, <1>10, StepsAreFinite
<1>12. reached = Wave => upTo = Agent!Primary BY <1>2, FirstsArePrimary
<1>13. wave = "done" /\ Agent!Runnable # {} =>
          /\ owed = missed - stoodIn /\ owed + Wave > 0
          /\ owed <= 0 \/ Agent!Runnable = upTo
          /\ missed = 0 => reached = Wave
  BY <1>2, <1>7, <1>9 DEF Agent!IInv, Agent!OwedIsMissing
<1>14. Agent!FailuresMadeUpFor
  <2> SUFFICES ASSUME wave = "done"
               PROVE  missed <= stoodIn \/ Agent!Alternate \subseteq good \cup bad
    BY <1>2, <1>4, <1>6, <1>8 DEF Agent!FailuresMadeUpFor
  <2>1. CASE Agent!Runnable = {} BY <1>3, <2>1
  <2>2. CASE Agent!Runnable # {} /\ owed <= 0 BY <1>1, <1>11, <1>13, <2>2
  <2>3. CASE Agent!Runnable # {} /\ ~ (owed <= 0)
    <3>1. Agent!With("running") = {} BY DEF Agent!IInv, Agent!StartedInOrder
    <3> QED BY <1>2, <1>3, <1>13, <2>3, <3>1
  <2> QED BY <2>1, <2>2, <2>3
<1>15. wave = "primary" => Agent!With("running") \subseteq Agent!Primary
  BY <1>2, <1>12 DEF Agent!IInv, Agent!StartedInOrder
<1>16. ASSUME Agent!Alternate \cap (good \cup bad) # {}
       PROVE  bad \cap Agent!Primary # {} /\ stoodIn - missed < Wave
  <2>1. Agent!Runnable # {} /\ upTo # Agent!Primary /\ reached # Wave
    BY <1>2, <1>3, <1>12, <1>16
  <2>2. wave \notin {"planning", "ready", "primary"}
    BY <1>2, <1>16, <2>1 DEF Agent!IInv, Agent!StartedInOrder
  <2>3. CASE wave = "done"
    <3>1. owed = missed - stoodIn /\ owed + Wave > 0 /\ missed # 0 BY <1>13, <2>1, <2>3
    <3> QED BY <1>1, <1>11, <3>1
  <2>4. CASE wave = "fallback"
    <3>1. /\ owed = missed - Agent!StoodIn(reached - Wave) /\ owed > 0 /\ reached >= 2 * Wave
      BY <1>9, <2>4 DEF Agent!IInv, Agent!OwedIsMissing, Agent!StartedInOrder
    <3>2. PICK n \in Nat : n = reached - Wave /\ n >= Wave /\ n + Wave = reached BY <1>1, <3>1
    <3>3. PICK came \in 0..Wave : Agent!StoodIn(n) \in Nat /\ stoodIn = Agent!StoodIn(n) + came
      BY <1>7, <3>2, StoodInByBatch
    <3>4. PICK before \in Nat : before = Agent!StoodIn(n) BY <3>3
    <3>5. owed = missed - before /\ stoodIn = before + came BY <3>1, <3>2, <3>3, <3>4
    <3> QED BY <1>1, <1>11, <3>1, <3>5
  <2> QED BY <1>1, <2>2, <2>3, <2>4
<1>17. Agent!FewNeedlessQueries
  BY <1>2, <1>4, <1>6, <1>8, <1>15, <1>16 DEF Agent!FewNeedlessQueries
<1> QED BY <1>14, <1>17 DEF AlternatesStandIn, Agent!IInv

LEMMA AllNextAgent == [AllNext]_allVars => [Agent!Next]_(Agent!vars)
BY DEF AllNext, allVars, OnlyGraph, OnlyJobs, OnlyAgent, OnlyOmni, OnlyHooks, OnlyCrawl,
       OnlyHandles, OnlySearch, agentVars, Agent!vars

\* For plans of any length, any limit of sources and size of a wave: the primaries that
\* raised or timed out are made up for while there are alternates, and few are asked for
\* nothing.
THEOREM AlternatesSuffice == ASSUME Agent!AgentAssumption PROVE AllSpec => []AlternatesStandIn
<1>1. AllInit => Agent!IInv BY AgentInit DEF AllInit
<1>2. Agent!IInv /\ [AllNext]_allVars => Agent!IInv' BY AgentStep, AllNextAgent
<1>3. Agent!IInv => AlternatesStandIn BY StandInsSuffice
<1> QED BY <1>1, <1>2, <1>3, PTL DEF AllSpec

-----------------------------------------------------------------------------
=============================================================================
