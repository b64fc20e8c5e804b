----------------------------- MODULE StoresProofs -----------------------------
(***************************************************************************)
(* Proofs about what the program keeps between scans, for any processes,   *)
(* scans, entries, runs, targets and times.  The parts have no state in    *)
(* common: each has an inductive invariant of its own (IInv of its module) *)
(* that a step of any other part leaves as it is.                          *)
(***************************************************************************)
EXTENDS Stores, Sequences, FiniteSetTheorems, TLAPS

-----------------------------------------------------------------------------
\* The web pages.  An age that is below its limit was counted from the read.

LEMMA WebInit == ASSUME Web!WebAssumption, Web!Init PROVE Web!IInv
BY DEF Web!WebAssumption, Web!Init, Web!IInv, Web!TypeOK, Web!LoadedIsCurrent,
       Web!MadeIsCurrent, Web!ChangesAreSeen, Web!Seen, Web!NoPage

\* The page that is shown is as old as its kind may be.
LEMMA WebPageSound ==
    ASSUME Web!WebAssumption, Web!IInv,
           NEW page \in {"dashboard", "reports"}, NEW seen \in ScanFiles \cup {None},
           settled >= Web!Seen(page) => seen = Web!Parsed,
           Web!Shows(page, seen), UNCHANGED <<file, settled>>
    PROVE  /\ Web!ChangesAreSeen'
           /\ shown' \in [page : {"none", "dashboard", "reports"}, content : ScanFiles \cup {None},
                          file : ScanFiles \cup {Cut, None}, settled : 0..(2 * Ttl)]
<1>1. shown' = [page |-> page, content |-> seen, file |-> file, settled |-> settled]
  BY DEF Web!Shows
<1>2. file \in ScanFiles \cup {Cut, None} /\ settled \in 0..(2 * Ttl)
  BY DEF Web!IInv, Web!TypeOK
<1>3. Web!ChangesAreSeen' BY <1>1, <1>2 DEF Web!ChangesAreSeen, Web!Seen, Web!Parsed
<1> QED BY <1>1, <1>2, <1>3

LEMMA WebStep == ASSUME Web!WebAssumption PROVE Web!IInv /\ [Web!Next]_(Web!vars) => Web!IInv'
<1> SUFFICES ASSUME Web!IInv, [Web!Next]_(Web!vars) PROVE Web!IInv'
  OBVIOUS
<1> USE DEF Web!WebAssumption
<1>0. Ttl \in Nat \ {0} /\ Cut # None /\ None \notin ScanFiles /\ Cut \notin ScanFiles OBVIOUS
<1>1. CASE Web!Tick
  <2>1. Web!TypeOK' BY <1>1 DEF Web!IInv, Web!TypeOK, Web!Tick, Web!Older
  <2>2. Web!LoadedIsCurrent'
    BY <1>1 DEF Web!IInv, Web!TypeOK, Web!Tick, Web!Older, Web!LoadedIsCurrent, Web!Parsed
  <2>3. Web!MadeIsCurrent'
    BY <1>1 DEF Web!IInv, Web!TypeOK, Web!Tick, Web!Older, Web!MadeIsCurrent, Web!Parsed
  <2>4. Web!ChangesAreSeen' BY <1>1 DEF Web!IInv, Web!Tick, Web!ChangesAreSeen, Web!Seen
  <2> QED BY <2>1, <2>2, <2>3, <2>4 DEF Web!IInv
<1>2. CASE Web!WriteFile
  <2>1. Web!TypeOK' BY <1>2 DEF Web!IInv, Web!TypeOK, Web!WriteFile
  <2>2. Web!LoadedIsCurrent' BY <1>2 DEF Web!IInv, Web!TypeOK, Web!WriteFile, Web!LoadedIsCurrent
  <2>3. Web!MadeIsCurrent' BY <1>2 DEF Web!IInv, Web!TypeOK, Web!WriteFile, Web!MadeIsCurrent
  <2>4. Web!ChangesAreSeen' BY <1>2 DEF Web!IInv, Web!WriteFile, Web!ChangesAreSeen, Web!Seen
  <2> QED BY <2>1, <2>2, <2>3, <2>4 DEF Web!IInv
<1>load. ASSUME Web!Load, UNCHANGED <<file, settled>>
         PROVE  /\ loaded' \in ScanFiles \cup {None} /\ loadedAge' \in 0..(Ttl - 1)
                /\ settled > loadedAge' => loaded' = Web!Parsed
                /\ Web!LoadedIsCurrent'
  BY <1>load DEF Web!IInv, Web!TypeOK, Web!Load, Web!LoadedIsCurrent, Web!Parsed
<1>3. CASE Web!OpenDashboard
  <2>1. Web!Load /\ Web!Shows("dashboard", loaded') /\ UNCHANGED <<file, settled, made, madeAge>>
    BY <1>3 DEF Web!OpenDashboard
  <2>2. settled >= Web!Seen("dashboard") => loaded' = Web!Parsed
    BY <2>1, <1>load DEF Web!Seen, Web!IInv, Web!TypeOK
  <2>3. Web!TypeOK' /\ Web!ChangesAreSeen'
    BY <2>1, <2>2, <1>load, WebPageSound DEF Web!IInv, Web!TypeOK
  <2>4. Web!MadeIsCurrent' BY <2>1 DEF Web!IInv, Web!MadeIsCurrent, Web!Parsed
  <2> QED BY <2>1, <2>3, <2>4, <1>load DEF Web!IInv
<1>4. CASE Web!OpenReports
  <2>1. Web!Shows("reports", made') /\ UNCHANGED <<file, settled>>
    BY <1>4 DEF Web!OpenReports
  <2>2. CASE madeAge < Ttl
    <3>1. UNCHANGED <<loaded, loadedAge, made, madeAge>> BY <1>4, <2>2 DEF Web!OpenReports
    <3>2. settled >= Web!Seen("reports") => made' = Web!Parsed
      BY <3>1, <2>2 DEF Web!Seen, Web!IInv, Web!TypeOK, Web!MadeIsCurrent
    <3>3. Web!TypeOK' /\ Web!ChangesAreSeen'
      BY <2>1, <3>1, <3>2, WebPageSound DEF Web!IInv, Web!TypeOK
    <3> QED BY <2>1, <3>1, <3>3 DEF Web!IInv, Web!LoadedIsCurrent, Web!MadeIsCurrent, Web!Parsed
  <2>3. CASE ~ (madeAge < Ttl)
    <3>1. Web!Load /\ made' = loaded' /\ madeAge' = 0 BY <1>4, <2>3 DEF Web!OpenReports
    <3>2. settled >= Ttl => made' = Web!Parsed
      BY <2>1, <3>1, <1>load DEF Web!IInv, Web!TypeOK
    <3>3. Web!TypeOK' /\ Web!ChangesAreSeen'
      BY <2>1, <3>1, <3>2, <1>load, WebPageSound DEF Web!IInv, Web!TypeOK, Web!Seen
    <3>4. Web!MadeIsCurrent'
      BY <2>1, <3>1, <3>2 DEF Web!IInv, Web!TypeOK, Web!MadeIsCurrent, Web!Parsed
    <3> QED BY <2>1, <3>1, <3>3, <3>4, <1>load DEF Web!IInv
  <2> QED BY <2>2, <2>3
<1>5. CASE UNCHANGED Web!vars
  BY <1>5 DEF Web!vars, Web!IInv, Web!TypeOK, Web!LoadedIsCurrent, Web!MadeIsCurrent,
              Web!ChangesAreSeen, Web!Parsed
<1> QED BY <1>1, <1>2, <1>3, <1>4, <1>5 DEF Web!Next

LEMMA AllNextWeb == [AllNext]_allVars => [Web!Next]_(Web!vars)
BY DEF AllNext, allVars, OnlyCache, OnlyAudit, OnlyCase, OnlyStore, OnlyWatch, OnlyAlerts,
       OnlyWeb, OnlyGuard, OnlyOutbound, OnlyInbound, webVars, Web!vars

\* What a page shows is what the file of its scan has held for long enough, for any time
\* to live, however often the file is written and pages are opened.
THEOREM PagesCatchUp == ASSUME Web!WebAssumption PROVE AllSpec => []ChangesAreSeen
<1>1. AllInit => Web!IInv BY WebInit DEF AllInit
<1>2. Web!IInv /\ [AllNext]_allVars => Web!IInv' BY WebStep, AllNextWeb
<1>3. Web!IInv => ChangesAreSeen BY DEF Web!IInv, ChangesAreSeen
<1> QED BY <1>1, <1>2, <1>3, PTL DEF AllSpec

-----------------------------------------------------------------------------
\* The runs of a case.  Two runs with directories of their own do not disturb one
\* another, and a directory that is shared once is shared for good.

LEMMA CaseInit == ASSUME Case!CaseAssumption, Case!Init PROVE Case!IInv
BY DEF Case!CaseAssumption, Case!Init, Case!IInv, Case!TypeOK, Case!WritersSound,
       Case!WrittenSoFar, Case!LatestHasFiles, Case!Dirs, Case!Saving, Case!Shared

\* A run begins in a directory of its own, or in one that is shared from then on.
LEMMA CaseBegin ==
    ASSUME Case!CaseAssumption, Case!IInv, NEW r \in Runs, Case!Begin(r)
    PROVE  Case!IInv'
<1> USE DEF Case!IInv
<1>1. /\ dir[r] = 0 /\ dir' = [dir EXCEPT ![r] = second] /\ second \in 1..CaseTime
      /\ UNCHANGED <<second, at, writing, over, content, latest>>
  BY DEF Case!Begin, Case!TypeOK, Case!Dirs
<1>2. Case!TypeOK' BY <1>1 DEF Case!TypeOK, Case!Dirs
<1>3. \A s \in Runs : s # r => dir'[s] = dir[s] BY <1>1 DEF Case!TypeOK
<1>4. dir'[r] = second /\ at[r] = 1 BY <1>1 DEF Case!TypeOK, Case!WritersSound
<1>5. r \notin writing BY <1>1 DEF Case!WritersSound, Case!Saving
<1>6. Case!WritersSound' BY <1>1, <1>3, <1>4, <1>5 DEF Case!WritersSound, Case!Saving
<1>7. \A d \in 1..CaseTime : Case!Shared(d) => Case!Shared(d)'
  BY <1>1, <1>3, <1>4 DEF Case!Shared
<1>8. Case!WrittenSoFar'
  <2> SUFFICES ASSUME NEW s \in Runs, dir'[s] # 0, ~ (Case!Shared(dir[s]))',
                      NEW f \in 1..Files, f < at[s]
               PROVE  <<dir'[s], f>> \in DOMAIN content /\ content[<<dir'[s], f>>] = s
    BY <1>1 DEF Case!WrittenSoFar, Case!Shared
  <2>1. s # r BY <1>4
  <2>2. ~ Case!Shared(dir[s]) /\ dir[s] # 0
    <3>1. dir[s] \in 0..CaseTime BY DEF Case!TypeOK
    <3> QED BY <1>3, <1>7, <2>1, <3>1
  <2> QED BY <1>3, <2>1, <2>2 DEF Case!WrittenSoFar
<1>9. Case!LatestHasFiles'
  <2> SUFFICES ASSUME latest \in Case!Dirs
               PROVE \E s \in Runs : dir'[s] = latest /\ at[s] = Files + 1
    BY <1>1 DEF Case!LatestHasFiles, Case!Dirs
  <2>1. PICK s \in Runs : dir[s] = latest /\ at[s] = Files + 1 BY DEF Case!LatestHasFiles
  <2>2. s # r BY <1>1, <2>1 DEF Case!Dirs
  <2> QED BY <1>3, <2>1, <2>2
<1> QED BY <1>2, <1>6, <1>8, <1>9

\* A file that a run truncates is one that it has not written.
LEMMA CaseTruncate ==
    ASSUME Case!CaseAssumption, Case!IInv, NEW r \in Runs, Case!Truncate(r)
    PROVE  Case!IInv'
<1> USE DEF Case!IInv
<1>1. /\ dir[r] # 0 /\ r \notin over /\ r \notin writing /\ writing' = writing \cup {r}
      /\ UNCHANGED <<second, dir, at, over>>
  BY DEF Case!Truncate, Case!Saving
<1>2. dir[r] \in 1..CaseTime /\ at[r] \in 1..(Files + 1) BY <1>1 DEF Case!TypeOK
<1>3. CASE at[r] <= Files
  <2>1. /\ latest' = latest /\ DOMAIN content' = DOMAIN content \cup {<<dir[r], at[r]>>}
        /\ content'[<<dir[r], at[r]>>] = Cut
        /\ \A f \in DOMAIN content : f # <<dir[r], at[r]>> => content'[f] = content[f]
    BY <1>3 DEF Case!Truncate
  <2>2. <<dir[r], at[r]>> \in Case!Dirs \X (1..Files) BY <1>2, <1>3 DEF Case!Dirs
  <2>3. \A f \in DOMAIN content' : content'[f] \in Runs \cup {Cut}
    BY <2>1 DEF Case!TypeOK
  <2>4. Case!TypeOK' BY <1>1, <2>1, <2>2, <2>3 DEF Case!TypeOK, Case!Dirs
  <2>5. Case!WritersSound' BY <1>1, <2>1 DEF Case!WritersSound, Case!Saving
  <2>6. Case!WrittenSoFar'
    <3> SUFFICES ASSUME NEW s \in Runs, dir[s] # 0, ~ Case!Shared(dir[s]),
                        NEW f \in 1..Files, f < at[s]
                 PROVE  <<dir[s], f>> \in DOMAIN content' /\ content'[<<dir[s], f>>] = s
      BY <1>1 DEF Case!WrittenSoFar, Case!Shared
    <3>1. <<dir[s], f>> \in DOMAIN content /\ content[<<dir[s], f>>] = s
      BY DEF Case!WrittenSoFar
    <3>2. <<dir[s], f>> # <<dir[r], at[r]>>
      <4>1. CASE s = r BY <1>2, <4>1
      <4>2. CASE s # r
        <5>1. dir[s] # dir[r] BY <4>2 DEF Case!Shared
        <5> QED BY <5>1
      <4> QED BY <4>1, <4>2
    <3> QED BY <2>1, <3>1, <3>2
  <2>7. Case!LatestHasFiles' BY <1>1, <2>1 DEF Case!LatestHasFiles, Case!Dirs
  <2> QED BY <2>4, <2>5, <2>6, <2>7
<1>4. CASE ~ (at[r] <= Files)
  <2>1. latest' = Cut /\ content' = content BY <1>4 DEF Case!Truncate
  <2>2. Case!TypeOK' BY <1>1, <2>1 DEF Case!TypeOK, Case!Dirs
  <2>3. Case!WritersSound' BY <1>1, <1>4, <2>1 DEF Case!WritersSound, Case!Saving
  <2>4. Case!WrittenSoFar' BY <1>1, <2>1 DEF Case!WrittenSoFar, Case!Shared
  <2>5. Case!LatestHasFiles' BY <2>1 DEF Case!LatestHasFiles, Case!Dirs, Case!CaseAssumption
  <2> QED BY <2>2, <2>3, <2>4, <2>5
<1> QED BY <1>3, <1>4

\* A run goes from one file to the next once it has written it, and names itself in
\* latest once there are no more.
LEMMA CaseWrite ==
    ASSUME Case!CaseAssumption, Case!IInv, NEW r \in Runs, Case!Write(r)
    PROVE  Case!IInv'
<1> USE DEF Case!IInv
<1>1. /\ dir[r] # 0 /\ r \in writing /\ writing' = writing \ {r}
      /\ UNCHANGED <<second, dir>>
  BY DEF Case!Write, Case!Saving
<1>2. dir[r] \in 1..CaseTime /\ at[r] \in 1..(Files + 1) /\ Files \in Nat
  BY <1>1 DEF Case!TypeOK, Case!CaseAssumption
<1>3. CASE at[r] <= Files
  <2>1. /\ <<dir[r], at[r]>> \in DOMAIN content
        /\ content' = [content EXCEPT ![<<dir[r], at[r]>>] = r]
        /\ at' = [at EXCEPT ![r] = at[r] + 1] /\ UNCHANGED <<over, latest>>
    BY <1>1, <1>3 DEF Case!Write, Case!WritersSound
  <2>2. /\ DOMAIN content' = DOMAIN content /\ content'[<<dir[r], at[r]>>] = r
        /\ \A f \in DOMAIN content : f # <<dir[r], at[r]>> => content'[f] = content[f]
    BY <2>1
  <2>3. at'[r] = at[r] + 1 /\ \A s \in Runs : s # r => at'[s] = at[s]
    BY <2>1 DEF Case!TypeOK
  <2>4. Case!TypeOK'
    <3>1. at' \in [Runs -> 1..(Files + 1)] BY <1>2, <1>3, <2>1 DEF Case!TypeOK
    <3>2. \A f \in DOMAIN content' : content'[f] \in Runs \cup {Cut} BY <2>2 DEF Case!TypeOK
    <3> QED BY <1>1, <2>1, <2>2, <3>1, <3>2 DEF Case!TypeOK, Case!Dirs
  <2>5. Case!WritersSound' BY <1>1, <2>1, <2>2, <2>3 DEF Case!WritersSound, Case!Saving
  <2>6. Case!WrittenSoFar'
    <3> SUFFICES ASSUME NEW s \in Runs, dir[s] # 0, ~ Case!Shared(dir[s]),
                        NEW f \in 1..Files, f < at'[s]
                 PROVE  <<dir[s], f>> \in DOMAIN content' /\ content'[<<dir[s], f>>] = s
      BY <1>1 DEF Case!WrittenSoFar, Case!Shared
    <3>1. CASE s = r /\ f = at[r] BY <2>1, <2>2, <3>1
    <3>2. CASE s = r /\ f # at[r]
      <4>1. f < at[r] BY <1>2, <2>3, <3>2
      <4>2. <<dir[r], f>> \in DOMAIN content /\ content[<<dir[r], f>>] = r
        BY <3>2, <4>1 DEF Case!WrittenSoFar
      <4>3. <<dir[r], f>> # <<dir[r], at[r]>> BY <3>2
      <4> QED BY <2>2, <3>2, <4>2, <4>3
    <3>3. CASE s # r
      <4>1. <<dir[s], f>> \in DOMAIN content /\ content[<<dir[s], f>>] = s
        BY <2>3, <3>3 DEF Case!WrittenSoFar
      <4>2. dir[s] # dir[r] BY <3>3 DEF Case!Shared
      <4>3. <<dir[s], f>> # <<dir[r], at[r]>> BY <4>2
      <4> QED BY <2>2, <4>1, <4>3
    <3> QED BY <3>1, <3>2, <3>3
  <2>7. Case!LatestHasFiles'
    <3> SUFFICES ASSUME latest \in Case!Dirs
                 PROVE  \E s \in Runs : dir[s] = latest /\ at'[s] = Files + 1
      BY <1>1, <2>1 DEF Case!LatestHasFiles, Case!Dirs
    <3>1. PICK s \in Runs : dir[s] = latest /\ at[s] = Files + 1 BY DEF Case!LatestHasFiles
    <3>2. s # r BY <1>2, <1>3, <3>1
    <3> QED BY <2>3, <3>1, <3>2
  <2> QED BY <2>4, <2>5, <2>6, <2>7
<1>4. CASE ~ (at[r] <= Files)
  <2>1. latest' = dir[r] /\ over' = over \cup {r} /\ UNCHANGED <<at, content>>
    BY <1>4 DEF Case!Write
  <2>2. Case!TypeOK' BY <1>1, <1>2, <2>1 DEF Case!TypeOK, Case!Dirs
  <2>3. Case!WritersSound' BY <1>1, <2>1 DEF Case!WritersSound, Case!Saving
  <2>4. Case!WrittenSoFar' BY <1>1, <2>1 DEF Case!WrittenSoFar, Case!Shared
  <2>5. at[r] = Files + 1 BY <1>2, <1>4
  <2>6. Case!LatestHasFiles' BY <1>1, <2>1, <2>5 DEF Case!LatestHasFiles
  <2> QED BY <2>2, <2>3, <2>4, <2>6
<1> QED BY <1>3, <1>4

LEMMA CaseStep == ASSUME Case!CaseAssumption
    PROVE Case!IInv /\ [Case!Next]_(Case!vars) => Case!IInv'
<1> SUFFICES ASSUME Case!IInv, [Case!Next]_(Case!vars) PROVE Case!IInv'
  OBVIOUS
<1>1. ASSUME NEW r \in Runs, Case!Fail(r) PROVE Case!IInv'
  BY <1>1 DEF Case!Fail, Case!IInv, Case!TypeOK, Case!WritersSound, Case!WrittenSoFar,
              Case!LatestHasFiles, Case!Saving, Case!Shared, Case!Dirs
<1>2. CASE Case!Tick
  BY <1>2 DEF Case!Tick, Case!IInv, Case!TypeOK, Case!WritersSound, Case!WrittenSoFar,
              Case!LatestHasFiles, Case!Saving, Case!Shared, Case!Dirs, Case!CaseAssumption
<1>3. CASE UNCHANGED Case!vars
  BY <1>3 DEF Case!vars, Case!IInv, Case!TypeOK, Case!WritersSound, Case!WrittenSoFar,
              Case!LatestHasFiles, Case!Saving, Case!Shared, Case!Dirs
<1> QED BY <1>1, <1>2, <1>3, CaseBegin, CaseTruncate, CaseWrite DEF Case!Next

\* The run that latest names has written every file, and nobody else has.
LEMMA CaseWhole == ASSUME Case!CaseAssumption, Case!IInv PROVE LatestIsWhole
<1> USE DEF Case!IInv
<1> SUFFICES ASSUME latest \in Case!Dirs, ~ Case!Shared(latest)
             PROVE  \E r \in Runs : /\ dir[r] = latest
                                    /\ \A f \in 1..Files : <<latest, f>> \in DOMAIN content
                                                              /\ content[<<latest, f>>] = r
  BY DEF LatestIsWhole, Case!LatestIsWhole
<1>1. PICK r \in Runs : dir[r] = latest /\ at[r] = Files + 1 BY DEF Case!LatestHasFiles
<1>2. dir[r] # 0 /\ \A f \in 1..Files : f < at[r]
  BY <1>1 DEF Case!Dirs, Case!CaseAssumption
<1> QED BY <1>1, <1>2 DEF Case!WrittenSoFar

LEMMA AllNextCase == [AllNext]_allVars => [Case!Next]_(Case!vars)
BY DEF AllNext, allVars, OnlyCache, OnlyAudit, OnlyCase, OnlyStore, OnlyWatch, OnlyAlerts,
       OnlyWeb, OnlyGuard, OnlyOutbound, OnlyInbound, caseVars, Case!vars

\* The run that latest names is whole and of one scan, for any number of runs and files,
\* unless two runs fell in one second.
THEOREM LatestWhole == ASSUME Case!CaseAssumption PROVE AllSpec => []LatestIsWhole
<1>1. AllInit => Case!IInv BY CaseInit DEF AllInit
<1>2. Case!IInv /\ [AllNext]_allVars => Case!IInv' BY CaseStep, AllNextCase
<1>3. Case!IInv => LatestIsWhole BY CaseWhole
<1> QED BY <1>1, <1>2, <1>3, PTL DEF AllSpec

-----------------------------------------------------------------------------
\* The watchlist.  While sessions follow one another only one of them has a copy that
\* matters, and it is the list its callers were told.

LEMMA WatchInit == ASSUME Watch!WatchlistAssumption, Watch!Init PROVE Watch!IInv
<1> USE DEF Watch!WatchlistAssumption, Watch!Init
<1>1. Watch!Empty \in [{} -> Nat \cup {Never}] BY DEF Watch!Empty
<1>2. Watch!Empty \in Watch!Lists BY <1>1, {} \in SUBSET Targets DEF Watch!Lists
<1>3. Watch!ListsSound BY <1>2 DEF Watch!ListsSound
<1>4. Watch!TypeOK BY DEF Watch!TypeOK, Watch!Empty
<1> QED BY <1>3, <1>4
    DEF Watch!IInv, Watch!OneAtATime, Watch!Active, Watch!ListSurvivesSessions

\* A target put on a list or taken from one leaves a list.
LEMMA WithList ==
    ASSUME NEW list \in Watch!Lists, NEW t \in Targets, NEW when \in Nat \cup {Never}
    PROVE  /\ Watch!With(list, t, when) \in Watch!Lists
           /\ Watch!Without(list, t) \in Watch!Lists
           /\ t \in DOMAIN list => Watch!With(list, t, list[t]) = list
           /\ t \in DOMAIN list => list[t] \in Nat \cup {Never}
<1>1. PICK s \in SUBSET Targets : list \in [s -> Nat \cup {Never}] BY DEF Watch!Lists
<1>2. Watch!With(list, t, when) \in [s \cup {t} -> Nat \cup {Never}]
  BY <1>1 DEF Watch!With
<1>3. Watch!Without(list, t) \in [s \ {t} -> Nat \cup {Never}]
  BY <1>1 DEF Watch!Without
<1>4. t \in s => Watch!With(list, t, list[t]) = list BY <1>1 DEF Watch!With
<1>5. DOMAIN list = s BY <1>1
<1>6. s \cup {t} \in SUBSET Targets /\ s \ {t} \in SUBSET Targets OBVIOUS
<1> QED BY <1>1, <1>2, <1>3, <1>4, <1>5, <1>6 DEF Watch!Lists

\* A list gives targets their last scans.
LEMMA ListTyped ==
    \A list \in Watch!Lists : /\ DOMAIN list \subseteq Targets
                              /\ \A t \in DOMAIN list : list[t] \in Nat \cup {Never}
BY DEF Watch!Lists

\* A session that changes its copy and begins to save it.
LEMMA WatchChange ==
    ASSUME Watch!IInv, NEW p \in Sessions,
           NEW list \in Watch!Lists, NEW told \in Watch!Lists,
           copy[p] = promised => list = told,
           Watch!Change(p, list, told)
    PROVE  Watch!IInv'
<1> USE DEF Watch!IInv
<1>1. /\ session[p] = "loaded" /\ session' = [session EXCEPT ![p] = "saving"]
      /\ copy' = [copy EXCEPT ![p] = list] /\ promised' = told
      /\ index' = [whole |-> FALSE, scans |-> Watch!Empty]
      /\ UNCHANGED <<hour, upset>>
  BY DEF Watch!Change
<1>2. Watch!Empty \in Watch!Lists
  <2>1. Watch!Empty \in [{} -> Nat \cup {Never}] BY DEF Watch!Empty
  <2> QED BY <2>1, {} \in SUBSET Targets DEF Watch!Lists
<1>3. Watch!ListsSound' BY <1>1, <1>2 DEF Watch!ListsSound, Watch!Lists
<1>4. /\ session' \in [Sessions -> {"new", "loaded", "saving", "ended"}]
      /\ \A q \in Sessions : Watch!Active(q)' <=> Watch!Active(q)
      /\ session'[p] = "saving"
  BY <1>1 DEF Watch!TypeOK, Watch!Active
<1>5. Watch!TypeOK' BY <1>1, <1>3, <1>4, ListTyped DEF Watch!TypeOK, Watch!ListsSound
<1>6. Watch!OneAtATime' BY <1>1, <1>4 DEF Watch!OneAtATime
<1>7. Watch!ListSurvivesSessions'
  <2> SUFFICES ASSUME ~ upset
               PROVE  /\ \A q \in Sessions : session'[q] \in {"loaded", "saving"} =>
                             copy'[q] = promised' /\ Watch!Due(copy[q])' = Watch!Due(promised)'
                      /\ \E q \in Sessions : session'[q] = "saving"
    BY <1>1 DEF Watch!ListSurvivesSessions
  <2>1. copy[p] = promised BY <1>1 DEF Watch!ListSurvivesSessions
  <2>2. copy'[p] = promised' BY <1>1, <2>1 DEF Watch!ListsSound
  <2>3. \A q \in Sessions : session'[q] \in {"loaded", "saving"} => q = p
    BY <1>1, <1>4 DEF Watch!OneAtATime, Watch!Active
  <2> QED BY <1>4, <2>2, <2>3 DEF Watch!Due
<1> QED BY <1>3, <1>5, <1>6, <1>7

LEMMA WatchAdd ==
    ASSUME Watch!IInv, NEW p \in Sessions, NEW t \in Targets, Watch!Add(p, t)
    PROVE  Watch!IInv'
<1> DEFINE list == Watch!With(copy[p], t, Watch!LastScan(copy[p], t))
           told == IF t \in DOMAIN promised THEN promised ELSE Watch!With(promised, t, Never)
<1>1. copy[p] \in Watch!Lists /\ promised \in Watch!Lists
  BY DEF Watch!IInv, Watch!ListsSound
<1>2. Watch!LastScan(copy[p], t) \in Nat \cup {Never} BY <1>1, WithList DEF Watch!LastScan
<1>3. list \in Watch!Lists BY <1>1, <1>2, WithList
<1>4. told \in Watch!Lists BY <1>1, WithList
<1>5. copy[p] = promised => list = told BY <1>1, WithList DEF Watch!LastScan
<1>6. Watch!Change(p, list, told) BY DEF Watch!Add
<1> HIDE DEF list, told
<1> QED BY <1>3, <1>4, <1>5, <1>6, WatchChange

LEMMA WatchRemove ==
    ASSUME Watch!IInv, NEW p \in Sessions, NEW t \in Targets, Watch!Remove(p, t)
    PROVE  Watch!IInv'
<1>1. copy[p] \in Watch!Lists /\ promised \in Watch!Lists
  BY DEF Watch!IInv, Watch!ListsSound
<1>2. Watch!Without(copy[p], t) \in Watch!Lists /\ Watch!Without(promised, t) \in Watch!Lists
  BY <1>1, WithList
<1>3. copy[p] = promised => Watch!Without(copy[p], t) = Watch!Without(promised, t) OBVIOUS
<1>4. Watch!Change(p, Watch!Without(copy[p], t), Watch!Without(promised, t))
  BY DEF Watch!Remove
<1> QED BY <1>2, <1>3, <1>4, WatchChange

LEMMA WatchMark ==
    ASSUME Watch!IInv, NEW p \in Sessions, NEW t \in Targets, Watch!MarkScanned(p, t)
    PROVE  Watch!IInv'
<1>1. copy[p] \in Watch!Lists /\ promised \in Watch!Lists /\ hour \in Nat
  BY DEF Watch!IInv, Watch!ListsSound, Watch!TypeOK
<1>2. Watch!With(copy[p], t, hour) \in Watch!Lists /\ Watch!With(promised, t, hour) \in Watch!Lists
  BY <1>1, WithList
<1>3. copy[p] = promised => Watch!With(copy[p], t, hour) = Watch!With(promised, t, hour) OBVIOUS
<1>4. Watch!Change(p, Watch!With(copy[p], t, hour), Watch!With(promised, t, hour))
  BY DEF Watch!MarkScanned
<1> QED BY <1>2, <1>3, <1>4, WatchChange

\* A session that loads the index has the list, if no other is active.
LEMMA WatchLoad ==
    ASSUME Watch!IInv, NEW p \in Sessions, Watch!Load(p)
    PROVE  Watch!IInv'
<1> USE DEF Watch!IInv
<1> DEFINE list == IF index.whole THEN index.scans ELSE Watch!Empty
<1>1. /\ session[p] = "new" /\ session' = [session EXCEPT ![p] = "loaded"]
      /\ copy' = [copy EXCEPT ![p] = list]
      /\ upset' = (upset \/ \E q \in Sessions : session[q] \in {"loaded", "saving"})
      /\ UNCHANGED <<hour, index, promised>>
  BY DEF Watch!Load
<1>2. Watch!Empty \in Watch!Lists
  <2>1. Watch!Empty \in [{} -> Nat \cup {Never}] BY DEF Watch!Empty
  <2> QED BY <2>1, {} \in SUBSET Targets DEF Watch!Lists
<1>3. list \in Watch!Lists BY <1>2 DEF Watch!ListsSound
<1> HIDE DEF list
<1>4. upset' \in BOOLEAN /\ copy' \in [Sessions -> Watch!Lists]
  BY <1>1, <1>3 DEF Watch!ListsSound
<1>5. Watch!ListsSound' BY <1>1, <1>4 DEF Watch!ListsSound, Watch!Lists
<1>6. session' \in [Sessions -> {"new", "loaded", "saving", "ended"}]
  BY <1>1 DEF Watch!TypeOK
<1>7. Watch!TypeOK' BY <1>1, <1>5, <1>6, ListTyped DEF Watch!TypeOK, Watch!ListsSound
<1>8. ~ upset' => /\ ~ upset
                  /\ \A q \in Sessions : ~ Watch!Active(q)
                  /\ \A q \in Sessions : session'[q] \in {"loaded", "saving"} => q = p
  BY <1>1 DEF Watch!Active, Watch!TypeOK
<1>9. Watch!OneAtATime' BY <1>8 DEF Watch!OneAtATime, Watch!Active
<1>10. ~ upset' => copy'[p] = promised' /\ index' = [whole |-> TRUE, scans |-> promised']
  <2>1. ~ upset' => index = [whole |-> TRUE, scans |-> promised]
    BY <1>8 DEF Watch!Active, Watch!ListSurvivesSessions
  <2> QED BY <1>1, <2>1 DEF list, Watch!ListsSound
<1>11. Watch!ListSurvivesSessions' BY <1>8, <1>10 DEF Watch!ListSurvivesSessions, Watch!Due
<1> QED BY <1>5, <1>7, <1>9, <1>11

\* A save writes the whole copy, and clear does away with the list.
LEMMA WatchSaveEnds ==
    ASSUME Watch!IInv, NEW p \in Sessions, Watch!SaveEnds(p)
    PROVE  Watch!IInv'
<1> USE DEF Watch!IInv
<1>1. /\ session[p] = "saving" /\ session' = [session EXCEPT ![p] = "loaded"]
      /\ index' = [whole |-> TRUE, scans |-> copy[p]]
      /\ UNCHANGED <<hour, copy, promised, upset>>
  BY DEF Watch!SaveEnds
<1>2. Watch!ListsSound' BY <1>1 DEF Watch!ListsSound, Watch!Lists
<1>3. /\ session' \in [Sessions -> {"new", "loaded", "saving", "ended"}]
      /\ \A q \in Sessions : Watch!Active(q)' <=> Watch!Active(q)
  BY <1>1 DEF Watch!TypeOK, Watch!Active
<1>4. Watch!TypeOK' BY <1>1, <1>2, <1>3, ListTyped DEF Watch!TypeOK, Watch!ListsSound
<1>5. Watch!OneAtATime' BY <1>1, <1>3 DEF Watch!OneAtATime
<1>6. Watch!ListSurvivesSessions'
  BY <1>1, <1>3 DEF Watch!ListSurvivesSessions, Watch!Due, Watch!Active
<1> QED BY <1>2, <1>4, <1>5, <1>6

LEMMA WatchClear ==
    ASSUME Watch!IInv, NEW p \in Sessions, Watch!Clear(p)
    PROVE  Watch!IInv'
<1> USE DEF Watch!IInv
<1>1. /\ session[p] = "loaded" /\ copy' = [copy EXCEPT ![p] = Watch!Empty]
      /\ index' = [whole |-> TRUE, scans |-> Watch!Empty] /\ promised' = Watch!Empty
      /\ UNCHANGED <<hour, session, upset>>
  BY DEF Watch!Clear
<1>2. Watch!Empty \in Watch!Lists
  <2>1. Watch!Empty \in [{} -> Nat \cup {Never}] BY DEF Watch!Empty
  <2> QED BY <2>1, {} \in SUBSET Targets DEF Watch!Lists
<1>3. Watch!ListsSound' BY <1>1, <1>2 DEF Watch!ListsSound, Watch!Lists
<1>4. Watch!TypeOK' BY <1>1, <1>3, ListTyped DEF Watch!TypeOK, Watch!ListsSound
<1>5. Watch!OneAtATime' BY <1>1 DEF Watch!OneAtATime, Watch!Active
<1>6. ~ upset => \A q \in Sessions : session[q] \in {"loaded", "saving"} => q = p
  BY <1>1 DEF Watch!OneAtATime, Watch!Active
<1>7. copy'[p] = promised' BY <1>1 DEF Watch!ListsSound
<1>8. Watch!ListSurvivesSessions'
  BY <1>1, <1>6, <1>7 DEF Watch!ListSurvivesSessions, Watch!Due
<1> QED BY <1>3, <1>4, <1>5, <1>8

LEMMA WatchEnd ==
    ASSUME Watch!IInv, NEW p \in Sessions, Watch!End(p)
    PROVE  Watch!IInv'
<1> USE DEF Watch!IInv
<1>1. /\ session' = [session EXCEPT ![p] = "ended"]
      /\ upset' = (upset \/ session[p] = "saving")
      /\ UNCHANGED <<hour, index, copy, promised>>
  BY DEF Watch!End
<1>2. Watch!ListsSound' BY <1>1 DEF Watch!ListsSound, Watch!Lists
<1>3. /\ session' \in [Sessions -> {"new", "loaded", "saving", "ended"}]
      /\ \A q \in Sessions : Watch!Active(q)' => Watch!Active(q) /\ session'[q] = session[q]
  BY <1>1 DEF Watch!TypeOK, Watch!Active
<1>4. Watch!TypeOK' BY <1>1, <1>2, <1>3, ListTyped DEF Watch!TypeOK, Watch!ListsSound
<1>5. Watch!OneAtATime' BY <1>1, <1>3 DEF Watch!OneAtATime
<1>6. Watch!ListSurvivesSessions'
  <2> SUFFICES ASSUME ~ upset'
               PROVE  /\ \A q \in Sessions : session'[q] \in {"loaded", "saving"} =>
                             copy[q] = promised /\ Watch!Due(copy[q])' = Watch!Due(promised)'
                      /\ (\A q \in Sessions : session'[q] # "saving") =>
                             index = [whole |-> TRUE, scans |-> promised]
    BY <1>1 DEF Watch!ListSurvivesSessions
  <2>1. ~ upset /\ session[p] # "saving" BY <1>1
  <2>2. \A q \in Sessions : session'[q] # "saving" => session[q] # "saving"
    BY <1>1, <2>1 DEF Watch!TypeOK
  <2> QED BY <1>1, <1>3, <2>1, <2>2 DEF Watch!ListSurvivesSessions, Watch!Active, Watch!Due
<1> QED BY <1>2, <1>4, <1>5, <1>6

LEMMA WatchStep ==
    ASSUME Watch!WatchlistAssumption
    PROVE  Watch!IInv /\ [Watch!Next]_(Watch!vars) => Watch!IInv'
<1> SUFFICES ASSUME Watch!IInv, [Watch!Next]_(Watch!vars) PROVE Watch!IInv'
  OBVIOUS
<1>1. CASE Watch!Tick
  <2>1. UNCHANGED <<index, session, copy, promised, upset>> /\ hour' \in Nat
    BY <1>1 DEF Watch!Tick, Watch!IInv, Watch!TypeOK
  <2>2. Watch!ListsSound' BY <2>1 DEF Watch!IInv, Watch!ListsSound, Watch!Lists
  <2>3. Watch!TypeOK' BY <2>1, <2>2, ListTyped DEF Watch!IInv, Watch!TypeOK, Watch!ListsSound
  <2>4. Watch!OneAtATime' BY <2>1 DEF Watch!IInv, Watch!OneAtATime, Watch!Active
  <2>5. Watch!ListSurvivesSessions'
    BY <2>1 DEF Watch!IInv, Watch!ListSurvivesSessions, Watch!Due
  <2> QED BY <2>2, <2>3, <2>4, <2>5 DEF Watch!IInv
<1>2. CASE UNCHANGED Watch!vars
  BY <1>2 DEF Watch!vars, Watch!IInv, Watch!TypeOK, Watch!ListsSound, Watch!Lists,
              Watch!OneAtATime, Watch!Active, Watch!ListSurvivesSessions, Watch!Due
<1> QED BY <1>1, <1>2, WatchLoad, WatchSaveEnds, WatchClear, WatchEnd, WatchAdd, WatchRemove,
           WatchMark DEF Watch!Next

LEMMA AllNextWatch == [AllNext]_allVars => [Watch!Next]_(Watch!vars)
BY DEF AllNext, allVars, OnlyCache, OnlyAudit, OnlyCase, OnlyStore, OnlyWatch, OnlyAlerts,
       OnlyWeb, OnlyGuard, OnlyOutbound, OnlyInbound, watchVars, Watch!vars

\* While sessions follow one another and none dies in a save, every one of them has the
\* list that callers were told, for any targets and however often they are added,
\* scanned and removed.
THEOREM ListSurvives == ASSUME Watch!WatchlistAssumption PROVE AllSpec => []ListSurvivesSessions
<1>1. AllInit => Watch!IInv BY WatchInit DEF AllInit
<1>2. Watch!IInv /\ [AllNext]_allVars => Watch!IInv' BY WatchStep, AllNextWatch
<1>3. Watch!IInv => ListSurvivesSessions BY DEF Watch!IInv, ListSurvivesSessions
<1> QED BY <1>1, <1>2, <1>3, PTL DEF AllSpec

-----------------------------------------------------------------------------
\* The audit trail.  A purge that has read the log and not yet replaced it carries its
\* own copy of what was recorded; what is appended meanwhile is in raced.

\* A selection has what its places have, and nothing else.
LEMMA SelectionFacts ==
    ASSUME NEW S, NEW s \in Seq(S), NEW places \in SUBSET DOMAIN s,
           NEW t \in Audit!Selections(s, places)
    PROVE  /\ t \in Seq(S)
           /\ \A k \in DOMAIN t : \E i \in places : t[k] = s[i]
           /\ \A i \in places : \E k \in DOMAIN t : t[k] = s[i]
<1>1. IsFiniteSet(1..Len(s)) BY FS_Interval
<1>2. IsFiniteSet(places) BY <1>1, FS_Subset
<1>3. Cardinality(places) \in Nat BY <1>2, FS_CardinalityType
<1>8. Audit!Cardinality(places) = Cardinality(places)
  BY SMT DEF Audit!Cardinality, Cardinality, Audit!IsFiniteSet, IsFiniteSet
<1>4. PICK f \in [1..Cardinality(places) -> places] :
          /\ \A i \in places : \E k \in DOMAIN f : f[k] = i
          /\ t = [k \in DOMAIN f |-> s[f[k]]]
  BY <1>8 DEF Audit!Selections, Audit!InOrder
<1>5. DOMAIN f = 1..Cardinality(places) /\ DOMAIN t = DOMAIN f BY <1>4
<1>6. \A k \in 1..Cardinality(places) : t[k] = s[f[k]] /\ f[k] \in places BY <1>4
<1>7. t \in Seq(S) BY <1>3, <1>4, <1>6
<1> QED BY <1>4, <1>5, <1>6, <1>7

LEMMA AuditInit == ASSUME Audit!AuditAssumption, Audit!Init PROVE Audit!IInv
<1> USE DEF Audit!AuditAssumption, Audit!Init
<1>1. log \in Seq(Audit!Line) /\ Audit!Elems(log) = {} BY DEF Audit!Elems
<1>2. \A p \in Purgers : ~ kept[p].purging /\ Audit!Elems(kept[p].lines) = {} BY DEF Audit!Elems
<1>3. kept \in [Purgers -> [purging : BOOLEAN, lines : Seq(Audit!Line)]]
  <2>1. << >> \in Seq(Audit!Line) OBVIOUS
  <2> QED BY <2>1
<1>4. Audit!LinesSound BY <1>1, <1>2, <1>3 DEF Audit!LinesSound
<1>5. Audit!StampsSound BY DEF Audit!StampsSound
<1>6. Audit!TypeOK BY <1>1, <1>2 DEF Audit!TypeOK
<1> QED BY <1>1, <1>2, <1>4, <1>5, <1>6
    DEF Audit!IInv, Audit!RecordedUntilExpired, Audit!PurgesKeepUnexpired

\* What an append does to the lines: e is in the last of them, which is sound when it was
\* not recorded or has its end, and the others are as they were.
LEMMA AuditWritten ==
    ASSUME Audit!AuditAssumption, Audit!IInv, NEW e \in Audit!New,
           NEW ok \in BOOLEAN, NEW open \in BOOLEAN, Audit!Stamp(e),
           recorded' = IF open THEN recorded ELSE recorded \cup {e},
           log' = Audit!Written(e, ok, open), UNCHANGED <<day, kept>>
    PROVE  Audit!IInv'
<1> USE DEF Audit!IInv
<1>1. /\ e \in Entries /\ e \notin DOMAIN stamp /\ e \notin recorded /\ e \notin raced
      /\ recorded \subseteq DOMAIN stamp /\ raced \subseteq DOMAIN stamp
  BY DEF Audit!New, Audit!TypeOK
<1>2. /\ DOMAIN stamp' = DOMAIN stamp \cup {e} /\ stamp'[e] = day /\ day \in Nat
      /\ \A x \in DOMAIN stamp : stamp'[x] = stamp[x]
      /\ stamp' \in [DOMAIN stamp \cup {e} -> Nat]
  BY <1>1 DEF Audit!Stamp, Audit!TypeOK, Audit!StampsSound, Audit!AuditAssumption
<1>3. /\ raced \subseteq raced' /\ raced' \subseteq raced \cup {e}
      /\ (\E p \in Purgers : kept[p].purging) => e \in raced'
  BY DEF Audit!Stamp
<1>4. recorded \subseteq recorded' /\ recorded' \subseteq recorded \cup {e}
  OBVIOUS
<1>5. ASSUME NEW line, Audit!LineSound(line) PROVE Audit!LineSound(line)'
  <2>1. line.entries \subseteq DOMAIN stamp /\ line \in Audit!Line BY <1>5 DEF Audit!LineSound
  <2>2. line.entries \cap recorded' = line.entries \cap recorded BY <1>1, <1>4, <2>1
  <2> QED BY <1>2, <1>5, <2>1, <2>2 DEF Audit!LineSound
<1>6. /\ log' \in Seq(Audit!Line) /\ \A line \in Audit!Elems(log') : Audit!LineSound(line)'
      /\ \A line \in Audit!Elems(log) : \E l \in Audit!Elems(log') :
             line.entries \subseteq l.entries
      /\ \E line \in Audit!Elems(log') : e \in line.entries
  <2>1. log \in Seq(Audit!Line) /\ \A i \in DOMAIN log : Audit!LineSound(log[i])
    BY DEF Audit!LinesSound, Audit!Elems
  <2>2. CASE log # << >> /\ log[Len(log)].open
    <3>0. PICK joined :
             joined = [entries |-> log[Len(log)].entries \cup {e}, ok |-> FALSE, open |-> open]
      OBVIOUS
    <3>1. log' = [log EXCEPT ![Len(log)] = joined] BY <2>2, <3>0 DEF Audit!Written
    <3>2. Len(log) \in DOMAIN log BY <2>1, <2>2
    <3>3. Audit!LineSound(log[Len(log)]) BY <2>1, <3>2
    <3>4. /\ log[Len(log)].entries \subseteq DOMAIN stamp
          /\ log[Len(log)].entries \cap recorded = {}
          /\ log[Len(log)].entries \in SUBSET Entries
      BY <2>2, <3>3 DEF Audit!LineSound, Audit!Line
    <3>5. joined \in Audit!Line BY <1>1, <3>0, <3>4 DEF Audit!Line
    <3>6. Audit!LineSound(joined)'
      <4>1. joined.entries \subseteq DOMAIN stamp' BY <1>2, <3>0, <3>4
      <4>2. joined.entries \cap recorded' \subseteq {e} BY <1>4, <3>0, <3>4
      <4>3. joined.open => joined.entries \cap recorded' = {} BY <1>1, <3>0, <3>4
      <4>4. ~ joined.ok BY <3>0
      <4>5. \A x, y \in joined.entries \cap recorded' : x = y BY <4>2
      <4> QED BY <3>5, <4>1, <4>3, <4>4, <4>5 DEF Audit!LineSound
    <3>7. log' \in Seq(Audit!Line) /\ DOMAIN log' = DOMAIN log
      BY <2>1, <3>1, <3>2, <3>5
    <3>8. \A i \in DOMAIN log : log'[i] = IF i = Len(log) THEN joined ELSE log[i]
      BY <2>1, <3>1
    <3>9. log[Len(log)].entries \subseteq joined.entries /\ e \in joined.entries BY <3>0
    <3>10. \A line \in Audit!Elems(log') : Audit!LineSound(line)'
      BY <1>5, <2>1, <3>2, <3>6, <3>7, <3>8 DEF Audit!Elems
    <3>11. \A i \in DOMAIN log : log[i].entries \subseteq log'[i].entries BY <3>8, <3>9
    <3>12. e \in log'[Len(log)].entries BY <3>2, <3>8, <3>9
    <3> QED BY <3>2, <3>7, <3>10, <3>11, <3>12 DEF Audit!Elems
  <2>3. CASE ~ (log # << >> /\ log[Len(log)].open)
    <3> DEFINE alone == [entries |-> {e}, ok |-> ok, open |-> open]
    <3>1. log' = Append(log, alone) BY <2>3 DEF Audit!Written
    <3>2. alone \in Audit!Line BY <1>1 DEF Audit!Line
    <3>3. Audit!LineSound(alone)' BY <1>1, <1>2, <3>2 DEF Audit!LineSound
    <3>4. alone.entries = {e} /\ e \in alone.entries OBVIOUS
    <3> HIDE DEF alone
    <3>5. /\ log' \in Seq(Audit!Line) /\ DOMAIN log' = DOMAIN log \cup {Len(log) + 1}
          /\ log'[Len(log) + 1] = alone
          /\ \A i \in DOMAIN log : log'[i] = log[i] /\ i # Len(log) + 1
      BY <2>1, <3>1, <3>2
    <3>6. \A line \in Audit!Elems(log') : Audit!LineSound(line)'
      BY <1>5, <2>1, <3>3, <3>5 DEF Audit!Elems
    <3>7. alone \in Audit!Elems(log') BY <3>5 DEF Audit!Elems
    <3>8. Audit!Elems(log) \subseteq Audit!Elems(log') BY <3>5 DEF Audit!Elems
    <3> QED BY <3>4, <3>5, <3>6, <3>7, <3>8
  <2> QED BY <2>2, <2>3
<1>7. Audit!LinesSound' BY <1>5, <1>6 DEF Audit!LinesSound
<1>8. Audit!RecordedUntilExpired'
  <2> SUFFICES ASSUME NEW x \in recorded' \ raced'
               PROVE  \/ \E line \in Audit!Elems(log') : x \in line.entries
                      \/ stamp'[x] + Retention[x] < day
    BY DEF Audit!RecordedUntilExpired, Audit!Elems
  <2>1. CASE x = e BY <1>6, <2>1
  <2>2. CASE x # e
    <3>1. x \in recorded \ raced /\ x \in DOMAIN stamp BY <1>1, <1>3, <1>4, <2>2
    <3> QED BY <1>2, <1>6, <3>1 DEF Audit!RecordedUntilExpired
  <2> QED BY <2>1, <2>2
<1>9. Audit!PurgesKeepUnexpired'
  <2> SUFFICES ASSUME NEW p \in Purgers, kept[p].purging, NEW x \in recorded' \ raced'
               PROVE  \/ \E line \in Audit!Elems(kept[p].lines) : x \in line.entries
                      \/ stamp'[x] + Retention[x] < day
    BY DEF Audit!PurgesKeepUnexpired, Audit!Elems
  <2>1. x \in recorded \ raced /\ x \in DOMAIN stamp BY <1>1, <1>3, <1>4
  <2> QED BY <1>2, <2>1 DEF Audit!PurgesKeepUnexpired
<1>10. Audit!StampsSound' BY <1>2 DEF Audit!StampsSound
<1>11. Audit!TypeOK'
  <2>1. \A line : Audit!LineSound(line)' => /\ line \in Audit!Line
                                            /\ line.entries \subseteq DOMAIN stamp'
                                            /\ line.ok => \E x \in Entries : line.entries = {x}
    BY <1>1, <1>2 DEF Audit!LineSound, Audit!TypeOK
  <2> QED BY <1>1, <1>2, <1>3, <1>4, <1>7, <2>1 DEF Audit!TypeOK, Audit!LinesSound, Audit!Stamp
<1> QED BY <1>7, <1>8, <1>9, <1>10, <1>11

LEMMA AuditRecord ==
    ASSUME Audit!AuditAssumption, Audit!IInv, NEW e \in Entries,
           Audit!Record(e) \/ Audit!RecordTorn(e)
    PROVE  Audit!IInv'
<1>1. e \in Audit!New /\ Audit!Stamp(e) /\ UNCHANGED <<day, kept>>
  BY DEF Audit!Record, Audit!RecordTorn, Audit!Stamp
<1>2. CASE Audit!Record(e)
  BY <1>1, <1>2, AuditWritten DEF Audit!Record
<1>3. CASE Audit!RecordTorn(e)
  BY <1>1, <1>3, AuditWritten DEF Audit!RecordTorn
<1> QED BY <1>2, <1>3

\* What a purge has read is the log without what expired.
LEMMA AuditReads ==
    ASSUME Audit!AuditAssumption, Audit!IInv, NEW p \in Purgers, Audit!PurgeReads(p)
    PROVE  Audit!IInv'
<1> USE DEF Audit!IInv
<1>1. UNCHANGED <<day, stamp, log, recorded, raced>> BY DEF Audit!PurgeReads
<1>2. PICK lines \in Audit!Selections(log, {i \in DOMAIN log : Audit!Kept(log[i])}) :
          kept' = [kept EXCEPT ![p] =
                      [purging |-> TRUE,
                       lines |-> [i \in DOMAIN lines |-> [lines[i] EXCEPT !.open = FALSE]]]]
  BY DEF Audit!PurgeReads
<1>3. PICK ended : ended = [i \in DOMAIN lines |-> [lines[i] EXCEPT !.open = FALSE]]
  OBVIOUS
<1>4. log \in Seq(Audit!Line) /\ \A i \in DOMAIN log : Audit!LineSound(log[i])
  BY DEF Audit!LinesSound, Audit!Elems
<1>5. /\ lines \in Seq(Audit!Line)
      /\ \A k \in DOMAIN lines : \E i \in DOMAIN log : lines[k] = log[i]
      /\ \A i \in DOMAIN log : Audit!Kept(log[i]) => \E k \in DOMAIN lines : lines[k] = log[i]
  <2> DEFINE places == {i \in DOMAIN log : Audit!Kept(log[i])}
  <2>1. places \in SUBSET DOMAIN log /\ lines \in Audit!Selections(log, places) BY <1>2
  <2>2. /\ lines \in Seq(Audit!Line)
        /\ \A k \in DOMAIN lines : \E i \in places : lines[k] = log[i]
        /\ \A i \in places : \E k \in DOMAIN lines : lines[k] = log[i]
    BY <1>4, <2>1, SelectionFacts
  <2> QED BY <2>2
<1>6. \A k \in DOMAIN lines : lines[k] \in Audit!Line /\ Audit!LineSound(lines[k])
  BY <1>4, <1>5 DEF Audit!LineSound
<1>7. /\ ended \in Seq(Audit!Line) /\ DOMAIN ended = DOMAIN lines
      /\ \A k \in DOMAIN lines : /\ ended[k].entries = lines[k].entries
                                 /\ ended[k].ok = lines[k].ok /\ ~ ended[k].open
  <2>1. \A k \in DOMAIN lines : [lines[k] EXCEPT !.open = FALSE] \in Audit!Line
    BY <1>6 DEF Audit!Line
  <2>2. \A k \in DOMAIN lines : /\ [lines[k] EXCEPT !.open = FALSE].entries = lines[k].entries
                                /\ [lines[k] EXCEPT !.open = FALSE].ok = lines[k].ok
                                /\ ~ [lines[k] EXCEPT !.open = FALSE].open
    BY <1>6 DEF Audit!Line
  <2>3. DOMAIN lines = 1..Len(lines) /\ Len(lines) \in Nat BY <1>5
  <2>4. ended \in Seq(Audit!Line) BY <1>3, <2>1, <2>3
  <2> QED BY <1>3, <2>2, <2>4
<1>8. \A line \in Audit!Elems(ended) : Audit!LineSound(line) /\ ~ line.open
  <2> SUFFICES ASSUME NEW k \in DOMAIN ended PROVE Audit!LineSound(ended[k]) /\ ~ ended[k].open
    BY DEF Audit!Elems
  <2>1. ended[k] \in Audit!Line BY <1>7
  <2> QED BY <1>6, <1>7, <2>1 DEF Audit!LineSound
<1>9. /\ kept' = [kept EXCEPT ![p] = [purging |-> TRUE, lines |-> ended]]
      /\ kept' \in [Purgers -> [purging : BOOLEAN, lines : Seq(Audit!Line)]]
      /\ \A q \in Purgers : kept'[q] = IF q
             = p THEN [purging |-> TRUE, lines |-> ended] ELSE kept[q]
  BY <1>2, <1>3, <1>7 DEF Audit!LinesSound
<1>10. Audit!LinesSound'
  <2>1. \A line : Audit!LineSound(line) <=> Audit!LineSound(line)' BY <1>1 DEF Audit!LineSound
  <2>2. \A q \in Purgers : \A line \in Audit!Elems(kept'[q].lines) :
            Audit!LineSound(line) /\ ~ line.open
    BY <1>8, <1>9 DEF Audit!LinesSound
  <2>3. Audit!Elems(log') = Audit!Elems(log) BY <1>1
  <2> QED BY <1>1, <1>9, <2>1, <2>2, <2>3 DEF Audit!LinesSound, Audit!Elems
<1>11. Audit!PurgesKeepUnexpired'
  <2> SUFFICES ASSUME NEW e \in recorded \ raced, ~ stamp[e] + Retention[e] < day
               PROVE  \E line \in Audit!Elems(ended) : e \in line.entries
    BY <1>1, <1>9 DEF Audit!PurgesKeepUnexpired, Audit!Elems
  <2>1. PICK i \in DOMAIN log : e \in log[i].entries
    BY DEF Audit!RecordedUntilExpired, Audit!Elems
  <2>2. Audit!Kept(log[i]) BY <2>1 DEF Audit!Kept, Audit!Expires
  <2>3. PICK k \in DOMAIN lines : lines[k] = log[i] BY <1>5, <2>2
  <2> QED BY <1>7, <2>1, <2>3 DEF Audit!Elems
<1>12. Audit!RecordedUntilExpired' /\ Audit!StampsSound'
  BY <1>1 DEF Audit!RecordedUntilExpired, Audit!StampsSound, Audit!Elems
<1>13. Audit!TypeOK'
  BY <1>1, <1>10 DEF Audit!TypeOK, Audit!LinesSound, Audit!LineSound, Audit!Elems
<1> QED BY <1>10, <1>11, <1>12, <1>13

LEMMA AuditReplaces ==
    ASSUME Audit!AuditAssumption, Audit!IInv, NEW p \in Purgers,
           Audit!PurgeReplaces(p) \/ Audit!PurgeFails(p)
    PROVE  Audit!IInv'
<1> USE DEF Audit!IInv
<1>1. /\ UNCHANGED <<day, stamp, recorded, raced>> /\ kept[p].purging
      /\ log' \in {log, kept[p].lines}
      /\ kept' = [kept EXCEPT ![p] = [purging |-> FALSE, lines |-> << >>]]
  BY DEF Audit!PurgeReplaces, Audit!PurgeFails
<1>2. << >> \in Seq(Audit!Line) /\ Audit!Elems(<< >>) = {} BY DEF Audit!Elems
<1>3. /\ kept' \in [Purgers -> [purging : BOOLEAN, lines : Seq(Audit!Line)]]
      /\ \A q \in Purgers : /\ kept'[q].purging => kept'[q] = kept[q]
                            /\ kept'[q].lines \in {kept[q].lines, << >>}
  BY <1>1, <1>2 DEF Audit!LinesSound
<1>4. Audit!LinesSound'
  <2>1. \A line : Audit!LineSound(line) <=> Audit!LineSound(line)' BY <1>1 DEF Audit!LineSound
  <2>2. \A q \in Purgers : \A line \in Audit!Elems(kept'[q].lines) :
            Audit!LineSound(line) /\ ~ line.open
    BY <1>2, <1>3 DEF Audit!LinesSound
  <2>3. log' \in Seq(Audit!Line) /\ \A line \in Audit!Elems(log') : Audit!LineSound(line)
    BY <1>1 DEF Audit!LinesSound
  <2> QED BY <1>3, <2>1, <2>2, <2>3 DEF Audit!LinesSound, Audit!Elems
<1>5. Audit!RecordedUntilExpired'
  BY <1>1 DEF Audit!RecordedUntilExpired, Audit!PurgesKeepUnexpired, Audit!Elems
<1>6. Audit!PurgesKeepUnexpired'
  BY <1>1, <1>3 DEF Audit!PurgesKeepUnexpired, Audit!Elems
<1>7. Audit!StampsSound' BY <1>1 DEF Audit!StampsSound
<1>8. Audit!TypeOK'
  BY <1>1, <1>4 DEF Audit!TypeOK, Audit!LinesSound, Audit!LineSound, Audit!Elems
<1> QED BY <1>4, <1>5, <1>6, <1>7, <1>8

LEMMA AuditStep ==
    ASSUME Audit!AuditAssumption
    PROVE  Audit!IInv /\ [Audit!Next]_(Audit!vars) => Audit!IInv'
<1> SUFFICES ASSUME Audit!IInv, [Audit!Next]_(Audit!vars) PROVE Audit!IInv'
  OBVIOUS
<1>1. CASE Audit!NextDay \/ UNCHANGED Audit!vars
  <2>1. UNCHANGED <<stamp, log, kept, recorded, raced>> /\ day' \in 0..MaxDay /\ day' >= day
    BY <1>1 DEF Audit!NextDay, Audit!vars, Audit!IInv, Audit!TypeOK, Audit!AuditAssumption
  <2>2. Audit!LinesSound' /\ Audit!StampsSound'
    BY <2>1 DEF Audit!IInv, Audit!LinesSound, Audit!LineSound, Audit!StampsSound, Audit!Elems
  <2>3. Audit!TypeOK' BY <2>1 DEF Audit!IInv, Audit!TypeOK, Audit!Elems
  <2>4. \A e \in recorded : stamp[e] + Retention[e] < day => stamp[e] + Retention[e] < day'
    BY <2>1 DEF Audit!IInv, Audit!TypeOK, Audit!StampsSound, Audit!AuditAssumption
  <2>5. Audit!RecordedUntilExpired'
    BY <2>1, <2>4 DEF Audit!IInv, Audit!RecordedUntilExpired, Audit!Elems
  <2>6. Audit!PurgesKeepUnexpired'
    BY <2>1, <2>4 DEF Audit!IInv, Audit!PurgesKeepUnexpired, Audit!Elems
  <2> QED BY <2>2, <2>3, <2>5, <2>6 DEF Audit!IInv
<1> QED BY <1>1, AuditRecord, AuditReads, AuditReplaces DEF Audit!Next

LEMMA AllNextAudit == [AllNext]_allVars => [Audit!Next]_(Audit!vars)
BY DEF AllNext, allVars, OnlyCache, OnlyAudit, OnlyCase, OnlyStore, OnlyWatch, OnlyAlerts,
       OnlyWeb, OnlyGuard, OnlyOutbound, OnlyInbound, auditVars, Audit!vars

\* Whatever is recorded, torn, purged at once and cut short, on any calendar: an entry is
\* in the trail until its retention is over, and a torn write spoils one more.
THEOREM TrailKeeps == ASSUME Audit!AuditAssumption PROVE AllSpec => []TrailHolds
<1>1. AllInit => Audit!IInv BY AuditInit DEF AllInit
<1>2. Audit!IInv /\ [AllNext]_allVars => Audit!IInv' BY AuditStep, AllNextAudit
<1>3. Audit!IInv => TrailHolds
  BY DEF Audit!IInv, Audit!LinesSound, Audit!LineSound, Audit!TornSpoilsOne, TrailHolds
<1> QED BY <1>1, <1>2, <1>3, PTL DEF AllSpec

-----------------------------------------------------------------------------
\* The alerts.  A channel remembers a key for as long as the window at least, and what
\* it remembers is when the key was tried last.

LEMMA AlertsInit == ASSUME Alerts!AlertAssumption, Alerts!Init PROVE Alerts!IInv
BY DEF Alerts!AlertAssumption, Alerts!Init, Alerts!IInv, Alerts!TypeOK, Alerts!EventsOfScan,
       Alerts!RecentIsTried

\* What Changes says of a field of the snapshots, by the type of the event.
LEMMA AlertsOfType ==
    ASSUME Alerts!AlertAssumption, NEW prev \in Snapshots, NEW curr \in Snapshots
    PROVE  /\ {e \in Alerts!Changes(prev, curr) : e.type = <<"source_disappeared">>}
                  = Alerts!Disappeared(prev.items \ curr.items)
           /\ {e \in Alerts!Changes(prev, curr) : e.type = <<"new", e.field>>}
                  = Alerts!Appeared(curr.items \ prev.items)
           /\ {e \in Alerts!Changes(prev, curr) : e.type = <<"risk_score_change">>}
                  = Alerts!RiskChanges(prev, curr)
           /\ {e \in Alerts!Changes(prev, curr) : e.type = <<"attribute_change">>}
                  = Alerts!AttributeChanges(prev, curr)
           /\ {e \in Alerts!Changes(prev, curr) :
                  e.type = <<"field_change">> \/ e.type = <<"new_breach">>}
                  = Alerts!BreachChanges(prev, curr)
<1>1. prev # None BY DEF Alerts!AlertAssumption
<1>2. \A e \in Alerts!Appeared(curr.items \ prev.items) : e.type = <<"new", e.field>>
  BY DEF Alerts!Appeared, Alerts!Event
<1>3. \A e \in Alerts!Disappeared(prev.items \ curr.items) : e.type = <<"source_disappeared">>
  BY DEF Alerts!Disappeared, Alerts!Event
<1>4. \A e \in Alerts!BreachChanges(prev, curr) :
          e.type = <<"field_change">> \/ e.type = <<"new_breach">>
  BY DEF Alerts!BreachChanges, Alerts!Event
<1>5. \A e \in Alerts!RiskChanges(prev, curr) : e.type = <<"risk_score_change">>
  BY DEF Alerts!RiskChanges, Alerts!Event
<1>6. \A e \in Alerts!AttributeChanges(prev, curr) : e.type = <<"attribute_change">>
  BY DEF Alerts!AttributeChanges, Alerts!Event
<1>7. \A e : e \in Alerts!Changes(prev, curr) <=>
          \/ e \in Alerts!Appeared(curr.items \ prev.items)
          \/ e \in Alerts!Disappeared(prev.items \ curr.items)
          \/ e \in Alerts!BreachChanges(prev, curr)
          \/ e \in Alerts!RiskChanges(prev, curr)
          \/ e \in Alerts!AttributeChanges(prev, curr)
  BY <1>1, Zenon DEF Alerts!Changes
<1>8. \A f : /\ <<"new", f>> # <<"source_disappeared">> /\ <<"new", f>> # <<"field_change">>
             /\ <<"new", f>> # <<"new_breach">> /\ <<"new", f>> # <<"risk_score_change">>
             /\ <<"new", f>> # <<"attribute_change">>
  OBVIOUS
<1>9. /\ <<"source_disappeared">> \notin {<<"field_change">>, <<"new_breach">>,
                                          <<"risk_score_change">>, <<"attribute_change">>}
      /\ <<"risk_score_change">> \notin {<<"field_change">>, <<"new_breach">>, <<"attribute_change">>}
      /\ <<"attribute_change">> \notin {<<"field_change">>, <<"new_breach">>}
  OBVIOUS
<1>10. ASSUME NEW e \in Alerts!Changes(prev, curr)
       PROVE  /\ e.type = <<"source_disappeared">>
                     => e \in Alerts!Disappeared(prev.items \ curr.items)
              /\ e.type = <<"new", e.field>> => e \in Alerts!Appeared(curr.items \ prev.items)
              /\ e.type = <<"risk_score_change">> => e \in Alerts!RiskChanges(prev, curr)
              /\ e.type = <<"attribute_change">> => e \in Alerts!AttributeChanges(prev, curr)
              /\ e.type = <<"field_change">> \/ e.type = <<"new_breach">>
                    => e \in Alerts!BreachChanges(prev, curr)
  <2>1. CASE e \in Alerts!Appeared(curr.items \ prev.items) BY <1>2, <1>8, <1>9, <2>1
  <2>2. CASE e \in Alerts!Disappeared(prev.items \ curr.items) BY <1>3, <1>8, <1>9, <2>2
  <2>3. CASE e \in Alerts!BreachChanges(prev, curr) BY <1>4, <1>8, <1>9, <2>3
  <2>4. CASE e \in Alerts!RiskChanges(prev, curr) BY <1>5, <1>8, <1>9, <2>4
  <2>5. CASE e \in Alerts!AttributeChanges(prev, curr) BY <1>6, <1>8, <1>9, <2>5
  <2> QED BY <1>7, <2>1, <2>2, <2>3, <2>4, <2>5
<1>11. {e \in Alerts!Changes(prev, curr) : e.type = <<"source_disappeared">>}
           = Alerts!Disappeared(prev.items \ curr.items)
  BY <1>3, <1>7, <1>10
<1>12. {e \in Alerts!Changes(prev, curr) : e.type = <<"new", e.field>>}
           = Alerts!Appeared(curr.items \ prev.items)
  BY <1>2, <1>7, <1>10
<1>13. {e \in Alerts!Changes(prev, curr) : e.type = <<"risk_score_change">>}
           = Alerts!RiskChanges(prev, curr)
  BY <1>5, <1>7, <1>10
<1>14. {e \in Alerts!Changes(prev, curr) : e.type = <<"attribute_change">>}
           = Alerts!AttributeChanges(prev, curr)
  BY <1>6, <1>7, <1>10
<1>15. {e \in Alerts!Changes(prev, curr) :
           e.type = <<"field_change">> \/ e.type = <<"new_breach">>}
           = Alerts!BreachChanges(prev, curr)
  BY <1>4, <1>7, <1>10
<1> QED BY <1>11, <1>12, <1>13, <1>14, <1>15

\* The items that events tell of are those they were made of.
LEMMA AlertsItems ==
    ASSUME NEW items, \A i \in items : i = <<i[1], i[2]>>
    PROVE  /\ {<<e.field, e.new>> : e \in Alerts!Appeared(items)} = items
           /\ {<<e.field, e.old>> : e \in Alerts!Disappeared(items)} = items
<1>1. ASSUME NEW i \in items
      PROVE  /\ \E e \in Alerts!Appeared(items) : i = <<e.field, e.new>>
             /\ \E e \in Alerts!Disappeared(items) : i = <<e.field, e.old>>
  <2>1. /\ Alerts!Event(<<"new", i[1]>>, i[1], None, i[2]) \in Alerts!Appeared(items)
        /\ Alerts!Event(<<"source_disappeared">>, i[1], i[2], None) \in Alerts!Disappeared(items)
    BY DEF Alerts!Appeared, Alerts!Disappeared
  <2> QED BY <2>1 DEF Alerts!Event
<1>2. ASSUME NEW e \in Alerts!Appeared(items) PROVE <<e.field, e.new>> \in items
  <2>1. PICK i \in items : e = Alerts!Event(<<"new", i[1]>>, i[1], None, i[2])
    BY DEF Alerts!Appeared
  <2>2. e.field = i[1] /\ e.new = i[2] BY <2>1 DEF Alerts!Event
  <2> QED BY <2>2
<1>3. ASSUME NEW e \in Alerts!Disappeared(items) PROVE <<e.field, e.old>> \in items
  <2>1. PICK i \in items : e = Alerts!Event(<<"source_disappeared">>, i[1], i[2], None)
    BY DEF Alerts!Disappeared
  <2>2. e.field = i[1] /\ e.old = i[2] BY <2>1 DEF Alerts!Event
  <2> QED BY <2>2
<1> QED BY <1>1, <1>2, <1>3

\* A field has the value of an event that tells it, or its old one when none does.
LEMMA AlertsTold ==
    ASSUME NEW type, NEW field, NEW value
    PROVE  \/ /\ Alerts!After(type, field, value) = value
              /\ ~ \E e \in events : e.type = type /\ e.field = field
           \/ \E e \in events : /\ e.type = type /\ e.field = field
                                /\ Alerts!After(type, field, value) = e.new
<1>1. CASE {e \in events : e.type = type /\ e.field = field} = {}
  BY <1>1 DEF Alerts!After
<1>2. CASE {e \in events : e.type = type /\ e.field = field} # {}
  BY <1>2 DEF Alerts!After
<1> QED BY <1>1, <1>2

LEMMA AlertsExplain ==
    ASSUME Alerts!AlertAssumption, Alerts!IInv, previous # None
    PROVE  Alerts!EventsExplainScan
<1>1. /\ previous \in Snapshots /\ current \in Snapshots /\ current # None
      /\ events = Alerts!Changes(previous, current)
  BY DEF Alerts!IInv, Alerts!TypeOK, Alerts!EventsOfScan, Alerts!AlertAssumption
<1>2. /\ {d \in events : d.type = <<"source_disappeared">>}
             = Alerts!Disappeared(previous.items \ current.items)
      /\ {d \in events : d.type = <<"new", d.field>>}
             = Alerts!Appeared(current.items \ previous.items)
      /\ {d \in events : d.type = <<"risk_score_change">>} = Alerts!RiskChanges(previous, current)
      /\ {d \in events : d.type = <<"attribute_change">>}
             = Alerts!AttributeChanges(previous, current)
      /\ {d \in events : d.type = <<"field_change">> \/ d.type = <<"new_breach">>}
             = Alerts!BreachChanges(previous, current)
  BY <1>1, AlertsOfType
<1>3. \A i \in previous.items \cup current.items : i = <<i[1], i[2]>>
  BY <1>1 DEF Alerts!AlertAssumption
<1>ev. \A type, field, old, new :
           /\ Alerts!Event(type, field, old, new).type = type
           /\ Alerts!Event(type, field, old, new).field = field
           /\ Alerts!Event(type, field, old, new).old = old
           /\ Alerts!Event(type, field, old, new).new = new
  BY DEF Alerts!Event
<1>4. current.items =
          (previous.items \ {<<e.field, e.old>> : e \in {d \in events : d.type = <<"source_disappeared">>}})
          \cup {<<e.field, e.new>> : e \in {d \in events : d.type = <<"new", d.field>>}}
  <2>1. /\ \A i \in previous.items \ current.items : i = <<i[1], i[2]>>
        /\ \A i \in current.items \ previous.items : i = <<i[1], i[2]>>
    BY <1>3
  <2>2. {<<e.field, e.old>> : e \in Alerts!Disappeared(previous.items \ current.items)}
            = previous.items \ current.items
    BY <2>1, AlertsItems
  <2>3. {<<e.field, e.new>> : e \in Alerts!Appeared(current.items \ previous.items)}
            = current.items \ previous.items
    BY <2>1, AlertsItems
  <2> QED BY <1>2, <2>2, <2>3
<1>5. ASSUME NEW f \in DOMAIN current.risk
      PROVE  current.risk[f] = Alerts!After(<<"risk_score_change">>, f, previous.risk[f])
  <2>1. \A e \in Alerts!RiskChanges(previous, current) : e.field = f => e.new = current.risk[f]
    BY <1>ev DEF Alerts!RiskChanges
  <2>2. ASSUME previous.risk[f] # current.risk[f]
        PROVE  \E e \in Alerts!RiskChanges(previous, current) : e.field = f
    <3>1. Alerts!Event(<<"risk_score_change">>, f, previous.risk[f], current.risk[f])
              \in Alerts!RiskChanges(previous, current)
      BY <1>5, <2>2 DEF Alerts!RiskChanges
    <3> QED BY <1>ev, <3>1
  <2>3. \A e \in events : e.type = <<"risk_score_change">> /\ e.field = f =>
            e.new = current.risk[f]
    BY <1>2, <2>1
  <2>4. previous.risk[f] # current.risk[f] =>
            \E e \in events : e.type = <<"risk_score_change">> /\ e.field = f
    BY <1>2, <2>2
  <2> QED BY <2>3, <2>4, AlertsTold
<1>6. ASSUME NEW f \in DOMAIN current.attributes
      PROVE  current.attributes[f] \in
                 {None, Alerts!After(<<"attribute_change">>, f, previous.attributes[f])}
  <2>1. \A e \in Alerts!AttributeChanges(previous, current) :
            e.field = f => e.new = current.attributes[f]
    BY <1>ev DEF Alerts!AttributeChanges
  <2>2. ASSUME previous.attributes[f] # current.attributes[f], current.attributes[f] # None
        PROVE  \E e \in Alerts!AttributeChanges(previous, current) : e.field = f
    <3>1. Alerts!Event(<<"attribute_change">>, f, previous.attributes[f], current.attributes[f])
              \in Alerts!AttributeChanges(previous, current)
      BY <1>6, <2>2 DEF Alerts!AttributeChanges
    <3> QED BY <1>ev, <3>1
  <2>3. \A e \in events : e.type = <<"attribute_change">> /\ e.field = f =>
            e.new = current.attributes[f]
    BY <1>2, <2>1
  <2>4. CASE current.attributes[f] # None
    <3>1. previous.attributes[f] # current.attributes[f] =>
              \E e \in events : e.type = <<"attribute_change">> /\ e.field = f
      BY <1>2, <2>2, <2>4
    <3> QED BY <2>3, <3>1, AlertsTold
  <2> QED BY <2>4
<1>7. Alerts!Records(current)
          = Alerts!After(<<"field_change">>, "breach_count", Alerts!Records(previous))
  <2> DEFINE before == Alerts!Records(previous)
             now == Alerts!Records(current)
  <2>1. <<"field_change">> # <<"new_breach">> OBVIOUS
  <2>2. \A e \in Alerts!BreachChanges(previous, current) :
            e.type = <<"field_change">> => e.new = now
    BY <1>ev, <2>1 DEF Alerts!BreachChanges
  <2>3. ASSUME before # now
        PROVE  \E e \in Alerts!BreachChanges(previous, current) :
                   e.type = <<"field_change">> /\ e.field = "breach_count"
    <3>1. Alerts!Event(<<"field_change">>, "breach_count", before, now)
              \in Alerts!BreachChanges(previous, current)
      BY <2>3 DEF Alerts!BreachChanges
    <3> QED BY <1>ev, <3>1
  <2> HIDE DEF before, now
  <2>4. \A e \in events : e.type = <<"field_change">>
            => e \in Alerts!BreachChanges(previous, current)
    BY <1>2
  <2>5. \A e \in events : e.type = <<"field_change">> /\ e.field = "breach_count" => e.new = now
    BY <2>2, <2>4
  <2>6. before # now =>
            \E e \in events : e.type = <<"field_change">> /\ e.field = "breach_count"
    BY <1>2, <2>3
  <2>7. Alerts!After(<<"field_change">>, "breach_count", before) = now
    BY <2>5, <2>6, AlertsTold
  <2> QED BY <2>7 DEF before, now
<1>8. Alerts!Names(current) \subseteq
          Alerts!Names(previous) \cup {e.new : e \in {d \in events : d.type = <<"new_breach">>}}
  <2> SUFFICES ASSUME NEW b \in Alerts!Names(current) \ Alerts!Names(previous)
               PROVE  \E e \in events : e.type = <<"new_breach">> /\ e.new = b
    OBVIOUS
  <2>1. Alerts!Event(<<"new_breach">>, "breach", None, b) \in Alerts!BreachChanges(previous, current)
    BY DEF Alerts!BreachChanges
  <2> QED BY <1>2, <1>ev, <2>1
<1> QED BY <1>4, <1>5, <1>6, <1>7, <1>8 DEF Alerts!EventsExplainScan

\* The key of an event tells the field of those that FieldTold speaks of.
LEMMA AlertsFieldTold ==
    ASSUME Alerts!IInv, NEW e \in events, Alerts!FieldTold(e.type)
    PROVE  e.field = Alerts!FieldOf(e.type)
<1>1. ASSUME NEW items, e \in Alerts!Appeared(items) PROVE e.field = Alerts!FieldOf(e.type)
  BY <1>1 DEF Alerts!Appeared, Alerts!Event, Alerts!FieldOf
<1>2. ASSUME NEW items PROVE e \notin Alerts!Disappeared(items)
  BY DEF Alerts!Disappeared, Alerts!Event, Alerts!FieldTold
<1>3. CASE e \in Alerts!BreachChanges(previous, current)
  BY <1>3 DEF Alerts!BreachChanges, Alerts!Event, Alerts!FieldOf
<1>4. e \notin Alerts!RiskChanges(previous, current)
  BY DEF Alerts!RiskChanges, Alerts!Event, Alerts!FieldTold
<1>5. e \notin Alerts!AttributeChanges(previous, current)
  BY DEF Alerts!AttributeChanges, Alerts!Event, Alerts!FieldTold
<1>6. e \in Alerts!Changes(previous, current) BY DEF Alerts!IInv, Alerts!EventsOfScan
<1>7. CASE previous = None BY <1>1, <1>6, <1>7 DEF Alerts!Changes
<1>8. CASE previous # None
  <2>1. \/ e \in Alerts!Appeared(current.items \ previous.items)
        \/ e \in Alerts!Disappeared(previous.items \ current.items)
        \/ e \in Alerts!BreachChanges(previous, current)
        \/ e \in Alerts!RiskChanges(previous, current)
        \/ e \in Alerts!AttributeChanges(previous, current)
    BY <1>6, <1>8, Zenon DEF Alerts!Changes
  <2> QED BY <1>1, <1>2, <1>3, <1>4, <1>5, <2>1
<1> QED BY <1>7, <1>8

\* What a channel forgets, suppressing or delivering, was tried before the window.
LEMMA AlertsSend ==
    ASSUME Alerts!AlertAssumption, Alerts!IInv, NEW e \in events, NEW c \in Channels,
           Alerts!Suppress(e, c) \/ Alerts!Deliver(e, c)
    PROVE  Alerts!IInv'
<1> USE DEF Alerts!IInv
<1>1. UNCHANGED <<minute, previous, current, events>> /\ pending' \subseteq pending
  BY DEF Alerts!Suppress, Alerts!Deliver
<1>2. /\ DOMAIN recent = Channels /\ DOMAIN tried = Channels /\ minute \in Nat
      /\ \A k \in DOMAIN recent[c] : /\ k \in DOMAIN tried[c] /\ recent[c][k] = tried[c][k].time
                                     /\ recent[c][k] \in 0..minute
      /\ \A k \in DOMAIN tried[c] :
            /\ tried[c][k].time \in 0..minute
            /\ k \in DOMAIN recent[c] \/ minute - tried[c][k].time > Window
            /\ Alerts!FieldTold(k[1]) => tried[c][k].field = Alerts!FieldOf(k[1])
  BY DEF Alerts!RecentIsTried, Alerts!TypeOK
<1>3. /\ DOMAIN recent' = Channels /\ DOMAIN tried' = Channels
      /\ \A d \in Channels \ {c} : recent'[d] = recent[d] /\ tried'[d] = tried[d]
  BY <1>2 DEF Alerts!Suppress, Alerts!Deliver
<1>4. /\ \A k \in DOMAIN recent'[c] : /\ k \in DOMAIN tried'[c] /\ recent'[c][k] = tried'[c][k].time
                                      /\ recent'[c][k] \in 0..minute
      /\ \A k \in DOMAIN tried'[c] :
            /\ tried'[c][k].time \in 0..minute
            /\ k \in DOMAIN recent'[c] \/ minute - tried'[c][k].time > Window
            /\ Alerts!FieldTold(k[1]) => tried'[c][k].field = Alerts!FieldOf(k[1])
  <2>1. CASE Alerts!Suppress(e, c)
    <3>1. /\ DOMAIN recent'[c] = {k \in DOMAIN recent[c] : minute - recent[c][k] <= Window}
          /\ \A k \in DOMAIN recent'[c] : recent'[c][k] = recent[c][k]
          /\ tried'[c] = tried[c]
      BY <1>2, <2>1 DEF Alerts!Suppress, Alerts!AfterDuplicate, Alerts!Kept
    <3> QED BY <1>2, <3>1 DEF Alerts!AlertAssumption
  <2>2. CASE Alerts!Deliver(e, c)
    <3> DEFINE itsKey == Alerts!Key(e)
               try == [time |-> minute, field |-> IF Alerts!FieldTold(e.type) THEN e.field ELSE None]
    <3>1. /\ DOMAIN recent'[c]
                 = {k \in DOMAIN recent[c] : minute - recent[c][k] <= Window} \cup {itsKey}
          /\ \A k \in DOMAIN recent'[c] : recent'[c][k] = IF k
                 = itsKey THEN minute ELSE recent[c][k]
          /\ DOMAIN tried'[c] = DOMAIN tried[c] \cup {itsKey}
          /\ \A k \in DOMAIN tried'[c] : tried'[c][k] = IF k = itsKey THEN try ELSE tried[c][k]
      BY <1>2, <2>2 DEF Alerts!Deliver, Alerts!Kept
    <3>2. /\ try.time = minute
          /\ Alerts!FieldTold(itsKey[1]) => try.field = Alerts!FieldOf(itsKey[1])
      BY AlertsFieldTold DEF Alerts!Key
    <3> HIDE DEF itsKey, try
    <3> QED BY <1>2, <3>1, <3>2 DEF Alerts!AlertAssumption
  <2> QED BY <2>1, <2>2
<1>5. Alerts!TypeOK'
  BY <1>1, <1>3, <1>4 DEF Alerts!TypeOK
<1>6. Alerts!RecentIsTried' BY <1>1, <1>3, <1>4 DEF Alerts!RecentIsTried
<1>7. Alerts!EventsOfScan' BY <1>1 DEF Alerts!EventsOfScan
<1> QED BY <1>5, <1>6, <1>7

LEMMA AlertsStep ==
    ASSUME Alerts!AlertAssumption
    PROVE  Alerts!IInv /\ [Alerts!Next]_(Alerts!vars) => Alerts!IInv'
<1> SUFFICES ASSUME Alerts!IInv, [Alerts!Next]_(Alerts!vars) PROVE Alerts!IInv'
  OBVIOUS
<1>1. CASE Alerts!Tick
  <2>1. /\ UNCHANGED <<previous, current, events, pending, recent, tried>>
        /\ minute' = minute + 1 /\ minute \in Nat /\ Window \in Nat
    BY <1>1 DEF Alerts!Tick, Alerts!IInv, Alerts!TypeOK, Alerts!AlertAssumption
  <2> QED BY <2>1 DEF Alerts!IInv, Alerts!TypeOK, Alerts!EventsOfScan, Alerts!RecentIsTried
<1>2. CASE UNCHANGED Alerts!vars
  BY <1>2 DEF Alerts!vars, Alerts!IInv, Alerts!TypeOK, Alerts!EventsOfScan, Alerts!RecentIsTried
<1>3. ASSUME NEW snap \in Snapshots, Alerts!Scan(snap) PROVE Alerts!IInv'
  BY <1>3 DEF Alerts!Scan, Alerts!IInv, Alerts!TypeOK, Alerts!EventsOfScan, Alerts!RecentIsTried,
              Alerts!AlertAssumption
<1> QED BY <1>1, <1>2, <1>3, AlertsSend DEF Alerts!Next

\* A delivery is of a key that was not tried within the window, a suppression of one
\* that was.
LEMMA AlertsTimely ==
    ASSUME Alerts!AlertAssumption, Alerts!IInv, [Alerts!Next]_(Alerts!vars)
    PROVE  /\ \A c \in Channels : \A k \in DOMAIN tried[c] :
                  tried'[c][k] # tried[c][k] => tried'[c][k].time - tried[c][k].time > Window
           /\ \A e \in events, c \in Channels : <<e, c>> \in pending \ pending' =>
                  /\ Alerts!Key(e) \in DOMAIN tried'[c]
                  /\ minute - tried'[c][Alerts!Key(e)].time <= Window
                  /\ Alerts!FieldTold(e.type) => tried'[c][Alerts!Key(e)].field = e.field
<1> USE DEF Alerts!IInv
<1>1. /\ DOMAIN recent = Channels /\ DOMAIN tried = Channels /\ minute \in Nat /\ Window \in Nat
      /\ \A c \in Channels :
            /\ \A k \in DOMAIN recent[c] : k \in DOMAIN tried[c] /\ recent[c][k] = tried[c][k].time
            /\ \A k \in DOMAIN tried[c] :
                  /\ tried[c][k].time \in 0..minute
                  /\ k \in DOMAIN recent[c] \/ minute - tried[c][k].time > Window
                  /\ Alerts!FieldTold(k[1]) => tried[c][k].field = Alerts!FieldOf(k[1])
  BY DEF Alerts!RecentIsTried, Alerts!TypeOK, Alerts!AlertAssumption
<1>2. CASE Alerts!Tick \/ (\E snap \in Snapshots : Alerts!Scan(snap)) \/ UNCHANGED Alerts!vars
  BY <1>2 DEF Alerts!Tick, Alerts!Scan, Alerts!vars
<1>3. ASSUME NEW d \in events, NEW b \in Channels, Alerts!Suppress(d, b)
      PROVE  /\ tried' = tried /\ pending \ pending' \subseteq {<<d, b>>}
             /\ Alerts!Key(d) \in DOMAIN tried[b] /\ minute - tried[b][Alerts!Key(d)].time <= Window
             /\ Alerts!FieldTold(d.type) => tried[b][Alerts!Key(d)].field = d.field
  <2>1. /\ tried' = tried /\ pending \ pending' \subseteq {<<d, b>>}
        /\ Alerts!Key(d) \in DOMAIN tried[b] /\ minute - tried[b][Alerts!Key(d)].time <= Window
    BY <1>1, <1>3 DEF Alerts!Suppress, Alerts!Kept
  <2>2. Alerts!Key(d)[1] = d.type BY DEF Alerts!Key
  <2> QED BY <1>1, <2>1, <2>2, AlertsFieldTold
<1>4. ASSUME NEW d \in events, NEW b \in Channels, Alerts!Deliver(d, b)
      PROVE  /\ pending \ pending' \subseteq {<<d, b>>}
             /\ \A c \in Channels \ {b} : tried'[c] = tried[c]
             /\ DOMAIN tried'[b] = DOMAIN tried[b] \cup {Alerts!Key(d)}
             /\ \A k \in DOMAIN tried[b] : k # Alerts!Key(d) => tried'[b][k] = tried[b][k]
             /\ tried'[b][Alerts!Key(d)].time = minute
             /\ Alerts!FieldTold(d.type) => tried'[b][Alerts!Key(d)].field = d.field
             /\ Alerts!Key(d) \in DOMAIN tried[b] => minute - tried[b][Alerts!Key(d)].time > Window
  <2>1. Alerts!Key(d) \in DOMAIN tried[b] => minute - tried[b][Alerts!Key(d)].time > Window
    BY <1>1, <1>4 DEF Alerts!Deliver, Alerts!Kept
  <2> DEFINE try == [time |-> minute, field |-> IF Alerts!FieldTold(d.type) THEN d.field ELSE None]
  <2>2. /\ pending \ pending' \subseteq {<<d, b>>}
        /\ \A c \in Channels \ {b} : tried'[c] = tried[c]
        /\ DOMAIN tried'[b] = DOMAIN tried[b] \cup {Alerts!Key(d)}
        /\ \A k \in DOMAIN tried[b] : k # Alerts!Key(d) => tried'[b][k] = tried[b][k]
        /\ tried'[b][Alerts!Key(d)] = try
    BY <1>1, <1>4 DEF Alerts!Deliver
  <2>3. try.time = minute /\ (Alerts!FieldTold(d.type) => try.field = d.field) OBVIOUS
  <2> QED BY <2>1, <2>2, <2>3
<1>5. CASE \E d \in events, b \in Channels : Alerts!Suppress(d, b)
  BY <1>3, <1>5
<1>6. CASE \E d \in events, b \in Channels : Alerts!Deliver(d, b)
  <2>1. PICK d \in events, b \in Channels : Alerts!Deliver(d, b) BY <1>6
  <2>2. /\ pending \ pending' \subseteq {<<d, b>>}
        /\ \A c \in Channels \ {b} : tried'[c] = tried[c]
        /\ DOMAIN tried'[b] = DOMAIN tried[b] \cup {Alerts!Key(d)}
        /\ \A k \in DOMAIN tried[b] : k # Alerts!Key(d) => tried'[b][k] = tried[b][k]
        /\ tried'[b][Alerts!Key(d)].time = minute
        /\ Alerts!FieldTold(d.type) => tried'[b][Alerts!Key(d)].field = d.field
        /\ Alerts!Key(d) \in DOMAIN tried[b] => minute - tried[b][Alerts!Key(d)].time > Window
    BY <1>4, <2>1
  <2>3. \A c \in Channels : \A k \in DOMAIN tried[c] :
            tried'[c][k] # tried[c][k] => tried'[c][k].time - tried[c][k].time > Window
    BY <1>1, <2>2
  <2>4. minute - tried'[b][Alerts!Key(d)].time <= Window BY <1>1, <2>2
  <2>5. \A e \in events, c \in Channels : <<e, c>> \in pending \ pending' => e = d /\ c = b
    BY <2>2
  <2> QED BY <2>2, <2>3, <2>4, <2>5
<1> QED BY <1>2, <1>5, <1>6 DEF Alerts!Next

LEMMA AllNextAlerts == [AllNext]_allVars => [Alerts!Next]_(Alerts!vars)
BY DEF AllNext, allVars, OnlyCache, OnlyAudit, OnlyCase, OnlyStore, OnlyWatch, OnlyAlerts,
       OnlyWeb, OnlyGuard, OnlyOutbound, OnlyInbound, alertVars, Alerts!vars

\* For any snapshots, channels and window: the events of a scan lead from the snapshot
\* before to the current one, no event is tried twice within the window, and none is
\* suppressed unless one of its type and values was tried within it, and one of its
\* field if the type or the values tell the field.
THEOREM AlertsTellChanges == ASSUME Alerts!AlertAssumption PROVE AllSpec => AlertsHold
<1>1. AllInit => Alerts!IInv BY AlertsInit DEF AllInit
<1>2. Alerts!IInv /\ [AllNext]_allVars => Alerts!IInv' BY AlertsStep, AllNextAlerts
<1>3. Alerts!IInv => Alerts!TypeOK /\ Alerts!EventsExplainScan
  BY AlertsExplain DEF Alerts!IInv, Alerts!EventsExplainScan
<1>4. Alerts!IInv /\ [AllNext]_allVars =>
          [\A c \in Channels : \A k \in DOMAIN tried[c] :
              tried'[c][k] # tried[c][k]
                  => tried'[c][k].time - tried[c][k].time > Window]_(Alerts!vars)
  BY AlertsTimely, AllNextAlerts
<1>5. Alerts!IInv /\ [AllNext]_allVars =>
          [\A e \in events, c \in Channels :
              <<e, c>> \in pending \ pending' =>
                  /\ Alerts!Key(e) \in DOMAIN tried'[c]
                  /\ minute - tried'[c][Alerts!Key(e)].time <= Window
                  /\ Alerts!FieldTold(e.type) => tried'[c][Alerts!Key(e)].field = e.field
          ]_(Alerts!vars)
  BY AlertsTimely, AllNextAlerts
<1>6. AllSpec => [](Alerts!TypeOK /\ Alerts!EventsExplainScan)
  BY <1>1, <1>2, <1>3, PTL DEF AllSpec
<1>7. AllSpec => Alerts!NotTwiceInWindow
  BY <1>1, <1>2, <1>4, PTL DEF AllSpec, Alerts!NotTwiceInWindow
<1>8. AllSpec => Alerts!SilenceEnds
  BY <1>1, <1>2, <1>5, PTL DEF AllSpec, Alerts!SilenceEnds
<1> QED BY <1>6, <1>7, <1>8 DEF AlertsHold

-----------------------------------------------------------------------------
\* The response cache.  No lock orders the processes, so the argument is about what one of
\* them remembers from one of its steps to the next: TempsOfSets of its temporary file,
\* SeenExpired of the entry it is about to unlink.


\* What is found expired stays so until it is unlinked, unless it is set again.
LEMMA CacheGetExpiredStep ==
    ASSUME Cache!CacheAssumption, Cache!IInv, NEW p \in Procs, NEW k \in Keys,
           Cache!GetExpired(p, k)
    PROVE  Cache!IInv'
<1> USE DEF Cache!IInv
<1>1. Cache!TypeOK' BY DEF Cache!GetExpired, Cache!TypeOK, Cache!Ops
<1>2. Cache!EntriesAreWhole' BY DEF Cache!GetExpired, Cache!EntriesAreWhole, Cache!TypeOK
<1>3. Cache!QuickSetsSucceed' BY DEF Cache!GetExpired, Cache!QuickSetsSucceed, Cache!TempsOfSets
<1>4. Cache!LossesAreRenewals' BY DEF Cache!GetExpired, Cache!LossesAreRenewals
<1>5. Cache!TempsOfSets' BY DEF Cache!GetExpired, Cache!TempsOfSets
<1>6. Cache!SeenExpired' BY DEF Cache!GetExpired, Cache!SeenExpired, Cache!Expired, Cache!TypeOK
<1> QED BY <1>1, <1>2, <1>3, <1>4, <1>5, <1>6

\* What is unlinked has expired, or was set again since it was read.
LEMMA CacheUnlinkExpiredStep ==
    ASSUME Cache!CacheAssumption, Cache!IInv, NEW p \in Procs, Cache!UnlinkExpired(p)
    PROVE  Cache!IInv'
<1> USE DEF Cache!IInv
<1>entry. DOMAIN entry' = DOMAIN entry \ {key[p]} /\ \A y \in DOMAIN entry' : entry'[y] = entry[y]
  BY DEF Cache!UnlinkExpired, Cache!Unlink, Cache!Without, Cache!Only
<1>1. Cache!TypeOK'
  BY <1>entry DEF Cache!UnlinkExpired, Cache!Unlink, Cache!TypeOK, Cache!Ops, Cache!CacheAssumption
<1>2. Cache!EntriesAreWhole'
  BY <1>entry DEF Cache!UnlinkExpired, Cache!Unlink, Cache!EntriesAreWhole, Cache!TypeOK
<1>3. Cache!QuickSetsSucceed'
  BY <1>entry DEF Cache!UnlinkExpired, Cache!QuickSetsSucceed, Cache!TempsOfSets
<1>4. Cache!LossesAreRenewals'
  BY <1>entry DEF Cache!UnlinkExpired, Cache!Unlink, Cache!LossesAreRenewals, Cache!SeenExpired
<1>5. Cache!TempsOfSets'
  BY <1>entry DEF Cache!UnlinkExpired, Cache!Unlink, Cache!TempsOfSets, Cache!TypeOK
<1>6. Cache!SeenExpired'
  BY <1>entry DEF Cache!UnlinkExpired, Cache!SeenExpired, Cache!Expired, Cache!TypeOK
<1> QED BY <1>1, <1>2, <1>3, <1>4, <1>5, <1>6

\* A set that begins has a temporary file.
LEMMA CacheSetStartStep ==
    ASSUME Cache!CacheAssumption, Cache!IInv, NEW p \in Procs, NEW k \in Keys, Cache!SetStart(p, k)
    PROVE  Cache!IInv'
<1> USE DEF Cache!IInv
<1>temp. /\ DOMAIN temp' = DOMAIN temp \cup {p} /\ temp'[p] = [since |-> clock, whole |-> FALSE]
         /\ \A y \in DOMAIN temp : y # p => temp'[y] = temp[y]
  BY DEF Cache!SetStart, Cache!With
<1>1. Cache!TypeOK'
  <2>1. temp'[p] \in [since : Nat, whole : BOOLEAN] BY <1>temp DEF Cache!TypeOK
  <2>2. \A q \in DOMAIN temp' : temp'[q] \in [since : Nat, whole : BOOLEAN]
    BY <1>temp, <2>1 DEF Cache!TypeOK
  <2> QED BY <1>temp, <2>2 DEF Cache!SetStart, Cache!TypeOK, Cache!Ops
<1>2. Cache!EntriesAreWhole'
  BY <1>temp DEF Cache!SetStart, Cache!EntriesAreWhole, Cache!TypeOK, Cache!TempsOfSets
<1>3. Cache!QuickSetsSucceed'
  BY <1>temp DEF Cache!SetStart, Cache!QuickSetsSucceed, Cache!TempsOfSets
<1>4. Cache!LossesAreRenewals' BY <1>temp DEF Cache!SetStart, Cache!LossesAreRenewals
<1>5. Cache!TempsOfSets'
  <2>1. /\ op' = [op EXCEPT ![p] = "writing"] /\ started' = [started EXCEPT ![p] = clock]
        /\ clock' = clock
    BY DEF Cache!SetStart
  <2>2. p \in DOMAIN temp' /\ temp'[p].since = clock BY <1>temp
  <2>3. \A q \in Procs \ {p} : q \in DOMAIN temp' <=> q \in DOMAIN temp BY <1>temp
  <2>4. \A q \in Procs \ {p} : q \in DOMAIN temp => temp'[q] = temp[q] BY <1>temp
  <2> QED BY <2>1, <2>2, <2>3, <2>4 DEF Cache!TempsOfSets, Cache!TypeOK
<1>6. Cache!SeenExpired'
  BY <1>temp DEF Cache!SetStart, Cache!SeenExpired, Cache!Expired, Cache!TempsOfSets,
     Cache!CacheAssumption
<1> QED BY <1>1, <1>2, <1>3, <1>4, <1>5, <1>6

LEMMA CacheSetSyncStep ==
    ASSUME Cache!CacheAssumption, Cache!IInv, NEW p \in Procs, Cache!SetSync(p)
    PROVE  Cache!IInv'
<1> USE DEF Cache!IInv
<1>temp. /\ DOMAIN temp' = DOMAIN temp
         /\ p \in DOMAIN temp => temp'[p] = [since |-> clock, whole |-> TRUE]
         /\ \A y \in DOMAIN temp : y # p => temp'[y] = temp[y]
  BY DEF Cache!SetSync, Cache!With
<1>1. Cache!TypeOK'
  <2>1. p \in DOMAIN temp => temp'[p] \in [since : Nat, whole : BOOLEAN]
    <3>1. [since |-> clock, whole |-> TRUE] \in [since : Nat, whole : BOOLEAN] BY DEF Cache!TypeOK
    <3> QED BY <1>temp, <3>1
  <2>2. \A q \in DOMAIN temp' : temp'[q] \in [since : Nat, whole : BOOLEAN]
    BY <1>temp, <2>1 DEF Cache!TypeOK
  <2> QED BY <1>temp, <2>2 DEF Cache!SetSync, Cache!TypeOK, Cache!Ops
<1>2. Cache!EntriesAreWhole'
  BY <1>temp DEF Cache!SetSync, Cache!EntriesAreWhole, Cache!TypeOK, Cache!TempsOfSets
<1>3. Cache!QuickSetsSucceed'
  BY <1>temp DEF Cache!SetSync, Cache!QuickSetsSucceed, Cache!TempsOfSets
<1>4. Cache!LossesAreRenewals' BY <1>temp DEF Cache!SetSync, Cache!LossesAreRenewals
<1>5. Cache!TempsOfSets'
  <2>1. /\ op[p] = "writing" /\ op' = [op EXCEPT ![p] = "synced"]
        /\ UNCHANGED started /\ clock' = clock
    BY DEF Cache!SetSync
  <2>2. p \in DOMAIN temp => temp'[p].since = clock /\ temp'[p].whole BY <1>temp
  <2>3. \A q \in Procs \ {p} : q \in DOMAIN temp => temp'[q] = temp[q] BY <1>temp
  <2> QED BY <1>temp, <2>1, <2>2, <2>3 DEF Cache!TempsOfSets
<1>6. Cache!SeenExpired' BY <1>temp DEF Cache!SetSync, Cache!SeenExpired, Cache!Expired
<1> QED BY <1>1, <1>2, <1>3, <1>4, <1>5, <1>6

LEMMA CacheSetFailsStep ==
    ASSUME Cache!CacheAssumption, Cache!IInv, NEW p \in Procs, Cache!SetFails(p)
    PROVE  Cache!IInv'
<1> USE DEF Cache!IInv
<1>temp. DOMAIN temp' = DOMAIN temp \ {p} /\ \A y \in DOMAIN temp' : temp'[y] = temp[y]
  BY DEF Cache!SetFails, Cache!Without, Cache!Only
<1>1. Cache!TypeOK' BY <1>temp DEF Cache!SetFails, Cache!TypeOK, Cache!Ops, Cache!CacheAssumption
<1>2. Cache!EntriesAreWhole' BY <1>temp DEF Cache!SetFails, Cache!EntriesAreWhole, Cache!TypeOK
<1>3. Cache!QuickSetsSucceed'
  BY <1>temp DEF Cache!SetFails, Cache!QuickSetsSucceed, Cache!TempsOfSets
<1>4. Cache!LossesAreRenewals' BY <1>temp DEF Cache!SetFails, Cache!LossesAreRenewals
<1>5. Cache!TempsOfSets' BY <1>temp DEF Cache!SetFails, Cache!TempsOfSets, Cache!TypeOK
<1>6. Cache!SeenExpired'
  BY <1>temp DEF Cache!SetFails, Cache!SeenExpired, Cache!Expired, Cache!TypeOK, Cache!TempsOfSets
<1> QED BY <1>1, <1>2, <1>3, <1>4, <1>5, <1>6

\* The file that is renamed was synced, so it is whole; a set whose file is gone took long.
LEMMA CacheSetReplaceStep ==
    ASSUME Cache!CacheAssumption, Cache!IInv, NEW p \in Procs, Cache!SetReplace(p)
    PROVE  Cache!IInv'
<1> USE DEF Cache!IInv
<1>temp. DOMAIN temp' = DOMAIN temp \ {p} /\ \A y \in DOMAIN temp' : temp'[y] = temp[y]
  BY DEF Cache!SetReplace, Cache!Without, Cache!Only
<1>entry. p \in DOMAIN temp =>
        /\ DOMAIN entry' = DOMAIN entry \cup {key[p]}
        /\ entry'[key[p]] = [expires |-> started[p] + TTL, whole |-> temp[p].whole]
        /\ \A y \in DOMAIN entry : y # key[p] => entry'[y] = entry[y]
  BY DEF Cache!SetReplace, Cache!With
<1>1. Cache!TypeOK'
  <2>1. \A k \in DOMAIN entry' : entry'[k] \in [expires : Nat, whole : BOOLEAN]
    <3>1. p \in DOMAIN temp => entry'[key[p]] \in [expires : Nat, whole : BOOLEAN]
      BY <1>entry DEF Cache!TypeOK, Cache!CacheAssumption
    <3>2. p \notin DOMAIN temp => entry' = entry BY DEF Cache!SetReplace
    <3> QED BY <1>entry, <3>1, <3>2 DEF Cache!TypeOK
  <2>2. DOMAIN entry' \subseteq Keys BY <1>entry DEF Cache!SetReplace, Cache!TypeOK
  <2>3. hasty' \in BOOLEAN BY DEF Cache!SetReplace, Cache!TypeOK
  <2>4. renewed' \subseteq Procs BY DEF Cache!SetReplace, Cache!TypeOK
  <2>5. \A q \in DOMAIN temp' : temp'[q] \in [since : Nat, whole : BOOLEAN]
    BY <1>temp DEF Cache!TypeOK
  <2> QED BY <1>temp, <2>1, <2>2, <2>3, <2>4, <2>5 DEF Cache!SetReplace, Cache!TypeOK, Cache!Ops
<1>2. Cache!EntriesAreWhole'
  BY <1>temp, <1>entry DEF Cache!SetReplace, Cache!EntriesAreWhole, Cache!TypeOK, Cache!TempsOfSets
<1>3. Cache!QuickSetsSucceed'
  BY <1>temp, <1>entry DEF Cache!SetReplace, Cache!QuickSetsSucceed, Cache!TempsOfSets,
     Cache!TypeOK, Cache!CacheAssumption
<1>4. Cache!LossesAreRenewals'
  BY <1>temp, <1>entry DEF Cache!SetReplace, Cache!LossesAreRenewals, Cache!SeenExpired,
     Cache!TypeOK
<1>5. Cache!TempsOfSets' BY <1>temp, <1>entry DEF Cache!SetReplace, Cache!TempsOfSets, Cache!TypeOK
<1>6. Cache!SeenExpired'
  BY <1>temp, <1>entry DEF Cache!SetReplace, Cache!SeenExpired, Cache!Expired, Cache!TypeOK,
     Cache!TempsOfSets
<1> QED BY <1>1, <1>2, <1>3, <1>4, <1>5, <1>6

LEMMA CacheDeleteStep ==
    ASSUME Cache!CacheAssumption, Cache!IInv, NEW k \in Keys, Cache!Delete(k)
    PROVE  Cache!IInv'
<1> USE DEF Cache!IInv
<1>entry. DOMAIN entry' = DOMAIN entry \ {k} /\ \A y \in DOMAIN entry' : entry'[y] = entry[y]
  BY DEF Cache!Delete, Cache!Without, Cache!Only
<1>1. Cache!TypeOK' BY <1>entry DEF Cache!Delete, Cache!TypeOK, Cache!Ops, Cache!CacheAssumption
<1>2. Cache!EntriesAreWhole' BY <1>entry DEF Cache!Delete, Cache!EntriesAreWhole
<1>3. Cache!QuickSetsSucceed'
  BY <1>entry DEF Cache!Delete, Cache!QuickSetsSucceed, Cache!TempsOfSets
<1>4. Cache!LossesAreRenewals'
  BY <1>entry DEF Cache!Delete, Cache!LossesAreRenewals, Cache!SeenExpired, Cache!TypeOK
<1>5. Cache!TempsOfSets'
  BY <1>entry DEF Cache!Delete, Cache!TempsOfSets, Cache!TypeOK, Cache!CacheAssumption
<1>6. Cache!SeenExpired'
  BY <1>entry DEF Cache!Delete, Cache!SeenExpired, Cache!Expired, Cache!TypeOK
<1> QED BY <1>1, <1>2, <1>3, <1>4, <1>5, <1>6

LEMMA CachePruneStartStep ==
    ASSUME Cache!CacheAssumption, Cache!IInv, NEW p \in Procs, Cache!PruneStart(p)
    PROVE  Cache!IInv'
<1> USE DEF Cache!IInv
<1>1. Cache!TypeOK' BY DEF Cache!PruneStart, Cache!TypeOK, Cache!Ops
<1>2. Cache!EntriesAreWhole' BY DEF Cache!PruneStart, Cache!EntriesAreWhole, Cache!TypeOK
<1>3. Cache!QuickSetsSucceed' BY DEF Cache!PruneStart, Cache!QuickSetsSucceed, Cache!TempsOfSets
<1>4. Cache!LossesAreRenewals' BY DEF Cache!PruneStart, Cache!LossesAreRenewals
<1>5. Cache!TempsOfSets' BY DEF Cache!PruneStart, Cache!TempsOfSets, Cache!TypeOK
<1>6. Cache!SeenExpired'
  BY DEF Cache!PruneStart, Cache!SeenExpired, Cache!Expired, Cache!TypeOK, Cache!TempsOfSets
<1> QED BY <1>1, <1>2, <1>3, <1>4, <1>5, <1>6

\* A prune reads by the clock of its beginning, so what it finds expired has expired.
LEMMA CachePruneLookStep ==
    ASSUME Cache!CacheAssumption, Cache!IInv, NEW p \in Procs, NEW k \in Keys, Cache!PruneLook(p, k)
    PROVE  Cache!IInv'
<1> USE DEF Cache!IInv
<1>1. Cache!TypeOK' BY DEF Cache!PruneLook, Cache!TypeOK, Cache!Ops
<1>2. Cache!EntriesAreWhole' BY DEF Cache!PruneLook, Cache!EntriesAreWhole, Cache!TypeOK
<1>3. Cache!QuickSetsSucceed' BY DEF Cache!PruneLook, Cache!QuickSetsSucceed, Cache!TempsOfSets
<1>4. Cache!LossesAreRenewals' BY DEF Cache!PruneLook, Cache!LossesAreRenewals
<1>5. Cache!TempsOfSets' BY DEF Cache!PruneLook, Cache!TempsOfSets, Cache!TypeOK
<1>6. Cache!SeenExpired'
  BY DEF Cache!PruneLook, Cache!SeenExpired, Cache!Expired, Cache!TypeOK, Cache!TempsOfSets
<1> QED BY <1>1, <1>2, <1>3, <1>4, <1>5, <1>6

LEMMA CachePruneUnlinkStep ==
    ASSUME Cache!CacheAssumption, Cache!IInv, NEW p \in Procs, Cache!PruneUnlink(p)
    PROVE  Cache!IInv'
<1> USE DEF Cache!IInv
<1>entry. DOMAIN entry' = DOMAIN entry \ {key[p]} /\ \A y \in DOMAIN entry' : entry'[y] = entry[y]
  BY DEF Cache!PruneUnlink, Cache!Unlink, Cache!Without, Cache!Only
<1>1. Cache!TypeOK'
  BY <1>entry DEF Cache!PruneUnlink, Cache!Unlink, Cache!TypeOK, Cache!Ops, Cache!CacheAssumption
<1>2. Cache!EntriesAreWhole'
  BY <1>entry DEF Cache!PruneUnlink, Cache!Unlink, Cache!EntriesAreWhole, Cache!TypeOK
<1>3. Cache!QuickSetsSucceed'
  BY <1>entry DEF Cache!PruneUnlink, Cache!QuickSetsSucceed, Cache!TempsOfSets
<1>4. Cache!LossesAreRenewals'
  BY <1>entry DEF Cache!PruneUnlink, Cache!Unlink, Cache!LossesAreRenewals, Cache!SeenExpired
<1>5. Cache!TempsOfSets'
  BY <1>entry DEF Cache!PruneUnlink, Cache!Unlink, Cache!TempsOfSets, Cache!TypeOK
<1>6. Cache!SeenExpired'
  BY <1>entry DEF Cache!PruneUnlink, Cache!SeenExpired, Cache!Expired, Cache!TypeOK
<1> QED BY <1>1, <1>2, <1>3, <1>4, <1>5, <1>6

\* A temporary file that is removed is older than any quick set.
LEMMA CachePruneTempsStep ==
    ASSUME Cache!CacheAssumption, Cache!IInv, NEW p \in Procs, Cache!PruneTemps(p)
    PROVE  Cache!IInv'
<1> USE DEF Cache!IInv
<1>temp. /\ DOMAIN temp' = {q \in DOMAIN temp : clock - temp[q].since < MinAge}
         /\ \A y \in DOMAIN temp' : temp'[y] = temp[y]
  BY DEF Cache!PruneTemps, Cache!Only
<1>1. Cache!TypeOK' BY <1>temp DEF Cache!PruneTemps, Cache!TypeOK, Cache!Ops, Cache!CacheAssumption
<1>2. Cache!EntriesAreWhole' BY <1>temp DEF Cache!PruneTemps, Cache!EntriesAreWhole, Cache!TypeOK
<1>3. Cache!QuickSetsSucceed'
  BY <1>temp DEF Cache!PruneTemps, Cache!QuickSetsSucceed, Cache!TempsOfSets
<1>4. Cache!LossesAreRenewals' BY <1>temp DEF Cache!PruneTemps, Cache!LossesAreRenewals
<1>5. Cache!TempsOfSets'
  BY <1>temp DEF Cache!PruneTemps, Cache!TempsOfSets, Cache!TypeOK, Cache!CacheAssumption
<1>6. Cache!SeenExpired'
  BY <1>temp DEF Cache!PruneTemps, Cache!SeenExpired, Cache!Expired, Cache!TypeOK,
     Cache!TempsOfSets, Cache!CacheAssumption
<1> QED BY <1>1, <1>2, <1>3, <1>4, <1>5, <1>6

LEMMA CacheDiesStep ==
    ASSUME Cache!CacheAssumption, Cache!IInv, NEW p \in Procs, Cache!Dies(p)
    PROVE  Cache!IInv'
<1> USE DEF Cache!IInv
<1>1. Cache!TypeOK' BY DEF Cache!Dies, Cache!TypeOK, Cache!Ops
<1>2. Cache!EntriesAreWhole' BY DEF Cache!Dies, Cache!EntriesAreWhole, Cache!TypeOK
<1>3. Cache!QuickSetsSucceed' BY DEF Cache!Dies, Cache!QuickSetsSucceed, Cache!TempsOfSets
<1>4. Cache!LossesAreRenewals' BY DEF Cache!Dies, Cache!LossesAreRenewals
<1>5. Cache!TempsOfSets' BY DEF Cache!Dies, Cache!TempsOfSets
<1>6. Cache!SeenExpired' BY DEF Cache!Dies, Cache!SeenExpired, Cache!Expired, Cache!TypeOK
<1> QED BY <1>1, <1>2, <1>3, <1>4, <1>5, <1>6

\* What has expired stays expired.
LEMMA CacheTickStep ==
    ASSUME Cache!CacheAssumption, Cache!IInv, Cache!Tick
    PROVE  Cache!IInv'
<1> USE DEF Cache!IInv
<1>1. Cache!TypeOK' BY DEF Cache!Tick, Cache!TypeOK
<1>2. Cache!EntriesAreWhole' BY DEF Cache!Tick, Cache!EntriesAreWhole
<1>3. Cache!QuickSetsSucceed' BY DEF Cache!Tick, Cache!QuickSetsSucceed, Cache!TempsOfSets
<1>4. Cache!LossesAreRenewals' BY DEF Cache!Tick, Cache!LossesAreRenewals
<1>5. Cache!TempsOfSets' BY DEF Cache!Tick, Cache!TempsOfSets, Cache!TypeOK, Cache!CacheAssumption
<1>6. Cache!SeenExpired'
  BY DEF Cache!Tick, Cache!SeenExpired, Cache!Expired, Cache!TypeOK, Cache!TempsOfSets,
     Cache!CacheAssumption
<1> QED BY <1>1, <1>2, <1>3, <1>4, <1>5, <1>6

LEMMA CacheInit == ASSUME Cache!CacheAssumption PROVE Cache!Init => Cache!IInv
<1> SUFFICES ASSUME Cache!Init PROVE Cache!IInv
  OBVIOUS
<1>1. DOMAIN entry = {} /\ DOMAIN temp = {} BY DEF Cache!Init
<1>2. \A p \in Procs : op[p] = "idle" /\ started[p] = 0 BY DEF Cache!Init
<1>3. Cache!TypeOK
  <2>1. op \in [Procs -> Cache!Ops] BY DEF Cache!Init, Cache!Ops
  <2>2. started \in [Procs -> Nat] /\ todo \in [Procs -> SUBSET Keys] BY DEF Cache!Init
  <2> QED BY <1>1, <2>1, <2>2 DEF Cache!Init, Cache!TypeOK
<1>4. Cache!EntriesAreWhole BY <1>1 DEF Cache!EntriesAreWhole
<1>5. Cache!QuickSetsSucceed /\ Cache!LossesAreRenewals
  BY DEF Cache!Init, Cache!QuickSetsSucceed, Cache!LossesAreRenewals
<1>6. Cache!TempsOfSets BY <1>2 DEF Cache!Init, Cache!TempsOfSets
<1>7. Cache!SeenExpired BY <1>2 DEF Cache!SeenExpired
<1> QED BY <1>3, <1>4, <1>5, <1>6, <1>7 DEF Cache!IInv

LEMMA CacheStep == ASSUME Cache!CacheAssumption
    PROVE Cache!IInv /\ [Cache!Next]_(Cache!vars) => Cache!IInv'
<1> SUFFICES ASSUME Cache!IInv, [Cache!Next]_(Cache!vars) PROVE Cache!IInv'
  OBVIOUS
<1>1. ASSUME NEW p \in Procs, NEW k \in Keys, Cache!GetExpired(p, k) PROVE Cache!IInv'
  BY <1>1, CacheGetExpiredStep
<1>2. ASSUME NEW p \in Procs, Cache!UnlinkExpired(p) PROVE Cache!IInv'
  BY <1>2, CacheUnlinkExpiredStep
<1>3. ASSUME NEW p \in Procs, NEW k \in Keys, Cache!SetStart(p, k) PROVE Cache!IInv'
  BY <1>3, CacheSetStartStep
<1>4. ASSUME NEW p \in Procs, Cache!SetSync(p) PROVE Cache!IInv' BY <1>4, CacheSetSyncStep
<1>5. ASSUME NEW p \in Procs, Cache!SetFails(p) PROVE Cache!IInv' BY <1>5, CacheSetFailsStep
<1>6. ASSUME NEW p \in Procs, Cache!SetReplace(p) PROVE Cache!IInv' BY <1>6, CacheSetReplaceStep
<1>7. ASSUME NEW k \in Keys, Cache!Delete(k) PROVE Cache!IInv' BY <1>7, CacheDeleteStep
<1>8. ASSUME NEW p \in Procs, Cache!PruneStart(p) PROVE Cache!IInv' BY <1>8, CachePruneStartStep
<1>9. ASSUME NEW p \in Procs, NEW k \in Keys, Cache!PruneLook(p, k) PROVE Cache!IInv'
  BY <1>9, CachePruneLookStep
<1>10. ASSUME NEW p \in Procs, Cache!PruneUnlink(p) PROVE Cache!IInv' BY <1>10, CachePruneUnlinkStep
<1>11. ASSUME NEW p \in Procs, Cache!PruneTemps(p) PROVE Cache!IInv' BY <1>11, CachePruneTempsStep
<1>12. ASSUME NEW p \in Procs, Cache!Dies(p) PROVE Cache!IInv' BY <1>12, CacheDiesStep
<1>13. CASE Cache!Tick BY <1>13, CacheTickStep
<1>14. CASE UNCHANGED Cache!vars
  BY <1>14 DEF Cache!vars, Cache!IInv, Cache!TypeOK, Cache!EntriesAreWhole,
     Cache!QuickSetsSucceed, Cache!LossesAreRenewals,
              Cache!TempsOfSets, Cache!SeenExpired, Cache!Expired
<1> QED
  BY <1>1, <1>2, <1>3, <1>4, <1>5, <1>6, <1>7, <1>8, <1>9, <1>10, <1>11, <1>12, <1>13, <1>14
     DEF Cache!Next

LEMMA AllNextCache == [AllNext]_allVars => [Cache!Next]_(Cache!vars)
BY DEF AllNext, allVars, OnlyCache, OnlyAudit, OnlyCase, OnlyStore, OnlyWatch, OnlyAlerts,
       OnlyWeb, OnlyGuard, OnlyOutbound, OnlyInbound, cacheVars, Cache!vars

\* For any processes, keys and times: an entry that can be opened is whole, whoever dies
\* while writing; a set that is quick enough is never robbed of its file, whatever prunes
\* remove; and one that has not expired is unlinked only in the place of one that had.
THEOREM CacheKeeps == ASSUME Cache!CacheAssumption PROVE AllSpec => []CacheHolds
<1>1. AllInit => Cache!IInv BY CacheInit DEF AllInit
<1>2. Cache!IInv /\ [AllNext]_allVars => Cache!IInv' BY CacheStep, AllNextCache
<1>3. Cache!IInv => CacheHolds BY DEF Cache!IInv, CacheHolds
<1> QED BY <1>1, <1>2, <1>3, PTL DEF AllSpec

-----------------------------------------------------------------------------
\* The database.  A commit is of the whole connection, so the argument is about the rows in
\* view: SavesInView says that they hold what each task has written so far, and all of a
\* saved scan; a crash takes the view back to the disk, where saved scans are whole and
\* tasks that were saving have failed.


\* The invariant holds at the beginning.
LEMMA StoreInit == ASSUME StoreAssumption PROVE Init => IInv
<1> SUFFICES ASSUME Init PROVE IInv
  OBVIOUS
<1>1. \A t \in Tasks : step[t] = "new" BY DEF Init
<1>2. view = NoRows /\ disk = NoRows BY DEF Init
<1>3. NoRows \in Rows
  <2>1. [f \in {} |-> {}] \in [{} -> Scans] OBVIOUS
  <2>2. [s \in Scans |-> 0] \in [Scans -> Nat] OBVIOUS
  <2>3. [f \in {} |-> {}] \in UNION {[ids -> Scans] : ids \in SUBSET Ids}
    <3>1. {} \in SUBSET Ids OBVIOUS
    <3> QED BY <2>1, <3>1
  <2> QED BY <2>2, <2>3 DEF NoRows, Rows
<1>4. TypeOK
  <2>1. toWrite \in [Tasks -> SUBSET Ids] BY DEF Init, StoreAssumption
  <2>2. step \in [Tasks -> {"new", "findings", "breaches", "saved", "failed"}] BY DEF Init
  <2> QED BY <1>2, <1>3, <2>1, <2>2 DEF Init, TypeOK
<1>5. SavedIsDurable BY <1>1 DEF SavedIsDurable
<1>6. view.scans = {} /\ disk.scans = {} BY <1>2 DEF NoRows
<1>7. HalvesAreUnsaved BY <1>6 DEF HalvesAreUnsaved
<1>8. SavesInView BY <1>1 DEF Init, SavesInView, InView, Saving
<1>9. RowsOfStarted BY <1>6 DEF RowsOfStarted
<1> QED BY <1>4, <1>5, <1>7, <1>8, <1>9 DEF IInv

-----------------------------------------------------------------------------
\* No save is forgotten.
StartedStays == \A t \in Tasks : step[t] # "new" => step'[t] # "new"

\* A scan that is whole on disk stays whole while the disk stays.
LEMMA DiskStays ==
    ASSUME StartedStays, disk' = disk, NEW s
    PROVE  Whole(disk, s) => Whole(disk, s)'
BY DEF StartedStays, Whole, Written

\* A scan in view stays whole while rows are only added.
LEMMA ViewStays ==
    ASSUME IInv, StartedStays, view'.findings = view.findings, view.scans \subseteq view'.scans,
           view' \in Rows, \A s \in Scans : view.breaches[s] <= view'.breaches[s], NEW s \in Scans,
           StoreAssumption
    PROVE  /\ \A f : Written(view, s, f) => Written(view, s, f)'
           /\ Whole(view, s) => Whole(view, s)'
<1>1. \A f : Written(view, s, f) => Written(view, s, f)' BY DEF StartedStays, Written
<1>2. view.breaches[s] \in Nat /\ view'.breaches[s] \in Nat /\ BreachesOf[s] \in Nat
  BY DEF IInv, TypeOK, Rows, StoreAssumption
<1>3. view'.breaches[s] >= view.breaches[s] BY <1>2
<1>4. Whole(view, s) => view'.breaches[s] >= BreachesOf[s] BY <1>2, <1>3 DEF Whole
<1> QED BY <1>1, <1>4 DEF Whole

\* A save begins with the row of its scan.
LEMMA WriteScanStep ==
    ASSUME StoreAssumption, IInv, NEW t \in Tasks, WriteScan(t)
    PROVE  IInv'
<1>1. /\ step[t] = "new" /\ step' = [step EXCEPT ![t] = "findings"]
      /\ view' = [view EXCEPT !.scans = @ \cup {ScanOf[t]}]
      /\ disk' = disk /\ toWrite' = toWrite /\ records' = records
  BY DEF WriteScan
<1>2. TypeOK'
  <2>1. view' \in Rows BY <1>1 DEF IInv, TypeOK, Rows, StoreAssumption
  <2> QED BY <1>1, <2>1 DEF IInv, TypeOK
<1>3. StartedStays BY <1>1 DEF StartedStays, IInv, TypeOK
<1>4. /\ view'.scans = view.scans \cup {ScanOf[t]}
      /\ view'.findings = view.findings /\ view'.breaches = view.breaches
  BY <1>1 DEF IInv, TypeOK, Rows
<1>5. \A s \in Scans : /\ \A f : Written(view, s, f) => Written(view, s, f)'
                       /\ Whole(view, s) => Whole(view, s)'
  <2>1. \A s \in Scans : view.breaches[s] \in Nat BY DEF IInv, TypeOK, Rows
  <2> QED BY <1>2, <1>3, <1>4, <2>1, ViewStays DEF TypeOK
<1>6. SavedIsDurable' BY <1>1, <1>3, DiskStays DEF IInv, SavedIsDurable, TypeOK
<1>7. HalvesAreUnsaved'
  <2>1. \A u \in Tasks : step[u] # "new" => step'[u] = step[u] BY <1>1 DEF IInv, TypeOK
  <2>2. \A s \in disk.scans : \A u \in Started(s) : u \in Started(s)' /\ step'[u] = step[u]
    BY <2>1 DEF Started
  <2> QED BY <1>1, <2>1, <2>2 DEF IInv, HalvesAreUnsaved, Saving
<1>8. SavesInView'
  <2>1. InView(t)'
    <3>1. InView(t) BY DEF IInv, SavesInView
    <3>2. toWrite'[t] = FindingsOf[ScanOf[t]] /\ records'[t] = 0 /\ step'[t] = "findings"
      BY <1>1, <3>1 DEF InView, IInv, TypeOK
    <3>3. ScanOf[t] \in Scans /\ view'.breaches[ScanOf[t]] >= 0
      BY <1>2 DEF TypeOK, Rows, StoreAssumption
    <3> QED BY <1>4, <3>2, <3>3 DEF InView, Saving
  <2>2. ASSUME NEW u \in Tasks, u # t PROVE InView(u)'
    <3>1. step'[u] = step[u] /\ ScanOf[u] \in Scans BY <1>1, <2>2 DEF IInv, TypeOK, StoreAssumption
    <3>2. InView(u) BY DEF IInv, SavesInView
    <3> QED BY <1>1, <1>4, <1>5, <3>1, <3>2 DEF InView, Saving
  <2> QED BY <2>1, <2>2 DEF SavesInView
<1>9. RowsOfStarted'
  <2>1. t \in Started(ScanOf[t])' BY <1>1 DEF Started, IInv, TypeOK
  <2>2. \A s : Started(s) \subseteq Started(s)' BY <1>3 DEF Started, StartedStays
  <2> QED BY <1>1, <1>4, <2>1, <2>2 DEF IInv, RowsOfStarted
<1> QED BY <1>2, <1>6, <1>7, <1>8, <1>9 DEF IInv

\* A row may be taken over by a scan that has a finding of the same id.
LEMMA WriteFindingStep ==
    ASSUME StoreAssumption, IInv, NEW t \in Tasks, NEW f \in Ids, WriteFinding(t, f)
    PROVE  IInv'
<1>1. /\ step[t] = "findings" /\ f \in toWrite[t] /\ step' = step
      /\ view' = [view EXCEPT !.findings = [g \in DOMAIN view.findings \cup {f} |->
                                                IF g = f THEN ScanOf[t] ELSE view.findings[g]]]
      /\ disk' = disk /\ toWrite' = [toWrite EXCEPT ![t] = @ \ {f}] /\ records' = records
  BY DEF WriteFinding
<1>2. /\ view'.scans = view.scans /\ view'.breaches = view.breaches
      /\ view'.findings = [g \in DOMAIN view.findings \cup {f} |->
                              IF g = f THEN ScanOf[t] ELSE view.findings[g]]
  BY <1>1 DEF IInv, TypeOK, Rows
<1>3. TypeOK'
  <2>1. view'.findings \in UNION {[ids -> Scans] : ids \in SUBSET Ids}
    <3>1. PICK ids \in SUBSET Ids : view.findings \in [ids -> Scans] BY DEF IInv, TypeOK, Rows
    <3>2. view'.findings \in [ids \cup {f} -> Scans] BY <1>2, <3>1 DEF StoreAssumption
    <3>3. ids \cup {f} \in SUBSET Ids OBVIOUS
    <3> QED BY <3>2, <3>3
  <2>2. view' \in Rows
    <3>1. view' = [scans |-> view.scans, findings |-> view'.findings, breaches |-> view.breaches]
      BY <1>1, <1>2 DEF IInv, TypeOK, Rows
    <3>2. view.scans \subseteq Scans /\ view.breaches \in [Scans -> Nat]
      BY DEF IInv, TypeOK, Rows
    <3> QED BY <2>1, <3>1, <3>2 DEF Rows
  <2>3. toWrite' \in [Tasks -> SUBSET Ids] BY <1>1 DEF IInv, TypeOK
  <2> QED BY <1>1, <2>2, <2>3 DEF IInv, TypeOK
<1>4. StartedStays BY <1>1 DEF StartedStays
<1>5. f \in FindingsOf[ScanOf[t]] BY <1>1 DEF IInv, SavesInView, InView
<1>6. ASSUME NEW s, NEW g, Written(view, s, g) PROVE Written(view, s, g)'
  <2>1. g \in DOMAIN view'.findings BY <1>2, <1>6 DEF Written
  <2>2. CASE g = f
    <3>1. view'.findings[f] = ScanOf[t] /\ step'[t] # "new" BY <1>1, <1>2
    <3> QED BY <1>5, <2>1, <2>2, <3>1 DEF Written
  <2>3. CASE g # f
    <3>1. view'.findings[g] = view.findings[g] BY <1>2, <1>6, <2>3 DEF Written
    <3> QED BY <1>1, <1>6, <2>1, <3>1 DEF Written
  <2> QED BY <2>2, <2>3
<1>7. \A s : Whole(view, s) => Whole(view, s)' BY <1>2, <1>6 DEF Whole
<1>8. SavedIsDurable' BY <1>1, <1>4, DiskStays DEF IInv, SavedIsDurable
<1>9. HalvesAreUnsaved' BY <1>1 DEF IInv, HalvesAreUnsaved, Started, Saving
<1>10. SavesInView'
  <2>1. InView(t)'
    <3>1. InView(t) BY DEF IInv, SavesInView
    <3>2. Written(view, ScanOf[t], f)' BY <1>2 DEF Written
    <3>3. toWrite'[t] = toWrite[t] \ {f} BY <1>1 DEF IInv, TypeOK
    <3> QED BY <1>1, <1>2, <1>6, <3>1, <3>2, <3>3 DEF InView, Saving
  <2>2. ASSUME NEW u \in Tasks, u # t PROVE InView(u)'
    <3>1. toWrite'[u] = toWrite[u] BY <1>1, <2>2 DEF IInv, TypeOK
    <3>2. InView(u) BY DEF IInv, SavesInView
    <3> QED BY <1>1, <1>2, <1>6, <1>7, <3>1, <3>2 DEF InView, Saving
  <2> QED BY <2>1, <2>2 DEF SavesInView
<1>11. RowsOfStarted' BY <1>1, <1>2 DEF IInv, RowsOfStarted, Started
<1> QED BY <1>3, <1>8, <1>9, <1>10, <1>11 DEF IInv

\* All findings are written.
LEMMA NoMoreFindingsStep ==
    ASSUME StoreAssumption, IInv, NEW t \in Tasks, NoMoreFindings(t)
    PROVE  IInv'
<1>1. /\ step[t] = "findings" /\ toWrite[t] = {} /\ step' = [step EXCEPT ![t] = "breaches"]
      /\ view' = view /\ disk' = disk /\ toWrite' = toWrite /\ records' = records
  BY DEF NoMoreFindings
<1>2. TypeOK' BY <1>1 DEF IInv, TypeOK
<1>3. StartedStays BY <1>1 DEF StartedStays, IInv, TypeOK
<1>4. \A u \in Tasks : /\ step'[u] = "saved" <=> step[u] = "saved"
                       /\ step'[u] = "failed" <=> step[u] = "failed"
                       /\ step'[u] = "new" <=> step[u] = "new"
                       /\ Saving(u)' <=> Saving(u)
  BY <1>1 DEF IInv, TypeOK, Saving
<1>5. \A s, f : Written(view, s, f)' <=> Written(view, s, f) BY <1>1, <1>4 DEF Written
<1>6. \A s : Whole(view, s)' <=> Whole(view, s) BY <1>1, <1>5 DEF Whole
<1>7. SavedIsDurable' BY <1>1, <1>3, <1>4, DiskStays DEF IInv, SavedIsDurable
<1>8. \A s : Started(s)' = Started(s) BY <1>4 DEF Started
<1>9. HalvesAreUnsaved' BY <1>1, <1>4, <1>8 DEF IInv, HalvesAreUnsaved, Started
<1>10. SavesInView'
  <2> SUFFICES ASSUME NEW u \in Tasks PROVE InView(u)'
    BY DEF SavesInView
  <2>1. InView(u) BY DEF IInv, SavesInView
  <2>2. step'[u] = "breaches" => u = t \/ step[u] = "breaches" BY <1>1 DEF IInv, TypeOK
  <2> QED BY <1>1, <1>4, <1>5, <1>6, <2>1, <2>2 DEF InView
<1>11. RowsOfStarted' BY <1>1, <1>8 DEF IInv, RowsOfStarted
<1> QED BY <1>2, <1>7, <1>9, <1>10, <1>11 DEF IInv

\* One more breach record.
LEMMA WriteBreachStep ==
    ASSUME StoreAssumption, IInv, NEW t \in Tasks, WriteBreach(t)
    PROVE  IInv'
<1>1. /\ step[t] = "breaches" /\ step' = step
      /\ view' = [view EXCEPT !.breaches[ScanOf[t]] = @ + 1]
      /\ disk' = disk /\ toWrite' = toWrite /\ records' = [records EXCEPT ![t] = @ + 1]
  BY DEF WriteBreach
<1>2. ScanOf[t] \in Scans BY DEF StoreAssumption
<1>3. /\ view'.scans = view.scans /\ view'.findings = view.findings
      /\ view'.breaches = [view.breaches EXCEPT ![ScanOf[t]] = @ + 1]
      /\ view.breaches \in [Scans -> Nat]
  BY <1>1 DEF IInv, TypeOK, Rows
<1>4. view' \in Rows BY <1>1, <1>3 DEF IInv, TypeOK, Rows
<1>5. TypeOK' BY <1>1, <1>4 DEF IInv, TypeOK
<1>6. StartedStays BY <1>1 DEF StartedStays
<1>7. \A s \in Scans : /\ \A f : Written(view, s, f) => Written(view, s, f)'
                       /\ Whole(view, s) => Whole(view, s)'
  <2>1. \A s \in Scans : view.breaches[s] <= view'.breaches[s] BY <1>3
  <2> QED BY <1>3, <1>4, <1>6, <2>1, ViewStays
<1>8. SavedIsDurable' BY <1>1, <1>6, DiskStays DEF IInv, SavedIsDurable
<1>9. HalvesAreUnsaved' BY <1>1 DEF IInv, HalvesAreUnsaved, Started, Saving
<1>10. SavesInView'
  <2> SUFFICES ASSUME NEW u \in Tasks PROVE InView(u)'
    BY DEF SavesInView
  <2>1. InView(u) /\ ScanOf[u] \in Scans BY DEF IInv, SavesInView, StoreAssumption
  <2>2. u # t => records'[u] = records[u] BY <1>1 DEF IInv, TypeOK
  <2>3. records'[t] = records[t] + 1 /\ records[t] \in Nat /\ records[u] \in Nat
    BY <1>1 DEF IInv, TypeOK
  <2>4. view.breaches[ScanOf[u]] >= records[u] => view'.breaches[ScanOf[u]] >= records'[u]
    <3>1. view.breaches[ScanOf[u]] \in Nat BY <1>3, <2>1
    <3>2. CASE u = t BY <1>2, <1>3, <2>3, <3>1, <3>2
    <3>3. CASE u # t
      <4>1. view'.breaches[ScanOf[u]] >= view.breaches[ScanOf[u]] BY <1>3, <2>1
      <4>2. view'.breaches[ScanOf[u]] \in Nat BY <1>4, <2>1 DEF Rows
      <4> QED BY <2>2, <2>3, <3>1, <3>3, <4>1, <4>2
    <3> QED BY <3>2, <3>3
  <2> QED BY <1>1, <1>3, <1>7, <2>1, <2>4 DEF InView, Saving
<1>11. RowsOfStarted' BY <1>1, <1>3 DEF IInv, RowsOfStarted, Started
<1> QED BY <1>5, <1>8, <1>9, <1>10, <1>11 DEF IInv

\* What is in view goes to disk: the task's scan whole, others as far as they are.
LEMMA CommitStep ==
    ASSUME StoreAssumption, IInv, NEW t \in Tasks, Commit(t)
    PROVE  IInv'
<1>1. /\ step[t] = "breaches" /\ records[t] = BreachesOf[ScanOf[t]]
      /\ step' = [step EXCEPT ![t] = "saved"]
      /\ disk' = view /\ view' = view /\ toWrite' = toWrite /\ records' = records
  BY DEF Commit
<1>2. TypeOK' BY <1>1 DEF IInv, TypeOK
<1>3. \A u \in Tasks : /\ u # t => step'[u] = step[u]
                       /\ step'[t] = "saved"
                       /\ step'[u] = "new" <=> step[u] = "new"
  BY <1>1 DEF IInv, TypeOK
<1>4. \A s, f : Written(view, s, f) => Written(view, s, f)' /\ Written(disk, s, f)'
  BY <1>1, <1>3 DEF Written
<1>5. \A s : Whole(view, s) => Whole(view, s)' /\ Whole(disk, s)' BY <1>1, <1>4 DEF Whole
<1>6. Whole(view, ScanOf[t])
  <2>1. InView(t) BY DEF IInv, SavesInView
  <2> QED BY <1>1, <2>1 DEF InView, Saving, Whole
<1>7. SavedIsDurable'
  <2> SUFFICES ASSUME NEW u \in Tasks, step'[u] = "saved" PROVE Whole(disk, ScanOf[u])'
    BY DEF SavedIsDurable, StoreAssumption
  <2>1. CASE u = t BY <1>5, <1>6, <2>1
  <2>2. CASE u # t
    <3>1. InView(u) /\ step[u] = "saved" BY <1>3, <2>2 DEF IInv, SavesInView
    <3> QED BY <1>5, <3>1 DEF InView
  <2> QED BY <2>1, <2>2
<1>8. \A s : Started(s)' = Started(s) BY <1>3 DEF Started
<1>9. HalvesAreUnsaved'
  <2> SUFFICES ASSUME NEW s \in view.scans
               PROVE  \/ \E u \in Started(s) : step'[u] = "saved"
                      \/ (\E u \in Started(s) : Saving(u)' \/ step'[u] = "failed")
                             /\ \E u \in Tasks : ScanOf[u] # s /\ step'[u] = "saved"
    BY <1>1, <1>8 DEF HalvesAreUnsaved
  <2>1. PICK u \in Started(s) : TRUE BY DEF IInv, RowsOfStarted
  <2>2. u \in Tasks /\ ScanOf[u] = s /\ step'[u] # "new" BY <1>3 DEF Started
  <2>3. CASE ScanOf[t] = s BY <1>1, <1>3, <2>3 DEF Started
  <2>4. CASE ScanOf[t] # s
    <3>1. step'[u] = "saved" \/ Saving(u)' \/ step'[u] = "failed"
      BY <1>2, <2>2 DEF TypeOK, Saving
    <3> QED BY <1>3, <2>1, <2>4, <3>1
  <2> QED BY <2>3, <2>4
<1>10. SavesInView'
  <2> SUFFICES ASSUME NEW u \in Tasks PROVE InView(u)'
    BY DEF SavesInView
  <2>1. InView(u) BY DEF IInv, SavesInView
  <2>2. CASE u = t BY <1>1, <1>3, <1>5, <1>6, <2>1, <2>2 DEF InView, Saving
  <2>3. CASE u # t BY <1>1, <1>3, <1>4, <1>5, <2>1, <2>3 DEF InView, Saving
  <2> QED BY <2>2, <2>3
<1>11. RowsOfStarted' BY <1>1, <1>8 DEF IInv, RowsOfStarted
<1> QED BY <1>2, <1>7, <1>9, <1>10, <1>11 DEF IInv

\* A failed save leaves its rows in view.
LEMMA RaisesStep ==
    ASSUME StoreAssumption, IInv, NEW t \in Tasks, Raises(t)
    PROVE  IInv'
<1>1. /\ step[t] \in {"findings", "breaches"} /\ step' = [step EXCEPT ![t] = "failed"]
      /\ disk' = disk /\ view' = view /\ toWrite' = toWrite /\ records' = records
  BY DEF Raises, Saving
<1>2. TypeOK' BY <1>1 DEF IInv, TypeOK
<1>3. \A u \in Tasks : /\ u # t => step'[u] = step[u]
                       /\ step'[t] = "failed"
                       /\ step'[u] = "new" <=> step[u] = "new"
                       /\ step'[u] = "saved" <=> step[u] = "saved"
  BY <1>1 DEF IInv, TypeOK
<1>4. \A s, f : Written(view, s, f) => Written(view, s, f)' BY <1>1, <1>3 DEF Written
<1>5. \A s : Whole(view, s) => Whole(view, s)' BY <1>1, <1>4 DEF Whole
<1>6. StartedStays BY <1>3 DEF StartedStays
<1>7. SavedIsDurable' BY <1>1, <1>3, <1>6, DiskStays DEF IInv, SavedIsDurable
<1>8. \A s : Started(s)' = Started(s) BY <1>3 DEF Started
<1>9. HalvesAreUnsaved'
  <2>1. \A u \in Tasks : Saving(u) \/ step[u] = "failed" => Saving(u)' \/ step'[u] = "failed"
    BY <1>3 DEF Saving
  <2>2. \A s \in disk.scans : Started(s) \subseteq Tasks BY DEF Started
  <2> QED BY <1>1, <1>3, <1>8, <2>1, <2>2 DEF IInv, HalvesAreUnsaved
<1>10. SavesInView'
  <2> SUFFICES ASSUME NEW u \in Tasks PROVE InView(u)'
    BY DEF SavesInView
  <2>1. InView(u) BY DEF IInv, SavesInView
  <2>2. CASE u = t BY <1>1, <1>3, <2>1, <2>2 DEF InView, Saving
  <2>3. CASE u # t BY <1>1, <1>3, <1>4, <1>5, <2>1, <2>3 DEF InView, Saving
  <2> QED BY <2>2, <2>3
<1>11. RowsOfStarted' BY <1>1, <1>8 DEF IInv, RowsOfStarted
<1> QED BY <1>2, <1>7, <1>9, <1>10, <1>11 DEF IInv

\* A crash takes the connection back to the disk, which has all of a saved scan.
LEMMA CrashStep ==
    ASSUME StoreAssumption, IInv, Crash
    PROVE  IInv'
<1>1. /\ view' = disk /\ disk' = disk /\ toWrite' = toWrite /\ records' = records
      /\ step' = [t \in Tasks |-> IF Saving(t) THEN "failed" ELSE step[t]]
  BY DEF Crash
<1>2. TypeOK' BY <1>1 DEF IInv, TypeOK
<1>3. \A u \in Tasks : /\ step'[u] = "new" <=> step[u] = "new"
                       /\ step'[u] = "saved" <=> step[u] = "saved"
                       /\ ~ Saving(u)'
                       /\ Saving(u) \/ step[u] = "failed" => step'[u] = "failed"
  BY <1>1 DEF Saving
<1>4. StartedStays BY <1>3 DEF StartedStays
<1>5. \A s : Whole(disk, s) => Whole(view, s)'
  <2>1. \A s, f : Written(disk, s, f) => Written(view, s, f)' BY <1>1, <1>3 DEF Written
  <2> QED BY <1>1, <2>1 DEF Whole
<1>6. SavedIsDurable' BY <1>1, <1>3, <1>4, DiskStays DEF IInv, SavedIsDurable
<1>7. \A s : Started(s)' = Started(s) BY <1>3 DEF Started
<1>8. HalvesAreUnsaved'
  <2>1. \A s \in disk.scans : Started(s) \subseteq Tasks BY DEF Started
  <2> QED BY <1>1, <1>3, <1>7, <2>1 DEF IInv, HalvesAreUnsaved
<1>9. SavesInView'
  <2> SUFFICES ASSUME NEW u \in Tasks PROVE InView(u)'
    BY DEF SavesInView
  <2>1. InView(u) BY DEF IInv, SavesInView
  <2>2. step[u] = "saved" => Whole(disk, ScanOf[u]) BY DEF IInv, SavedIsDurable
  <2>3. step'[u] # "breaches" BY <1>3 DEF Saving
  <2> QED BY <1>1, <1>3, <1>5, <2>1, <2>2, <2>3 DEF InView
<1>10. RowsOfStarted' BY <1>1, <1>7 DEF IInv, RowsOfStarted
<1> QED BY <1>2, <1>6, <1>8, <1>9, <1>10 DEF IInv

\* Every step preserves the invariant.
LEMMA StoreStep == ASSUME StoreAssumption PROVE IInv /\ [Next]_vars => IInv'
<1> SUFFICES ASSUME IInv, [Next]_vars PROVE IInv'
  OBVIOUS
<1>1. ASSUME NEW t \in Tasks, WriteScan(t) PROVE IInv' BY <1>1, WriteScanStep
<1>2. ASSUME NEW t \in Tasks, NEW f \in Ids, WriteFinding(t, f) PROVE IInv'
  BY <1>2, WriteFindingStep
<1>3. ASSUME NEW t \in Tasks, NoMoreFindings(t) PROVE IInv' BY <1>3, NoMoreFindingsStep
<1>4. ASSUME NEW t \in Tasks, WriteBreach(t) PROVE IInv' BY <1>4, WriteBreachStep
<1>5. ASSUME NEW t \in Tasks, Commit(t) PROVE IInv' BY <1>5, CommitStep
<1>6. ASSUME NEW t \in Tasks, Raises(t) PROVE IInv' BY <1>6, RaisesStep
<1>7. CASE Crash BY <1>7, CrashStep
<1>8. CASE UNCHANGED vars
  BY <1>8 DEF vars, IInv, TypeOK, SavedIsDurable, HalvesAreUnsaved, SavesInView, RowsOfStarted,
              InView, Whole, Written, Started, Saving
<1> QED BY <1>1, <1>2, <1>3, <1>4, <1>5, <1>6, <1>7, <1>8 DEF Next

LEMMA AllNextStore == [AllNext]_allVars => [Next]_vars
BY DEF AllNext, allVars, OnlyCache, OnlyAudit, OnlyCase, OnlyStore, OnlyWatch, OnlyAlerts,
       OnlyWeb, OnlyGuard, OnlyOutbound, OnlyInbound, vars

\* For any tasks, scans and findings: a scan whose save returned is on disk whole, and no
\* crash and no other save takes it from there; half a scan gets there by the commit of
\* another's save alone.
THEOREM ScansKept == ASSUME StoreAssumption PROVE AllSpec => []ScansAreKept
<1>1. AllInit => IInv BY StoreInit DEF AllInit
<1>2. IInv /\ [AllNext]_allVars => IInv' BY StoreStep, AllNextStore
<1>3. IInv => ScansAreKept BY DEF IInv, ScansAreKept
<1> QED BY <1>1, <1>2, <1>3, PTL DEF AllSpec

=============================================================================
