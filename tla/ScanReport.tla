----------------------------- MODULE ScanReport -----------------------------
(***************************************************************************)
(* What src/modules/deep_scan/engine.py does to the findings of a scan     *)
(* once the loop of DeepScan is over: the external tools, the check of the *)
(* social profiles, the AI dossier, and _dedup_findings.  The correlation  *)
(* that comes between the last two does not touch the findings; it is the  *)
(* subject of IdentityGraph.                                               *)
(***************************************************************************)
EXTENDS FiniteSetsExt, Subsequences

CONSTANTS Pool,         \* the findings there can be
          LoopFindings, \* the sequences of them that the loop may have left
          ToolFindings, \* the sequences that the external tools may return in all
          Dossier,      \* the finding of the AI enrichment
          MaxProfiles,  \* how many profiles are scraped (5)
          NoUrl

\* A finding, told from others by its id.  Module, value and loc are what
\* _dedup_findings compares; profile says that it is a social account, valued that
\* its platform is worth scraping.
Finding == [id : Nat, module : STRING, value : STRING, loc : STRING, url : STRING \cup {NoUrl},
            profile : BOOLEAN, valued : BOOLEAN, severity : 0..4, confidence : 0..10,
            tags : SUBSET STRING]

\* A finding is the object it is, and the enrichment's is no profile.
ReportAssumption ==
    /\ Pool \subseteq Finding
    /\ \A f, g \in Pool : f.id = g.id => f = g
    /\ LoopFindings \subseteq Seq(Pool) /\ ToolFindings \subseteq Seq(Pool)
    /\ Dossier \in Pool /\ ~ Dossier.profile
    /\ MaxProfiles \in Nat

VARIABLES phase,      \* which phase is next, or how the scan ended
          findings,   \* result.findings
          pending,    \* the ids of the profiles being scraped
          denied,     \* the ids with verified set to False
          collected   \* every finding that was ever in the result (not in the code)

vars == <<phase, findings, pending, denied, collected>>

Over == {"done", "raised"}

Elems(s) == {s[i] : i \in DOMAIN s}

-----------------------------------------------------------------------------
SameEntity(f, g) == f.module = g.module /\ f.value = g.value /\ f.loc = g.loc

\* Faulty variant: the finding that is kept is kept as it is.
MergedAsFirst(s, f) == f

\* What the first of several findings about one entity becomes.
Merged(s, f) ==
    LET same == {g \in Elems(s) : SameEntity(f, g)}
    IN  [f EXCEPT !.severity = Max({g.severity : g \in same}),
                  !.confidence = Max({g.confidence : g \in same}),
                  !.tags = UNION {g.tags : g \in same}]

\* Faulty variant: a finding is compared with its neighbour only.
FirstsNextTo(s) == {i \in DOMAIN s : i = 1 \/ ~ SameEntity(s[i - 1], s[i])}

\* Where s speaks of an entity for the first time.
Firsts(s) == {i \in DOMAIN s : \A j \in 1..(i - 1) : ~ SameEntity(s[j], s[i])}

\* _dedup_findings: the first finding about an entity stands for all of them.
Deduped(s) == {[k \in DOMAIN first |-> Merged(s, first[k])] : first \in Selections(s, Firsts(s))}

\* The end of _verify_profiles_phase: what was denied is dropped, and of the findings
\* with a URL, of whatever kind, all but the first with that URL.
Confirmed(s) ==
    {i \in DOMAIN s : /\ s[i].id \notin denied
                      /\ \/ s[i].url = NoUrl
                         \/ \A j \in 1..(i - 1) :
                                s[j].url = s[i].url => s[j].id \in denied}

\* Of the profiles on platforms worth it, the first few; one without a URL is not
\* scraped.
ToVerify(s) ==
    LET valued == {i \in DOMAIN s : s[i].profile /\ s[i].valued}
    IN  {s[i].id : i \in {j \in valued : /\ s[j].url # NoUrl
                                        /\ Cardinality(valued \cap 1..j) <= MaxProfiles}}

-----------------------------------------------------------------------------
Init ==
    /\ findings \in LoopFindings
    /\ collected = Elems(findings)
    /\ phase = "tools"
    /\ pending = {} /\ denied = {}

\* The end of _run_external_tools_phase: what the tools found of the identifiers that
\* RunTools of DeepScan gave them; a tool that raises adds nothing.
ExternalTools ==
    /\ phase = "tools"
    /\ \E found \in ToolFindings :
          /\ findings' = findings \o found
          /\ collected' = collected \cup Elems(found)
    /\ phase' = "profiles"
    /\ UNCHANGED <<pending, denied>>

\* _verify_profiles_phase: without any profile there is nothing to do, not even to
\* filter.
StartProfiles ==
    /\ phase = "profiles"
    /\ IF \E f \in Elems(findings) : f.profile
       THEN /\ pending' = ToVerify(findings)
            /\ phase' = "verifying"
       ELSE /\ phase' = "ai"
            /\ UNCHANGED pending
    /\ UNCHANGED <<findings, denied, collected>>

\* A profile is scraped; when that fails, or the correlation is too weak, it is denied.
Verify(id) ==
    /\ phase = "verifying"
    /\ id \in pending
    /\ pending' = pending \ {id}
    /\ denied' \in {denied, denied \cup {id}}
    /\ UNCHANGED <<phase, findings, collected>>

FilterProfiles ==
    /\ phase = "verifying" /\ pending = {}
    /\ findings' \in Selections(findings, Confirmed(findings))
    /\ phase' = "ai"
    /\ UNCHANGED <<pending, denied, collected>>

\* _run_ai_enrichment: a dossier, or none for any of a number of reasons.
Enrich ==
    /\ phase = "ai"
    /\ phase' = "dedup"
    /\ \/ /\ findings' = Append(findings, Dossier)
          /\ collected' = collected \cup {Dossier}
       \/ UNCHANGED <<findings, collected>>
    /\ UNCHANGED <<pending, denied>>

Dedup ==
    /\ phase = "dedup"
    /\ findings' \in Deduped(findings)
    /\ phase' = "done"
    /\ UNCHANGED <<pending, denied, collected>>

\* The first two phases run outside any try of _scan_impl: scan returns what there is.
PhaseRaises ==
    /\ phase \in {"tools", "profiles"}
    /\ phase' = "raised"
    /\ UNCHANGED <<findings, pending, denied, collected>>

Next ==
    \/ ExternalTools \/ StartProfiles \/ FilterProfiles \/ Enrich \/ Dedup \/ PhaseRaises
    \/ \E id \in pending : Verify(id)

Spec == Init /\ [][Next]_vars

-----------------------------------------------------------------------------
\* The variables hold values of their types, and only profiles are scraped and denied.
TypeOK ==
    /\ phase \in {"tools", "profiles", "verifying", "ai", "dedup"} \cup Over
    /\ collected \subseteq Pool
    /\ findings \in Seq(Finding)
    /\ \A f \in Elems(findings) : \E g \in collected : g.id = f.id
    /\ pending \cup denied \subseteq {f.id : f \in {g \in collected : g.profile}}

\* The report speaks of f's entity, with no less severity and confidence, and under
\* all of its tags.
Represented(f) ==
    \E g \in Elems(findings) : /\ SameEntity(f, g)
                               /\ g.severity >= f.severity
                               /\ g.confidence >= f.confidence
                               /\ f.tags \subseteq g.tags

\* Whatever was found is in the report, or was a profile that was denied, or shares its
\* URL with something in the report.  The last is as much as the code keeps, of whatever
\* kind the finding is and whichever module found it: OnlyProfilesFiltered.  A scan that
\* is broken off reports all it had.
EveryFindingAccountedFor ==
    phase \in Over =>
        \A f \in collected :
            \/ Represented(f)
            \/ f.id \in denied
            \/ f.url # NoUrl /\ \E g \in collected \ {f} : g.url = f.url /\ Represented(g)

\* Once deduplicated the report names an entity once, and no profile that was denied.
ReportedOnce ==
    phase = "done" =>
        \A i, j \in DOMAIN findings :
            /\ SameEntity(findings[i], findings[j]) => i = j
            /\ findings[i].id \notin denied

-----------------------------------------------------------------------------
\* What the invariants rest on.

\* Until the profiles are filtered nothing is dropped, and before they are checked
\* nothing is denied.
AllThere ==
    /\ phase \in {"tools", "profiles", "verifying", "raised"} => collected = Elems(findings)
    /\ phase \in {"tools", "profiles"} => denied = {}

\* From then to the end a finding is there, or was denied, or another points to its page.
Standing ==
    phase \in {"ai", "dedup"} =>
        /\ \A f \in Elems(findings) : f \in collected /\ f.id \notin denied
        /\ \A f \in collected :
              \/ f \in Elems(findings)
              \/ f.id \in denied
              \/ f.url # NoUrl /\ \E g \in Elems(findings) \ {f} : g.url = f.url

IInv == TypeOK /\ AllThere /\ Standing /\ EveryFindingAccountedFor /\ ReportedOnce

-----------------------------------------------------------------------------
\* The docstring of _verify_profiles_phase: "unverified or duplicate profiles are
\* filtered out from the final findings list".  What is no profile, then, is in the
\* report, whatever page it points to.
OnlyProfilesFiltered ==
    phase \in Over => \A f \in collected : ~ f.profile => Represented(f)

=============================================================================
