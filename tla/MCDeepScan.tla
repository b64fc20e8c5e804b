----------------------------- MODULE MCDeepScan -----------------------------
(* A scan.                                                                   *)
(* The loop: a name with two pivots, a value known under two types, one more *)
(* handle and an address; one module takes names and handles, one domains,   *)
(* one handles only; there is one identifier more than the report has room   *)
(* for, and the tools take two handles and one domain.                       *)
(* The pairs: an ordinary module, two sources and a refused one over two     *)
(* permits.                                                                  *)
(* The report: up to three findings of the loop in any order, among them     *)
(* three that share a page and two about one entity, and a tool's finding.   *)
EXTENDS Scans

MCValues  == {"jo smith", "josmith", "smithj", "jo.dev", "joe", "http://jo.me"}
MCTypes   == {"name", "username", "domain", "profile"}
MCModules == {"social_osint", "domain_recon", "leakcheck"}

MCAccepts == [m \in MCModules |-> CASE m = "social_osint" -> {"name", "username"}
                                    [] m = "domain_recon" -> {"domain"}
                                    [] m = "leakcheck"    -> {"username"}]

MCDetects == [v \in MCValues |-> CASE v = "jo smith" -> "name"
                                   [] v = "jo.dev"   -> "domain"
                                   [] v = "http://jo.me" -> "profile"
                                   [] OTHER          -> "username"]

MCPivots == {[value |-> "josmith", type |-> "username"],
             [value |-> "smithj", type |-> "username"]}

MCIdentifiers == MCPivots \cup
    {[value |-> "jo.dev", type |-> "username"], [value |-> "jo.dev", type |-> "domain"],
     [value |-> "joe", type |-> "username"], [value |-> "http://jo.me", type |-> "profile"]}

MCSlug      == {[value |-> "josmith", type |-> "username"]}
MCAddresses == {"http://jo.me"}
MCToolLimit == [t \in MCTypes |-> CASE t = "username" -> 2 [] t = "domain" -> 1 [] OTHER -> 0]

-----------------------------------------------------------------------------
MCPlain   == {"leakcheck"}
MCSources == {"github", "shodan", "tgstat"}
MCRefused == {"tgstat"}

-----------------------------------------------------------------------------
Found(id, module, value, url, profile, valued, severity, tag) ==
    [id |-> id, module |-> module, value |-> value, loc |-> url, url |-> url,
     profile |-> profile, valued |-> valued, severity |-> severity, confidence |-> id,
     tags |-> {tag}]

MCFinding == <<
    Found(1, "social_osint", "jo", "git/jo", TRUE, TRUE, 0, "a"),
    Found(2, "social_osint", "jo", "tw/jo", TRUE, FALSE, 0, "b"),
    Found(3, "dorks", "jo leak", "git/jo", FALSE, FALSE, 3, "c"),
    Found(4, "leakcheck", "jo@x", "", FALSE, FALSE, 1, "d"),
    Found(5, "leakcheck", "jo@x", "", FALSE, FALSE, 3, "e"),
    Found(6, "social_osint", "jo", "git/jo", TRUE, TRUE, 1, "f"),
    Found(7, "sherlock", "jo", "git/jo", FALSE, FALSE, 0, "g"),
    Found(8, "ai_enricher", "dossier", "", FALSE, FALSE, 0, "h")>>

Distinct(s) == \A i, j \in DOMAIN s : s[i] = s[j] => i = j

MCLoopFindings ==
    UNION {{[k \in 1..n |-> MCFinding[s[k]]] : s \in {q \in [1..n -> 1..6] : Distinct(q)}} :
               n \in 0..3}

MCPool         == {MCFinding[i] : i \in 1..8}
MCToolFindings == {<< >>, <<MCFinding[7]>>}
MCDossier      == MCFinding[8]

ASSUME Runner!PairAssumption /\ Report!ReportAssumption
=============================================================================
