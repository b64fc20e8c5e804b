------------------------------- MODULE MCEnds -------------------------------
(* Ends with up to three scan results of two modules, a plan of six sources, *)
(* a call over two endpoints, plugins of which two have one name, two crawls *)
(* of a site whose pages link in circles, two handles to check, one after    *)
(* the other, and two searches that share the threads for their providers.   *)
EXTENDS Ends

MCValues  == {"jo", "jo@x", "+62"}
MCModules == {"m1", "m2"}
MCRecords == {<<"jo">>, <<"jo", "jo@x">>, <<"jo@x", "+62">>, <<"+62", "+62">>}

Result(module, records) == [module |-> module, records |-> records]

\* Two results, one of them of two records; and three, of which two share a module.
MCInputs ==
    {<<Result("m1", <<r, s>>), Result("m2", <<t>>)>> : r, s, t \in MCRecords}
    \cup {<<Result("m1", <<r>>), Result(m, <<s>>), Result("m1", <<t>>)>> :
              m \in MCModules, r, s, t \in MCRecords}

MCClients == <<"omniroute", "openai">>

\* Two instances have one name, and one class lists no hook.
MCPlugins == {"log", "log2", "alert", "mute"}
MCNameOf  == [p \in MCPlugins |-> IF p = "log2" THEN "log" ELSE p]

\* The page about has a link that is no URL, and the guard refuses the page intranet.  The
\* crawls of jo and of stars meet on about and on stars, which is as deep as the one gets
\* and where the other begins.
MCUrls  == {"jo", "repos", "stars", "about", "photo", "intranet"}
MCLinks == [u \in MCUrls |-> CASE u = "jo"    -> {"repos", "about", "photo"}
                               [] u = "repos" -> {"jo", "stars"}
                               [] u = "stars" -> {"about", "intranet"}
                               [] OTHER       -> {}]
MCRoot  == [c \in Crawls |-> c]

MCProviders == <<"first", "second">>

\* Two providers may differ in how sure they are of one page.
MCFinds == {{}, {[key |-> "jo", status |-> "possibly"]},
            {[key |-> "jo", status |-> "found"], [key |-> "al", status |-> "possibly"]}}

ASSUME EndsAssumption
=============================================================================
