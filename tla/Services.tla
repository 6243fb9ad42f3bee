------------------------------ MODULE Services ------------------------------
(* Components that share no state, side by side: `service` is the one a     *)
(* behaviour exercises, the others keep their initial state.  One run then  *)
(* checks each of them exhaustively, without the product of their states.   *)
EXTENDS RulesLimits, Safebrowsing, CustomFilters, UserRulesPage, PageStats,
        FilteringLog, Startup

VARIABLE service

OfLimits == service = "limits" /\ LimitsNext
            /\ UNCHANGED <<sbVars, customVars, pageVars, statsVars, logVars, startVars>>
OfSafebrowsing == service = "safebrowsing" /\ SafebrowsingNext
                  /\ UNCHANGED <<limitsVars, customVars, pageVars, statsVars, logVars, startVars>>
OfCustomFilters == service = "custom filters" /\ CustomNext
                   /\ UNCHANGED <<limitsVars, sbVars, pageVars, statsVars, logVars, startVars>>
OfUserRules == service = "user rules" /\ PageNext
               /\ UNCHANGED <<limitsVars, sbVars, customVars, statsVars, logVars, startVars>>
OfStatistics == service = "statistics" /\ StatsNext
                /\ UNCHANGED <<limitsVars, sbVars, customVars, pageVars, logVars, startVars>>
OfLog == service = "log" /\ LogNext
         /\ UNCHANGED <<limitsVars, sbVars, customVars, pageVars, statsVars, startVars>>
OfStartup == service = "startup" /\ StartupNext
             /\ UNCHANGED <<limitsVars, sbVars, customVars, pageVars, statsVars, logVars>>

ServicesInit ==
    /\ service \in {"limits", "safebrowsing", "custom filters", "user rules",
                    "statistics", "log", "startup"}
    /\ LimitsInit /\ SafebrowsingInit /\ CustomInit /\ PageInit /\ StatsInit /\ LogInit
    /\ StartupInit

ServicesNext ==
    /\ \/ OfLimits \/ OfSafebrowsing \/ OfCustomFilters \/ OfUserRules
       \/ OfStatistics \/ OfLog \/ OfStartup
    /\ UNCHANGED service

servicesVars == <<limitsVars, sbVars, customVars, pageVars, statsVars, logVars, startVars,
                  service>>

ServicesSpec == ServicesInit /\ [][ServicesNext]_servicesVars

-----------------------------------------------------------------------------
(* Every variable of the component that is exercised stays within its type *)
(* (the others never change, and each is exercised from its initial state). *)
ServicesTypeOK ==
    /\ service = "limits" => LimitsTypeOK
    /\ service = "safebrowsing" => SafebrowsingTypeOK
    /\ service = "custom filters" => CustomTypeOK
    /\ service = "user rules" => PageTypeOK
    /\ service = "statistics" => StatsTypeOK
    /\ service = "log" => LogTypeOK
    /\ service = "startup" => StartupTypeOK
=============================================================================
