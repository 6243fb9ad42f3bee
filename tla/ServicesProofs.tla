--------------------------- MODULE ServicesProofs ---------------------------
(* The components side by side: what is proved of each of them on its own   *)
(* holds where one of them is exercised and the others keep still.          *)
EXTENDS Services, RulesLimitsProofs, SafebrowsingProofs, UserFiltersProofs,
        RequestsProofs, StartupProofs

LEMMA EachInit ==
  ASSUME ServicesInit
  PROVE  /\ LimitsInit /\ SafebrowsingInit /\ CustomInit /\ PageInit /\ StatsInit
         /\ LogInit /\ StartupInit
  BY DEF ServicesInit

\* A step is one of the component that is exercised, and a stutter of the others.
LEMMA EachStep ==
  ASSUME [ServicesNext]_servicesVars
  PROVE  /\ [LimitsNext]_limitsVars /\ [SafebrowsingNext]_sbVars
         /\ [CustomNext]_customVars /\ [PageNext]_pageVars /\ [StatsNext]_statsVars
         /\ [LogNext]_logVars /\ [StartupNext]_startVars
  <1>1. CASE UNCHANGED servicesVars
    BY <1>1 DEF servicesVars
  <1>2. CASE OfLimits
    BY <1>2 DEF OfLimits
  <1>3. CASE OfSafebrowsing
    BY <1>3 DEF OfSafebrowsing
  <1>4. CASE OfCustomFilters
    BY <1>4 DEF OfCustomFilters
  <1>5. CASE OfUserRules
    BY <1>5 DEF OfUserRules
  <1>6. CASE OfStatistics
    BY <1>6 DEF OfStatistics
  <1>7. CASE OfLog
    BY <1>7 DEF OfLog
  <1>8. CASE OfStartup
    BY <1>8 DEF OfStartup
  <1> QED BY <1>1, <1>2, <1>3, <1>4, <1>5, <1>6, <1>7, <1>8 DEF ServicesNext

\* Side by side, each component behaves as it does on its own: what the
\* theorems say of its specification they say of this one.
THEOREM SideBySide ==
  ServicesSpec => /\ LimitsSpec /\ SafebrowsingSpec /\ CustomSpec /\ PageSpec
                  /\ StatsSpec /\ LogSpec /\ StartupSpec
  BY EachInit, EachStep, PTL
  DEF ServicesSpec, LimitsSpec, SafebrowsingSpec, CustomSpec, PageSpec, StatsSpec,
      LogSpec, StartupSpec

\* Every variable of every component keeps its type.
THEOREM ServicesTypes == ServicesSpec => []ServicesTypeOK
  <1>1. /\ LimitsTypeOK /\ SafebrowsingTypeOK /\ CustomTypeOK /\ PageTypeOK
        /\ StatsTypeOK /\ LogTypeOK /\ StartupTypeOK
        => ServicesTypeOK
    BY DEF ServicesTypeOK
  <1>2. StartInv => StartupTypeOK
    BY DEF StartInv, OrderInv
  <1> QED BY <1>1, <1>2, SideBySide, RulesLimitsTypes, SafebrowsingTyped, CustomFiltersTypes,
             UserRulesPageTypes, StatsTypes, FilteringLogTypes, StartInvariant, PTL
=============================================================================
