---------------------------- MODULE Safebrowsing ----------------------------
(* The lookup of visited sites.  Verdicts are cached by hash, and no two    *)
(* hosts share one: a bad one for 40 minutes, "safe" without a limit.  The  *)
(* server is asked by the first four digits of a hash, which hosts do       *)
(* share; what it was asked is cached apart, in memory only, and a server   *)
(* that fails is left alone for 40 minutes.  A lookup is one slot of        *)
(* Lookups, each action the code between two awaits.                        *)
EXTENDS Naturals, Sequences, FiniteSets

CONSTANTS
    Hosts,            \* the hosts the server may list
    Visited,          \* those of them the user visits
    HostChain,        \* extractHosts: a host and its parent domains, in order
    HashPrefixes,     \* the first digits of hashes (DOMAIN_HASH_LENGTH)
    HostPrefix,       \* those of the hash of each host
    Lookups,          \* slots of running lookups
    SaveEvery         \* SbCache.set saves when the size is a multiple of it (20)

ASSUME SafebrowsingAssumption ==
    /\ Visited \subseteq Hosts
    /\ HostChain \in [Hosts -> Seq(Hosts)]
    /\ \A h \in Hosts : \E i \in DOMAIN HostChain[h] : HostChain[h][i] = h
    /\ HostPrefix \in [Hosts -> HashPrefixes]
    /\ SaveEvery \in Nat \ {0}

VARIABLES
    sbOn,             \* ~SettingOption.DisableSafebrowsing
    verdict,          \* sbCache
    savedVerdict,     \* SB_LRU_CACHE_KEY in the storage
    asked,            \* sbRequestCache
    suspended,        \* SB_SUSPENDED_CACHE_KEY, less than 40 minutes old
    lookup,           \* the running lookups
    answer,           \* history: the last answer taken for each host
    reported          \* history: hosts the server has ever answered to be bad

sbVars == <<sbOn, verdict, savedVerdict, asked, suspended, lookup, answer, reported>>

\* SB_ALLOW_LIST is "allow" when a lookup and "trust" when the user put it there.
Verdicts == {"none", "allow", "trust", "bad"}
NoLookup == [pc |-> "idle", host |-> {}, ask |-> {}, bad |-> {}, newer |-> {}]
LookupRecord ==
    [pc : {"idle", "suspended", "ask", "process", "conclude"}, host : {{}} \union {{h} : h \in Hosts},
     ask : SUBSET HashPrefixes, bad : SUBSET Hosts, newer : SUBSET Hosts]

ChainOf == [h \in Hosts |-> {HostChain[h][i] : i \in DOMAIN HostChain[h]}]
Chain(h) == ChainOf[h]
NothingCached == [h \in Hosts |-> "none"]
Size(v) == Cardinality({h \in Hosts : v[h] # "none"})

SafebrowsingInit ==
    /\ sbOn = TRUE /\ suspended = FALSE
    /\ verdict = NothingCached /\ savedVerdict = NothingCached
    /\ asked = {} /\ lookup = [l \in Lookups |-> NoLookup]
    /\ answer = [h \in Hosts |-> "none"] /\ reported = {}

-----------------------------------------------------------------------------
\* SbCache.set: one more verdict; the cache is saved now and then, if it can be.
CacheVerdict(h, v) ==
    /\ verdict' = [verdict EXCEPT ![h] = v]
    /\ \/ UNCHANGED savedVerdict
       \/ Size(verdict') % SaveEvery = 0 /\ savedVerdict' = verdict'

\* One after the other, in any order; what was saved is one of the states between.
Listed(b) == [h \in Hosts |-> IF h \in b THEN "bad" ELSE verdict[h]]
SavedListed(bad) ==
    {Listed(b) : b \in {c \in SUBSET bad : c # {} /\ Size(Listed(c)) % SaveEvery = 0}}

Ended(l) == [lookup EXCEPT ![l] = NoLookup]
Site(l) == lookup[l].host
Checked(l) == UNION {Chain(h) : h \in Site(l)}
PrefixesOf(hosts) == {HostPrefix[x] : x \in hosts}

\* checkHostsInSbCache: the host itself, then its parent domains.
ParentsCached(h) ==                               \* mistake: not the host itself
    \E x \in Chain(h) \ {h} : verdict[x] # "none"
Cached(h) == \E x \in Chain(h) : verdict[x] # "none"

StartLookup(l, h) ==
    /\ sbOn /\ lookup[l].pc = "idle" /\ ~Cached(h)
    /\ lookup' = [lookup EXCEPT ![l] = [NoLookup EXCEPT !.pc = "suspended", !.host = {h}]]
    /\ UNCHANGED <<sbOn, verdict, savedVerdict, asked, suspended, answer,
                   reported>>

\* Only what was not asked before is asked; if nothing is left the site is safe.
OwnUnasked(l) == PrefixesOf(Site(l)) \ asked    \* mistake: without the parent domains
Unasked(l) == PrefixesOf(Checked(l)) \ asked

CheckSuspended(l) ==
    /\ lookup[l].pc = "suspended"
    /\ \/ /\ lookup' = Ended(l)               \* suspended, or the storage fails
          /\ UNCHANGED <<verdict, savedVerdict>>
       \/ /\ ~suspended /\ Unasked(l) = {}
          /\ lookup' = Ended(l)
          /\ \E h \in Site(l) : CacheVerdict(h, "allow")
       \/ /\ ~suspended /\ Unasked(l) # {}
          /\ lookup' = [lookup EXCEPT ![l].pc = "ask", ![l].ask = Unasked(l)]
          /\ UNCHANGED <<verdict, savedVerdict>>
    /\ UNCHANGED <<sbOn, asked, suspended, answer, reported>>

\* The server lists some of the hosts with a prefix that was asked, those of the
\* chain or others; the suspension is lifted.  An answer of a status below 500 that
\* has no text, or a text too long, is one that lists nothing.
Answered(l) == {h \in Hosts : HostPrefix[h] \in lookup[l].ask}

AnswerLookup(l) ==
    /\ lookup[l].pc = "ask"
    /\ suspended' = FALSE
    /\ \E bad \in SUBSET Answered(l) :
          /\ lookup' = [lookup EXCEPT ![l].pc = "process", ![l].bad = bad]
          /\ answer' = [h \in Hosts |-> IF h \in bad THEN "bad"
                                        ELSE IF h \in Answered(l) THEN "clean" ELSE answer[h]]
          /\ reported' = reported \union bad
    /\ UNCHANGED <<sbOn, verdict, savedVerdict, asked>>

\* An error of the network or the server suspends lookups; no response, or a
\* suspension that cannot be stored or lifted, does not.
MarkAsked(ask) == asked \union ask               \* mistake: although nothing was learnt
NothingLearnt(ask) == asked

FailLookup(l) ==
    /\ lookup[l].pc = "ask"
    /\ suspended' \in {suspended, TRUE}
    /\ asked' = NothingLearnt(lookup[l].ask)
    /\ lookup' = Ended(l)
    /\ UNCHANGED <<sbOn, verdict, savedVerdict, answer, reported>>

\* The prefixes are marked as asked and processSbResponse caches every host listed.
\* If a save fails on the way it returns null, as if no host of the chain was listed.
ProcessAnswer(l) ==
    /\ lookup[l].pc = "process"
    /\ asked' = asked \union lookup[l].ask
    /\ LET bad == lookup[l].bad
           Found(hosts) == [lookup EXCEPT ![l].pc = "conclude", ![l].ask = {}, ![l].bad = hosts]
       IN /\ verdict' = Listed(bad)
          /\ \/ /\ lookup' = Found(bad \intersect Checked(l))
                /\ IF SavedListed(bad) = {} THEN UNCHANGED savedVerdict
                   ELSE savedVerdict' \in SavedListed(bad)
             \/ /\ SavedListed(bad) # {}
                /\ lookup' = Found({})
                /\ savedVerdict' \in SavedListed(bad) \union {savedVerdict}
    /\ UNCHANGED <<sbOn, suspended, answer, reported>>

\* Then, perhaps after a save, the outcome is cached for the site.
Unlisted(l) == "bad"                            \* mistake: whatever was listed
Unset(l) == IF lookup[l].bad # {} THEN "bad" ELSE "null"  \* mistake: no default
Outcome(l) == IF lookup[l].bad # {} THEN "bad" ELSE "allow"

ConcludeLookup(l) ==
    /\ lookup[l].pc = "conclude"
    /\ \E h \in Site(l) : CacheVerdict(h, Outcome(l))
    /\ lookup' = Ended(l)
    /\ UNCHANGED <<sbOn, asked, suspended, answer, reported>>

-----------------------------------------------------------------------------
\* addToSafebrowsingTrusted, from the page that tells the site is blocked; the
\* running lookups do not know.
TrustSite(h) ==
    /\ verdict[h] # "trust" /\ Chain(h) \cap reported # {}
    /\ CacheVerdict(h, "trust")
    /\ lookup' = [l \in Lookups |-> IF h \in Checked(l)
                                    THEN [lookup[l] EXCEPT !.newer = @ \union {h}]
                                    ELSE lookup[l]]
    /\ UNCHANGED <<sbOn, asked, suspended, answer, reported>>

\* The setting is switched: the verdicts are cleared, what was asked is not.
ToggleSafebrowsing ==
    /\ sbOn' = ~sbOn
    /\ verdict' = NothingCached /\ savedVerdict' \in {savedVerdict, NothingCached}
    /\ UNCHANGED <<asked, suspended, lookup, answer, reported>>

\* A bad verdict is 40 minutes old, or the cache is full.
Expire(h) ==
    /\ verdict[h] # "none"
    /\ verdict' = [verdict EXCEPT ![h] = "none"]
    /\ UNCHANGED <<sbOn, savedVerdict, asked, suspended, lookup, answer, reported>>

\* sbRequestCache is full.
ForgetAsked(p) ==
    /\ p \in asked
    /\ asked' = asked \ {p}
    /\ UNCHANGED <<sbOn, verdict, savedVerdict, suspended, lookup, answer, reported>>

SuspensionEnds ==
    /\ suspended
    /\ suspended' = FALSE
    /\ UNCHANGED <<sbOn, verdict, savedVerdict, asked, lookup, answer,
                   reported>>

\* SbCache.init: the saved verdicts that are not stale; what was asked is lost.
RestartSafebrowsing ==
    /\ \E stale \in SUBSET {h \in Hosts : savedVerdict[h] = "bad"} :
          verdict' = [h \in Hosts |-> IF h \in stale THEN "none" ELSE savedVerdict[h]]
    /\ asked' = {}
    /\ lookup' = [l \in Lookups |-> NoLookup]
    /\ UNCHANGED <<sbOn, savedVerdict, suspended, answer, reported>>

LookupStep(l) ==
    \/ CheckSuspended(l) \/ AnswerLookup(l) \/ FailLookup(l)
    \/ ProcessAnswer(l) \/ ConcludeLookup(l)

SafebrowsingNext ==
    \/ \E l \in Lookups : LookupStep(l) \/ \E h \in Visited : StartLookup(l, h)
    \/ \E h \in Visited : TrustSite(h)
    \/ \E h \in Hosts : Expire(h)
    \/ \E p \in HashPrefixes : ForgetAsked(p)
    \/ ToggleSafebrowsing \/ SuspensionEnds \/ RestartSafebrowsing

SafebrowsingSpec == SafebrowsingInit /\ [][SafebrowsingNext]_sbVars

-----------------------------------------------------------------------------
SafebrowsingTypeOK ==
    /\ sbOn \in BOOLEAN /\ suspended \in BOOLEAN
    /\ verdict \in [Hosts -> Verdicts] /\ savedVerdict \in [Hosts -> Verdicts]
    /\ asked \subseteq HashPrefixes /\ lookup \in [Lookups -> LookupRecord]
    /\ answer \in [Hosts -> {"none", "clean", "bad"}] /\ reported \subseteq Hosts

(* A site the user does not trust is found safe only if the server has      *)
(* answered for it and for each of its parent domains: an error, a          *)
(* suspension or a restart never makes a site safe that nobody asked about. *)
SafeIsAnswered ==
    \A h \in Hosts : verdict[h] = "allow" => \A x \in Chain(h) : answer[x] # "none"

(* A site is blocked only if the server has reported it or one of its       *)
(* parent domains.                                                         *)
BlockedIsReported ==
    \A h \in Hosts : verdict[h] = "bad" => Chain(h) \cap reported # {}

\* The hosts the server may list though the lookup is not about them.
Beside(l) == {h \in Hosts \ Checked(l) : HostPrefix[h] \in PrefixesOf(Checked(l))}

(* An answer blocks a site the user trusts only if the question was on its  *)
(* way when the site was trusted: a lookup that began later finds the trust *)
(* in the cache, for the site itself and for the sites below it.  A lookup  *)
(* of another site that shares the prefix does not look there, and when the *)
(* prefix is no longer marked as asked its answer may list the trusted site *)
(* again.                                                                   *)
TrustHolds ==
    [][\A l \in Lookups : ProcessAnswer(l) \/ ConcludeLookup(l) =>
          \A h \in Hosts : verdict[h] = "trust" /\ verdict'[h] = "bad"
                             => h \in lookup[l].newer \union Beside(l)]_sbVars

(* The lookup with its caches implements what SiteVerdicts promises.        *)
SV == INSTANCE SiteVerdicts WITH
        Sites <- Hosts, Domains <- ChainOf, kept <- savedVerdict
VerdictsAreKept == SV!VerdictsSpec

(* A site is taken as safe without asking again only if the server's last   *)
(* answer reported none of its domains: "In case we have not found anything *)
(* in safebrowsingCache and all short hashes have been checked in           *)
(* safebrowsingRequestsCache - means that there is no need to request       *)
(* backend again" (api/safebrowsing.ts:162-163).                           *)
NoNeedToAsk ==
    [][\A l \in Lookups : CheckSuspended(l) /\ verdict' # verdict =>
          \A x \in Checked(l) : answer[x] # "bad"]_sbVars
=============================================================================
