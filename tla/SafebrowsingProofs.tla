------------------------- MODULE SafebrowsingProofs -------------------------
(* What Safebrowsing promises, for any hosts, chains of parent domains and  *)
(* number of lookups.                                                       *)
EXTENDS Safebrowsing, TLAPS

\* The verdicts of a function v follow from the answers so far.
Supported(v) ==
    \A h \in Hosts :
        /\ v[h] = "allow" => \A x \in Chain(h) : answer[x] # "none"
        /\ v[h] = "bad" => Chain(h) \cap reported # {}

\* What a lookup has learnt is backed by answers, those to come included.
LookupSupported(l) ==
    /\ lookup[l].ask \subseteq PrefixesOf(Checked(l))
    /\ lookup[l].bad \subseteq reported
    /\ lookup[l].pc = "process" => lookup[l].bad \subseteq Checked(l) \union Beside(l)
    /\ lookup[l].pc = "conclude" => lookup[l].bad \subseteq Checked(l)
    /\ lookup[l].pc \in {"ask", "process"} =>
          \A x \in Checked(l) : HostPrefix[x] \in lookup[l].ask \/ answer[x] # "none"
    /\ lookup[l].pc = "process" => \A x \in Answered(l) : answer[x] # "none"
    /\ lookup[l].pc = "conclude" => \A x \in Checked(l) : answer[x] # "none"
    /\ lookup[l].pc # "idle" =>
          \A x \in Checked(l) : verdict[x] = "trust" => x \in lookup[l].newer

\* The inductive invariant.
SupportInv ==
    /\ SafebrowsingTypeOK
    /\ \A x \in Hosts : HostPrefix[x] \in asked => answer[x] # "none"
    /\ \A x \in Hosts : answer[x] = "bad" => x \in reported
    /\ Supported(verdict) /\ Supported(savedVerdict)
    /\ \A l \in Lookups : LookupSupported(l)

-----------------------------------------------------------------------------
\* Facts about the chains and about what is cached.

LEMMA ChainHosts == \A h \in Hosts : Chain(h) \subseteq Hosts /\ h \in Chain(h)
  BY SafebrowsingAssumption DEF Chain, ChainOf

LEMMA CheckedOne ==
  ASSUME SafebrowsingTypeOK, NEW l \in Lookups, NEW h \in Site(l)
  PROVE  h \in Hosts /\ Site(l) = {h} /\ Checked(l) = Chain(h)
  BY DEF SafebrowsingTypeOK, LookupRecord, Site, Checked

LEMMA CheckedHosts ==
  ASSUME SafebrowsingTypeOK, NEW l \in Lookups
  PROVE  Checked(l) \subseteq Hosts
  BY ChainHosts DEF SafebrowsingTypeOK, LookupRecord, Site, Checked

\* A verdict that the answers justify keeps what is cached supported.
LEMMA CacheVerdictSupported ==
  ASSUME SafebrowsingTypeOK, Supported(verdict), Supported(savedVerdict),
         NEW h \in Hosts, NEW v \in Verdicts, CacheVerdict(h, v),
         UNCHANGED <<answer, reported>>,
         v = "allow" => \A x \in Chain(h) : answer[x] # "none",
         v = "bad" => Chain(h) \cap reported # {}
  PROVE  /\ verdict' \in [Hosts -> Verdicts] /\ savedVerdict' \in [Hosts -> Verdicts]
         /\ Supported(verdict)' /\ Supported(savedVerdict)'
         /\ \A x \in Hosts : x # h => verdict'[x] = verdict[x]
         /\ verdict'[h] = v
         /\ savedVerdict' \in {savedVerdict, verdict'}
<1>1. verdict' = [verdict EXCEPT ![h] = v]
  BY DEF CacheVerdict
<1>2. verdict' \in [Hosts -> Verdicts] /\ (\A x \in Hosts : x # h => verdict'[x] = verdict[x])
      /\ verdict'[h] = v
  BY <1>1 DEF SafebrowsingTypeOK
<1>3. Supported(verdict)'
  BY <1>2 DEF Supported, Chain
<1>4. savedVerdict' \in {savedVerdict, verdict'}
  BY DEF CacheVerdict
<1>5. Supported(savedVerdict)'
  BY <1>3, <1>4 DEF Supported, Chain
<1> QED
  BY <1>2, <1>3, <1>4, <1>5 DEF SafebrowsingTypeOK

\* So does any set of listed hosts.
LEMMA ListedSupported ==
  ASSUME SafebrowsingTypeOK, Supported(verdict), NEW b \in SUBSET Hosts, b \subseteq reported
  PROVE  Listed(b) \in [Hosts -> Verdicts] /\ Supported(Listed(b))
<1>1. Listed(b) \in [Hosts -> Verdicts]
  BY DEF Listed, SafebrowsingTypeOK, Verdicts
<1>2. ASSUME NEW h \in Hosts, Listed(b)[h] = "allow"
      PROVE  \A x \in Chain(h) : answer[x] # "none"
  BY <1>2 DEF Listed, Supported
<1>3. ASSUME NEW h \in Hosts, Listed(b)[h] = "bad"
      PROVE  Chain(h) \cap reported # {}
  BY <1>3, ChainHosts DEF Listed, Supported
<1> QED
  BY <1>1, <1>2, <1>3 DEF Supported

\* The listed hosts are cached, in whatever state they are saved.
LEMMA ProcessListed ==
  ASSUME SupportInv, NEW l \in Lookups, ProcessAnswer(l)
  PROVE  /\ lookup[l].bad \in SUBSET Hosts /\ lookup[l].bad \subseteq reported
         /\ verdict' \in [Hosts -> Verdicts] /\ savedVerdict' \in [Hosts -> Verdicts]
         /\ Supported(verdict)' /\ Supported(savedVerdict)'
         /\ verdict' = Listed(lookup[l].bad)
         /\ \/ savedVerdict' = savedVerdict
            \/ \E b \in SUBSET lookup[l].bad : savedVerdict' = Listed(b)
<1>1. lookup[l].bad \in SUBSET Hosts /\ lookup[l].bad \subseteq reported
  BY DEF SupportInv, SafebrowsingTypeOK, LookupRecord, LookupSupported
<1>2. UNCHANGED <<answer, reported>> /\ verdict' = Listed(lookup[l].bad)
  BY DEF ProcessAnswer
<1>3. savedVerdict' = savedVerdict \/ \E b \in SUBSET lookup[l].bad : savedVerdict' = Listed(b)
  BY DEF ProcessAnswer, SavedListed
<1>4. Supported(verdict)' /\ verdict' \in [Hosts -> Verdicts]
  BY <1>1, <1>2, ListedSupported DEF SupportInv, Supported, Chain
<1>5. Supported(savedVerdict)' /\ savedVerdict' \in [Hosts -> Verdicts]
  <2>1. CASE savedVerdict' = savedVerdict
    BY <1>2, <2>1 DEF SupportInv, Supported, Chain, SafebrowsingTypeOK
  <2>2. CASE \E b \in SUBSET lookup[l].bad : savedVerdict' = Listed(b)
    <3>1. PICK b \in SUBSET lookup[l].bad : savedVerdict' = Listed(b)
      BY <2>2
    <3>2. Listed(b) \in [Hosts -> Verdicts] /\ Supported(Listed(b))
      BY <1>1, ListedSupported DEF SupportInv
    <3> QED
      BY <1>2, <3>1, <3>2 DEF Supported, Chain
  <2> QED
    BY <1>3, <2>1, <2>2
<1> QED
  BY <1>1, <1>2, <1>3, <1>4, <1>5

-----------------------------------------------------------------------------
\* The invariant is inductive.

\* What is supported stays so as the server answers more.
LEMMA SupportedMonotone ==
  ASSUME SafebrowsingTypeOK, Supported(verdict), Supported(savedVerdict),
         UNCHANGED <<verdict, savedVerdict>>, reported \subseteq reported',
         \A x \in Hosts : answer[x] # "none" => answer'[x] # "none"
  PROVE  Supported(verdict)' /\ Supported(savedVerdict)'
  <1>1. \A h \in Hosts : Chain(h) \subseteq Hosts
    BY ChainHosts
  <1> QED BY <1>1 DEF Supported, Chain

\* A lookup that does not move stays supported unless a trust is new to it.
LEMMA LookupFrame ==
  ASSUME SafebrowsingTypeOK, NEW q \in Lookups, LookupSupported(q),
         lookup'[q] = lookup[q], reported \subseteq reported',
         \A x \in Hosts : answer[x] # "none" => answer'[x] # "none",
         \A x \in Hosts : verdict'[x] = "trust" => verdict[x] = "trust"
  PROVE  LookupSupported(q)'
  <1>1. Checked(q)' = Checked(q) /\ Checked(q) \subseteq Hosts
    BY CheckedHosts DEF Checked, Site, Chain
  <1>2. /\ Answered(q)' = Answered(q) /\ Answered(q) \subseteq Hosts
        /\ Beside(q)' = Beside(q) /\ PrefixesOf(Checked(q))' = PrefixesOf(Checked(q))
    BY <1>1 DEF Answered, Beside, PrefixesOf
  <1> QED BY <1>1, <1>2 DEF LookupSupported

\* A slot without a lookup has nothing to support.
LEMMA IdleSupported ==
  ASSUME NEW q \in Lookups, lookup[q] = NoLookup
  PROVE  LookupSupported(q)
  BY DEF NoLookup, LookupSupported, Checked, Site

LEMMA NoLookupType == NoLookup \in LookupRecord
  BY DEF NoLookup, LookupRecord

LEMMA IdleSupportedNext ==
  ASSUME NEW q \in Lookups, lookup'[q] = NoLookup
  PROVE  LookupSupported(q)'
  BY DEF NoLookup, LookupSupported, Checked, Site

LEMMA SupportInit == SafebrowsingInit => SupportInv
  <1> SUFFICES ASSUME SafebrowsingInit PROVE SupportInv
    OBVIOUS
  <1>1. SafebrowsingTypeOK
    BY NoLookupType DEF SafebrowsingInit, SafebrowsingTypeOK, NothingCached, Verdicts
  <1>2. Supported(verdict) /\ Supported(savedVerdict)
    BY DEF SafebrowsingInit, NothingCached, Supported
  <1>3. \A l \in Lookups : LookupSupported(l)
    BY IdleSupported DEF SafebrowsingInit
  <1> QED BY <1>1, <1>2, <1>3 DEF SafebrowsingInit, SupportInv

LEMMA StartSupported ==
  ASSUME SupportInv, NEW l \in Lookups, NEW h \in Hosts, StartLookup(l, h)
  PROVE  SupportInv'
  <1> DEFINE r == [NoLookup EXCEPT !.pc = "suspended", !.host = {h}]
  <1>1. r \in LookupRecord
    BY DEF NoLookup, LookupRecord
  <1>2. SafebrowsingTypeOK'
    BY <1>1 DEF SupportInv, SafebrowsingTypeOK, StartLookup
  <1>3. Supported(verdict)' /\ Supported(savedVerdict)'
    BY SupportedMonotone DEF SupportInv, StartLookup
  <1>4. ASSUME NEW q \in Lookups PROVE LookupSupported(q)'
    <2>1. CASE q = l
      <3>1. lookup'[q] = r
        BY <2>1 DEF StartLookup, SupportInv, SafebrowsingTypeOK
      <3>2. Checked(q)' = Chain(h)
        BY <3>1 DEF Checked, Site, NoLookup, Chain
      <3>3. \A x \in Chain(h) : verdict'[x] = "none"
        BY DEF StartLookup, Cached
      <3> QED BY <3>1, <3>2, <3>3 DEF LookupSupported, NoLookup
    <2>2. CASE q # l
      BY <2>2, LookupFrame DEF SupportInv, SafebrowsingTypeOK, StartLookup
    <2> QED BY <2>1, <2>2
  <1> QED BY <1>2, <1>3, <1>4 DEF SupportInv, StartLookup

LEMMA CheckSupported ==
  ASSUME SupportInv, NEW l \in Lookups, CheckSuspended(l)
  PROVE  SupportInv'
  <1> USE DEF SupportInv
  <1>0. lookup[l] \in LookupRecord /\ Checked(l) \subseteq Hosts
    BY CheckedHosts DEF SafebrowsingTypeOK
  <1>1. CASE lookup' = Ended(l)
    <2>2. ASSUME NEW h \in Site(l), Unasked(l) = {}
          PROVE  h \in Hosts /\ \A x \in Chain(h) : answer[x] # "none"
      BY <1>0, <2>2, CheckedOne DEF Unasked, PrefixesOf
    <2>3. /\ verdict' \in [Hosts -> Verdicts] /\ savedVerdict' \in [Hosts -> Verdicts]
          /\ Supported(verdict)' /\ Supported(savedVerdict)'
          /\ \A x \in Hosts : verdict'[x] = "trust" => verdict[x] = "trust"
      <3>1. CASE UNCHANGED <<verdict, savedVerdict>>
        BY <3>1, SupportedMonotone DEF CheckSuspended, SafebrowsingTypeOK
      <3>2. CASE Unasked(l) = {} /\ \E h \in Site(l) : CacheVerdict(h, "allow")
        <4>1. PICK h \in Site(l) : CacheVerdict(h, "allow")
          BY <3>2
        <4>2. h \in Hosts /\ "allow" \in Verdicts /\ \A x \in Chain(h) : answer[x] # "none"
          BY <2>2, <3>2 DEF Verdicts
        <4>3. UNCHANGED <<answer, reported>>
          BY DEF CheckSuspended
        <4> QED BY <4>1, <4>2, <4>3, CacheVerdictSupported
      <3> QED BY <3>1, <3>2 DEF CheckSuspended
    <2>4. SafebrowsingTypeOK'
      BY <1>1, <2>3, NoLookupType DEF Ended, SafebrowsingTypeOK, CheckSuspended
    <2>5. ASSUME NEW q \in Lookups PROVE LookupSupported(q)'
      <3>1. CASE q = l
        BY <1>1, <3>1, IdleSupportedNext DEF Ended, SafebrowsingTypeOK
      <3>2. CASE q # l
        BY <1>1, <2>3, <3>2, LookupFrame DEF Ended, SafebrowsingTypeOK, CheckSuspended
      <3> QED BY <3>1, <3>2
    <2> QED BY <2>3, <2>4, <2>5 DEF CheckSuspended
  <1>2. CASE lookup' # Ended(l)
    <2> DEFINE r == [lookup[l] EXCEPT !.pc = "ask", !.ask = Unasked(l)]
    <2>1. /\ lookup' = [lookup EXCEPT ![l] = r]
          /\ UNCHANGED <<sbOn, verdict, savedVerdict, asked, suspended, answer, reported>>
      BY <1>2 DEF CheckSuspended, SafebrowsingTypeOK
    <2>2. r \in LookupRecord
      <3>1. Unasked(l) \in SUBSET HashPrefixes
        BY <1>0, SafebrowsingAssumption DEF Unasked, PrefixesOf
      <3> QED BY <1>0, <3>1 DEF LookupRecord
    <2>3. SafebrowsingTypeOK'
      BY <2>1, <2>2 DEF SafebrowsingTypeOK
    <2>4. Supported(verdict)' /\ Supported(savedVerdict)'
      BY <2>1, SupportedMonotone
    <2>5. ASSUME NEW q \in Lookups PROVE LookupSupported(q)'
      <3>1. CASE q = l
        <4>1. lookup'[q] = r /\ r.host = lookup[l].host /\ r.ask = Unasked(l)
              /\ r.bad = lookup[l].bad /\ r.newer = lookup[l].newer /\ r.pc = "ask"
          BY <2>1, <3>1, <1>0 DEF SafebrowsingTypeOK, LookupRecord
        <4>2. Checked(q)' = Checked(l) /\ PrefixesOf(Checked(q))' = PrefixesOf(Checked(l))
          BY <4>1, <3>1 DEF Checked, Site, Chain, PrefixesOf
        <4>3. LookupSupported(l) /\ lookup[l].pc = "suspended"
          BY DEF CheckSuspended
        <4>4. \A x \in Checked(l) : HostPrefix[x] \in Unasked(l) \/ answer[x] # "none"
          BY <1>0 DEF Unasked, PrefixesOf
        <4>5. Unasked(l) \subseteq PrefixesOf(Checked(l))
          BY DEF Unasked
        <4> QED BY <2>1, <3>1, <4>1, <4>2, <4>3, <4>4, <4>5 DEF LookupSupported
      <3>2. CASE q # l
        BY <2>1, <3>2, LookupFrame DEF SafebrowsingTypeOK
      <3> QED BY <3>1, <3>2
    <2> QED BY <2>1, <2>3, <2>4, <2>5
  <1> QED BY <1>1, <1>2

LEMMA AnswerSupported ==
  ASSUME SupportInv, NEW l \in Lookups, AnswerLookup(l)
  PROVE  SupportInv'
  <1> USE DEF SupportInv
  <1>0. lookup[l] \in LookupRecord /\ Checked(l) \subseteq Hosts /\ LookupSupported(l)
        /\ lookup[l].pc = "ask"
    BY CheckedHosts DEF SafebrowsingTypeOK, AnswerLookup
  <1>1. PICK bad \in SUBSET Answered(l) :
          /\ lookup' = [lookup EXCEPT ![l].pc = "process", ![l].bad = bad]
          /\ answer' = [h \in Hosts |-> IF h \in bad THEN "bad"
                                        ELSE IF h \in Answered(l) THEN "clean" ELSE answer[h]]
          /\ reported' = reported \union bad
    BY DEF AnswerLookup
  <1>2. UNCHANGED <<sbOn, verdict, savedVerdict, asked>> /\ suspended' = FALSE
    BY DEF AnswerLookup
  <1>3. bad \subseteq Hosts /\ bad \subseteq Checked(l) \union Beside(l)
    BY <1>0 DEF Answered, Beside, LookupSupported
  <1>4. \A x \in Hosts : answer[x] # "none" => answer'[x] # "none"
    BY <1>1
  <1> DEFINE r == [lookup[l] EXCEPT !.pc = "process", !.bad = bad]
  <1>5. r \in LookupRecord
    BY <1>0, <1>3 DEF LookupRecord
  <1>6. lookup' = [lookup EXCEPT ![l] = r]
    BY <1>1 DEF SafebrowsingTypeOK
  <1>7. SafebrowsingTypeOK'
    BY <1>1, <1>2, <1>3, <1>5, <1>6 DEF SafebrowsingTypeOK
  <1>8. Supported(verdict)' /\ Supported(savedVerdict)'
    BY <1>1, <1>2, <1>4, SupportedMonotone
  <1>9. ASSUME NEW q \in Lookups PROVE LookupSupported(q)'
    <2>1. CASE q = l
      <3>1. lookup'[q] = r /\ r.host = lookup[l].host /\ r.ask = lookup[l].ask
            /\ r.bad = bad /\ r.newer = lookup[l].newer /\ r.pc = "process"
        BY <1>0, <1>6, <2>1 DEF SafebrowsingTypeOK, LookupRecord
      <3>2. Checked(q)' = Checked(l)
        BY <2>1, <3>1 DEF Checked, Site, Chain
      <3>3. /\ Answered(q)' = Answered(l) /\ Beside(q)' = Beside(l)
            /\ PrefixesOf(Checked(q))' = PrefixesOf(Checked(l))
        BY <2>1, <3>1, <3>2 DEF Answered, Beside, PrefixesOf
      <3>4. \A x \in Answered(l) : x \in Hosts /\ answer'[x] # "none"
        BY <1>1 DEF Answered
      <3>5. \A x \in Checked(l) : HostPrefix[x] \in lookup[l].ask \/ answer'[x] # "none"
        BY <1>0, <1>4 DEF LookupSupported
      <3>6. /\ bad \subseteq reported' /\ lookup[l].ask \subseteq PrefixesOf(Checked(l))
            /\ \A x \in Checked(l) : verdict'[x] = "trust" => x \in lookup[l].newer
        BY <1>0, <1>1, <1>2 DEF LookupSupported
      <3> QED BY <1>3, <2>1, <3>1, <3>2, <3>3, <3>4, <3>5, <3>6 DEF LookupSupported
    <2>2. CASE q # l
      BY <1>1, <1>2, <1>4, <2>2, LookupFrame DEF SafebrowsingTypeOK
    <2> QED BY <2>1, <2>2
  <1>10. \A x \in Hosts : HostPrefix[x] \in asked' => answer'[x] # "none"
    BY <1>2, <1>4
  <1>11. \A x \in Hosts : answer'[x] = "bad" => x \in reported'
    BY <1>1
  <1> QED BY <1>7, <1>8, <1>9, <1>10, <1>11

LEMMA FailSupported ==
  ASSUME SupportInv, NEW l \in Lookups, FailLookup(l)
  PROVE  SupportInv'
  <1> USE DEF SupportInv, FailLookup, NothingLearnt
  <1>1. SafebrowsingTypeOK'
    BY NoLookupType DEF SafebrowsingTypeOK, Ended
  <1>2. Supported(verdict)' /\ Supported(savedVerdict)'
    BY SupportedMonotone
  <1>3. ASSUME NEW q \in Lookups PROVE LookupSupported(q)'
    <2>1. CASE q = l
      BY <2>1, IdleSupportedNext DEF Ended, SafebrowsingTypeOK
    <2>2. CASE q # l
      BY <2>2, LookupFrame DEF Ended, SafebrowsingTypeOK
    <2> QED BY <2>1, <2>2
  <1> QED BY <1>1, <1>2, <1>3

LEMMA ProcessSupported ==
  ASSUME SupportInv, NEW l \in Lookups, ProcessAnswer(l)
  PROVE  SupportInv'
  <1> USE DEF SupportInv
  <1>0. lookup[l] \in LookupRecord /\ Checked(l) \subseteq Hosts /\ LookupSupported(l)
        /\ lookup[l].pc = "process"
    BY CheckedHosts DEF SafebrowsingTypeOK, ProcessAnswer
  <1>1. /\ asked' = asked \union lookup[l].ask
        /\ UNCHANGED <<sbOn, suspended, answer, reported>>
    BY DEF ProcessAnswer
  <1>2. PICK hosts \in SUBSET (lookup[l].bad \intersect Checked(l)) :
          lookup' = [lookup EXCEPT ![l].pc = "conclude", ![l].ask = {}, ![l].bad = hosts]
    BY DEF ProcessAnswer
  <1>3. /\ verdict' \in [Hosts -> Verdicts] /\ savedVerdict' \in [Hosts -> Verdicts]
        /\ Supported(verdict)' /\ Supported(savedVerdict)'
        /\ verdict' = Listed(lookup[l].bad)
    BY ProcessListed
  <1>4. \A x \in Hosts : verdict'[x] = "trust" => verdict[x] = "trust"
    BY <1>3 DEF Listed
  <1> DEFINE r == [lookup[l] EXCEPT !.pc = "conclude", !.ask = {}, !.bad = hosts]
  <1>5. r \in LookupRecord
    BY <1>0, <1>2 DEF LookupRecord
  <1>6. lookup' = [lookup EXCEPT ![l] = r]
    BY <1>2 DEF SafebrowsingTypeOK
  <1>7. SafebrowsingTypeOK'
    BY <1>0, <1>1, <1>3, <1>5, <1>6 DEF SafebrowsingTypeOK, LookupRecord
  <1>8. \A x \in Hosts : HostPrefix[x] \in asked' => answer'[x] # "none"
    BY <1>0, <1>1 DEF LookupSupported, Answered
  <1>9. ASSUME NEW q \in Lookups PROVE LookupSupported(q)'
    <2>1. CASE q = l
      <3>1. lookup'[q] = r /\ r.host = lookup[l].host /\ r.ask = {}
            /\ r.bad = hosts /\ r.newer = lookup[l].newer /\ r.pc = "conclude"
        BY <1>0, <1>6, <2>1 DEF SafebrowsingTypeOK, LookupRecord
      <3>2. Checked(q)' = Checked(l)
        BY <2>1, <3>1 DEF Checked, Site, Chain
      <3>3. \A x \in Checked(l) : answer'[x] # "none"
        BY <1>0, <1>1 DEF LookupSupported, Answered
      <3>4. hosts \subseteq reported' /\ hosts \subseteq Checked(l)
        BY <1>0, <1>1, <1>2 DEF LookupSupported
      <3>5. \A x \in Checked(l) : verdict'[x] = "trust" => x \in lookup[l].newer
        BY <1>0, <1>4 DEF LookupSupported
      <3> QED BY <2>1, <3>1, <3>2, <3>3, <3>4, <3>5 DEF LookupSupported
    <2>2. CASE q # l
      BY <1>1, <1>4, <1>6, <2>2, LookupFrame DEF SafebrowsingTypeOK
    <2> QED BY <2>1, <2>2
  <1> QED BY <1>1, <1>3, <1>7, <1>8, <1>9

LEMMA ConcludeSupported ==
  ASSUME SupportInv, NEW l \in Lookups, ConcludeLookup(l)
  PROVE  SupportInv'
  <1> USE DEF SupportInv
  <1>0. LookupSupported(l) /\ lookup[l].pc = "conclude"
    BY DEF ConcludeLookup
  <1>1. PICK h \in Site(l) : CacheVerdict(h, Outcome(l))
    BY DEF ConcludeLookup
  <1>2. h \in Hosts /\ Checked(l) = Chain(h)
    BY CheckedOne
  <1>3. /\ Outcome(l) \in Verdicts
        /\ Outcome(l) = "allow" => \A x \in Chain(h) : answer[x] # "none"
        /\ Outcome(l) = "bad" => Chain(h) \cap reported # {}
        /\ Outcome(l) # "trust"
    BY <1>0, <1>2 DEF Outcome, Verdicts, LookupSupported
  <1>4. UNCHANGED <<sbOn, asked, suspended, answer, reported>> /\ lookup' = Ended(l)
    BY DEF ConcludeLookup
  <1>5. /\ verdict' \in [Hosts -> Verdicts] /\ savedVerdict' \in [Hosts -> Verdicts]
        /\ Supported(verdict)' /\ Supported(savedVerdict)'
        /\ \A x \in Hosts : verdict'[x] = "trust" => verdict[x] = "trust"
    BY <1>1, <1>2, <1>3, <1>4, CacheVerdictSupported
  <1>6. SafebrowsingTypeOK'
    BY <1>4, <1>5, NoLookupType DEF Ended, SafebrowsingTypeOK
  <1>7. ASSUME NEW q \in Lookups PROVE LookupSupported(q)'
    <2>1. CASE q = l
      BY <1>4, <2>1, IdleSupportedNext DEF Ended, SafebrowsingTypeOK
    <2>2. CASE q # l
      BY <1>4, <1>5, <2>2, LookupFrame DEF Ended, SafebrowsingTypeOK
    <2> QED BY <2>1, <2>2
  <1> QED BY <1>4, <1>5, <1>6, <1>7

\* A trust is noted by the lookups that run.
LEMMA TrustSupported ==
  ASSUME SupportInv, NEW h \in Hosts, TrustSite(h)
  PROVE  SupportInv'
  <1> USE DEF SupportInv
  <1>1. /\ CacheVerdict(h, "trust")
        /\ UNCHANGED <<sbOn, asked, suspended, answer, reported>>
        /\ lookup' = [l \in Lookups |-> IF h \in Checked(l)
                                        THEN [lookup[l] EXCEPT !.newer = @ \union {h}]
                                        ELSE lookup[l]]
    BY DEF TrustSite
  <1>2. /\ verdict' \in [Hosts -> Verdicts] /\ savedVerdict' \in [Hosts -> Verdicts]
        /\ Supported(verdict)' /\ Supported(savedVerdict)'
        /\ \A x \in Hosts : x # h => verdict'[x] = verdict[x]
    BY <1>1, CacheVerdictSupported DEF Verdicts
  <1>3. ASSUME NEW q \in Lookups
        PROVE  lookup'[q] \in LookupRecord /\ LookupSupported(q)'
    <2>0. lookup[q] \in LookupRecord /\ LookupSupported(q) /\ Checked(q) \subseteq Hosts
      BY CheckedHosts DEF SafebrowsingTypeOK
    <2>1. CASE h \notin Checked(q)
      <3>1. lookup'[q] = lookup[q]
        BY <1>1, <2>1
      <3>2. /\ Checked(q)' = Checked(q) /\ Answered(q)' = Answered(q)
            /\ Beside(q)' = Beside(q) /\ PrefixesOf(Checked(q))' = PrefixesOf(Checked(q))
        BY <3>1 DEF Checked, Site, Chain, Answered, Beside, PrefixesOf
      <3> QED BY <1>1, <1>2, <2>0, <2>1, <3>1, <3>2 DEF LookupSupported
    <2>2. CASE h \in Checked(q)
      <3> DEFINE r == [lookup[q] EXCEPT !.newer = @ \union {h}]
      <3>1. lookup'[q] = r /\ r \in LookupRecord
        BY <1>1, <2>0, <2>2 DEF LookupRecord
      <3>2. r.host = lookup[q].host /\ r.ask = lookup[q].ask /\ r.bad = lookup[q].bad
            /\ r.pc = lookup[q].pc /\ r.newer = lookup[q].newer \union {h}
        BY <2>0 DEF LookupRecord
      <3>3. /\ Checked(q)' = Checked(q) /\ Answered(q)' = Answered(q)
            /\ Beside(q)' = Beside(q) /\ PrefixesOf(Checked(q))' = PrefixesOf(Checked(q))
        BY <3>1, <3>2 DEF Checked, Site, Chain, Answered, Beside, PrefixesOf
      <3> QED BY <1>1, <1>2, <2>0, <3>1, <3>2, <3>3 DEF LookupSupported
    <2> QED BY <2>1, <2>2
  <1>4. lookup' \in [Lookups -> LookupRecord]
    BY <1>1, <1>3
  <1>5. SafebrowsingTypeOK'
    BY <1>1, <1>2, <1>4 DEF SafebrowsingTypeOK
  <1> QED BY <1>1, <1>2, <1>3, <1>5

\* The steps that clear or lose verdicts.
LEMMA ForgetSupported ==
  ASSUME SupportInv,
         \/ ToggleSafebrowsing \/ SuspensionEnds
         \/ \E h \in Hosts : Expire(h)
         \/ \E p \in HashPrefixes : ForgetAsked(p)
  PROVE  SupportInv'
  <1> USE DEF SupportInv, ToggleSafebrowsing, SuspensionEnds, Expire, ForgetAsked, NothingCached
  <1>1. \A x \in Hosts : verdict'[x] \in {verdict[x], "none"}
                         /\ savedVerdict'[x] \in {savedVerdict[x], "none"}
    BY DEF SafebrowsingTypeOK
  <1>2. SafebrowsingTypeOK'
    BY ZenonT(40) DEF SafebrowsingTypeOK, Verdicts
  <1>3. UNCHANGED <<lookup, answer, reported>> /\ asked' \subseteq asked
    OBVIOUS
  <1>4. Supported(verdict)' /\ Supported(savedVerdict)'
    BY <1>1, <1>3 DEF Supported, Chain
  <1>5. ASSUME NEW q \in Lookups PROVE LookupSupported(q)'
    BY <1>1, <1>3, LookupFrame
  <1> QED BY <1>2, <1>3, <1>4, <1>5

LEMMA RestartSupported ==
  ASSUME SupportInv, RestartSafebrowsing
  PROVE  SupportInv'
  <1> USE DEF SupportInv, RestartSafebrowsing
  <1>1. verdict' \in [Hosts -> Verdicts]
        /\ \A x \in Hosts : verdict'[x] \in {savedVerdict[x], "none"}
    BY DEF SafebrowsingTypeOK, Verdicts
  <1>2. SafebrowsingTypeOK'
    BY <1>1, NoLookupType DEF SafebrowsingTypeOK
  <1>3. Supported(verdict)' /\ Supported(savedVerdict)'
    BY <1>1 DEF Supported, Chain
  <1>4. ASSUME NEW q \in Lookups PROVE LookupSupported(q)'
    BY IdleSupportedNext
  <1> QED BY <1>2, <1>3, <1>4

LEMMA StepSupported ==
  ASSUME SupportInv, [SafebrowsingNext]_sbVars
  PROVE  SupportInv'
  <1>1. CASE UNCHANGED sbVars
    <2> USE <1>1 DEF sbVars, SupportInv
    <2>1. SafebrowsingTypeOK'
      BY DEF SafebrowsingTypeOK
    <2>2. Supported(verdict)' /\ Supported(savedVerdict)'
      BY SupportedMonotone
    <2>3. ASSUME NEW q \in Lookups PROVE LookupSupported(q)'
      BY LookupFrame
    <2> QED BY <2>1, <2>2, <2>3
  <1>2. CASE SafebrowsingNext
    BY <1>2, StartSupported, CheckSupported, AnswerSupported, FailSupported,
       ProcessSupported, ConcludeSupported, TrustSupported, ForgetSupported,
       RestartSupported, SafebrowsingAssumption DEF SafebrowsingNext, LookupStep
  <1> QED BY <1>1, <1>2

\* What is believed, now and after a restart, is backed by answers.
THEOREM SupportInvariant == SafebrowsingSpec => []SupportInv
  BY SupportInit, StepSupported, PTL DEF SafebrowsingSpec

\* Type correctness, for any hosts and lookups.
THEOREM SafebrowsingTyped == SafebrowsingSpec => []SafebrowsingTypeOK
  <1>1. SupportInv => SafebrowsingTypeOK
    BY DEF SupportInv
  <1> QED BY <1>1, SupportInvariant, PTL

\* A site is found safe only after the server has answered for all its domains.
THEOREM SafeAnswered == SafebrowsingSpec => []SafeIsAnswered
  <1>1. SupportInv => SafeIsAnswered
    BY DEF SupportInv, Supported, SafeIsAnswered
  <1> QED BY <1>1, SupportInvariant, PTL

\* A site is blocked only if the server has reported one of its domains.
THEOREM BlockedReported == SafebrowsingSpec => []BlockedIsReported
  <1>1. SupportInv => BlockedIsReported
    BY DEF SupportInv, Supported, BlockedIsReported
  <1> QED BY <1>1, SupportInvariant, PTL

-----------------------------------------------------------------------------
\* Trust.

LEMMA TrustStep ==
  ASSUME SupportInv, NEW l \in Lookups, ProcessAnswer(l) \/ ConcludeLookup(l),
         NEW h \in Hosts, verdict[h] = "trust", verdict'[h] = "bad"
  PROVE  h \in lookup[l].newer \union Beside(l)
  <1>0. lookup[l] \in LookupRecord /\ LookupSupported(l)
    BY DEF SupportInv, SafebrowsingTypeOK
  <1>1. CASE ProcessAnswer(l)
    <2>1. verdict' = Listed(lookup[l].bad)
      BY <1>1 DEF ProcessAnswer
    <2>2. h \in lookup[l].bad
      BY <2>1 DEF Listed
    <2> QED BY <1>0, <1>1, <2>2 DEF LookupSupported, ProcessAnswer
  <1>2. CASE ConcludeLookup(l)
    <2>1. PICK g \in Site(l) : CacheVerdict(g, Outcome(l))
      BY <1>2 DEF ConcludeLookup
    <2>2. g \in Hosts /\ Checked(l) = Chain(g) /\ g \in Chain(g)
      BY CheckedOne, ChainHosts DEF SupportInv
    <2>3. g = h
      BY <2>1, <2>2 DEF CacheVerdict, SupportInv, SafebrowsingTypeOK
    <2> QED BY <1>0, <1>2, <2>2, <2>3 DEF LookupSupported, ConcludeLookup
  <1> QED BY <1>1, <1>2

\* An answer overrides only a trust given while the question was on its way, or the
\* trust of a host beside those the lookup is about.
THEOREM TrustKept == SafebrowsingSpec => TrustHolds
  <1>1. ASSUME SupportInv, [SafebrowsingNext]_sbVars
        PROVE  [\A l \in Lookups : ProcessAnswer(l) \/ ConcludeLookup(l) =>
                  \A h \in Hosts : verdict[h] = "trust" /\ verdict'[h] = "bad"
                                     => h \in lookup[l].newer \union Beside(l)]_sbVars
    BY <1>1, TrustStep
  <1> QED BY <1>1, SupportInvariant, PTL DEF SafebrowsingSpec, TrustHolds

-----------------------------------------------------------------------------
\* The lookup implements SiteVerdicts.

\* Verdicts the answers support are those a Judge step may give.
LEMMA JudgeFollows ==
  ASSUME SupportInv, UNCHANGED <<answer, reported>>,
         verdict' \in [Hosts -> Verdicts], savedVerdict' \in [Hosts -> Verdicts],
         NEW f \in [Hosts -> Verdicts],
         \A h \in Hosts :
            \/ f[h] = verdict[h]
            \/ f[h] = "allow" /\ \A x \in Chain(h) : answer[x] # "none"
            \/ f[h] = "bad" /\ Chain(h) \cap reported # {}
  PROVE  SV!Follows(f)
  BY DEF SV!Follows, SV!Justified, Verdicts, Chain

LEMMA SVInit == SafebrowsingInit => SV!VerdictsInit
  BY DEF SafebrowsingInit, NothingCached, SV!VerdictsInit, SV!Unknown

LEMMA SVLearn ==
  ASSUME SupportInv, NEW l \in Lookups, AnswerLookup(l)
  PROVE  SV!Learn
  <1>1. PICK bad \in SUBSET Answered(l) :
          /\ answer' = [h \in Hosts |-> IF h \in bad THEN "bad"
                                        ELSE IF h \in Answered(l) THEN "clean" ELSE answer[h]]
          /\ reported' = reported \union bad
    BY DEF AnswerLookup
  <1>2. bad \subseteq Hosts
    BY DEF Answered
  <1>3. answer' \in [Hosts -> {"none", "clean", "bad"}]
    BY <1>1 DEF SupportInv, SafebrowsingTypeOK
  <1>4. reported' = reported \union {h \in Hosts : answer'[h] = "bad"}
    BY <1>1, <1>2 DEF SupportInv
  <1>5. \A h \in Hosts : answer[h] # "none" => answer'[h] # "none"
    BY <1>1
  <1> QED BY <1>3, <1>4, <1>5 DEF SV!Learn, AnswerLookup

LEMMA SVCheck ==
  ASSUME SupportInv, NEW l \in Lookups, CheckSuspended(l)
  PROVE  SV!Judge \/ UNCHANGED <<verdict, savedVerdict, answer, reported>>
  <1>0. UNCHANGED <<answer, reported>>
    BY DEF CheckSuspended
  <1>1. CASE \E h \in Site(l) : Unasked(l) = {} /\ CacheVerdict(h, "allow")
    <2>1. PICK h \in Site(l) : Unasked(l) = {} /\ CacheVerdict(h, "allow")
      BY <1>1
    <2>2. h \in Hosts /\ \A x \in Chain(h) : answer[x] # "none"
      BY <2>1, CheckedOne, CheckedHosts DEF SupportInv, Unasked, PrefixesOf
    <2>3. /\ verdict' \in [Hosts -> Verdicts] /\ savedVerdict' \in [Hosts -> Verdicts]
          /\ \A x \in Hosts : x # h => verdict'[x] = verdict[x]
          /\ verdict'[h] = "allow" /\ savedVerdict' \in {savedVerdict, verdict'}
      BY <1>0, <2>1, <2>2, CacheVerdictSupported DEF SupportInv, Verdicts
    <2>4. SV!Follows(verdict')
      BY <1>0, <2>2, <2>3, JudgeFollows
    <2> QED BY <1>0, <2>3, <2>4 DEF SV!Judge
  <1> QED BY <1>0, <1>1 DEF CheckSuspended

LEMMA SVProcess ==
  ASSUME SupportInv, NEW l \in Lookups, ProcessAnswer(l)
  PROVE  SV!Judge
  <1>0. UNCHANGED <<answer, reported>>
    BY DEF ProcessAnswer
  <1>1. lookup[l].bad \in SUBSET Hosts /\ lookup[l].bad \subseteq reported
    BY ProcessListed
  <1>2. /\ verdict' \in [Hosts -> Verdicts] /\ savedVerdict' \in [Hosts -> Verdicts]
        /\ verdict' = Listed(lookup[l].bad)
        /\ \/ savedVerdict' = savedVerdict
           \/ \E b \in SUBSET lookup[l].bad : savedVerdict' = Listed(b)
    BY ProcessListed
  <1>3. ASSUME NEW b \in SUBSET lookup[l].bad, Listed(b) \in [Hosts -> Verdicts]
        PROVE  SV!Follows(Listed(b))
    <2>1. \A h \in Hosts : \/ Listed(b)[h] = verdict[h]
                           \/ Listed(b)[h] = "bad" /\ Chain(h) \cap reported # {}
      BY <1>1, ChainHosts DEF Listed
    <2> QED BY <1>0, <1>2, <1>3, <2>1, JudgeFollows
  <1>4. SV!Follows(verdict')
    BY <1>2, <1>3
  <1>5. savedVerdict' = savedVerdict \/ SV!Follows(savedVerdict')
    BY <1>2, <1>3
  <1> QED BY <1>0, <1>4, <1>5 DEF SV!Judge

LEMMA SVConclude ==
  ASSUME SupportInv, NEW l \in Lookups, ConcludeLookup(l)
  PROVE  SV!Judge
  <1>0. UNCHANGED <<answer, reported>> /\ LookupSupported(l) /\ lookup[l].pc = "conclude"
    BY DEF ConcludeLookup, SupportInv
  <1>1. PICK h \in Site(l) : CacheVerdict(h, Outcome(l))
    BY DEF ConcludeLookup
  <1>2. h \in Hosts /\ Checked(l) = Chain(h)
    BY CheckedOne DEF SupportInv
  <1>3. /\ Outcome(l) \in Verdicts
        /\ \/ Outcome(l) = "allow" /\ \A x \in Chain(h) : answer[x] # "none"
           \/ Outcome(l) = "bad" /\ Chain(h) \cap reported # {}
    BY <1>0, <1>2 DEF Outcome, Verdicts, LookupSupported
  <1>4. /\ verdict' \in [Hosts -> Verdicts] /\ savedVerdict' \in [Hosts -> Verdicts]
        /\ \A x \in Hosts : x # h => verdict'[x] = verdict[x]
        /\ verdict'[h] = Outcome(l) /\ savedVerdict' \in {savedVerdict, verdict'}
    BY <1>0, <1>1, <1>2, <1>3, CacheVerdictSupported DEF SupportInv
  <1>5. SV!Follows(verdict')
    BY <1>0, <1>2, <1>3, <1>4, JudgeFollows
  <1> QED BY <1>0, <1>4, <1>5 DEF SV!Judge

\* Every step of the lookup is a step of SiteVerdicts or none.
LEMMA SVStep ==
  ASSUME SupportInv, [SafebrowsingNext]_sbVars
  PROVE  SV!VerdictsNext \/ UNCHANGED <<verdict, savedVerdict, answer, reported>>
  <1>1. CASE \E l \in Lookups : LookupStep(l)
    BY <1>1, SVLearn, SVCheck, SVProcess, SVConclude
       DEF LookupStep, FailLookup, SV!VerdictsNext
  <1>2. CASE \E h \in Visited : TrustSite(h)
    <2>1. PICK h \in Hosts : TrustSite(h)
      BY <1>2, SafebrowsingAssumption
    <2>2. SV!Trust(h)
      BY <2>1 DEF TrustSite, CacheVerdict, SV!Trust
    <2> QED BY <2>2 DEF SV!VerdictsNext
  <1>3. CASE \E h \in Hosts : Expire(h)
    BY <1>3 DEF Expire, SV!Forget, SV!VerdictsNext
  <1>4. CASE ToggleSafebrowsing
    BY <1>4 DEF ToggleSafebrowsing, NothingCached, SV!Clear, SV!Unknown, SV!VerdictsNext
  <1>5. CASE RestartSafebrowsing
    <2>1. verdict' \in [Hosts -> Verdicts]
          /\ \A h \in Hosts : \/ verdict'[h] = savedVerdict[h]
                              \/ savedVerdict[h] = "bad" /\ verdict'[h] = "none"
      BY <1>5 DEF RestartSafebrowsing, SupportInv, SafebrowsingTypeOK, Verdicts
    <2> QED BY <1>5, <2>1 DEF RestartSafebrowsing, Verdicts, SV!Restore, SV!VerdictsNext
  <1>6. CASE \/ SuspensionEnds \/ UNCHANGED sbVars \/ \E p \in HashPrefixes : ForgetAsked(p)
             \/ \E l \in Lookups, h \in Visited : StartLookup(l, h)
    BY <1>6 DEF SuspensionEnds, ForgetAsked, sbVars, StartLookup
  <1> QED BY <1>1, <1>2, <1>3, <1>4, <1>5, <1>6 DEF SafebrowsingNext

\* With its caches and its schedule of saves, the lookup keeps that promise.
THEOREM ImplementsSiteVerdicts == SafebrowsingSpec => VerdictsAreKept
  <1>1. ASSUME SupportInv, [SafebrowsingNext]_sbVars
        PROVE  [SV!VerdictsNext]_<<verdict, savedVerdict, answer, reported>>
    BY <1>1, SVStep
  <1> QED BY <1>1, SVInit, SupportInvariant, PTL
          DEF SafebrowsingSpec, VerdictsAreKept, SV!VerdictsSpec
=============================================================================
