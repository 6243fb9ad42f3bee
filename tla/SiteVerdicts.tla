---------------------------- MODULE SiteVerdicts ----------------------------
(* What the lookup of sites promises, without hashes, requests, suspension  *)
(* or a schedule of saves: every verdict that appears is the user's trust,  *)
(* or follows from answers of the server for the site and its parent        *)
(* domains, or was kept before a restart.                                   *)
CONSTANTS
    Sites,            \* the hosts
    Domains           \* a host and its parent domains

VARIABLES
    verdict,          \* what the service believes of each host
    kept,             \* what it would believe after a restart
    answer,           \* the server's last answer for each host
    reported          \* the hosts the server has ever reported

Unknown == [h \in Sites |-> "none"]

\* The verdicts the answers so far allow for a host.
Justified(h) == {v \in {"allow", "bad"} :
                    \/ v = "allow" /\ \A x \in Domains[h] : answer[x] # "none"
                    \/ v = "bad" /\ Domains[h] \cap reported # {}}

\* f is the present verdicts, except for some that the answers justify.
Follows(f) == /\ f \in [Sites -> {"none", "allow", "trust", "bad"}]
              /\ \A h \in Sites : f[h] = verdict[h] \/ f[h] \in Justified(h)

VerdictsInit ==
    /\ verdict = Unknown /\ kept = Unknown
    /\ answer = Unknown /\ reported = {}

Learn ==
    /\ UNCHANGED <<verdict, kept>>
    /\ answer' \in [Sites -> {"none", "clean", "bad"}]
    /\ \A h \in Sites : answer[h] # "none" => answer'[h] # "none"
    /\ reported' = reported \union {h \in Sites : answer'[h] = "bad"}

Judge ==
    /\ UNCHANGED <<answer, reported>>
    /\ Follows(verdict')
    /\ kept' = kept \/ Follows(kept')

Trust(h) ==
    /\ verdict' = [verdict EXCEPT ![h] = "trust"]
    /\ kept' \in {kept, verdict'}
    /\ UNCHANGED <<answer, reported>>

Forget(h) ==
    /\ verdict' = [verdict EXCEPT ![h] = "none"]
    /\ UNCHANGED <<kept, answer, reported>>

Clear ==
    /\ verdict' = Unknown /\ kept' \in {kept, Unknown}
    /\ UNCHANGED <<answer, reported>>

\* After a restart an old report may be gone; nothing that was not kept is there.
Restore ==
    /\ verdict' \in [Sites -> {"none", "allow", "trust", "bad"}]
    /\ \A h \in Sites : verdict'[h] = kept[h] \/ (kept[h] = "bad" /\ verdict'[h] = "none")
    /\ UNCHANGED <<kept, answer, reported>>

VerdictsNext ==
    \/ Learn \/ Judge \/ Clear \/ Restore
    \/ \E h \in Sites : Trust(h) \/ Forget(h)

VerdictsSpec ==
    VerdictsInit /\ [][VerdictsNext]_<<verdict, kept, answer, reported>>
=============================================================================
