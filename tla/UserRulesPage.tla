---------------------------- MODULE UserRulesPage ----------------------------
(* The list of user rules on the options page.  A click changes the list   *)
(* at once; the whole text is saved and then fetched again.  A change from  *)
(* elsewhere (popup, assistant, menu) announces itself by an event.  One    *)
(* request of the page is one slot of Saves; each action is the code        *)
(* between two awaits, of the page or of the background.  The numbers that  *)
(* mutationSeqRef gives to mutations are kept as "is it still the latest".  *)
EXTENDS Naturals, FiniteSets

CONSTANTS
    UserRules,        \* the lines of the text
    Saves,            \* slots of requests; bound: undos that overlap
    PageFaults,       \* subset of {"storage", "external"}
    MaxEvents         \* bound: events on the way to the page

ASSUME UserRulesAssumption ==
    /\ PageFaults \subseteq {"storage", "external"}
    /\ MaxEvents \in Nat \ {0}

VARIABLES
    storedText,       \* the user filter in the storage
    shownText,        \* userRules of the component
    toggle,           \* the call saveToggleDebounced has not made yet
    save,             \* the requests in flight
    events,           \* UserFilterUpdated on the way to the page
    refetching,       \* a refetch nobody waits for, of the latest mutation
    undoable,         \* the snackbars: deleted lines that can be restored
    other,            \* a change from elsewhere, between its read and its write
    wanted,           \* history: the text all changes together ask for
    crossed           \* history: did changes cross each other, or did one fail?

pageVars == <<storedText, shownText, toggle, save, events, refetching,
              undoable, other, wanted, crossed>>

Lines == {"absent", "on", "off"}
Texts == [UserRules -> Lines]
NoText == [r \in UserRules |-> "absent"]
NoToggle == [due |-> FALSE, text |-> NoText, latest |-> FALSE]
NoSave == [pc |-> "idle", by |-> "toggle", text |-> NoText, fallback |-> NoText,
           gone |-> NoText, latest |-> FALSE]
NoOther == [pc |-> "idle", read |-> NoText, wants |-> NoText]

SaveRecord ==
    [pc : {"idle", "sent", "stored", "fetch", "limits"}, by : {"toggle", "delete", "undo"},
     text : Texts, fallback : Texts, gone : Texts, latest : BOOLEAN]

PageInit ==
    /\ storedText \in [UserRules -> {"on"}] /\ shownText = storedText
    /\ toggle = NoToggle /\ save = [s \in Saves |-> NoSave]
    /\ events = 0 /\ refetching = FALSE
    /\ undoable = NoText /\ other = NoOther
    /\ wanted = storedText /\ crossed = FALSE

InFlight == {s \in Saves : save[s].pc # "idle"}  \* inFlightCountRef; isSaving if > 0
PageQuiet == ~toggle.due /\ InFlight = {} /\ events = 0 /\ ~refetching

\* mutationSeqRef is counted up: no earlier mutation is the latest any more.
Superseded == [s \in Saves |-> [save[s] EXCEPT !.latest = FALSE, !.fallback = NoText]]

\* A click while a change from elsewhere has not been shown yet crosses it.
Crosses == InFlight = {} /\ (events > 0 \/ refetching)
Wants(text, cross) == /\ crossed' = (crossed \/ cross)
                      /\ wanted' = IF crossed' THEN NoText ELSE text

-----------------------------------------------------------------------------
(* The clicks.  Switches and buttons are disabled while a save is in flight; *)
(* the Undo of a snackbar is not.                                           *)

ToggleRule(r) ==
    /\ InFlight = {} /\ shownText[r] # "absent"
    /\ shownText' = [shownText EXCEPT ![r] = IF @ = "on" THEN "off" ELSE "on"]
    /\ toggle' = [due |-> TRUE, text |-> shownText', latest |-> TRUE]
    /\ save' = Superseded /\ refetching' = FALSE
    /\ Wants([wanted EXCEPT ![r] = shownText'[r]], Crosses)
    /\ UNCHANGED <<storedText, events, undoable, other>>

\* persistRules: the save is sent, with the text to return to if it fails.
Persist(s, by, text, gone) ==
    /\ save[s].pc = "idle"
    /\ shownText' = text
    /\ save' = [Superseded EXCEPT ![s] =
                  [pc |-> "sent", by |-> by, text |-> text, fallback |-> shownText,
                   gone |-> gone, latest |-> TRUE]]
    /\ toggle' = [NoToggle EXCEPT !.due = toggle.due]
    /\ refetching' = FALSE

DeleteRule(s, r) ==
    /\ InFlight = {} /\ shownText[r] # "absent"
    /\ Persist(s, "delete", [shownText EXCEPT ![r] = "absent"],
               [NoText EXCEPT ![r] = shownText[r]])
    /\ Wants([wanted EXCEPT ![r] = "absent"], Crosses)
    /\ UNCHANGED <<storedText, events, undoable, other>>

\* Bound: a line that is there again is not inserted a second time.
UndoDelete(s, r) ==
    /\ undoable[r] # "absent" /\ shownText[r] = "absent"
    /\ Persist(s, "undo", [shownText EXCEPT ![r] = undoable[r]], NoText)
    /\ undoable' = [undoable EXCEPT ![r] = "absent"]
    /\ Wants([wanted EXCEPT ![r] = undoable[r]], Crosses)
    /\ UNCHANGED <<storedText, events, other>>

\* The debounced save of a toggle, unless a newer mutation has taken its place.
QueuedAnyway == TRUE                             \* mistake: also if it has
StillLatest == toggle.latest

FireToggle(s) ==
    /\ toggle.due /\ save[s].pc = "idle"
    /\ toggle' = NoToggle
    /\ save' = IF StillLatest
               THEN [save EXCEPT ![s] = [NoSave EXCEPT !.pc = "sent", !.text = toggle.text,
                                                       !.latest = toggle.latest]]
               ELSE save
    /\ UNCHANGED <<storedText, shownText, events, refetching, undoable, other,
                   wanted, crossed>>

\* The page is left: a toggle that was not saved yet is cancelled.
LeavePage ==
    /\ InFlight = {} /\ toggle.due
    /\ toggle' = NoToggle
    /\ shownText' = storedText /\ refetching' = FALSE /\ undoable' = NoText
    /\ Wants(wanted, TRUE)
    /\ UNCHANGED <<storedText, save, events, other>>

-----------------------------------------------------------------------------
(* A save: stored and announced, answered when the engine is updated, then  *)
(* the text is fetched.  Transactions of the storage end in their order.    *)

CommitSave(s) ==
    /\ save[s].pc = "sent" /\ events < MaxEvents
    /\ save[s].latest => \A q \in Saves \ {s} : save[q].pc # "sent"
    /\ storedText' = save[s].text
    /\ events' = events + 1
    /\ save' = [save EXCEPT ![s].pc = "stored", ![s].text = NoText]
    /\ UNCHANGED <<shownText, toggle, refetching, undoable, other, wanted, crossed>>

Finished(s) == [save EXCEPT ![s] = NoSave]

\* The answer comes after the events that were sent before it.
SaveReply(s) ==
    /\ save[s].pc = "stored" /\ events = 0
    /\ save' = IF save[s].by = "toggle" /\ ~save[s].latest THEN Finished(s)
               ELSE [save EXCEPT ![s].pc = "fetch"]
    /\ UNCHANGED <<storedText, shownText, toggle, events, refetching, undoable,
                   other, wanted, crossed>>

\* A newer mutation's text is not overwritten by the fetched one.
AlwaysApplied(s) == TRUE                         \* mistake: whoever is the latest
MayApply(s) == save[s].latest

FetchAfterSave(s) ==
    /\ save[s].pc = "fetch"
    /\ shownText' = IF MayApply(s) THEN storedText ELSE shownText
    /\ save' = IF save[s].by = "toggle" THEN Finished(s)
               ELSE [save EXCEPT ![s].pc = "limits"]
    /\ UNCHANGED <<storedText, toggle, events, refetching, undoable, other,
                   wanted, crossed>>

\* checkLimitations has answered; a delete can now be undone.
EndSave(s) ==
    /\ save[s].pc = "limits"
    /\ undoable' = [r \in UserRules |-> IF save[s].gone[r] # "absent" THEN save[s].gone[r]
                                        ELSE undoable[r]]
    /\ save' = Finished(s)
    /\ UNCHANGED <<storedText, shownText, toggle, events, refetching, other,
                   wanted, crossed>>

\* A request fails: a toggle fetches once more, a delete or undo is reverted.
FailSave(s) ==
    /\ "storage" \in PageFaults /\ save[s].pc # "idle"
    /\ save[s].pc = "stored" => events = 0
    /\ IF save[s].by = "toggle"
       THEN /\ refetching' = (refetching \/ save[s].latest)
            /\ UNCHANGED shownText
       ELSE /\ shownText' = IF save[s].latest THEN save[s].fallback ELSE shownText
            /\ UNCHANGED refetching
    /\ save' = Finished(s)
    /\ Wants(wanted, TRUE)
    /\ UNCHANGED <<storedText, toggle, events, undoable, other>>

-----------------------------------------------------------------------------
\* The listener: not while a save is in flight, that will fetch anyway.
ReceiveEvent ==
    /\ events > 0
    /\ events' = events - 1
    /\ refetching' = (refetching \/ InFlight = {})
    /\ UNCHANGED <<storedText, shownText, toggle, save, undoable, other, wanted, crossed>>

FinishRefetch ==
    /\ refetching
    /\ refetching' = FALSE
    /\ \/ shownText' = storedText /\ UNCHANGED <<wanted, crossed>>
       \/ "storage" \in PageFaults /\ Wants(wanted, TRUE) /\ UNCHANGED shownText
    /\ UNCHANGED <<storedText, toggle, save, events, undoable, other>>

\* addUserRule, removeUserRule: the text is read, and written back later.
OtherRead(r, line) ==
    /\ "external" \in PageFaults /\ other.pc = "idle"
    /\ {line, storedText[r]} = {"absent", "on"}
    /\ other' = [pc |-> "read", read |-> storedText, wants |-> [storedText EXCEPT ![r] = line]]
    /\ UNCHANGED <<storedText, shownText, toggle, save, events, refetching,
                   undoable, wanted, crossed>>

OtherWrite ==
    /\ other.pc = "read" /\ events < MaxEvents
    /\ storedText' = other.wants
    /\ events' = events + 1
    /\ Wants(other.wants, ~PageQuiet \/ storedText # other.read)
    /\ other' = NoOther
    /\ UNCHANGED <<shownText, toggle, save, refetching, undoable>>

SaveStep(s) ==
    \/ FireToggle(s) \/ CommitSave(s) \/ SaveReply(s) \/ FetchAfterSave(s)
    \/ EndSave(s) \/ FailSave(s)

PageNext ==
    \/ \E s \in Saves : SaveStep(s) \/ \E r \in UserRules : DeleteRule(s, r) \/ UndoDelete(s, r)
    \/ \E r \in UserRules : ToggleRule(r) \/ \E line \in Lines : OtherRead(r, line)
    \/ LeavePage \/ ReceiveEvent \/ FinishRefetch \/ OtherWrite

PageSpec == PageInit /\ [][PageNext]_pageVars

-----------------------------------------------------------------------------
PageTypeOK ==
    /\ storedText \in Texts /\ shownText \in Texts /\ wanted \in Texts /\ undoable \in Texts
    /\ toggle \in [due : BOOLEAN, text : Texts, latest : BOOLEAN]
    /\ save \in [Saves -> SaveRecord] /\ events \in 0..MaxEvents
    /\ other \in [pc : {"idle", "read"}, read : Texts, wants : Texts]
    /\ refetching \in BOOLEAN /\ crossed \in BOOLEAN

(* However fast toggles, deletes and undos follow each other, once the page *)
(* is quiet every one of them is in the storage: none is lost to a debounce *)
(* or to the whole text of another.                                        *)
ClicksAreStored == PageQuiet /\ ~crossed => storedText = wanted

(* ... and the list shows what they have led to: no answer that comes late  *)
(* brings a deleted rule back or takes a restored one away.                *)
ListIsWanted ==
    ~crossed /\ (InFlight # {} \/ (events = 0 /\ ~refetching)) => shownText = wanted
=============================================================================
