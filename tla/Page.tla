-------------------------------- MODULE Page --------------------------------
(***************************************************************************)
(* web/app.js: one dashboard, a card with two buttons for each account, a  *)
(* dialog, a notice and an error panel, and the callbacks that await       *)
(* fetch or the user's answer and then go on with whatever the page has    *)
(* become meanwhile. JavaScript runs one callback at a time up to its next *)
(* await, hence one step.                                                  *)
(*                                                                         *)
(* A dashboard is the number of its request. A callback of a card that has *)
(* been replaced goes on with the card that is no longer shown.            *)
(***************************************************************************)
EXTENDS Naturals, FiniteSets

CONSTANTS
    Account,    \* accounts that a dashboard may show
    Click,      \* clicks on reset buttons, one after the other each
    None,       \* no card, no quota, no dialog, nobody
    MaxCredits, \* bound on the credits of an account
    MaxLoads    \* bound on dashboard requests

Card == [quota : 0..MaxCredits \cup {None}, enabled : BOOLEAN, querying : BOOLEAN]
Fresh == [quota |-> None, enabled |-> FALSE, querying |-> FALSE]

ASSUME PageAssumption ==
    /\ IsFiniteSet(Account)
    /\ MaxCredits \in Nat
    /\ MaxLoads \in Nat \ {0}
    /\ None \notin Click \cup Card

VARIABLES
    shown,      \* the request of the dashboard that is displayed; 0: none
    asked,      \* how many have been sent
    loads,      \* those under way: [number, by]; state.loading if there is one
    card,       \* the card of each account
    orphans,    \* quota queries under way of cards that have been replaced
    dialog,     \* state.confirmResolve: the click that waits for the answer
    notice, error,  \* something is displayed
    pc,         \* where each click's callback is
    target,     \* its account
    attached,   \* its card is displayed
    accepted,   \* history: dialogs the user has accepted for it
    since       \* history: asked when its POST was answered

vars == <<shown, asked, loads, card, orphans, dialog, notice, error, pc, target, attached,
          accepted, since>>

TypeOK ==
    /\ shown \in 0..MaxLoads /\ asked \in 1..MaxLoads
    /\ loads \subseteq [number : 1..MaxLoads, by : Click \cup {None}]
    /\ card \in [Account -> Card \cup {None}]
    /\ orphans \in Nat
    /\ dialog \in Click \cup {None}
    /\ notice \in BOOLEAN /\ error \in BOOLEAN
    /\ pc \in [Click -> {"idle", "first", "second", "posting", "reloading"}]
    /\ target \in [Click -> Account \cup {None}]
    /\ attached \in [Click -> BOOLEAN]
    /\ accepted \in [Click -> 0..2]
    /\ since \in [Click -> 0..MaxLoads]
    /\ \A c \in Click :
        /\ pc[c] \in {"first", "second"} <=> dialog = c
        /\ pc[c] = "reloading" <=> \E l \in loads : l.by = c
        /\ attached[c] => card[target[c]] # None

\* The page starts with loadDashboard(false).
Init ==
    /\ shown = 0
    /\ asked = 1
    /\ loads = {[number |-> 1, by |-> None]}
    /\ card = [a \in Account |-> None]
    /\ orphans = 0
    /\ dialog = None
    /\ notice = FALSE /\ error = FALSE
    /\ pc = [c \in Click |-> "idle"]
    /\ target = [c \in Click |-> None]
    /\ attached = [c \in Click |-> FALSE]
    /\ accepted = [c \in Click |-> 0]
    /\ since = [c \in Click |-> 0]

clicks == <<pc, target, attached, accepted, since>>

-----------------------------------------------------------------------------
\* updateResetButton
Updated(k) == [k EXCEPT !.enabled = k.quota \notin {None, 0}]

\* The callback ends; its finally block updates its own button.
End(c, cards, attachments) ==
    /\ pc' = [pc EXCEPT ![c] = "idle"]
    /\ attached' = [attachments EXCEPT ![c] = FALSE]
    /\ card' = IF attachments[c] THEN [cards EXCEPT ![target[c]] = Updated(@)] ELSE cards

\* loadDashboard sends a request, by the refresh button (None) or a click.
Send(by) ==
    /\ asked < MaxLoads
    /\ asked' = asked + 1
    /\ loads' = loads \cup {[number |-> asked + 1, by |-> by]}

\* Mutant: the button is trusted to be disabled in time.
RefreshAnyway ==
    /\ Send(None)
    /\ error' = FALSE /\ notice' = FALSE
    /\ UNCHANGED <<shown, card, orphans, dialog, clicks>>

(* The refresh button: loadDashboard(true) unless state.loading.           *)
Refresh ==
    /\ loads = {}
    /\ Send(None)
    /\ error' = FALSE /\ notice' = FALSE
    /\ UNCHANGED <<shown, card, orphans, dialog, clicks>>

(* The dashboard arrives and renderDashboard replaces every card, or it    *)
(* does not arrive. A click that has waited for it ends.                   *)
LoadEnds(l) ==
    /\ loads' = loads \ {l}
    /\ \/ /\ shown' = l.number
          /\ \E A \in SUBSET Account :
                card' = [a \in Account |-> IF a \in A THEN Fresh ELSE None]
          /\ attached' = [c \in Click |-> FALSE]
          /\ orphans' = orphans
                + Cardinality({a \in Account : card[a] # None /\ card[a].querying})
          /\ pc' = IF l.by = None THEN pc ELSE [pc EXCEPT ![l.by] = "idle"]
          /\ UNCHANGED error
       \/ /\ error' = TRUE
          /\ IF l.by = None THEN UNCHANGED <<pc, card, attached>> ELSE End(l.by, card, attached)
          /\ UNCHANGED <<shown, orphans>>
    /\ UNCHANGED <<asked, dialog, notice, target, accepted, since>>

-----------------------------------------------------------------------------
(* The quota button: loadQuota up to its await, and then with the answer.  *)
(* An answer updates the reset button, also while its reset is under way.  *)
Query(a) ==
    /\ card[a] # None /\ ~card[a].querying
    /\ card' = [card EXCEPT ![a].querying = TRUE]
    /\ error' = FALSE
    /\ UNCHANGED <<shown, asked, loads, orphans, dialog, notice, clicks>>

QueryEnds(a) ==
    /\ card[a] # None /\ card[a].querying
    /\ \/ /\ \E n \in 0..MaxCredits :
                card' = [card EXCEPT ![a] = Updated([@ EXCEPT !.quota = n, !.querying = FALSE])]
          /\ UNCHANGED error
       \/ /\ card' = [card EXCEPT ![a].querying = FALSE]
          /\ error' = TRUE
    /\ UNCHANGED <<shown, asked, loads, orphans, dialog, notice, clicks>>

OrphanEnds ==
    /\ orphans > 0
    /\ orphans' = orphans - 1
    /\ error' \in {error, TRUE}
    /\ UNCHANGED <<shown, asked, loads, card, dialog, notice, clicks>>

-----------------------------------------------------------------------------
\* Mutant: while a dialog is open another question counts as confirmed.
AskWhileOpen(c) ==
    IF dialog = None
    THEN dialog' = c /\ pc' = [pc EXCEPT ![c] = "first"] /\ UNCHANGED card
    ELSE /\ pc' = [pc EXCEPT ![c] = "posting"] /\ UNCHANGED dialog
         /\ card' = [card EXCEPT ![target'[c]].enabled = FALSE]

\* showConfirmation: one dialog at a time, and none if one is open.
Ask(c) ==
    IF dialog = None
    THEN dialog' = c /\ pc' = [pc EXCEPT ![c] = "first"] /\ UNCHANGED card
    ELSE UNCHANGED <<dialog, pc, card>>

(* A click on an enabled reset button.                                     *)
ClickReset(c, a) ==
    /\ pc[c] = "idle"
    /\ card[a] # None /\ card[a].enabled
    /\ target' = [target EXCEPT ![c] = a]
    /\ attached' = [attached EXCEPT ![c] = (dialog = None)]
    /\ accepted' = [accepted EXCEPT ![c] = 0]
    /\ Ask(c)
    /\ UNCHANGED <<shown, asked, loads, orphans, notice, error, since>>

(* closeConfirmation(true): the second question, or the POST. Neither      *)
(* looks at the quota, which may have changed.                             *)
Accept(c) ==
    /\ dialog = c
    /\ accepted' = [accepted EXCEPT ![c] = @ + 1]
    /\ IF pc[c] = "first"
       THEN /\ pc' = [pc EXCEPT ![c] = "second"]
            /\ UNCHANGED <<dialog, card, notice, error>>
       ELSE /\ pc' = [pc EXCEPT ![c] = "posting"]
            /\ dialog' = None
            /\ card' = IF attached[c] THEN [card EXCEPT ![target[c]].enabled = FALSE] ELSE card
            /\ notice' = FALSE /\ error' = FALSE
    /\ UNCHANGED <<shown, asked, loads, orphans, target, attached, since>>

\* Mutant: the dialog closes and nobody is told.
CancelSilently(c) ==
    /\ dialog = c
    /\ dialog' = None
    /\ UNCHANGED <<shown, asked, loads, card, orphans, notice, error, clicks>>

(* closeConfirmation(false)                                                *)
Cancel(c) ==
    /\ dialog = c
    /\ dialog' = None
    /\ pc' = [pc EXCEPT ![c] = "idle"]
    /\ attached' = [attached EXCEPT ![c] = FALSE]
    /\ UNCHANGED <<shown, asked, loads, card, orphans, notice, error, target, accepted, since>>

\* Mutant: no notice, because the reload clears it anyway.
ReloadQuietly(c) ==
    IF loads # {}
    THEN End(c, card, attached) /\ UNCHANGED <<asked, loads, notice, error>>
    ELSE /\ Send(c)
         /\ pc' = [pc EXCEPT ![c] = "reloading"]
         /\ notice' = FALSE /\ error' = FALSE
         /\ UNCHANGED <<card, attached>>

\* The notice, and loadDashboard(true): it does nothing while another load
\* is under way, and otherwise clears the notice at once.
Reload(c) ==
    IF loads # {}
    THEN End(c, card, attached) /\ notice' = TRUE /\ UNCHANGED <<asked, loads, error>>
    ELSE /\ Send(c)
         /\ pc' = [pc EXCEPT ![c] = "reloading"]
         /\ notice' = FALSE /\ error' = FALSE
         /\ UNCHANGED <<card, attached>>

(* The POST is answered, well or not.                                      *)
PostEnds(c) ==
    /\ pc[c] = "posting"
    /\ since' = [since EXCEPT ![c] = asked]
    /\ \/ Reload(c)
       \/ error' = TRUE /\ End(c, card, attached) /\ UNCHANGED <<asked, loads, notice>>
    /\ UNCHANGED <<shown, orphans, dialog, target, accepted>>

Next ==
    \/ Refresh \/ OrphanEnds
    \/ \E l \in loads : LoadEnds(l)
    \/ \E a \in Account : Query(a) \/ QueryEnds(a)
    \/ \E c \in Click : Accept(c) \/ Cancel(c) \/ PostEnds(c)
    \/ \E c \in Click, a \in Account : ClickReset(c, a)

Spec == Init /\ [][Next]_vars

-----------------------------------------------------------------------------
(* A credit is only spent for an account when the user has accepted both   *)
(* dialogs for this very click, whichever cards, dialogs and clicks come   *)
(* in between.                                                             *)
ResetsConfirmed ==
    [][\A c \in Click : pc[c] # "posting" /\ pc'[c] = "posting" => accepted'[c] = 2]_vars

(* The dashboard is never replaced by an older one, whoever asked for      *)
(* either: answers cannot overtake one another.                            *)
ShownNeverOlder == [][shown' >= shown]_vars

(* When a reset's callback ends, the page tells how it went: by a          *)
(* dashboard asked for after the reset, by the notice (when the reload was *)
(* swallowed by another one), or by an error.                              *)
OutcomesShown ==
    [][\A c \in Click : pc[c] \in {"posting", "reloading"} /\ pc'[c] = "idle" =>
          shown' > since'[c] \/ notice' \/ error']_vars

=============================================================================
