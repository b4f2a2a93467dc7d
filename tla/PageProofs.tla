----------------------------- MODULE PageProofs -----------------------------
(* The safety properties of Page, proved for any number of accounts,       *)
(* clicks, credits and dashboard requests.                                 *)
EXTENDS Page, FiniteSetTheorems, TLAPS

\* The dialog a click waits in tells how often the user has accepted it.
DialogsCounted ==
    \A c \in Click : /\ pc[c] = "first" => accepted[c] = 0
                     /\ pc[c] = "second" => accepted[c] = 1

\* A click whose card is displayed has an account.
AttachedToAccounts == \A c \in Click : attached[c] => target[c] \in Account

\* state.loading: there is one load at most, the last request, and it is
\* newer than what is shown.
OneLoad ==
    /\ shown <= asked
    /\ \A k, l \in loads : k = l
    /\ \A l \in loads : l.number = asked /\ shown < asked

\* The dashboard a click waits for was asked for after its POST.
ReloadsNewer == \A c \in Click : pc[c] = "reloading" => since[c] < asked

IInv ==
    /\ TypeOK
    /\ DialogsCounted
    /\ AttachedToAccounts
    /\ OneLoad
    /\ ReloadsNewer

-----------------------------------------------------------------------------
(* A fresh card is a card, and so is one with its reset button updated.    *)
LEMMA CardOps ==
    /\ Fresh \in Card
    /\ None \notin Card /\ None \notin Click
    /\ \A k \in Card : Updated(k) \in Card
    /\ \A k \in Card, b \in BOOLEAN : /\ [k EXCEPT !.enabled = b] \in Card
                                      /\ [k EXCEPT !.querying = b] \in Card
    /\ \A k \in Card, n \in 0..MaxCredits :
          Updated([k EXCEPT !.quota = n, !.querying = FALSE]) \in Card
BY PageAssumption DEF Card, Fresh, Updated

(* A request becomes the only load, and the newest.                        *)
LEMMA Alone ==
    ASSUME NEW n \in 1..MaxLoads, NEW by \in Click \cup {None}, NEW L,
           L = {[number |-> n, by |-> by]}
    PROVE  /\ L \subseteq [number : 1..MaxLoads, by : Click \cup {None}]
           /\ \A l \in L : l.number = n /\ l.by = by
           /\ \A k, l \in L : k = l
           /\ \A c : (\E l \in L : l.by = c) <=> c = by
OBVIOUS

(* The strengthened invariant holds when the page starts.                  *)
LEMMA InitIInv == Init => IInv
<1> SUFFICES ASSUME Init
             PROVE  IInv
  OBVIOUS
<1> USE PageAssumption DEF Init
<1>1. PICK n \in 1..MaxLoads : n = 1
  OBVIOUS
<1>2. /\ loads \subseteq [number : 1..MaxLoads, by : Click \cup {None}]
      /\ \A l \in loads : l.number = 1 /\ l.by = None
      /\ \A k, l \in loads : k = l
      /\ \A c : (\E l \in loads : l.by = c) <=> c = None
  BY <1>1, Alone
<1>3. TypeOK
  <2>1. /\ shown \in 0..MaxLoads /\ asked \in 1..MaxLoads
        /\ accepted \in [Click -> 0..2] /\ since \in [Click -> 0..MaxLoads]
    OBVIOUS
  <2>2. \A c \in Click : /\ pc[c] \in {"first", "second"} <=> dialog = c
                         /\ pc[c] = "reloading" <=> \E l \in loads : l.by = c
    BY <1>2, CardOps
  <2>3. QED
    BY <1>2, <2>1, <2>2 DEF TypeOK
<1>4. OneLoad
  BY <1>2 DEF OneLoad
<1>5. DialogsCounted /\ AttachedToAccounts /\ ReloadsNewer
  BY DEF DialogsCounted, AttachedToAccounts, ReloadsNewer
<1>6. QED
  BY <1>3, <1>4, <1>5 DEF IInv

(* loadDashboard, when it sends a request.                                 *)
LEMMA SendSound ==
    ASSUME IInv, loads = {}, NEW by \in Click \cup {None}, Send(by)
    PROVE  /\ asked' = asked + 1 /\ asked' \in 1..MaxLoads
           /\ loads' \subseteq [number : 1..MaxLoads, by : Click \cup {None}]
           /\ \A l \in loads' : l.number = asked' /\ l.by = by
           /\ \A k, l \in loads' : k = l
           /\ \A c : (\E l \in loads' : l.by = c) <=> c = by
<1>1. PICK n \in 1..MaxLoads : n = asked + 1 /\ asked' = n
  BY PageAssumption DEF IInv, TypeOK, Send
<1>2. loads' = {[number |-> n, by |-> by]}
  BY <1>1 DEF Send
<1>3. QED
  BY <1>1, <1>2, Alone

(* The refresh button.                                                     *)
LEMMA RefreshIInv ==
    ASSUME IInv, Refresh
    PROVE  IInv'
<1> USE DEF IInv
<1>1. /\ asked' = asked + 1 /\ asked' \in 1..MaxLoads
      /\ loads' \subseteq [number : 1..MaxLoads, by : Click \cup {None}]
      /\ \A l \in loads' : l.number = asked' /\ l.by = None
      /\ \A k, l \in loads' : k = l
      /\ \A c : (\E l \in loads' : l.by = c) <=> c = None
  BY SendSound DEF Refresh
<1>2. /\ loads = {} /\ notice' = FALSE /\ error' = FALSE
      /\ UNCHANGED <<shown, card, orphans, dialog, pc, target, attached, accepted, since>>
  BY DEF Refresh, clicks
<1>3. TypeOK'
  BY <1>1, <1>2, CardOps DEF TypeOK
<1>4. OneLoad'
  BY <1>1, <1>2 DEF OneLoad, TypeOK
<1>5. DialogsCounted' /\ AttachedToAccounts' /\ ReloadsNewer'
  BY <1>1, <1>2 DEF DialogsCounted, AttachedToAccounts, ReloadsNewer, TypeOK
<1>6. QED
  BY <1>3, <1>4, <1>5

(* The end of a callback: only the click's own card is updated, and it is  *)
(* still a card.                                                           *)
LEMMA EndSound ==
    ASSUME IInv, NEW c \in Click, End(c, card, attached)
    PROVE  /\ pc' = [pc EXCEPT ![c] = "idle"]
           /\ attached' = [attached EXCEPT ![c] = FALSE]
           /\ card' \in [Account -> Card \cup {None}]
           /\ \A a \in Account : card[a] # None => card'[a] # None
<1>1. card \in [Account -> Card \cup {None}]
  BY DEF IInv, TypeOK
<1>2. pc' = [pc EXCEPT ![c] = "idle"] /\ attached' = [attached EXCEPT ![c] = FALSE]
  BY DEF End
<1>3. /\ card' \in [Account -> Card \cup {None}]
      /\ \A a \in Account : card[a] # None => card'[a] # None
  <2>1. CASE attached[c]
    <3>1. PICK a \in Account : a = target[c] /\ card[a] # None
      BY <2>1 DEF IInv, TypeOK, AttachedToAccounts
    <3>2. PICK k \in Card : k = Updated(card[a]) /\ k # None
      BY <1>1, <3>1, CardOps
    <3>3. card' = [card EXCEPT ![a] = k]
      BY <2>1, <3>1, <3>2 DEF End
    <3>4. QED
      BY <1>1, <3>2, <3>3
  <2>2. CASE ~attached[c]
    BY <1>1, <2>2 DEF End
  <2>3. QED
    BY <2>1, <2>2
<1>4. QED
  BY <1>2, <1>3

\* How a dashboard arrives, and how it does not.
Arrives(l) ==
    /\ shown' = l.number
    /\ \E A \in SUBSET Account :
          card' = [a \in Account |-> IF a \in A THEN Fresh ELSE None]
    /\ attached' = [c \in Click |-> FALSE]
    /\ orphans' = orphans
          + Cardinality({a \in Account : card[a] # None /\ card[a].querying})
    /\ pc' = IF l.by = None THEN pc ELSE [pc EXCEPT ![l.by] = "idle"]
    /\ UNCHANGED error
Fails(l) ==
    /\ error' = TRUE
    /\ IF l.by = None THEN UNCHANGED <<pc, card, attached>> ELSE End(l.by, card, attached)
    /\ UNCHANGED <<shown, orphans>>

(* A load under way is the only one; the click that waits for it, if any,  *)
(* is the only one that waits for a load.                                  *)
LEMMA LoadFacts ==
    ASSUME IInv, NEW l \in loads, LoadEnds(l)
    PROVE  /\ loads' = {}
           /\ l.number = asked /\ shown < asked
           /\ l.by \in Click \cup {None}
           /\ \A c \in Click : pc[c] = "reloading" <=> c = l.by
           /\ UNCHANGED <<asked, dialog, notice, target, accepted, since>>
           /\ Arrives(l) \/ Fails(l)
<1>1. /\ loads' = loads \ {l}
      /\ UNCHANGED <<asked, dialog, notice, target, accepted, since>>
      /\ Arrives(l) \/ Fails(l)
  BY DEF LoadEnds, Arrives, Fails
<1>2. /\ \A k \in loads : k = l
      /\ l.number = asked /\ shown < asked
      /\ l.by \in Click \cup {None}
      /\ \A c \in Click : pc[c] = "reloading" <=> \E k \in loads : k.by = c
  BY DEF IInv, TypeOK, OneLoad
<1>3. QED
  BY <1>1, <1>2

(* What happens to the page either way: the click that waited is idle and  *)
(* the other clicks go on, with no more cards of theirs displayed than     *)
(* before.                                                                 *)
LEMMA LoadEffect ==
    ASSUME IInv, NEW l \in loads, LoadEnds(l)
    PROVE  /\ pc' \in [Click -> {"idle", "first", "second", "posting", "reloading"}]
           /\ \A c \in Click : pc'[c] = IF c = l.by THEN "idle" ELSE pc[c]
           /\ card' \in [Account -> Card \cup {None}]
           /\ attached' \in [Click -> BOOLEAN]
           /\ \A c \in Click : attached'[c] => attached[c] /\ card'[target[c]] # None
           /\ orphans' \in Nat
           /\ shown' \in {shown, asked}
           /\ error' \in BOOLEAN
<1>1. /\ l.by \in Click \cup {None}
      /\ l.number = asked
      /\ Arrives(l) \/ Fails(l)
  BY LoadFacts
<1>2. /\ pc \in [Click -> {"idle", "first", "second", "posting", "reloading"}]
      /\ card \in [Account -> Card \cup {None}]
      /\ attached \in [Click -> BOOLEAN]
      /\ orphans \in Nat
      /\ error \in BOOLEAN
      /\ \A c \in Click : attached[c] => target[c] \in Account /\ card[target[c]] # None
  BY DEF IInv, TypeOK, AttachedToAccounts
<1>3. CASE Arrives(l)
  <2>1. orphans' \in Nat
    <3>1. IsFiniteSet({a \in Account : card[a] # None /\ card[a].querying})
      BY PageAssumption, FS_Subset
    <3>2. QED
      BY <1>2, <1>3, <3>1, FS_CardinalityType DEF Arrives
  <2>2. card' \in [Account -> Card \cup {None}]
    <3>1. PICK A \in SUBSET Account :
            card' = [a \in Account |-> IF a \in A THEN Fresh ELSE None]
      BY <1>3 DEF Arrives
    <3>2. QED
      BY <3>1, CardOps
  <2>3. /\ pc' \in [Click -> {"idle", "first", "second", "posting", "reloading"}]
        /\ \A c \in Click : pc'[c] = IF c = l.by THEN "idle" ELSE pc[c]
    <3>1. CASE l.by = None
      BY <1>2, <1>3, <3>1, CardOps DEF Arrives
    <3>2. CASE l.by # None
      <4>1. PICK d \in Click : d = l.by
        BY <1>1, <3>2
      <4>2. pc' = [pc EXCEPT ![d] = "idle"]
        BY <1>3, <3>2, <4>1 DEF Arrives
      <4>3. QED
        BY <1>2, <4>1, <4>2
    <3>3. QED
      BY <3>1, <3>2
  <2>4. /\ attached' \in [Click -> BOOLEAN]
        /\ \A c \in Click : ~attached'[c]
        /\ shown' = asked
        /\ error' \in BOOLEAN
    BY <1>1, <1>2, <1>3 DEF Arrives
  <2>5. QED
    BY <2>1, <2>2, <2>3, <2>4
<1>4. CASE Fails(l)
  <2>1. error' = TRUE /\ shown' = shown /\ orphans' = orphans
    BY <1>4 DEF Fails
  <2>2. CASE l.by = None
    <3>1. pc' = pc /\ card' = card /\ attached' = attached
      BY <1>4, <2>2 DEF Fails
    <3>2. QED
      BY <1>2, <2>1, <2>2, <3>1, CardOps
  <2>3. CASE l.by # None
    <3>1. PICK d \in Click : d = l.by
      BY <1>1, <2>3
    <3>2. End(d, card, attached)
      BY <1>4, <2>3, <3>1 DEF Fails
    <3>3. /\ pc' = [pc EXCEPT ![d] = "idle"]
          /\ attached' = [attached EXCEPT ![d] = FALSE]
          /\ card' \in [Account -> Card \cup {None}]
          /\ \A a \in Account : card[a] # None => card'[a] # None
      BY <3>2, EndSound
    <3>4. QED
      BY <1>2, <2>1, <3>1, <3>3
  <2>4. QED
    BY <2>2, <2>3
<1>5. QED
  BY <1>1, <1>3, <1>4

(* A dashboard arrives or does not; it is the only one under way.          *)
LEMMA LoadEndsIInv ==
    ASSUME IInv, NEW l \in loads, LoadEnds(l)
    PROVE  IInv'
<1>1. /\ loads' = {}
      /\ shown < asked
      /\ \A c \in Click : pc[c] = "reloading" <=> c = l.by
      /\ UNCHANGED <<asked, dialog, notice, target, accepted, since>>
  BY LoadFacts
<1>2. /\ pc' \in [Click -> {"idle", "first", "second", "posting", "reloading"}]
      /\ \A c \in Click : pc'[c] = IF c = l.by THEN "idle" ELSE pc[c]
      /\ card' \in [Account -> Card \cup {None}]
      /\ attached' \in [Click -> BOOLEAN]
      /\ \A c \in Click : attached'[c] => attached[c] /\ card'[target[c]] # None
      /\ orphans' \in Nat
      /\ shown' \in {shown, asked}
      /\ error' \in BOOLEAN
  BY LoadEffect
<1>3. \A c \in Click : /\ pc'[c] \in {"first", "second"} <=> dialog' = c
                       /\ pc'[c] # "reloading"
  BY <1>1, <1>2 DEF IInv, TypeOK
<1>4. TypeOK'
  BY <1>1, <1>2, <1>3 DEF IInv, TypeOK
<1>5. OneLoad'
  BY <1>1, <1>2 DEF IInv, TypeOK, OneLoad
<1>6. DialogsCounted' /\ AttachedToAccounts' /\ ReloadsNewer'
  BY <1>1, <1>2, <1>3 DEF IInv, DialogsCounted, AttachedToAccounts, ReloadsNewer
<1>7. QED
  BY <1>4, <1>5, <1>6 DEF IInv

(* A card is replaced by another card of the account and the callbacks     *)
(* stay where they are.                                                    *)
LEMMA CardIInv ==
    ASSUME IInv, NEW a \in Account, card[a] # None, NEW k \in Card,
           card' = [card EXCEPT ![a] = k],
           orphans' \in Nat, notice' \in BOOLEAN, error' \in BOOLEAN,
           UNCHANGED <<shown, asked, loads, dialog, clicks>>
    PROVE  IInv'
<1>1. k # None
  BY CardOps
<1>2. UNCHANGED <<pc, target, attached, accepted, since>>
  BY DEF clicks
<1>3. TypeOK'
  BY <1>1, <1>2 DEF IInv, TypeOK
<1>4. OneLoad' /\ DialogsCounted' /\ AttachedToAccounts' /\ ReloadsNewer'
  BY <1>2 DEF IInv, OneLoad, DialogsCounted, AttachedToAccounts, ReloadsNewer
<1>5. QED
  BY <1>3, <1>4 DEF IInv

(* A quota query is sent.                                                  *)
LEMMA QueryIInv ==
    ASSUME IInv, NEW a \in Account, Query(a)
    PROVE  IInv'
<1>1. card[a] \in Card /\ card \in [Account -> Card \cup {None}]
  BY DEF IInv, TypeOK, Query
<1>2. PICK k \in Card : k = [card[a] EXCEPT !.querying = TRUE]
  BY <1>1, CardOps
<1>3. card' = [card EXCEPT ![a] = k]
  BY <1>1, <1>2 DEF Query
<1>4. /\ card[a] # None /\ orphans' \in Nat /\ notice' \in BOOLEAN /\ error' \in BOOLEAN
      /\ UNCHANGED <<shown, asked, loads, dialog, clicks>>
  BY DEF IInv, TypeOK, Query
<1>5. QED
  BY <1>3, <1>4, CardIInv

(* A quota query is answered.                                              *)
LEMMA QueryEndsIInv ==
    ASSUME IInv, NEW a \in Account, QueryEnds(a)
    PROVE  IInv'
<1>1. card[a] \in Card /\ card \in [Account -> Card \cup {None}]
  <2>1. card[a] # None
    BY DEF QueryEnds
  <2>2. QED
    BY <2>1 DEF IInv, TypeOK
<1>2. /\ card[a] # None /\ orphans' \in Nat /\ notice' \in BOOLEAN /\ error' \in BOOLEAN
      /\ UNCHANGED <<shown, asked, loads, dialog, clicks>>
  <2>1. /\ card[a] # None
        /\ UNCHANGED <<shown, asked, loads, orphans, dialog, notice, clicks>>
        /\ error' = error \/ error' = TRUE
    BY DEF QueryEnds
  <2>2. QED
    BY <2>1 DEF IInv, TypeOK
<1>3. CASE \E n \in 0..MaxCredits :
              card' = [card EXCEPT ![a] = Updated([@ EXCEPT !.quota = n, !.querying = FALSE])]
  <2>1. PICK n \in 0..MaxCredits :
          card' = [card EXCEPT ![a] = Updated([@ EXCEPT !.quota = n, !.querying = FALSE])]
    BY <1>3
  <2>2. PICK k \in Card : k = Updated([card[a] EXCEPT !.quota = n, !.querying = FALSE])
    BY <1>1, CardOps
  <2>3. card' = [card EXCEPT ![a] = k]
    BY <1>1, <2>1, <2>2
  <2>4. QED
    BY <1>2, <2>3, CardIInv
<1>4. CASE card' = [card EXCEPT ![a].querying = FALSE]
  <2>1. PICK k \in Card : k = [card[a] EXCEPT !.querying = FALSE]
    BY <1>1, CardOps
  <2>2. card' = [card EXCEPT ![a] = k]
    BY <1>1, <1>4, <2>1
  <2>3. QED
    BY <1>2, <2>2, CardIInv
<1>5. QED
  BY <1>3, <1>4 DEF QueryEnds

(* A query of a card that is gone is answered.                             *)
LEMMA OrphanEndsIInv ==
    ASSUME IInv, OrphanEnds
    PROVE  IInv'
<1>1. /\ orphans' \in Nat /\ error' \in BOOLEAN
      /\ UNCHANGED <<shown, asked, loads, card, dialog, notice>>
      /\ UNCHANGED <<pc, target, attached, accepted, since>>
  <2>1. orphans \in Nat /\ error \in BOOLEAN
    BY DEF IInv, TypeOK
  <2>2. orphans' \in Nat
    BY <2>1 DEF OrphanEnds
  <2>3. error' = error \/ error' = TRUE
    BY DEF OrphanEnds
  <2>4. QED
    BY <2>1, <2>2, <2>3 DEF OrphanEnds, clicks
<1>2. TypeOK'
  BY <1>1 DEF IInv, TypeOK
<1>3. OneLoad' /\ DialogsCounted' /\ AttachedToAccounts' /\ ReloadsNewer'
  BY <1>1 DEF IInv, OneLoad, DialogsCounted, AttachedToAccounts, ReloadsNewer
<1>4. QED
  BY <1>2, <1>3 DEF IInv

(* A click opens a dialog, or none because one is open.                    *)
LEMMA ClickResetIInv ==
    ASSUME IInv, NEW c \in Click, NEW a \in Account, ClickReset(c, a)
    PROVE  IInv'
<1>1. /\ pc[c] = "idle" /\ card[a] # None
      /\ target' = [target EXCEPT ![c] = a]
      /\ attached' = [attached EXCEPT ![c] = (dialog = None)]
      /\ accepted' = [accepted EXCEPT ![c] = 0]
      /\ UNCHANGED <<shown, asked, loads, orphans, notice, error, since, card>>
  BY DEF ClickReset, Ask
<1>2. \/ dialog = None /\ dialog' = c /\ pc' = [pc EXCEPT ![c] = "first"]
      \/ dialog # None /\ UNCHANGED <<dialog, pc>>
  BY DEF ClickReset, Ask
<1>3. /\ accepted' \in [Click -> 0..2] /\ target' \in [Click -> Account \cup {None}]
      /\ attached' \in [Click -> BOOLEAN]
      /\ pc' \in [Click -> {"idle", "first", "second", "posting", "reloading"}]
      /\ dialog' \in Click \cup {None}
  BY <1>1, <1>2 DEF IInv, TypeOK
<1>4. \A d \in Click : /\ pc'[d] \in {"first", "second"} <=> dialog' = d
                       /\ pc'[d] = "reloading" <=> \E l \in loads : l.by = d
                       /\ attached'[d] => target'[d] \in Account /\ card[target'[d]] # None
  <2>1. TAKE d \in Click
  <2>2. /\ pc[d] \in {"first", "second"} <=> dialog = d
        /\ pc[d] = "reloading" <=> \E l \in loads : l.by = d
        /\ attached[d] => target[d] \in Account /\ card[target[d]] # None
    BY DEF IInv, TypeOK, AttachedToAccounts
  <2>3. d # None
    BY CardOps
  <2>4. CASE d = c
    BY <1>1, <1>2, <2>2, <2>3, <2>4 DEF IInv, TypeOK
  <2>5. CASE d # c
    BY <1>1, <1>2, <2>2, <2>3, <2>5 DEF IInv, TypeOK
  <2>6. QED
    BY <2>4, <2>5
<1>5. TypeOK'
  BY <1>1, <1>3, <1>4 DEF IInv, TypeOK
<1>6. DialogsCounted'
  BY <1>1, <1>2 DEF IInv, TypeOK, DialogsCounted
<1>7. ReloadsNewer'
  BY <1>1, <1>2 DEF IInv, TypeOK, ReloadsNewer
<1>8. OneLoad' /\ AttachedToAccounts'
  BY <1>1, <1>4 DEF IInv, OneLoad, AttachedToAccounts
<1>9. QED
  BY <1>5, <1>6, <1>7, <1>8 DEF IInv

(* The dialog is accepted: the second question, or the POST.               *)
LEMMA AcceptIInv ==
    ASSUME IInv, NEW c \in Click, Accept(c)
    PROVE  IInv'
<1>1. /\ dialog = c /\ c # None
      /\ accepted' = [accepted EXCEPT ![c] = @ + 1]
      /\ UNCHANGED <<shown, asked, loads, orphans, target, attached, since>>
  BY CardOps DEF Accept
<1>2. \/ /\ pc[c] = "first" /\ accepted[c] = 0
         /\ pc' = [pc EXCEPT ![c] = "second"]
         /\ UNCHANGED <<dialog, card, notice, error>>
      \/ /\ pc[c] = "second" /\ accepted[c] = 1
         /\ pc' = [pc EXCEPT ![c] = "posting"]
         /\ dialog' = None /\ notice' = FALSE /\ error' = FALSE
         /\ card' = IF attached[c] THEN [card EXCEPT ![target[c]].enabled = FALSE] ELSE card
  BY <1>1 DEF Accept, IInv, TypeOK, DialogsCounted
<1>3. /\ card' \in [Account -> Card \cup {None}]
      /\ \A a \in Account : card[a] # None => card'[a] # None
  <2>1. CASE attached[c] /\ card' = [card EXCEPT ![target[c]].enabled = FALSE]
    <3>1. PICK a \in Account : a = target[c] /\ card[a] # None
      BY <2>1 DEF IInv, TypeOK, AttachedToAccounts
    <3>2. card[a] \in Card
      BY <3>1 DEF IInv, TypeOK
    <3>3. PICK k \in Card : k = [card[a] EXCEPT !.enabled = FALSE] /\ k # None
      BY <3>2, CardOps
    <3>4. card' = [card EXCEPT ![a] = k]
      BY <2>1, <3>1, <3>3
    <3>5. QED
      BY <3>3, <3>4 DEF IInv, TypeOK
  <2>2. CASE card' = card
    BY <2>2 DEF IInv, TypeOK
  <2>3. QED
    BY <1>2, <2>1, <2>2
<1>4. /\ pc' \in [Click -> {"idle", "first", "second", "posting", "reloading"}]
      /\ accepted' \in [Click -> 0..2]
      /\ dialog' \in Click \cup {None} /\ notice' \in BOOLEAN /\ error' \in BOOLEAN
  <2>1. /\ pc \in [Click -> {"idle", "first", "second", "posting", "reloading"}]
        /\ accepted \in [Click -> 0..2]
        /\ notice \in BOOLEAN /\ error \in BOOLEAN
    BY DEF IInv, TypeOK
  <2>2. pc' \in [Click -> {"idle", "first", "second", "posting", "reloading"}]
    BY <2>1, <1>2
  <2>3. accepted' \in [Click -> 0..2]
    BY <2>1, <1>1, <1>2
  <2>4. /\ dialog' = c \/ dialog' = None
        /\ notice' \in {notice, FALSE} /\ error' \in {error, FALSE}
    BY <1>1, <1>2
  <2>5. QED
    BY <2>1, <2>2, <2>3, <2>4
<1>5. \A d \in Click : /\ pc'[d] \in {"first", "second"} <=> dialog' = d
                       /\ pc'[d] = "reloading" <=> pc[d] = "reloading"
  <2>1. TAKE d \in Click
  <2>2. /\ pc[d] \in {"first", "second"} <=> dialog = d
        /\ d # None
        /\ pc \in [Click -> {"idle", "first", "second", "posting", "reloading"}]
    BY CardOps DEF IInv, TypeOK
  <2>3. CASE pc[c] = "first" /\ pc' = [pc EXCEPT ![c] = "second"] /\ dialog' = dialog
    BY <1>1, <2>2, <2>3
  <2>4. CASE pc[c] = "second" /\ pc' = [pc EXCEPT ![c] = "posting"] /\ dialog' = None
    BY <1>1, <2>2, <2>4
  <2>5. QED
    BY <1>2, <2>3, <2>4
<1>6. TypeOK'
  BY <1>1, <1>3, <1>4, <1>5 DEF IInv, TypeOK, AttachedToAccounts
<1>7. DialogsCounted'
  BY <1>1, <1>2 DEF IInv, TypeOK, DialogsCounted
<1>8. OneLoad' /\ AttachedToAccounts' /\ ReloadsNewer'
  BY <1>1, <1>5 DEF IInv, OneLoad, AttachedToAccounts, ReloadsNewer
<1>9. QED
  BY <1>6, <1>7, <1>8 DEF IInv

(* The dialog is declined.                                                 *)
LEMMA CancelIInv ==
    ASSUME IInv, NEW c \in Click, Cancel(c)
    PROVE  IInv'
<1>1. /\ dialog = c /\ c # None /\ dialog' = None
      /\ pc' = [pc EXCEPT ![c] = "idle"]
      /\ attached' = [attached EXCEPT ![c] = FALSE]
      /\ UNCHANGED <<shown, asked, loads, card, orphans, notice, error, target, accepted, since>>
  BY CardOps DEF Cancel
<1>2. \A d \in Click : /\ pc'[d] \in {"first", "second"} <=> dialog' = d
                       /\ pc'[d] = "reloading" <=> pc[d] = "reloading"
                       /\ attached'[d] => attached[d]
  BY <1>1, CardOps DEF IInv, TypeOK
<1>3. TypeOK'
  BY <1>1, <1>2 DEF IInv, TypeOK
<1>4. DialogsCounted'
  BY <1>1 DEF IInv, TypeOK, DialogsCounted
<1>5. OneLoad' /\ AttachedToAccounts' /\ ReloadsNewer'
  BY <1>1, <1>2 DEF IInv, OneLoad, AttachedToAccounts, ReloadsNewer
<1>6. QED
  BY <1>3, <1>4, <1>5 DEF IInv

(* The POST is answered: the callback ends, or waits for a new dashboard.  *)
LEMMA PostEndsIInv ==
    ASSUME IInv, NEW c \in Click, PostEnds(c)
    PROVE  IInv'
<1>1. /\ pc[c] = "posting"
      /\ since' = [since EXCEPT ![c] = asked]
      /\ UNCHANGED <<shown, orphans, dialog, target, accepted>>
  BY DEF PostEnds
<1>2. since' \in [Click -> 0..MaxLoads]
  BY <1>1 DEF IInv, TypeOK
<1>3. CASE /\ loads = {} /\ Send(c)
           /\ pc' = [pc EXCEPT ![c] = "reloading"]
           /\ notice' = FALSE /\ error' = FALSE
           /\ UNCHANGED <<card, attached>>
  <2>1. /\ asked' = asked + 1 /\ asked' \in 1..MaxLoads
        /\ loads' \subseteq [number : 1..MaxLoads, by : Click \cup {None}]
        /\ \A l \in loads' : l.number = asked' /\ l.by = c
        /\ \A k, l \in loads' : k = l
        /\ \A d : (\E l \in loads' : l.by = d) <=> d = c
    BY <1>3, SendSound
  <2>2. \A d \in Click : pc[d] # "reloading"
    BY <1>3 DEF IInv, TypeOK
  <2>3. \A d \in Click : /\ pc'[d] \in {"first", "second"} <=> dialog' = d
                         /\ pc'[d] = "reloading" <=> d = c
    BY <1>1, <1>3, <2>2 DEF IInv, TypeOK
  <2>4. TypeOK'
    BY <1>1, <1>2, <1>3, <2>1, <2>3 DEF IInv, TypeOK
  <2>5. OneLoad'
    BY <1>1, <2>1 DEF IInv, TypeOK, OneLoad
  <2>6. DialogsCounted' /\ AttachedToAccounts'
    BY <1>1, <1>3 DEF IInv, TypeOK, DialogsCounted, AttachedToAccounts
  <2>7. ReloadsNewer'
    BY <1>1, <2>1, <2>3 DEF IInv, TypeOK, ReloadsNewer
  <2>8. QED
    BY <2>4, <2>5, <2>6, <2>7 DEF IInv
<1>4. CASE /\ End(c, card, attached)
           /\ notice' \in {notice, TRUE} /\ error' \in {error, TRUE}
           /\ UNCHANGED <<asked, loads>>
  <2>1. /\ pc' = [pc EXCEPT ![c] = "idle"]
        /\ attached' = [attached EXCEPT ![c] = FALSE]
        /\ card' \in [Account -> Card \cup {None}]
        /\ \A a \in Account : card[a] # None => card'[a] # None
    BY <1>4, EndSound
  <2>2. \A d \in Click : /\ pc'[d] \in {"first", "second"} <=> dialog' = d
                         /\ pc'[d] = "reloading" <=> pc[d] = "reloading"
                         /\ attached'[d] => attached[d]
    BY <1>1, <2>1 DEF IInv, TypeOK
  <2>3. notice' \in BOOLEAN /\ error' \in BOOLEAN
    BY <1>4 DEF IInv, TypeOK
  <2>4. TypeOK'
    BY <1>1, <1>2, <1>4, <2>1, <2>2, <2>3 DEF IInv, TypeOK, AttachedToAccounts
  <2>5. DialogsCounted' /\ AttachedToAccounts' /\ OneLoad'
    BY <1>1, <1>4, <2>1, <2>2 DEF IInv, TypeOK, DialogsCounted, AttachedToAccounts, OneLoad
  <2>6. ReloadsNewer'
    BY <1>1, <1>4, <2>2 DEF IInv, TypeOK, ReloadsNewer
  <2>7. QED
    BY <2>4, <2>5, <2>6 DEF IInv
<1>5. QED
  BY <1>3, <1>4 DEF PostEnds, Reload

-----------------------------------------------------------------------------
(* Every step keeps the invariant and does what the three action           *)
(* properties say.                                                         *)
LEMMA StepIInv ==
    ASSUME IInv, [Next]_vars
    PROVE  IInv'
<1>1. CASE Refresh
  BY <1>1, RefreshIInv
<1>2. CASE OrphanEnds
  BY <1>2, OrphanEndsIInv
<1>3. ASSUME NEW l \in loads, LoadEnds(l)
      PROVE  IInv'
  BY <1>3, LoadEndsIInv
<1>4. ASSUME NEW a \in Account, Query(a) \/ QueryEnds(a)
      PROVE  IInv'
  BY <1>4, QueryIInv, QueryEndsIInv
<1>5. ASSUME NEW c \in Click, Accept(c) \/ Cancel(c) \/ PostEnds(c)
      PROVE  IInv'
  BY <1>5, AcceptIInv, CancelIInv, PostEndsIInv
<1>6. ASSUME NEW c \in Click, NEW a \in Account, ClickReset(c, a)
      PROVE  IInv'
  BY <1>6, ClickResetIInv
<1>7. CASE UNCHANGED vars
  BY <1>7 DEF vars, IInv, TypeOK, DialogsCounted, AttachedToAccounts, OneLoad, ReloadsNewer
<1>8. QED
  BY <1>1, <1>2, <1>3, <1>4, <1>5, <1>6, <1>7 DEF Next

(* The steps by what they do to the callbacks of clicks and to what is     *)
(* shown.                                                                  *)
LEMMA StepShape ==
    ASSUME IInv, [Next]_vars
    PROVE  \/ UNCHANGED <<pc, shown, accepted, since>>
           \/ \E l \in loads : LoadEnds(l)
           \/ \E c \in Click : Accept(c) \/ Cancel(c) \/ PostEnds(c)
           \/ \E c \in Click, a \in Account : ClickReset(c, a)
<1>1. CASE Refresh \/ OrphanEnds \/ UNCHANGED vars
  BY <1>1 DEF Refresh, OrphanEnds, vars, clicks
<1>2. ASSUME NEW a \in Account, Query(a) \/ QueryEnds(a)
      PROVE  UNCHANGED <<pc, shown, accepted, since>>
  BY <1>2 DEF Query, QueryEnds, clicks
<1>3. QED
  BY <1>1, <1>2 DEF Next

(* A credit is only spent when both dialogs of the click were accepted.    *)
LEMMA StepConfirmed ==
    ASSUME IInv, [Next]_vars, NEW c \in Click, pc[c] # "posting", pc'[c] = "posting"
    PROVE  accepted'[c] = 2
<1>1. /\ pc \in [Click -> {"idle", "first", "second", "posting", "reloading"}]
      /\ accepted \in [Click -> 0..2]
  BY DEF IInv, TypeOK
<1>2. ASSUME NEW l \in loads, LoadEnds(l)
      PROVE  FALSE
  BY <1>2, LoadEffect
<1>3. ASSUME NEW d \in Click, Accept(d)
      PROVE  accepted'[c] = 2
  <2>1. /\ dialog = d
        /\ accepted' = [accepted EXCEPT ![d] = @ + 1]
        /\ pc' = [pc EXCEPT ![d] = IF pc[d] = "first" THEN "second" ELSE "posting"]
    BY <1>3, <1>1 DEF Accept
  <2>2. c = d /\ pc[d] # "first"
    BY <1>1, <2>1
  <2>3. pc[d] = "second" /\ accepted[d] = 1
    BY <2>1, <2>2 DEF IInv, TypeOK, DialogsCounted
  <2>4. QED
    BY <1>1, <2>1, <2>2, <2>3
<1>4. ASSUME NEW d \in Click, Cancel(d)
      PROVE  FALSE
  BY <1>1, <1>4 DEF Cancel
<1>5. ASSUME NEW d \in Click, PostEnds(d)
      PROVE  FALSE
  <2>1. pc' \in {[pc EXCEPT ![d] = "idle"], [pc EXCEPT ![d] = "reloading"]}
    BY <1>5 DEF PostEnds, Reload, End
  <2>2. QED
    BY <1>1, <2>1
<1>6. ASSUME NEW d \in Click, NEW a \in Account, ClickReset(d, a)
      PROVE  FALSE
  BY <1>1, <1>6 DEF ClickReset, Ask
<1>7. QED
  BY <1>2, <1>3, <1>4, <1>5, <1>6, StepShape

(* A dashboard that arrives is newer than the one that is shown.           *)
LEMMA StepNeverOlder ==
    ASSUME IInv, [Next]_vars
    PROVE  shown' >= shown
<1>1. shown \in Nat
  BY PageAssumption DEF IInv, TypeOK
<1>2. ASSUME NEW l \in loads, LoadEnds(l)
      PROVE  shown' >= shown
  <2>1. shown < asked /\ shown' \in {shown, asked} /\ asked \in Nat
    BY <1>2, LoadFacts, LoadEffect, PageAssumption DEF IInv, TypeOK
  <2>2. QED
    BY <1>1, <2>1
<1>3. ASSUME NEW c \in Click, Accept(c) \/ Cancel(c) \/ PostEnds(c)
      PROVE  shown' = shown
  BY <1>3 DEF Accept, Cancel, PostEnds
<1>4. ASSUME NEW c \in Click, NEW a \in Account, ClickReset(c, a)
      PROVE  shown' = shown
  BY <1>4 DEF ClickReset
<1>5. QED
  BY <1>1, <1>2, <1>3, <1>4, StepShape

(* A callback that ends after its POST has told how it went.               *)
LEMMA StepTold ==
    ASSUME IInv, [Next]_vars, NEW c \in Click,
           pc[c] \in {"posting", "reloading"}, pc'[c] = "idle"
    PROVE  shown' > since'[c] \/ notice' \/ error'
<1>1. /\ pc \in [Click -> {"idle", "first", "second", "posting", "reloading"}]
      /\ pc[c] \notin {"first", "second"} /\ pc[c] # "idle"
      /\ since \in [Click -> 0..MaxLoads] /\ asked \in Nat
  BY PageAssumption DEF IInv, TypeOK
<1>2. ASSUME NEW l \in loads, LoadEnds(l)
      PROVE  shown' > since'[c] \/ error'
  <2>1. /\ l.number = asked
        /\ since' = since
        /\ pc[c] = "reloading" <=> c = l.by
        /\ Arrives(l) \/ Fails(l)
        /\ pc'[c] = IF c = l.by THEN "idle" ELSE pc[c]
    BY <1>2, LoadFacts, LoadEffect
  <2>2. since[c] < asked
    BY <1>1, <2>1 DEF IInv, ReloadsNewer
  <2>3. QED
    BY <1>1, <2>1, <2>2 DEF Arrives, Fails
<1>3. ASSUME NEW d \in Click, Accept(d) \/ Cancel(d)
      PROVE  FALSE
  <2>1. dialog = d /\ c # d
    BY <1>1, <1>3 DEF IInv, TypeOK, Accept, Cancel
  <2>2. pc'[c] = pc[c]
    BY <1>1, <1>3, <2>1 DEF Accept, Cancel
  <2>3. QED
    BY <1>1, <2>2
<1>4. ASSUME NEW d \in Click, PostEnds(d)
      PROVE  notice' \/ error'
  BY <1>1, <1>4 DEF PostEnds, Reload
<1>5. ASSUME NEW d \in Click, NEW a \in Account, ClickReset(d, a)
      PROVE  FALSE
  BY <1>1, <1>5 DEF ClickReset, Ask
<1>6. QED
  BY <1>1, <1>2, <1>3, <1>4, <1>5, StepShape

-----------------------------------------------------------------------------
(* The inductive invariant of the page: what the callbacks, the dialog,    *)
(* the cards and the request under way have to do with one another.        *)
THEOREM Inductive == Spec => []IInv
BY InitIInv, StepIInv, PTL DEF Spec

(* TypeOK: the dialog belongs to the click that waits in it, a click that  *)
(* waits for a dashboard has the request under way, and a card that a      *)
(* callback goes on with is displayed.                                     *)
THEOREM TypeCorrect == Spec => []TypeOK
<1>1. IInv => TypeOK
  BY DEF IInv
<1>2. QED
  BY <1>1, Inductive, PTL

(* A credit is only spent for an account when both dialogs have been       *)
(* accepted for this very click.                                           *)
THEOREM Confirmed == Spec => ResetsConfirmed
<1>1. IInv /\ [Next]_vars =>
        [\A c \in Click : pc[c] # "posting" /\ pc'[c] = "posting" => accepted'[c] = 2]_vars
  BY StepConfirmed
<1>2. QED
  BY <1>1, Inductive, PTL DEF Spec, ResetsConfirmed

(* The dashboard is never replaced by an older one.                        *)
THEOREM NeverOlder == Spec => ShownNeverOlder
<1>1. IInv /\ [Next]_vars => [shown' >= shown]_vars
  BY StepNeverOlder
<1>2. QED
  BY <1>1, Inductive, PTL DEF Spec, ShownNeverOlder

(* When a reset's callback ends, the page tells how it went.               *)
THEOREM Told == Spec => OutcomesShown
<1>1. IInv /\ [Next]_vars =>
        [\A c \in Click : pc[c] \in {"posting", "reloading"} /\ pc'[c] = "idle" =>
            shown' > since'[c] \/ notice' \/ error']_vars
  BY StepTold
<1>2. QED
  BY <1>1, Inductive, PTL DEF Spec, OutcomesShown

=============================================================================
