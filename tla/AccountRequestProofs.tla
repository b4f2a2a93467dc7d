------------------------- MODULE AccountRequestProofs -------------------------
(* What is promised of a request about an account, proved for any groups,  *)
(* accounts, page size and requests, and any changes at Sub2API meanwhile. *)
EXTENDS AccountRequest, FiniteSetTheorems, WellFoundedInduction, TLAPS

\* What is true of the account a request asks for.
Now(r) == FactsOf(question[r].account, token, subscribed, members, enabled, granted)

\* The history of a request follows the facts.
CurrentOf(r) == r \in Served => always[r] \subseteq Now(r) /\ Now(r) \subseteq ever[r]

Authenticated == {"subscribing", "listing", "defining", "valuing", "loading", "waiting",
                  "posting", "querying"}
Resetting == {"defining", "valuing", "loading", "waiting", "posting"}

\* What a request has made sure of on its way.
KnowsOf(r) ==
    /\ pc[r] \in Authenticated => Token \in ever[r]
    /\ pc[r] = "listing" =>
          /\ \A g \in cursor[r].todo \cup {cursor[r].group} : <<"subscribed", g>> \in ever[r]
          /\ cursor[r].found => <<"member", cursor[r].group>> \in ever[r]
    /\ pc[r] \in Resetting =>
          /\ question[r].action = "reset" /\ question[r].method = "POST"
          /\ \E g \in Group : Through(g, ever[r])
    /\ pc[r] \in {"defining", "valuing"} => ~allowReset
    /\ pc[r] = "valuing" => <<"enabled", None>> \in ever[r]
    /\ pc[r] \in {"loading", "waiting", "posting"} => allowReset \/ Right \subseteq ever[r]

\* Members of a group before account a, in the order of the list.
Rank(S, a) == Cardinality({b \in S : b < a})

\* A group that is good for the account is still to be read, or the account
\* is still ahead in the list that is being read.
NotMissedOf(r) ==
    pc[r] = "listing" =>
        \A g \in Group : Through(g, always[r]) /\ g \notin shifted[r] =>
            \/ g \in cursor[r].todo
            \/ /\ g = cursor[r].group
               /\ \/ cursor[r].found
                  \/ PageSize * (cursor[r].page - 1) <= Rank(members[g], question[r].account)

\* Whoever posts holds the lock of the identity it posts for, and no other.
LockHeld ==
    /\ \A r \in Request : pc[r] = "posting" => holder[IdentityFor(r)] = r
    /\ \A i \in Identity, r \in Request :
          holder[i] = r => pc[r] = "posting" /\ i = IdentityFor(r)

\* A request under way has a question.
Asked == \A r \in Request : pc[r] # "idle" => question[r] \in Asks

Typed == TypeOK /\ LockHeld /\ Asked

IInv ==
    /\ Typed
    /\ \A r \in Request : CurrentOf(r) /\ KnowsOf(r) /\ NotMissedOf(r)
    /\ RefusalsJustified

-----------------------------------------------------------------------------
(* Where the requests are.                                                 *)
PlaceTyped ==
    /\ pc \in [Request -> Location]
    /\ cursor \in [Request -> {None} \cup Cursor]
    /\ answer \in [Request -> {None} \cup Answers]
    /\ \A r \in Request :
        /\ cursor[r] # None <=> pc[r] = "listing"
        /\ answer[r] # None <=> pc[r] = "answered"

\* Nothing but the place of r changes.
Moved(r) ==
    \A o \in Request \ {r} : pc'[o] = pc[o] /\ cursor'[o] = cursor[o] /\ answer'[o] = answer[o]

LEMMA AnswerPlace ==
    ASSUME PlaceTyped, NEW r \in Request, NEW x \in Answers, Answer(r, x)
    PROVE  PlaceTyped' /\ Moved(r) /\ pc'[r] = "answered" /\ answer'[r] = x
<1>1. x # None /\ "answered" \in Location
  BY AccountRequestAssumption DEF Location
<1>2. /\ answer' = [answer EXCEPT ![r] = x]
      /\ pc' = [pc EXCEPT ![r] = "answered"]
      /\ cursor' = [cursor EXCEPT ![r] = None]
  BY DEF Answer
<1>3. QED
  BY <1>1, <1>2 DEF PlaceTyped, Moved

LEMMA GotoPlace ==
    ASSUME PlaceTyped, NEW r \in Request, NEW l \in Location \ {"listing", "answered"},
           pc[r] # "answered", Goto(r, l)
    PROVE  PlaceTyped' /\ Moved(r) /\ pc'[r] = l
<1>1. /\ answer' = answer
      /\ pc' = [pc EXCEPT ![r] = l]
      /\ cursor' = [cursor EXCEPT ![r] = None]
  BY DEF Goto
<1>2. QED
  BY <1>1 DEF PlaceTyped, Moved

LEMMA CursorPlace ==
    ASSUME PlaceTyped, NEW r \in Request, pc[r] # "answered", NEW c \in Cursor,
           cursor' = [cursor EXCEPT ![r] = c], pc' = [pc EXCEPT ![r] = "listing"],
           UNCHANGED answer
    PROVE  PlaceTyped' /\ Moved(r) /\ pc'[r] = "listing" /\ cursor'[r] = c
<1>1. c # None /\ "listing" \in Location
  BY AccountRequestAssumption DEF Location
<1>2. QED
  BY <1>1 DEF PlaceTyped, Moved

(* What reading on means: the request is turned away, or one of the groups *)
(* is read from its first page.                                            *)
LEMMA ListNextCases ==
    ASSUME PlaceTyped, NEW r \in Request, pc[r] # "answered", NEW todo \in SUBSET Group,
           ListNext(r, todo)
    PROVE  /\ PlaceTyped' /\ Moved(r)
           /\ \/ pc'[r] = "answered" /\ answer'[r] = "forbidden" /\ todo = {}
              \/ \E g \in todo :
                    /\ pc'[r] = "listing"
                    /\ cursor'[r] = [todo |-> todo \ {g}, group |-> g, page |-> 1,
                                     found |-> FALSE]
<1>1. CASE todo = {} /\ Answer(r, "forbidden")
  BY <1>1, AnswerPlace DEF Answers
<1>2. ASSUME NEW g \in todo,
             cursor' = [cursor EXCEPT ![r] =
                           [todo |-> todo \ {g}, group |-> g, page |-> 1, found |-> FALSE]],
             pc' = [pc EXCEPT ![r] = "listing"],
             UNCHANGED answer
      PROVE  /\ PlaceTyped' /\ Moved(r)
             /\ pc'[r] = "listing"
             /\ cursor'[r] = [todo |-> todo \ {g}, group |-> g, page |-> 1, found |-> FALSE]
  <2>1. PICK c : c = [todo |-> todo \ {g}, group |-> g, page |-> 1, found |-> FALSE]
    OBVIOUS
  <2>2. c \in Cursor /\ cursor' = [cursor EXCEPT ![r] = c]
    BY <1>2, <2>1 DEF Cursor
  <2>3. QED
    BY <1>2, <2>1, <2>2, CursorPlace
<1>3. QED
  BY <1>1, <1>2 DEF ListNext

LEMMA PermittedCases ==
    ASSUME PlaceTyped, Asked, NEW r \in Request, pc[r] \notin {"idle", "answered"}, Permitted(r)
    PROVE  /\ PlaceTyped' /\ Moved(r)
           /\ \/ pc'[r] = "answered" /\ answer'[r] = "badMethod"
              \/ pc'[r] = "querying"
              \/ /\ question[r].action = "reset" /\ question[r].method = "POST"
                 /\ \/ allowReset /\ pc'[r] = "loading"
                    \/ ~allowReset /\ pc'[r] = "defining"
<1>1. CASE Answer(r, "badMethod")
  BY <1>1, AnswerPlace DEF Answers
<1>2. CASE /\ question[r].method = MethodOf(question[r].action)
           /\ Goto(r, IF question[r].action = "quota" THEN "querying"
                      ELSE IF allowReset THEN "loading" ELSE "defining")
  <2>1. PICK l : l = IF question[r].action = "quota" THEN "querying"
                     ELSE IF allowReset THEN "loading" ELSE "defining"
    OBVIOUS
  <2>2. l \in Location \ {"listing", "answered"} /\ Goto(r, l)
    BY <1>2, <2>1 DEF Location
  <2>3. PlaceTyped' /\ Moved(r) /\ pc'[r] = l
    BY <2>2, GotoPlace
  <2>4. question[r].action \in {"quota", "reset"}
    BY AccountRequestAssumption DEF Asked
  <2>5. QED
    BY <1>2, <2>1, <2>3, <2>4 DEF MethodOf
<1>3. QED
  BY <1>1, <1>2 DEF Permitted

\* The steps a handler takes between its request and its response.
Move(r) ==
    \/ Authenticate(r) \/ LoadSubscribedGroups(r) \/ ReadPage(r)
    \/ LoadDefinitions(r) \/ LoadValues(r) \/ LoadAccount(r)
    \/ Begin(r) \/ Send(r) \/ SendNothing(r) \/ QueryQuota(r)

\* What a page tells: the next page, or the end of the list.
TurnsPage(r) ==
    LET c == cursor[r]
        found == c.found \/ question[r].account \in Items(members[c.group], c.page)
    IN /\ ~Last(members[c.group], c.page)
       /\ pc'[r] = "listing"
       /\ cursor'[r] = NextPage(c, found)

LEMMA NextPageTyped ==
    ASSUME NEW c \in Cursor, NEW found \in BOOLEAN, NEW d, d = NextPage(c, found)
    PROVE  /\ d \in Cursor /\ d.todo = c.todo /\ d.group = c.group
           /\ d.page = c.page + 1 /\ d.found = found
<1>1. PICK p : p = c.page + 1
  OBVIOUS
<1>2. p \in Nat \ {0}
  BY <1>1 DEF Cursor
<1>3. d = [c EXCEPT !.page = p, !.found = found]
  BY <1>1 DEF NextPage
<1>4. QED
  BY <1>1, <1>2, <1>3 DEF Cursor

LEMMA ReadPageCases ==
    ASSUME PlaceTyped, Asked, NEW r \in Request, ReadPage(r)
    PROVE  /\ PlaceTyped' /\ Moved(r)
           /\ cursor[r] \in Cursor
           /\ \/ pc'[r] = "answered" /\ answer'[r] \in {"failed", "badMethod"}
              \/ TurnsPage(r)
              \/ /\ Last(members[cursor[r].group], cursor[r].page)
                 /\ \/ cursor[r].found
                    \/ question[r].account \in Items(members[cursor[r].group], cursor[r].page)
                 /\ \/ pc'[r] = "querying"
                    \/ /\ question[r].action = "reset" /\ question[r].method = "POST"
                       /\ \/ allowReset /\ pc'[r] = "loading"
                          \/ ~allowReset /\ pc'[r] = "defining"
              \/ /\ Last(members[cursor[r].group], cursor[r].page)
                 /\ ~cursor[r].found
                 /\ question[r].account \notin Items(members[cursor[r].group], cursor[r].page)
                 /\ \/ pc'[r] = "answered" /\ answer'[r] = "forbidden" /\ cursor[r].todo = {}
                    \/ \E g \in cursor[r].todo :
                          /\ pc'[r] = "listing"
                          /\ cursor'[r] = [todo |-> cursor[r].todo \ {g}, group |-> g, page |-> 1,
                                           found |-> FALSE]
<1>1. pc[r] = "listing" /\ cursor[r] \in Cursor
  BY DEF ReadPage, PlaceTyped
<1>2. PICK found : found = (cursor[r].found \/ question[r].account
                                                  \in Items(members[cursor[r].group], cursor[r].page))
  OBVIOUS
<1>3. found \in BOOLEAN
  BY <1>2
<1>4. CASE Answer(r, "failed")
  BY <1>1, <1>4, AnswerPlace DEF Answers
<1>5. CASE /\ ~Last(members[cursor[r].group], cursor[r].page)
           /\ cursor' = [cursor EXCEPT ![r] = NextPage(cursor[r], found)]
           /\ UNCHANGED <<pc, answer>>
  <2>1. PICK c : c = cursor[r]
    OBVIOUS
  <2>2. PICK d : d = NextPage(c, found)
    OBVIOUS
  <2>3. d \in Cursor
    BY <1>1, <1>3, <2>1, <2>2, NextPageTyped
  <2>4. cursor' = [cursor EXCEPT ![r] = d] /\ pc' = [pc EXCEPT ![r] = "listing"]
    BY <1>1, <1>5, <2>1, <2>2 DEF PlaceTyped
  <2>5. PlaceTyped' /\ Moved(r) /\ pc'[r] = "listing" /\ cursor'[r] = d
    BY <1>1, <1>5, <2>3, <2>4, CursorPlace
  <2>6. TurnsPage(r)
    BY <1>2, <1>5, <2>1, <2>2, <2>5 DEF TurnsPage
  <2>7. QED
    BY <1>1, <2>5, <2>6
<1>6. CASE Last(members[cursor[r].group], cursor[r].page) /\ found /\ Permitted(r)
  BY <1>1, <1>2, <1>6, PermittedCases
<1>7. CASE Last(members[cursor[r].group], cursor[r].page) /\ ~found /\ ListNext(r, cursor[r].todo)
  <2>1. PICK todo : todo = cursor[r].todo
    OBVIOUS
  <2>2. todo \in SUBSET Group /\ ListNext(r, todo)
    BY <1>1, <1>7, <2>1 DEF Cursor
  <2>3. /\ PlaceTyped' /\ Moved(r)
        /\ \/ pc'[r] = "answered" /\ answer'[r] = "forbidden" /\ todo = {}
           \/ \E g \in todo :
                 /\ pc'[r] = "listing"
                 /\ cursor'[r] = [todo |-> todo \ {g}, group |-> g, page |-> 1, found |-> FALSE]
    BY <1>1, <2>2, ListNextCases
  <2>4. QED
    BY <1>1, <1>2, <1>7, <2>1, <2>3
<1>8. QED
  BY <1>2, <1>4, <1>5, <1>6, <1>7 DEF ReadPage

-----------------------------------------------------------------------------
(* Types, and who holds a lock.                                            *)
LEMMA Places == TypeOK => PlaceTyped
BY DEF TypeOK, PlaceTyped

(* A step of one handler moves that handler and nothing at Sub2API.        *)
LEMMA MovePlace ==
    ASSUME Typed, NEW r \in Request, Move(r)
    PROVE  /\ PlaceTyped' /\ Moved(r) /\ Serving
           /\ r \in Served
<1>1. PlaceTyped /\ Asked
  BY Places DEF Typed
<1>2. ASSUME NEW x \in Answers, Answer(r, x)
      PROVE  PlaceTyped' /\ Moved(r)
  BY <1>1, <1>2, AnswerPlace
<1>3. ASSUME NEW l \in {"subscribing", "defining", "valuing", "loading", "waiting", "posting"},
             pc[r] # "answered", Goto(r, l)
      PROVE  PlaceTyped' /\ Moved(r)
  BY <1>1, <1>3, GotoPlace DEF Location
<1>4. /\ "failed" \in Answers /\ "unauthorized" \in Answers /\ "noRight" \in Answers
      /\ "recent" \in Answers /\ "ok" \in Answers
  BY DEF Answers
<1>5. CASE Authenticate(r)
  BY <1>2, <1>3, <1>4, <1>5 DEF Authenticate, Served
<1>6. CASE LoadSubscribedGroups(r)
  <2>1. subscribed \in SUBSET Group
    BY DEF Typed, TypeOK
  <2>2. pc[r] = "subscribing" /\ (Answer(r, "failed") \/ ListNext(r, subscribed)) /\ Serving
    BY <1>6 DEF LoadSubscribedGroups
  <2>3. CASE ListNext(r, subscribed)
    <3>1. PICK todo : todo = subscribed
      OBVIOUS
    <3>2. todo \in SUBSET Group /\ ListNext(r, todo)
      BY <2>1, <2>3, <3>1
    <3>3. QED
      BY <1>1, <2>2, <3>2, ListNextCases DEF Served
  <2>4. QED
    BY <1>2, <1>4, <2>2, <2>3 DEF Served
<1>7. CASE ReadPage(r)
  <2>1. PlaceTyped' /\ Moved(r)
    BY <1>1, <1>7, ReadPageCases
  <2>2. QED
    BY <1>7, <2>1 DEF ReadPage, Served
<1>8. CASE LoadDefinitions(r)
  BY <1>2, <1>3, <1>4, <1>8 DEF LoadDefinitions, Served
<1>9. CASE LoadValues(r)
  BY <1>2, <1>3, <1>4, <1>9 DEF LoadValues, Served
<1>10. CASE LoadAccount(r)
  BY <1>2, <1>3, <1>4, <1>10 DEF LoadAccount, Served
<1>11. CASE Begin(r)
  BY <1>2, <1>3, <1>4, <1>11 DEF Begin, Served
<1>12. CASE Send(r)
  BY <1>2, <1>4, <1>12 DEF Send, Served
<1>13. CASE SendNothing(r)
  BY <1>2, <1>4, <1>13 DEF SendNothing, Served
<1>14. CASE QueryQuota(r)
  BY <1>2, <1>4, <1>14 DEF QueryQuota, Served
<1>15. QED
  BY <1>5, <1>6, <1>7, <1>8, <1>9, <1>10, <1>11, <1>12, <1>13, <1>14 DEF Move

\* The part of Typed about the guard.
Guarded ==
    /\ holder \in [Identity -> Request \cup {None}]
    /\ recent \in [Identity -> BOOLEAN]
    /\ \A r \in Request : pc[r] = "posting" <=> \E i \in Identity : holder[i] = r
    /\ LockHeld

LEMMA MoveGuarded ==
    ASSUME Typed, NEW r \in Request, Move(r)
    PROVE  Guarded'
<1>1. /\ holder \in [Identity -> Request \cup {None}]
      /\ recent \in [Identity -> BOOLEAN]
      /\ \A o \in Request : pc[o] = "posting" <=> \E i \in Identity : holder[i] = o
      /\ LockHeld
  BY DEF Typed, TypeOK
<1>2. /\ \A o \in Request \ {r} : pc'[o] = pc[o]
      /\ question' = question
  BY MovePlace DEF Moved, Serving
<1>3. IdentityFor(r) \in Identity /\ None \notin Request
  <2>1. question[r] \in Asks
    BY MovePlace DEF Typed, Asked, Served
  <2>2. QED
    BY <2>1, AccountRequestAssumption DEF IdentityFor, Identity
<1>4. CASE UNCHANGED guard /\ pc[r] # "posting" /\ pc'[r] # "posting"
  BY <1>1, <1>2, <1>4 DEF Guarded, LockHeld, IdentityFor, guard
<1>5. PlaceTyped /\ Asked /\ r \in Served
  BY MovePlace, Places DEF Typed
<1>6. DOMAIN pc = Request
  BY <1>5 DEF PlaceTyped
<1>7. CASE Authenticate(r) \/ LoadSubscribedGroups(r) \/ ReadPage(r) \/ LoadDefinitions(r)
           \/ LoadValues(r) \/ LoadAccount(r) \/ QueryQuota(r)
  <2>1. UNCHANGED guard /\ pc[r] # "posting"
    BY <1>7 DEF Authenticate, LoadSubscribedGroups, ReadPage, LoadDefinitions, LoadValues,
                LoadAccount, QueryQuota
  <2>2. pc'[r] # "posting"
    <3>1. CASE ReadPage(r)
      BY <1>5, <3>1, ReadPageCases DEF TurnsPage
    <3>2. CASE ~ReadPage(r)
      BY <1>6, <1>7, <3>2 DEF Authenticate, LoadSubscribedGroups, LoadDefinitions, LoadValues,
                  LoadAccount, QueryQuota, Answer, Goto, ListNext
    <3>3. QED
      BY <3>1, <3>2
  <2>3. QED
    BY <1>4, <2>1, <2>2
<1>8. CASE Begin(r)
  <2>1. pc[r] = "waiting" /\ holder[IdentityFor(r)] = None
    BY <1>8 DEF Begin
  <2>2. CASE Answer(r, "recent") /\ UNCHANGED guard
    BY <1>4, <1>6, <2>1, <2>2 DEF Answer
  <2>3. CASE /\ Goto(r, "posting")
             /\ holder' = [holder EXCEPT ![IdentityFor(r)] = r]
             /\ recent' = [recent EXCEPT ![IdentityFor(r)] = TRUE]
    <3>1. PICK i \in Identity : i = IdentityFor(r) /\ IdentityFor(r)' = i
      BY <1>2, <1>3 DEF IdentityFor
    <3>2. /\ holder' = [holder EXCEPT ![i] = r] /\ holder[i] = None
          /\ recent' = [recent EXCEPT ![i] = TRUE]
          /\ pc'[r] = "posting" /\ pc[r] = "waiting"
      BY <1>6, <2>1, <2>3, <3>1 DEF Goto
    <3>3. \A j \in Identity : holder[j] # r
      BY <1>1, <3>2
    <3>4. \A o \in Request : IdentityFor(o)' = IdentityFor(o)
      BY <1>2 DEF IdentityFor
    <3>5. LockHeld'
      BY <1>1, <1>2, <1>3, <3>1, <3>2, <3>3, <3>4 DEF LockHeld
    <3>6. \A o \in Request : pc'[o] = "posting" <=> \E j \in Identity : holder'[j] = o
      BY <1>1, <1>2, <1>3, <3>1, <3>2, <3>3
    <3>7. QED
      BY <1>1, <3>2, <3>5, <3>6 DEF Guarded
  <2>4. QED
    BY <1>8, <2>2, <2>3 DEF Begin
<1>9. CASE Send(r) \/ SendNothing(r)
  <2>1. PICK i \in Identity : i = IdentityFor(r) /\ IdentityFor(r)' = i
    BY <1>2, <1>3 DEF IdentityFor
  <2>2. /\ holder' = [holder EXCEPT ![i] = None]
        /\ recent' = [recent EXCEPT ![i] = TRUE]
        /\ pc'[r] = "answered" /\ pc[r] = "posting"
    BY <1>6, <1>9, <2>1 DEF Send, SendNothing, Unlock, Answer
  <2>3. \A j \in Identity : j # i => holder[j] # r
    BY <1>1, <2>1 DEF LockHeld
  <2>4. holder[i] = r
    BY <1>1, <2>1, <2>2 DEF LockHeld
  <2>5. \A o \in Request : IdentityFor(o)' = IdentityFor(o)
    BY <1>2 DEF IdentityFor
  <2>6. \A j \in Identity : holder'[j] = IF j = i THEN None ELSE holder[j]
    BY <1>1, <2>2
  <2>7. LockHeld'
    BY <1>1, <1>2, <1>3, <2>2, <2>3, <2>4, <2>5, <2>6 DEF LockHeld
  <2>8. \A o \in Request : pc'[o] = "posting" <=> \E j \in Identity : holder'[j] = o
    BY <1>1, <1>2, <1>3, <2>2, <2>3, <2>4, <2>6
  <2>9. QED
    BY <1>1, <2>2, <2>7, <2>8 DEF Guarded
<1>10. QED
  BY <1>7, <1>8, <1>9 DEF Move

(* What a change at Sub2API leaves alone.                                  *)
LEMMA FactsTyped ==
    ASSUME NEW a, NEW valid, NEW subs, NEW mem, NEW on, NEW yes
    PROVE  FactsOf(a, valid, subs, mem, on, yes) \subseteq Fact
BY DEF FactsOf

\* A change at Sub2API, whichever.
Changes ==
    \/ ToggleToken \/ ToggleAttribute \/ ToggleGrant
    \/ \E g \in Group : ToggleSubscription(g)
    \/ \E g \in Group, a \in Account : JoinGroup(g, a) \/ LeaveGroup(g, a)

LEMMA ChangeTyped ==
    ASSUME TypeOK, Changes
    PROVE  /\ {token, enabled, granted}' \subseteq BOOLEAN
           /\ subscribed' \subseteq Group
           /\ members' \in [Group -> SUBSET Account]
           /\ shifted' \in [Request -> SUBSET Group]
           /\ Change
<1>1. /\ {token, enabled, granted} \subseteq BOOLEAN
      /\ subscribed \subseteq Group
      /\ members \in [Group -> SUBSET Account]
      /\ shifted \in [Request -> SUBSET Group]
  BY DEF TypeOK
<1>2. CASE ToggleToken \/ ToggleAttribute \/ ToggleGrant
  BY <1>1, <1>2 DEF ToggleToken, ToggleAttribute, ToggleGrant
<1>3. ASSUME NEW g \in Group, ToggleSubscription(g)
      PROVE  /\ {token, enabled, granted}' \subseteq BOOLEAN
             /\ subscribed' \subseteq Group
             /\ members' \in [Group -> SUBSET Account]
             /\ shifted' \in [Request -> SUBSET Group]
             /\ Change
  BY <1>1, <1>3 DEF ToggleSubscription
<1>4. ASSUME NEW g \in Group, NEW a \in Account, JoinGroup(g, a)
      PROVE  /\ {token, enabled, granted}' \subseteq BOOLEAN
             /\ subscribed' \subseteq Group
             /\ members' \in [Group -> SUBSET Account]
             /\ shifted' \in [Request -> SUBSET Group]
             /\ Change
  BY <1>1, <1>4 DEF JoinGroup
<1>5. ASSUME NEW g \in Group, NEW a \in Account, LeaveGroup(g, a)
      PROVE  /\ {token, enabled, granted}' \subseteq BOOLEAN
             /\ subscribed' \subseteq Group
             /\ members' \in [Group -> SUBSET Account]
             /\ shifted' \in [Request -> SUBSET Group]
             /\ Change
  BY <1>1, <1>5 DEF LeaveGroup
<1>6. QED
  BY <1>2, <1>3, <1>4, <1>5 DEF Changes

LEMMA TypedInit == Init => Typed
<1> SUFFICES ASSUME Init PROVE Typed
  OBVIOUS
<1>1. None \notin Request
  BY AccountRequestAssumption
<1>2. /\ {token, enabled, granted, allowReset} \subseteq BOOLEAN
      /\ subscribed \subseteq Group
      /\ members \in [Group -> SUBSET Account]
  BY AccountRequestAssumption DEF Init
<1>3. /\ holder \in [Identity -> Request \cup {None}]
      /\ recent \in [Identity -> BOOLEAN]
      /\ \A i \in Identity : holder[i] = None
  BY DEF Init
<1>4. /\ pc \in [Request -> Location]
      /\ question \in [Request -> {None} \cup Asks]
      /\ cursor \in [Request -> {None} \cup Cursor]
      /\ answer \in [Request -> {None} \cup Answers]
      /\ gone \in [Request -> BOOLEAN]
  BY DEF Init, Location
<1>5. /\ ever \in [Request -> SUBSET Fact]
      /\ always \in [Request -> SUBSET Fact]
      /\ shifted \in [Request -> SUBSET Group]
      /\ \A r \in Request : always[r] \subseteq ever[r]
  BY DEF Init
<1>6. \A r \in Request : pc[r] = "idle" /\ cursor[r] = None /\ answer[r] = None
  BY DEF Init
<1>7. TypeOK
  BY <1>1, <1>2, <1>3, <1>4, <1>5, <1>6 DEF TypeOK
<1>8. LockHeld /\ Asked
  BY <1>1, <1>3, <1>6 DEF LockHeld, Asked
<1>9. QED
  BY <1>7, <1>8 DEF Typed

LEMMA Cases ==
    ASSUME [Next]_vars
    PROVE  \/ \E r \in Request : Move(r) \/ Receive(r) \/ Return(r) \/ Disconnect(r)
           \/ Changes
           \/ \E i \in Identity : WindowEnds(i)
           \/ UNCHANGED vars
<1>1. ASSUME NEW r \in Request, Receive(r) \/ Step(r) \/ Begin(r) \/ Disconnect(r)
      PROVE  Move(r) \/ Receive(r) \/ Return(r) \/ Disconnect(r)
  BY <1>1 DEF Step, Move
<1>2. CASE Next
  BY <1>1, <1>2 DEF Next, Changes
<1>3. QED
  BY <1>2

LEMMA TypedStep ==
    ASSUME Typed, [Next]_vars
    PROVE  Typed'
<1>1. ASSUME NEW r \in Request, Move(r)
      PROVE  Typed'
  <2>1. PlaceTyped' /\ Moved(r) /\ Serving /\ r \in Served
    BY <1>1, MovePlace
  <2>2. Guarded'
    BY <1>1, MoveGuarded
  <2>3. TypeOK'
    BY <2>1, <2>2 DEF Typed, TypeOK, PlaceTyped, Guarded, Serving, sub2api, history
  <2>4. Asked'
    BY <2>1 DEF Typed, Asked, Moved, Serving, Served
  <2>5. QED
    BY <2>2, <2>3, <2>4 DEF Typed, Guarded
<1>2. CASE Changes
  <2>1. /\ {token, enabled, granted}' \subseteq BOOLEAN
        /\ subscribed' \subseteq Group
        /\ members' \in [Group -> SUBSET Account]
        /\ shifted' \in [Request -> SUBSET Group]
        /\ Change
    BY <1>2, ChangeTyped DEF Typed
  <2>2. UNCHANGED <<allowReset, holder, recent, pc, question, cursor, answer, gone>>
    BY <2>1 DEF Change, guard
  <2>3. /\ ever' \in [Request -> SUBSET Fact]
        /\ always' \in [Request -> SUBSET Fact]
        /\ \A r \in Request : always'[r] \subseteq ever'[r]
    <3>1. DEFINE now(r) == FactsOf(question[r].account, token', subscribed', members',
                                   enabled', granted')
    <3>2. \A r \in Request : now(r) \subseteq Fact
      BY FactsTyped
    <3>3. /\ ever' = [r \in Request |-> IF r \in Served THEN ever[r] \cup now(r) ELSE ever[r]]
          /\ always' = [r \in Request |->
                           IF r \in Served THEN always[r] \cap now(r) ELSE always[r]]
      BY <2>1 DEF Change
    <3>4. /\ ever \in [Request -> SUBSET Fact]
          /\ always \in [Request -> SUBSET Fact]
          /\ \A r \in Request : always[r] \subseteq ever[r]
      BY DEF Typed, TypeOK
    <3> HIDE DEF now
    <3>5. ever' \in [Request -> SUBSET Fact]
      BY <3>2, <3>3, <3>4
    <3>6. always' \in [Request -> SUBSET Fact]
      BY <3>3, <3>4
    <3>7. \A r \in Request : always'[r] \subseteq ever'[r]
      BY <3>3, <3>4
    <3>8. QED
      BY <3>5, <3>6, <3>7
  <2>4. TypeOK'
    BY <2>1, <2>2, <2>3 DEF Typed, TypeOK
  <2>5. LockHeld' /\ Asked'
    BY <2>2 DEF Typed, LockHeld, Asked, IdentityFor
  <2>6. QED
    BY <2>4, <2>5 DEF Typed
<1>3. ASSUME NEW r \in Request, Receive(r)
      PROVE  Typed'
  <2>1. PICK q \in Asks :
          LET facts == FactsOf(q.account, token, subscribed, members, enabled, granted)
          IN /\ question' = [question EXCEPT ![r] = q]
             /\ ever' = [ever EXCEPT ![r] = facts]
             /\ always' = [always EXCEPT ![r] = facts]
    BY <1>3 DEF Receive
  <2>2. PICK f : f = FactsOf(q.account, token, subscribed, members, enabled, granted)
    OBVIOUS
  <2>3. f \in SUBSET Fact
    BY <2>2, FactsTyped
  <2>4. /\ question' = [question EXCEPT ![r] = q]
        /\ ever' = [ever EXCEPT ![r] = f]
        /\ always' = [always EXCEPT ![r] = f]
    BY <2>1, <2>2
  <2>5. /\ pc[r] = "idle"
        /\ pc' = [pc EXCEPT ![r] = "authenticating"]
        /\ UNCHANGED <<sub2api, allowReset, guard, cursor, answer, gone, shifted, upsets>>
    BY <1>3 DEF Receive
  <2>6. /\ question' \in [Request -> {None} \cup Asks]
        /\ ever' \in [Request -> SUBSET Fact]
        /\ always' \in [Request -> SUBSET Fact]
        /\ \A o \in Request : always'[o] \subseteq ever'[o]
    BY <2>3, <2>4 DEF Typed, TypeOK
  <2>7. /\ pc' \in [Request -> Location]
        /\ \A o \in Request :
              /\ cursor[o] # None <=> pc'[o] = "listing"
              /\ answer[o] # None <=> pc'[o] = "answered"
              /\ pc'[o] = "posting" <=> \E i \in Identity : holder[i] = o
    BY <2>5 DEF Typed, TypeOK, Location
  <2>8. TypeOK'
    BY <2>5, <2>6, <2>7 DEF Typed, TypeOK, sub2api, guard
  <2>9. \A o \in Request : o # r => IdentityFor(o)' = IdentityFor(o) /\ pc'[o] = pc[o]
    BY <2>4, <2>5 DEF IdentityFor, Typed, TypeOK
  <2>10. pc'[r] = "authenticating" /\ pc[r] = "idle" /\ holder' = holder
    BY <2>5 DEF Typed, TypeOK, guard
  <2>11. LockHeld'
    BY <2>9, <2>10 DEF Typed, LockHeld
  <2>12. Asked'
    BY <2>4, <2>9 DEF Typed, TypeOK, Asked
  <2>13. QED
    BY <2>8, <2>11, <2>12 DEF Typed
<1>4. ASSUME NEW r \in Request, Return(r)
      PROVE  Typed'
  <2>1. /\ pc[r] = "answered"
        /\ pc' = [pc EXCEPT ![r] = "idle"]
        /\ question' = [question EXCEPT ![r] = None]
        /\ answer' = [answer EXCEPT ![r] = None]
        /\ gone' = [gone EXCEPT ![r] = FALSE]
        /\ ever' = [ever EXCEPT ![r] = {}]
        /\ always' = [always EXCEPT ![r] = {}]
        /\ shifted' = [shifted EXCEPT ![r] = {}]
        /\ UNCHANGED <<sub2api, allowReset, guard, cursor, upsets>>
    BY <1>4 DEF Return
  <2>2. /\ question' \in [Request -> {None} \cup Asks]
        /\ answer' \in [Request -> {None} \cup Answers]
        /\ gone' \in [Request -> BOOLEAN]
        /\ ever' \in [Request -> SUBSET Fact]
        /\ always' \in [Request -> SUBSET Fact]
        /\ shifted' \in [Request -> SUBSET Group]
        /\ \A o \in Request : always'[o] \subseteq ever'[o]
    BY <2>1 DEF Typed, TypeOK
  <2>3. /\ pc' \in [Request -> Location]
        /\ \A o \in Request :
              /\ cursor[o] # None <=> pc'[o] = "listing"
              /\ answer'[o] # None <=> pc'[o] = "answered"
              /\ pc'[o] = "posting" <=> \E i \in Identity : holder[i] = o
    BY <2>1 DEF Typed, TypeOK, Location
  <2>4. TypeOK'
    BY <2>1, <2>2, <2>3 DEF Typed, TypeOK, sub2api, guard
  <2>5. \A o \in Request : o # r => IdentityFor(o)' = IdentityFor(o) /\ pc'[o] = pc[o]
    BY <2>1 DEF IdentityFor, Typed, TypeOK
  <2>6. pc'[r] = "idle" /\ pc[r] = "answered" /\ holder' = holder
    BY <2>1 DEF Typed, TypeOK, guard
  <2>7. LockHeld'
    BY <2>5, <2>6 DEF Typed, LockHeld
  <2>8. Asked'
    BY <2>1, <2>5, <2>6 DEF Typed, TypeOK, Asked
  <2>9. QED
    BY <2>4, <2>7, <2>8 DEF Typed
<1>5. ASSUME NEW r \in Request, Disconnect(r)
      PROVE  Typed'
  BY <1>5 DEF Disconnect, Typed, TypeOK, LockHeld, Asked, IdentityFor, sub2api, guard, history
<1>6. ASSUME NEW i \in Identity, WindowEnds(i)
      PROVE  Typed'
  BY <1>6 DEF WindowEnds, Typed, TypeOK, LockHeld, Asked, IdentityFor, sub2api, history
<1>7. CASE UNCHANGED vars
  BY <1>7 DEF vars, Typed, TypeOK, LockHeld, Asked, IdentityFor
<1>8. QED
  BY <1>1, <1>2, <1>3, <1>4, <1>5, <1>6, <1>7, Cases

(* The state of the requests has the type it is declared with.             *)
THEOREM TypeCorrect == Spec => []TypeOK
<1>1. Typed /\ [Next]_vars => Typed'
  BY TypedStep
<1>2. Typed => TypeOK
  BY DEF Typed
<1>3. QED
  BY TypedInit, <1>1, <1>2, PTL DEF Spec

-----------------------------------------------------------------------------
(* What the history of a request holds.                                    *)

(* The facts as they are now.                                              *)
LEMMA NowIs ==
    ASSUME TypeOK, NEW r
    PROVE  /\ Token \in Now(r) <=> token
           /\ <<"enabled", None>> \in Now(r) <=> enabled
           /\ <<"granted", None>> \in Now(r) <=> granted
           /\ \A g \in Group : <<"subscribed", g>> \in Now(r) <=> g \in subscribed
           /\ \A g \in Group : <<"member", g>> \in Now(r) <=> question[r].account \in members[g]
<1>1. \A f : f \in Now(r) <=>
            /\ f \in Fact
            /\ \/ f = Token /\ token
               \/ f[1] = "enabled" /\ enabled
               \/ f[1] = "granted" /\ granted
               \/ \E g \in subscribed : f = <<"subscribed", g>>
               \/ \E g \in Group : question[r].account \in members[g] /\ f = <<"member", g>>
  BY DEF Now, FactsOf
<1>2. Token \in Now(r) <=> token
  <2>1. Token \in Fact
    BY DEF Token, Fact
  <2>2. QED
    BY <1>1, <2>1 DEF Token
<1>3. (<<"enabled", None>> \in Now(r) <=> enabled) /\ (<<"granted", None>> \in Now(r) <=> granted)
  <2>1. <<"enabled", None>> \in Fact /\ <<"granted", None>> \in Fact
    BY DEF Fact
  <2>2. QED
    BY <1>1, <2>1 DEF Token
<1>4. ASSUME NEW g \in Group
      PROVE  <<"subscribed", g>> \in Now(r) <=> g \in subscribed
  <2>1. <<"subscribed", g>> \in Fact
    BY DEF Fact
  <2>2. QED
    BY <1>1, <2>1 DEF Token
<1>5. ASSUME NEW g \in Group
      PROVE  <<"member", g>> \in Now(r) <=> question[r].account \in members[g]
  <2>1. <<"member", g>> \in Fact
    BY DEF Fact
  <2>2. QED
    BY <1>1, <2>1 DEF Token
<1>6. QED
  BY <1>2, <1>3, <1>4, <1>5

(* Through which groups the account can be reached now.                    *)
LEMMA ThroughNow ==
    ASSUME Typed, NEW r \in Served, CurrentOf(r), NEW g \in Group, Through(g, always[r])
    PROVE  g \in subscribed /\ question[r].account \in members[g]
BY NowIs DEF Typed, CurrentOf, Through

(* What a change at Sub2API does to the histories.                         *)
LEMMA ChangeHistory ==
    ASSUME Typed, Changes, NEW r \in Request
    PROVE  /\ ever[r] \subseteq ever'[r] /\ always'[r] \subseteq always[r]
           /\ r \in Served => Now(r)' \subseteq ever'[r] /\ always'[r] \subseteq Now(r)'
           /\ r \notin Served => UNCHANGED <<ever[r], always[r]>>
           /\ UNCHANGED <<allowReset, pc, question, cursor, answer>>
           /\ shifted[r] \subseteq shifted'[r]
<1>1. Change
  BY ChangeTyped DEF Typed
<1>2. question' = question
  BY <1>1 DEF Change
<1>3. PICK f : f = FactsOf(question[r].account, token', subscribed', members', enabled', granted')
  OBVIOUS
<1>4. Now(r)' = f
  BY <1>2, <1>3 DEF Now
<1>5. /\ ever'[r] = IF r \in Served THEN ever[r] \cup f ELSE ever[r]
      /\ always'[r] = IF r \in Served THEN always[r] \cap f ELSE always[r]
  BY <1>1, <1>3 DEF Change
<1>6. UNCHANGED <<allowReset, pc, question, cursor, answer>>
  BY <1>1 DEF Change
<1>7. shifted[r] \subseteq shifted'[r]
  BY DEF Changes, ToggleToken, ToggleAttribute, ToggleGrant, ToggleSubscription, JoinGroup,
         LeaveGroup
<1>8. QED
  BY <1>4, <1>5, <1>6, <1>7

(* What the other steps do to the histories.                               *)
LEMMA OtherHistory ==
    ASSUME Typed, [Next]_vars, ~Changes, NEW o \in Request, pc'[o] # "idle",
           ~Receive(o)
    PROVE  UNCHANGED <<ever[o], always[o], question[o], shifted[o], sub2api, allowReset>>
<1>1. ASSUME NEW r \in Request, Move(r)
      PROVE  UNCHANGED <<ever[o], always[o], question[o], shifted[o], sub2api, allowReset>>
  BY <1>1, MovePlace DEF Serving, history
<1>2. ASSUME NEW r \in Request, Receive(r)
      PROVE  UNCHANGED <<ever[o], always[o], question[o], shifted[o], sub2api, allowReset>>
  <2>1. r # o
    BY <1>2
  <2>2. PICK q, f : /\ question' = [question EXCEPT ![r] = q]
                    /\ ever' = [ever EXCEPT ![r] = f]
                    /\ always' = [always EXCEPT ![r] = f]
    BY <1>2 DEF Receive
  <2>3. UNCHANGED <<shifted, sub2api, allowReset>>
    BY <1>2 DEF Receive
  <2>4. QED
    BY <2>1, <2>2, <2>3 DEF Typed, TypeOK
<1>3. ASSUME NEW r \in Request, Return(r)
      PROVE  UNCHANGED <<ever[o], always[o], question[o], shifted[o], sub2api, allowReset>>
  BY <1>3 DEF Return, Typed, TypeOK
<1>4. ASSUME NEW r \in Request, Disconnect(r)
      PROVE  UNCHANGED <<ever[o], always[o], question[o], shifted[o], sub2api, allowReset>>
  BY <1>4 DEF Disconnect, history
<1>5. ASSUME NEW i \in Identity, WindowEnds(i)
      PROVE  UNCHANGED <<ever[o], always[o], question[o], shifted[o], sub2api, allowReset>>
  BY <1>5 DEF WindowEnds, history
<1>6. CASE UNCHANGED vars
  BY <1>6 DEF vars, sub2api
<1>7. QED
  BY <1>1, <1>2, <1>3, <1>4, <1>5, <1>6, Cases

(* The steps that move other handlers, or none.                            *)
LEMMA OtherPlace ==
    ASSUME Typed, [Next]_vars, NEW o \in Request, ~Move(o), ~Receive(o), ~Return(o)
    PROVE  UNCHANGED <<pc[o], cursor[o], answer[o]>>
<1>1. ASSUME NEW r \in Request, Move(r)
      PROVE  UNCHANGED <<pc[o], cursor[o], answer[o]>>
  BY <1>1, MovePlace DEF Moved
<1>2. ASSUME NEW r \in Request, Receive(r) \/ Return(r)
      PROVE  UNCHANGED <<pc[o], cursor[o], answer[o]>>
  BY <1>2 DEF Receive, Return, Typed, TypeOK
<1>3. CASE Changes
  BY <1>3, ChangeTyped DEF Change, Typed
<1>4. ASSUME NEW r \in Request, Disconnect(r)
      PROVE  UNCHANGED <<pc[o], cursor[o], answer[o]>>
  BY <1>4 DEF Disconnect
<1>5. ASSUME NEW i \in Identity, WindowEnds(i)
      PROVE  UNCHANGED <<pc[o], cursor[o], answer[o]>>
  BY <1>5 DEF WindowEnds
<1>6. CASE UNCHANGED vars
  BY <1>6 DEF vars
<1>7. QED
  BY <1>1, <1>2, <1>3, <1>4, <1>5, <1>6, Cases

(* A request that came begins with an empty history of its own.            *)
LEMMA ReceiveHistory ==
    ASSUME Typed, NEW r \in Request, Receive(r)
    PROVE  /\ pc'[r] = "authenticating" /\ answer'[r] = None
           /\ ever'[r] = Now(r)' /\ always'[r] = Now(r)'
<1>1. PICK q \in Asks :
          LET facts == FactsOf(q.account, token, subscribed, members, enabled, granted)
          IN /\ question' = [question EXCEPT ![r] = q]
             /\ ever' = [ever EXCEPT ![r] = facts]
             /\ always' = [always EXCEPT ![r] = facts]
  BY DEF Receive
<1>2. PICK f : f = FactsOf(q.account, token, subscribed, members, enabled, granted)
  OBVIOUS
<1>3. question'[r] = q /\ ever'[r] = f /\ always'[r] = f
  BY <1>1, <1>2 DEF Typed, TypeOK
<1>4. /\ UNCHANGED sub2api
      /\ pc'[r] = "authenticating" /\ answer'[r] = answer[r] /\ pc[r] = "idle"
  BY DEF Receive, Typed, TypeOK
<1>5. Now(r)' = f
  BY <1>2, <1>3, <1>4 DEF Now, sub2api
<1>6. answer[r] = None
  BY <1>4 DEF Typed, TypeOK
<1>7. QED
  BY <1>3, <1>4, <1>5, <1>6

LEMMA CurrentStep ==
    ASSUME Typed, NEW o \in Request, CurrentOf(o), [Next]_vars
    PROVE  CurrentOf(o)'
<1> SUFFICES ASSUME pc'[o] \notin {"idle", "answered"}
             PROVE  always'[o] \subseteq Now(o)' /\ Now(o)' \subseteq ever'[o]
  BY DEF CurrentOf, Served
<1>1. CASE Receive(o)
  BY <1>1, ReceiveHistory
<1>2. CASE Changes
  <2>1. o \in Served
    BY <1>2, ChangeHistory DEF Served
  <2>2. QED
    BY <1>2, <2>1, ChangeHistory
<1>3. CASE ~Receive(o) /\ ~Changes
  <2>1. UNCHANGED <<ever[o], always[o], question[o], sub2api>>
    BY <1>3, OtherHistory
  <2>2. Now(o)' = Now(o)
    BY <2>1 DEF Now, sub2api
  <2>3. o \in Served
    <3>1. CASE Move(o)
      BY <3>1, MovePlace
    <3>2. CASE Return(o)
      BY <3>2 DEF Return, Typed, TypeOK
    <3>3. CASE ~Move(o) /\ ~Return(o)
      BY <1>3, <3>3, OtherPlace DEF Served
    <3>4. QED
      BY <3>1, <3>2, <3>3
  <2>4. QED
    BY <2>1, <2>2, <2>3 DEF CurrentOf
<1>4. QED
  BY <1>1, <1>2, <1>3

-----------------------------------------------------------------------------
(* What a request has made sure of.                                        *)
LEMMA KnowsMove ==
    ASSUME Typed, NEW r \in Request, CurrentOf(r), KnowsOf(r), Move(r)
    PROVE  KnowsOf(r)'
<1>1. /\ UNCHANGED <<ever, always, question, allowReset>>
      /\ r \in Served /\ TypeOK /\ DOMAIN pc = Request /\ DOMAIN cursor = Request
  BY MovePlace DEF Serving, history, Typed, TypeOK
<1>2. /\ token => Token \in ever[r]
      /\ enabled => <<"enabled", None>> \in ever[r]
      /\ granted => <<"granted", None>> \in ever[r]
      /\ \A g \in subscribed : <<"subscribed", g>> \in ever[r]
      /\ \A g \in Group : question[r].account \in members[g] => <<"member", g>> \in ever[r]
  <2>1. Now(r) \subseteq ever[r]
    BY <1>1 DEF CurrentOf
  <2>2. subscribed \subseteq Group
    BY <1>1 DEF TypeOK
  <2>3. QED
    BY <1>1, <2>1, <2>2, NowIs
<1>3. ASSUME pc'[r] = "answered"
      PROVE  KnowsOf(r)'
  BY <1>3 DEF KnowsOf, Authenticated, Resetting
<1>4. ASSUME NEW x, Answer(r, x)
      PROVE  KnowsOf(r)'
  BY <1>1, <1>3, <1>4 DEF Answer
<1>5. ASSUME NEW g \in Group, NEW todo \in SUBSET Group,
             pc[r] \in Authenticated,
             \A h \in todo \cup {g} : <<"subscribed", h>> \in ever[r],
             pc'[r] = "listing",
             cursor'[r] = [todo |-> todo, group |-> g, page |-> 1, found |-> FALSE]
      PROVE  KnowsOf(r)'
  BY <1>1, <1>5 DEF KnowsOf, Authenticated, Resetting
<1>6. CASE Authenticate(r)
  <2>1. CASE token /\ Goto(r, "subscribing")
    BY <1>1, <1>2, <2>1 DEF Goto, KnowsOf, Authenticated, Resetting
  <2>2. QED
    BY <1>4, <1>6, <2>1 DEF Authenticate
<1>7. CASE LoadSubscribedGroups(r)
  <2>1. CASE ListNext(r, subscribed)
    <3>1. PICK todo : todo = subscribed
      OBVIOUS
    <3>2. todo \in SUBSET Group /\ ListNext(r, todo) /\ PlaceTyped /\ pc[r] = "subscribing"
      BY <1>1, <1>7, <2>1, <3>1, Places DEF TypeOK, LoadSubscribedGroups
    <3>3. \/ pc'[r] = "answered"
          \/ \E g \in todo :
                /\ pc'[r] = "listing"
                /\ cursor'[r] = [todo |-> todo \ {g}, group |-> g, page |-> 1, found |-> FALSE]
      BY <3>2, ListNextCases
    <3>4. ASSUME NEW g \in todo, pc'[r] = "listing",
                 cursor'[r] = [todo |-> todo \ {g}, group |-> g, page |-> 1, found |-> FALSE]
          PROVE  KnowsOf(r)'
      <4>1. PICK rest : rest = todo \ {g}
        OBVIOUS
      <4>2. /\ rest \in SUBSET Group /\ g \in Group
            /\ \A h \in rest \cup {g} : <<"subscribed", h>> \in ever[r]
            /\ cursor'[r] = [todo |-> rest, group |-> g, page |-> 1, found |-> FALSE]
            /\ pc[r] \in Authenticated
        BY <1>2, <3>1, <3>2, <3>4, <4>1 DEF Authenticated
      <4>3. QED
        BY <1>5, <3>4, <4>2
    <3>5. QED
      BY <1>3, <3>3, <3>4
  <2>2. QED
    BY <1>4, <1>7, <2>1 DEF LoadSubscribedGroups
<1>8. CASE ReadPage(r)
  <2>1. PICK c : c = cursor[r]
    OBVIOUS
  <2>2. /\ c \in Cursor /\ pc[r] = "listing"
        /\ Token \in ever[r]
        /\ \A g \in c.todo \cup {c.group} : <<"subscribed", g>> \in ever[r]
        /\ c.found => <<"member", c.group>> \in ever[r]
    <3>1. pc[r] = "listing"
      BY <1>8 DEF ReadPage
    <3>2. c \in Cursor
      BY <1>1, <2>1, <3>1 DEF TypeOK
    <3>3. QED
      BY <2>1, <3>1, <3>2 DEF KnowsOf, Authenticated
  <2>3. question[r].account \in Items(members[c.group], c.page) => <<"member", c.group>> \in ever[r]
    BY <1>2, <2>2 DEF Items, Cursor
  <2>4. CASE TurnsPage(r)
    <3>1. PICK found : found = (c.found \/ question[r].account \in Items(members[c.group], c.page))
      OBVIOUS
    <3>2. PICK d : d = NextPage(c, found)
      OBVIOUS
    <3>3. found \in BOOLEAN
      BY <3>1
    <3>4. d.todo = c.todo /\ d.group = c.group /\ d.found = found
      BY <2>2, <3>2, <3>3, NextPageTyped
    <3>5. pc'[r] = "listing" /\ cursor'[r] = d
      BY <2>1, <2>4, <3>1, <3>2 DEF TurnsPage
    <3>6. QED
      BY <1>1, <2>2, <2>3, <3>1, <3>4, <3>5 DEF KnowsOf, Authenticated, Resetting
  <2>5. CASE pc'[r] = "querying"
    BY <1>1, <2>2, <2>5 DEF KnowsOf, Authenticated, Resetting
  <2>6. CASE /\ c.found \/ question[r].account \in Items(members[c.group], c.page)
             /\ question[r].action = "reset" /\ question[r].method = "POST"
             /\ \/ allowReset /\ pc'[r] = "loading"
                \/ ~allowReset /\ pc'[r] = "defining"
    <3>1. c.group \in Group /\ Through(c.group, ever[r])
      BY <2>2, <2>3, <2>6 DEF Through, Cursor
    <3>2. QED
      BY <1>1, <2>2, <2>6, <3>1 DEF KnowsOf, Authenticated, Resetting
  <2>7. ASSUME NEW g \in c.todo, pc'[r] = "listing",
               cursor'[r] = [todo |-> c.todo \ {g}, group |-> g, page |-> 1, found |-> FALSE]
        PROVE  KnowsOf(r)'
    <3>1. PICK rest : rest = c.todo \ {g}
      OBVIOUS
    <3>2. /\ rest \in SUBSET Group /\ g \in Group
          /\ \A h \in rest \cup {g} : <<"subscribed", h>> \in ever[r]
          /\ cursor'[r] = [todo |-> rest, group |-> g, page |-> 1, found |-> FALSE]
          /\ pc[r] \in Authenticated
      BY <2>2, <2>7, <3>1 DEF Authenticated, Cursor
    <3>3. QED
      BY <1>5, <2>7, <3>2
  <2>8. PlaceTyped /\ Asked
    BY Places DEF Typed
  <2>9. QED
    BY <1>3, <1>8, <2>1, <2>4, <2>5, <2>6, <2>7, <2>8, ReadPageCases
<1>9. CASE LoadDefinitions(r)
  <2>1. CASE enabled /\ Goto(r, "valuing")
    BY <1>1, <1>2, <1>9, <2>1 DEF LoadDefinitions, Goto, KnowsOf, Authenticated, Resetting
  <2>2. QED
    BY <1>4, <1>9, <2>1 DEF LoadDefinitions
<1>10. CASE LoadValues(r)
  <2>1. CASE granted /\ Goto(r, "loading")
    BY <1>1, <1>2, <1>10, <2>1 DEF LoadValues, Goto, KnowsOf, Authenticated, Resetting, Right
  <2>2. QED
    BY <1>4, <1>10, <2>1 DEF LoadValues
<1>11. CASE LoadAccount(r)
  <2>1. CASE Goto(r, "waiting")
    BY <1>1, <1>11, <2>1 DEF LoadAccount, Goto, KnowsOf, Authenticated, Resetting
  <2>2. QED
    BY <1>4, <1>11, <2>1 DEF LoadAccount
<1>12. CASE Begin(r)
  <2>1. CASE Goto(r, "posting")
    BY <1>1, <1>12, <2>1 DEF Begin, Goto, KnowsOf, Authenticated, Resetting
  <2>2. QED
    BY <1>4, <1>12, <2>1 DEF Begin
<1>13. CASE Send(r) \/ SendNothing(r) \/ QueryQuota(r)
  BY <1>4, <1>13 DEF Send, SendNothing, QueryQuota
<1>14. QED
  BY <1>6, <1>7, <1>8, <1>9, <1>10, <1>11, <1>12, <1>13 DEF Move

LEMMA KnowsStep ==
    ASSUME Typed, NEW o \in Request, CurrentOf(o), KnowsOf(o), [Next]_vars
    PROVE  KnowsOf(o)'
<1>1. CASE Move(o)
  BY <1>1, KnowsMove
<1>2. CASE pc'[o] \in {"idle", "authenticating"}
  BY <1>2 DEF KnowsOf, Authenticated, Resetting
<1>3. CASE Receive(o) \/ Return(o)
  BY <1>2, <1>3, ReceiveHistory DEF Return, Typed, TypeOK
<1>4. CASE Changes
  <2>1. /\ ever[o] \subseteq ever'[o]
        /\ UNCHANGED <<allowReset, pc, question, cursor>>
    BY <1>4, ChangeHistory
  <2>2. \A g \in Group : Through(g, ever[o]) => Through(g, ever'[o])
    BY <2>1 DEF Through
  <2>3. QED
    BY <2>1, <2>2 DEF KnowsOf, Authenticated, Resetting
<1>5. CASE ~Changes /\ ~Move(o) /\ ~Receive(o) /\ ~Return(o) /\ pc'[o] # "idle"
  <2>1. UNCHANGED <<ever[o], question[o], allowReset>>
    BY <1>5, OtherHistory
  <2>2. UNCHANGED <<pc[o], cursor[o]>>
    BY <1>5, OtherPlace
  <2>3. QED
    BY <2>1, <2>2 DEF KnowsOf, Authenticated, Resetting, Through
<1>6. QED
  BY <1>1, <1>2, <1>3, <1>4, <1>5

KnowsAll == \A r \in Request : CurrentOf(r) /\ KnowsOf(r)

LEMMA KnowsInductive ==
    /\ Init => Typed /\ KnowsAll
    /\ Typed /\ KnowsAll /\ [Next]_vars => (Typed /\ KnowsAll)'
<1>1. Init => \A r \in Request : pc[r] = "idle"
  BY DEF Init
<1>2. Init => KnowsAll
  BY <1>1 DEF KnowsAll, CurrentOf, Served, KnowsOf, Authenticated, Resetting
<1>3. ASSUME Typed, KnowsAll, [Next]_vars
      PROVE  KnowsAll'
  <2>1. ASSUME NEW r \in Request
        PROVE  (CurrentOf(r) /\ KnowsOf(r))'
    BY <1>3, CurrentStep, KnowsStep DEF KnowsAll
  <2>2. QED
    BY <2>1 DEF KnowsAll
<1>4. QED
  BY <1>2, <1>3, TypedInit, TypedStep

(* A POST goes out only for a reset that was asked for, by a user whose    *)
(* token, membership and right were all checked since the request came.    *)
THEOREM Authorized == Spec => ResetsAuthorized
<1>1. ASSUME KnowsAll, NEW r \in Request, Send(r)
      PROVE  /\ question[r].action = "reset" /\ question[r].method = "POST"
             /\ Token \in ever[r]
             /\ \E g \in Group : Through(g, ever[r])
             /\ allowReset \/ Right \subseteq ever[r]
  BY <1>1 DEF Send, KnowsAll, KnowsOf, Authenticated, Resetting
<1>2. Typed /\ KnowsAll /\ [Next]_vars =>
        \A r \in Request : Send(r) =>
          /\ question[r].action = "reset" /\ question[r].method = "POST"
          /\ Token \in ever[r]
          /\ \E g \in Group : Through(g, ever[r])
          /\ allowReset \/ Right \subseteq ever[r]
  BY <1>1
<1>3. QED
  BY <1>2, KnowsInductive, PTL DEF Spec, ResetsAuthorized

-----------------------------------------------------------------------------
(* Lists that come in pages.                                               *)
Below == {p \in Nat \X Nat : p[1] < p[2]}

(* A set of natural numbers has a least one.                               *)
LEMMA Least ==
    ASSUME NEW S \in SUBSET Nat, S # {}
    PROVE  \E x \in S : \A y \in S : x <= y
<1>1. IsWellFoundedOn(Below, Nat)
  BY NatLessThanWellFounded, Zenon DEF OpToRel, Below
<1>2. PICK x \in S : \A y \in S : ~(<<y, x>> \in Below)
  BY <1>1, WFMin
<1>3. ASSUME NEW y \in S PROVE x <= y
  <2>1. ~(y < x)
    BY <1>2, Zenon DEF Below
  <2>2. QED
    BY <2>1
<1>4. QED
  BY <1>3

(* How many accounts come before one.                                      *)
LEMMA RankType ==
    ASSUME NEW S \in SUBSET Nat, IsFiniteSet(S), NEW a \in Nat
    PROVE  /\ Rank(S, a) \in Nat /\ Cardinality(S) \in Nat
           /\ a \in S => Rank(S, a) + 1 <= Cardinality(S)
<1>1. PICK T : T = {b \in S : b < a}
  OBVIOUS
<1>2. T \subseteq S /\ IsFiniteSet(T) /\ Cardinality(T) \in Nat /\ Cardinality(S) \in Nat
  BY <1>1, FS_Subset, FS_CardinalityType
<1>3. ASSUME a \in S
      PROVE  Cardinality(T) + 1 <= Cardinality(S)
  <2>1. a \notin T
    BY <1>1
  <2>2. T \subseteq S \ {a} /\ IsFiniteSet(S \ {a})
        /\ Cardinality(S \ {a}) = Cardinality(S) - 1
    BY <1>2, <1>3, <2>1, FS_RemoveElement
  <2>3. Cardinality(T) <= Cardinality(S \ {a})
    BY <2>2, FS_Subset
  <2>4. QED
    BY <1>2, <2>2, <2>3
<1>4. QED
  BY <1>1, <1>2, <1>3 DEF Rank

(* No rank up to that of an account is left out.                           *)
LEMMA RankExists ==
    ASSUME NEW S \in SUBSET Nat, IsFiniteSet(S), NEW a \in S, NEW n \in Nat, n <= Rank(S, a)
    PROVE  \E m \in S : Rank(S, m) = n
<1>1. PICK T : T = {b \in S : n <= Rank(S, b)}
  OBVIOUS
<1>2. T \in SUBSET Nat /\ T # {} /\ T \subseteq S
  BY <1>1
<1>3. PICK m \in T : \A y \in T : m <= y
  BY <1>2, Least
<1>4. m \in S /\ m \in Nat /\ n <= Rank(S, m)
  BY <1>1, <1>2, <1>3
<1>5. PICK B : B = {b \in S : b < m}
  OBVIOUS
<1>6. B \subseteq S /\ IsFiniteSet(B) /\ Rank(S, m) = Cardinality(B) /\ Cardinality(B) \in Nat
  BY <1>5, FS_Subset, FS_CardinalityType DEF Rank
<1>7. CASE B = {}
  <2>1. Cardinality(B) = 0
    BY <1>7, FS_EmptySet
  <2>2. QED
    BY <1>4, <1>6, <2>1
<1>8. CASE B # {}
  <2>1. PICK D : D = {m - b : b \in B}
    OBVIOUS
  <2>2. D \in SUBSET Nat /\ D # {}
    <3>1. \A b \in B : m - b \in Nat
      BY <1>4, <1>5
    <3>2. QED
      BY <1>8, <2>1, <3>1
  <2>3. PICK d \in D : \A y \in D : d <= y
    BY <2>2, Least
  <2>4. PICK p \in B : d = m - p
    BY <2>1
  <2>5. \A b \in B : b <= p
    <3>1. ASSUME NEW b \in B PROVE b <= p
      <4>1. m - b \in D /\ b \in Nat /\ p \in Nat
        BY <1>5, <2>1
      <4>2. m - p <= m - b
        BY <2>3, <2>4, <4>1
      <4>3. QED
        BY <1>4, <4>1, <4>2
    <3>2. QED
      BY <3>1
  <2>6. p \in S /\ p \in Nat /\ p < m
    BY <1>5, <2>4
  <2>7. {b \in S : b < p} = B \ {p}
    <3>1. ASSUME NEW b \in S
          PROVE  b < p <=> b \in B /\ b # p
      BY <1>4, <1>5, <2>5, <2>6
    <3>2. QED
      BY <1>6, <3>1
  <2>8. Rank(S, p) = Cardinality(B) - 1
    BY <1>6, <2>4, <2>7, FS_RemoveElement DEF Rank
  <2>9. ~(n <= Rank(S, p))
    BY <1>1, <1>3, <1>4, <2>6
  <2>10. QED
    BY <1>4, <1>6, <2>8, <2>9
<1>9. QED
  BY <1>7, <1>8

LEMMA DivIs ==
    ASSUME NEW n \in Nat, NEW d \in Nat \ {0}, NEW q \in Nat
    PROVE  (n \div d = q) <=> (d * q <= n /\ n < d * q + d)
<1>1. n \div d \in Nat /\ d * (n \div d) <= n /\ n < d * (n \div d) + d
  OBVIOUS
<1>2. PICK k \in Nat : k = n \div d
  BY <1>1
<1>3. d * k <= n /\ n < d * k + d
  BY <1>1, <1>2
<1>4. ASSUME d * q <= n, n < d * q + d
      PROVE  k = q
  <2>1. CASE k < q
    <3>1. d * k + d <= d * q
      BY <2>1
    <3>2. QED
      BY <1>3, <1>4, <3>1
  <2>2. CASE q < k
    <3>1. d * q + d <= d * k
      BY <2>2
    <3>2. QED
      BY <1>3, <1>4, <3>1
  <2>3. QED
    BY <2>1, <2>2
<1>5. QED
  BY <1>2, <1>3, <1>4

(* The accounts on a page.                                                 *)
LEMMA ItemsIs ==
    ASSUME NEW S \in SUBSET Account, NEW a \in S, NEW page \in Nat \ {0}
    PROVE  a \in Items(S, page) <=>
              /\ PageSize * (page - 1) <= Rank(S, a)
              /\ Rank(S, a) < PageSize * (page - 1) + PageSize
<1>1. S \in SUBSET Nat /\ IsFiniteSet(S) /\ a \in Nat /\ PageSize \in Nat \ {0}
  BY AccountRequestAssumption, FS_Subset
<1>2. PICK n \in Nat : n = Rank(S, a)
  BY <1>1, RankType
<1>3. PICK q \in Nat : q = page - 1
  OBVIOUS
<1>4. a \in Items(S, page) <=> n \div PageSize = q
  BY <1>2, <1>3 DEF Items, Rank
<1>5. QED
  BY <1>1, <1>2, <1>3, <1>4, DivIs

(* The last page that is read shows every account that was still ahead.    *)
LEMMA EndOfList ==
    ASSUME NEW S \in SUBSET Account, NEW a \in S, NEW page \in Nat \ {0},
           PageSize * (page - 1) <= Rank(S, a), Last(S, page)
    PROVE  a \in Items(S, page)
<1> SUFFICES ASSUME a \notin Items(S, page) PROVE FALSE
  OBVIOUS
<1>1. S \in SUBSET Nat /\ IsFiniteSet(S) /\ a \in Nat /\ PageSize \in Nat \ {0}
  BY AccountRequestAssumption, FS_Subset
<1>2. /\ Rank(S, a) \in Nat /\ Cardinality(S) \in Nat
      /\ Rank(S, a) + 1 <= Cardinality(S)
  BY <1>1, RankType
<1>3. PICK n \in Nat : n = PageSize * (page - 1)
  BY <1>1
<1>4. n <= Rank(S, a) /\ n + PageSize <= Rank(S, a)
  BY <1>1, <1>2, <1>3, ItemsIs
<1>5. PageSize * page = n + PageSize
  BY <1>1, <1>3
<1>6. CASE Pages(S) <= page
  <2>1. PICK c \in Nat : c = Cardinality(S) + PageSize - 1
    BY <1>1, <1>2
  <2>2. PICK k \in Nat : k = c \div PageSize
    BY <1>1
  <2>3. k <= page /\ c < PageSize * k + PageSize
    BY <1>1, <1>6, <2>1, <2>2, DivIs DEF Pages
  <2>4. PageSize * k <= PageSize * page
    BY <1>1, <2>3
  <2>5. PageSize * k \in Nat
    BY <1>1
  <2>6. QED
    BY <1>1, <1>2, <1>4, <1>5, <2>1, <2>3, <2>4, <2>5
<1>7. CASE Items(S, page) = {}
  <2>1. PICK m \in S : Rank(S, m) = n
    BY <1>1, <1>4, RankExists
  <2>2. m \in Items(S, page)
    BY <1>1, <1>3, <2>1, ItemsIs
  <2>3. QED
    BY <1>7, <2>2
<1>8. QED
  BY <1>6, <1>7 DEF Last

-----------------------------------------------------------------------------
(* Nobody is turned away for want of a group that was there all the while. *)
LEMMA ReadEnd ==
    ASSUME Typed, NEW r \in Request, CurrentOf(r), NotMissedOf(r), pc[r] = "listing",
           Last(members[cursor[r].group], cursor[r].page), ~cursor[r].found,
           question[r].account \notin Items(members[cursor[r].group], cursor[r].page),
           NEW g \in Group, Through(g, always[r]), g \notin shifted[r]
    PROVE  g \in cursor[r].todo
<1> SUFFICES ASSUME g \notin cursor[r].todo PROVE FALSE
  OBVIOUS
<1>1. PICK c : c = cursor[r]
  OBVIOUS
<1>2. c \in Cursor /\ r \in Served
  BY <1>1 DEF Typed, TypeOK, Served
<1>3. /\ g = c.group
      /\ PageSize * (c.page - 1) <= Rank(members[g], question[r].account)
  BY <1>1 DEF NotMissedOf
<1>4. PICK S : S = members[g]
  OBVIOUS
<1>5. S \in SUBSET Account /\ question[r].account \in S
  BY <1>2, <1>4, ThroughNow DEF Typed, TypeOK
<1>6. c.page \in Nat \ {0}
  BY <1>2 DEF Cursor
<1>7. question[r].account \in Items(S, c.page)
  BY <1>1, <1>3, <1>4, <1>5, <1>6, EndOfList
<1>8. QED
  BY <1>1, <1>3, <1>4, <1>7

LEMMA ReadOn ==
    ASSUME Typed, NEW r \in Request, CurrentOf(r), NotMissedOf(r), pc[r] = "listing",
           NEW g \in Group, Through(g, always[r]), g \notin shifted[r],
           g = cursor[r].group, ~cursor[r].found, g \notin cursor[r].todo,
           question[r].account \notin Items(members[g], cursor[r].page)
    PROVE  PageSize * cursor[r].page <= Rank(members[g], question[r].account)
<1>1. PICK c : c = cursor[r]
  OBVIOUS
<1>2. c \in Cursor /\ r \in Served
  BY <1>1 DEF Typed, TypeOK, Served
<1>3. PageSize * (c.page - 1) <= Rank(members[g], question[r].account)
  BY <1>1 DEF NotMissedOf
<1>4. PICK S : S = members[g]
  OBVIOUS
<1>5. S \in SUBSET Account /\ question[r].account \in S
  BY <1>2, <1>4, ThroughNow DEF Typed, TypeOK
<1>6. PICK page \in Nat \ {0} : page = c.page
  BY <1>2 DEF Cursor
<1>7. PICK a : a = question[r].account
  OBVIOUS
<1>8. /\ S \in SUBSET Nat /\ IsFiniteSet(S) /\ a \in Nat /\ PageSize \in Nat
  BY <1>5, <1>7, AccountRequestAssumption, FS_Subset
<1>9. ~(Rank(S, a) < PageSize * (page - 1) + PageSize)
  BY <1>1, <1>3, <1>4, <1>5, <1>6, <1>7, ItemsIs
<1>10. Rank(S, a) \in Nat
  BY <1>8, RankType
<1>11. PICK n \in Nat : n = PageSize * (page - 1)
  BY <1>8
<1>12. PageSize * page = n + PageSize
  BY <1>8, <1>11
<1>13. PageSize * page <= Rank(S, a)
  BY <1>8, <1>9, <1>10, <1>11, <1>12
<1>14. QED
  BY <1>1, <1>4, <1>6, <1>7, <1>13

\* Nothing of the group is read yet.
LEMMA FirstPage ==
    ASSUME Typed, NEW r \in Request, r \in Served, NEW g \in Group
    PROVE  PageSize * (1 - 1) <= Rank(members[g], question[r].account)
<1>1. PICK S : S = members[g]
  OBVIOUS
<1>2. PICK a : a = question[r].account
  OBVIOUS
<1>3. S \in SUBSET Account /\ a \in Account
  BY <1>1, <1>2, AccountRequestAssumption DEF Typed, TypeOK, Asked, Served
<1>4. S \in SUBSET Nat /\ IsFiniteSet(S) /\ a \in Nat /\ PageSize \in Nat
  BY <1>3, AccountRequestAssumption, FS_Subset
<1>5. Rank(S, a) \in Nat
  BY <1>4, RankType
<1>6. QED
  BY <1>1, <1>2, <1>4, <1>5

LEMMA NotMissedMove ==
    ASSUME Typed, NEW r \in Request, CurrentOf(r), NotMissedOf(r), Move(r)
    PROVE  /\ NotMissedOf(r)'
           /\ answer'[r] = "forbidden" =>
                 \A g \in Group : Through(g, always[r]) => g \in shifted[r]
<1>1. /\ UNCHANGED <<always, question, shifted, members>>
      /\ r \in Served /\ TypeOK /\ PlaceTyped /\ Asked
      /\ DOMAIN pc = Request /\ DOMAIN cursor = Request /\ DOMAIN answer = Request
  BY MovePlace, Places DEF Serving, history, sub2api, Typed, TypeOK
<1>2. \A g : Through(g, always[r])' <=> Through(g, always[r])
  BY <1>1 DEF Through
<1>3. ASSUME pc'[r] # "listing"
      PROVE  NotMissedOf(r)'
  BY <1>3 DEF NotMissedOf
<1>4. ASSUME NEW todo, NEW h \in Group,
             \A g \in Group : Through(g, always[r]) /\ g \notin shifted[r] => g \in todo \cup {h},
             pc'[r] = "listing",
             cursor'[r] = [todo |-> todo, group |-> h, page |-> 1, found |-> FALSE]
      PROVE  NotMissedOf(r)'
  <2>1. PageSize * (1 - 1) <= Rank(members[h], question[r].account)
    BY <1>1, FirstPage
  <2>2. /\ cursor'[r].todo = todo /\ cursor'[r].group = h /\ cursor'[r].page = 1
    BY <1>4
  <2>3. QED
    BY <1>1, <1>2, <1>4, <2>1, <2>2 DEF NotMissedOf, Rank
<1>5. \A x : x # "forbidden" /\ Answer(r, x) => answer'[r] # "forbidden" /\ pc'[r] # "listing"
  BY <1>1 DEF Answer
<1>6. \A l : pc[r] # "answered" /\ l # "listing" /\ Goto(r, l) =>
          answer'[r] # "forbidden" /\ pc'[r] # "listing"
  <2>1. pc[r] # "answered" => answer[r] = None
    BY <1>1 DEF PlaceTyped
  <2>2. None # "forbidden"
    BY AccountRequestAssumption DEF Answers
  <2>3. QED
    BY <1>1, <2>1, <2>2 DEF Goto
<1>7. CASE LoadSubscribedGroups(r)
  <2>1. CASE ListNext(r, subscribed)
    <3>1. PICK todo : todo = subscribed
      OBVIOUS
    <3>2. todo \in SUBSET Group /\ ListNext(r, todo) /\ pc[r] = "subscribing"
      BY <1>1, <1>7, <2>1, <3>1 DEF TypeOK, LoadSubscribedGroups
    <3>3. \A g \in Group : Through(g, always[r]) => g \in todo
      BY <1>1, <3>1, ThroughNow
    <3>4. \/ pc'[r] = "answered" /\ todo = {}
          \/ \E g \in todo :
                /\ pc'[r] = "listing"
                /\ cursor'[r] = [todo |-> todo \ {g}, group |-> g, page |-> 1, found |-> FALSE]
      BY <1>1, <3>2, ListNextCases
    <3>5. CASE pc'[r] = "answered" /\ todo = {}
      BY <1>3, <3>3, <3>5
    <3>6. ASSUME NEW g \in todo, pc'[r] = "listing",
                 cursor'[r] = [todo |-> todo \ {g}, group |-> g, page |-> 1, found |-> FALSE]
          PROVE  NotMissedOf(r)' /\ answer'[r] # "forbidden"
      <4>1. PICK rest : rest = todo \ {g}
        OBVIOUS
      <4>2. \A h \in Group : Through(h, always[r]) /\ h \notin shifted[r] => h \in rest \cup {g}
        BY <3>3, <4>1
      <4>3. NotMissedOf(r)'
        BY <1>4, <3>2, <3>6, <4>1, <4>2
      <4>4. PlaceTyped' /\ None # "forbidden"
        BY MovePlace, AccountRequestAssumption DEF Answers
      <4>5. answer'[r] = None
        BY <3>6, <4>4 DEF PlaceTyped
      <4>6. QED
        BY <4>3, <4>4, <4>5
    <3>7. QED
      BY <3>4, <3>5, <3>6
  <2>2. QED
    BY <1>3, <1>5, <1>7, <2>1 DEF LoadSubscribedGroups
<1>8. CASE ReadPage(r)
  <2>1. PICK c : c = cursor[r]
    OBVIOUS
  <2>2. c \in Cursor /\ pc[r] = "listing"
    BY <1>1, <1>8, <2>1 DEF TypeOK, ReadPage
  <2>3. None # "forbidden" /\ (pc'[r] # "answered" => answer'[r] = None)
    BY MovePlace, AccountRequestAssumption DEF Answers, PlaceTyped
  <2>4. CASE TurnsPage(r)
    <3>1. PICK found : found = (c.found \/ question[r].account \in Items(members[c.group], c.page))
      OBVIOUS
    <3>2. PICK d : d = NextPage(c, found)
      OBVIOUS
    <3>3. found \in BOOLEAN
      BY <3>1
    <3>4. d.todo = c.todo /\ d.group = c.group /\ d.found = found /\ d.page = c.page + 1
      BY <2>2, <3>2, <3>3, NextPageTyped
    <3>5. pc'[r] = "listing" /\ cursor'[r] = d
      BY <2>1, <2>4, <3>1, <3>2 DEF TurnsPage
    <3>6. ASSUME NEW g \in Group, Through(g, always[r]), g \notin shifted[r], g \notin d.todo
          PROVE  /\ g = d.group
                 /\ d.found \/ PageSize * (d.page - 1) <= Rank(members[g], question[r].account)
      <4>1. g = c.group
        BY <2>1, <2>2, <3>4, <3>6 DEF NotMissedOf
      <4>2. d.page - 1 = c.page
        BY <2>2, <3>4 DEF Cursor
      <4>3. CASE ~found
        <5>1. PageSize * c.page <= Rank(members[g], question[r].account)
          BY <2>1, <2>2, <3>1, <3>4, <3>6, <4>1, <4>3, ReadOn
        <5>2. QED
          BY <3>4, <4>1, <4>2, <5>1
      <4>4. QED
        BY <3>4, <4>1, <4>3
    <3>7. \A g \in Group : Through(g, always[r]) /\ g \notin shifted[r] =>
             \/ g \in d.todo
             \/ /\ g = d.group
                /\ d.found \/ PageSize * (d.page - 1) <= Rank(members[g], question[r].account)
      BY <3>6
    <3>8. NotMissedOf(r)'
      BY <1>1, <1>2, <3>5, <3>7 DEF NotMissedOf, Rank
    <3>9. QED
      BY <2>3, <3>5, <3>8
  <2>5. CASE /\ Last(members[c.group], c.page)
             /\ ~c.found
             /\ question[r].account \notin Items(members[c.group], c.page)
             /\ \/ pc'[r] = "answered" /\ answer'[r] = "forbidden" /\ c.todo = {}
                \/ \E g \in c.todo :
                      /\ pc'[r] = "listing"
                      /\ cursor'[r] = [todo |-> c.todo \ {g}, group |-> g, page |-> 1,
                                       found |-> FALSE]
    <3>1. \A g \in Group : Through(g, always[r]) /\ g \notin shifted[r] => g \in c.todo
      BY <2>1, <2>2, <2>5, ReadEnd
    <3>2. CASE pc'[r] = "answered" /\ c.todo = {}
      BY <1>3, <3>1, <3>2
    <3>3. ASSUME NEW g \in c.todo, pc'[r] = "listing",
                 cursor'[r] = [todo |-> c.todo \ {g}, group |-> g, page |-> 1, found |-> FALSE]
          PROVE  NotMissedOf(r)' /\ answer'[r] # "forbidden"
      <4>1. PICK rest : rest = c.todo \ {g}
        OBVIOUS
      <4>2. /\ \A h \in Group : Through(h, always[r]) /\ h \notin shifted[r] => h \in rest \cup {g}
            /\ g \in Group
        BY <2>2, <3>1, <4>1 DEF Cursor
      <4>3. NotMissedOf(r)'
        BY <1>4, <3>3, <4>1, <4>2
      <4>4. QED
        BY <2>3, <3>3, <4>3
    <3>4. QED
      BY <2>5, <3>2, <3>3
  <2>6. CASE pc'[r] = "answered" /\ answer'[r] \in {"failed", "badMethod"}
    BY <1>3, <2>6
  <2>7. CASE pc'[r] \in {"querying", "loading", "defining"}
    BY <1>3, <2>3, <2>7
  <2>8. \/ TurnsPage(r)
        \/ pc'[r] = "answered" /\ answer'[r] \in {"failed", "badMethod"}
        \/ pc'[r] \in {"querying", "loading", "defining"}
        \/ /\ Last(members[c.group], c.page)
           /\ ~c.found
           /\ question[r].account \notin Items(members[c.group], c.page)
           /\ \/ pc'[r] = "answered" /\ answer'[r] = "forbidden" /\ c.todo = {}
              \/ \E g \in c.todo :
                    /\ pc'[r] = "listing"
                    /\ cursor'[r] = [todo |-> c.todo \ {g}, group |-> g, page |-> 1,
                                     found |-> FALSE]
    BY <1>1, <1>8, <2>1, ReadPageCases
  <2>9. QED
    BY <2>4, <2>5, <2>6, <2>7, <2>8
<1>9. CASE Authenticate(r) \/ LoadDefinitions(r) \/ LoadValues(r) \/ LoadAccount(r) \/ Begin(r)
           \/ Send(r) \/ SendNothing(r) \/ QueryQuota(r)
  <2>1. answer'[r] # "forbidden" /\ pc'[r] # "listing"
    BY <1>1, <1>5, <1>6, <1>9 DEF Authenticate, LoadDefinitions, LoadValues, LoadAccount, Begin,
                                   Send, SendNothing, QueryQuota
  <2>2. QED
    BY <1>3, <2>1
<1>10. QED
  BY <1>7, <1>8, <1>9 DEF Move

(* Who is before an account does not fall when others join.                *)
LEMMA RankGrows ==
    ASSUME NEW S \in SUBSET Account, NEW T \in SUBSET Account, NEW a,
           \A b \in S : b < a => b \in T
    PROVE  /\ Rank(S, a) \in Nat /\ Rank(T, a) \in Nat
           /\ Rank(S, a) <= Rank(T, a)
<1>1. PICK A : A = {b \in S : b < a}
  OBVIOUS
<1>2. PICK B : B = {b \in T : b < a}
  OBVIOUS
<1>3. A \subseteq B /\ B \subseteq Account
  BY <1>1, <1>2
<1>4. IsFiniteSet(B) /\ IsFiniteSet(A)
  BY <1>3, AccountRequestAssumption, FS_Subset
<1>5. Cardinality(A) <= Cardinality(B) /\ Cardinality(A) \in Nat /\ Cardinality(B) \in Nat
  BY <1>3, <1>4, FS_Subset, FS_CardinalityType
<1>6. QED
  BY <1>1, <1>2, <1>5 DEF Rank

LEMMA NotMissedChange ==
    ASSUME Typed, Changes, NEW o \in Request, NotMissedOf(o)
    PROVE  NotMissedOf(o)'
<1>1. /\ always'[o] \subseteq always[o]
      /\ o \in Served => always'[o] \subseteq Now(o)'
      /\ UNCHANGED <<pc, question, cursor>>
      /\ shifted[o] \subseteq shifted'[o]
  BY ChangeHistory
<1> SUFFICES ASSUME pc[o] = "listing", NEW g \in Group, Through(g, always'[o]),
                    g \notin shifted'[o]
             PROVE  \/ g \in cursor[o].todo
                    \/ /\ g = cursor[o].group
                       /\ \/ cursor[o].found
                          \/ PageSize * (cursor[o].page - 1)
                                <= Rank(members'[g], question[o].account)
  BY <1>1 DEF NotMissedOf, Rank
<1>2. o \in Served /\ Through(g, always[o]) /\ g \notin shifted[o]
  BY <1>1 DEF Served, Through
<1>3. PICK c \in Cursor : c = cursor[o]
  BY DEF Typed, TypeOK
<1>4. \/ g \in c.todo
      \/ g = c.group /\ c.found
      \/ g = c.group /\ PageSize * (c.page - 1) <= Rank(members[g], question[o].account)
  BY <1>2, <1>3 DEF NotMissedOf
<1>5. PICK a \in Account : a = question[o].account
  BY <1>2, AccountRequestAssumption DEF Typed, Asked, Served
<1>6. PICK S \in SUBSET Account : S = members[g]
  BY DEF Typed, TypeOK
<1>7. PICK T \in SUBSET Account : T = members'[g]
  BY ChangeTyped DEF Typed
<1>8. a \in T
  <2>1. <<"member", g>> \in Now(o)'
    BY <1>1, <1>2 DEF Through
  <2>2. <<"member", g>> \in FactsOf(a, token', subscribed', members', enabled', granted')
    BY <1>1, <1>5, <2>1 DEF Now
  <2>3. QED
    BY <1>7, <2>2 DEF FactsOf, Token
<1>9. CASE g = c.group /\ PageSize * (c.page - 1) <= Rank(S, a)
  <2>1. CASE \A b \in S : b < a => b \in T
    <3>1. Rank(S, a) \in Nat /\ Rank(T, a) \in Nat /\ Rank(S, a) <= Rank(T, a)
      BY <2>1, RankGrows
    <3>2. c.page - 1 \in Nat /\ PageSize \in Nat
      BY AccountRequestAssumption DEF Cursor
    <3>3. PICK n : n = PageSize * (c.page - 1)
      OBVIOUS
    <3>4. n \in Nat
      BY <3>2, <3>3
    <3>5. n <= Rank(T, a)
      BY <1>9, <3>1, <3>3, <3>4
    <3>6. QED
      BY <1>3, <1>5, <1>7, <1>9, <3>3, <3>5
  <2>2. ASSUME NEW x \in Account, LeaveGroup(g, x), x < a
        PROVE  g \in cursor[o].todo
               \/ /\ g = cursor[o].group
                  /\ \/ cursor[o].found
                     \/ PageSize * (cursor[o].page - 1) <= Rank(members'[g], question[o].account)
    <3>1. c # None
      BY AccountRequestAssumption
    <3>2. ~(c.page > 1)
      BY <1>3, <1>5, <1>9, <2>2, <3>1 DEF LeaveGroup
    <3>3. c.page - 1 = 0 /\ PageSize \in Nat
      BY <3>2, AccountRequestAssumption DEF Cursor
    <3>4. PICK n : n = PageSize * (c.page - 1)
      OBVIOUS
    <3>5. n = 0
      BY <3>3, <3>4
    <3>6. Rank(T, a) \in Nat
      BY RankGrows
    <3>7. n <= Rank(T, a)
      BY <3>5, <3>6
    <3>8. QED
      BY <1>3, <1>5, <1>7, <1>9, <3>4, <3>7
  <2>3. CASE ToggleToken \/ ToggleAttribute \/ ToggleGrant \/ \E h \in Group : ToggleSubscription(h)
    BY <1>6, <1>7, <2>1, <2>3 DEF ToggleToken, ToggleAttribute, ToggleGrant, ToggleSubscription
  <2>4. ASSUME NEW h \in Group, NEW x \in Account, JoinGroup(h, x)
        PROVE  \A b \in S : b \in T
    BY <1>6, <1>7, <2>4 DEF JoinGroup, Typed, TypeOK
  <2>5. ASSUME NEW h \in Group, NEW x \in Account, LeaveGroup(h, x), ~(h = g /\ x < a)
        PROVE  \A b \in S : b < a => b \in T
    BY <1>6, <1>7, <2>5 DEF LeaveGroup, Typed, TypeOK
  <2>6. QED
    BY <2>1, <2>2, <2>3, <2>4, <2>5 DEF Changes
<1>10. QED
  BY <1>3, <1>4, <1>5, <1>6, <1>9

LEMMA NotMissedStep ==
    ASSUME Typed, NEW o \in Request, CurrentOf(o), NotMissedOf(o), [Next]_vars
    PROVE  NotMissedOf(o)'
<1>1. CASE Move(o)
  BY <1>1, NotMissedMove
<1>2. CASE pc'[o] # "listing"
  BY <1>2 DEF NotMissedOf
<1>3. CASE Receive(o) \/ Return(o)
  BY <1>2, <1>3, ReceiveHistory DEF Return, Typed, TypeOK
<1>4. CASE Changes
  BY <1>4, NotMissedChange
<1>5. CASE ~Changes /\ ~Move(o) /\ ~Receive(o) /\ ~Return(o) /\ pc'[o] = "listing"
  <2>1. UNCHANGED <<always[o], question[o], shifted[o], members>>
    BY <1>5, OtherHistory DEF sub2api
  <2>2. UNCHANGED <<pc[o], cursor[o]>>
    BY <1>5, OtherPlace
  <2>3. QED
    BY <2>1, <2>2 DEF NotMissedOf, Through, Rank
<1>6. QED
  BY <1>1, <1>2, <1>3, <1>4, <1>5

\* The part of RefusalsJustified about one request.
RefusedOf(r) ==
    /\ answer[r] = "unauthorized" => Token \notin always[r]
    /\ answer[r] = "forbidden" =>
          \A g \in Group : Through(g, always[r]) => g \in shifted[r]
    /\ answer[r] = "noRight" => ~allowReset /\ ~(Right \subseteq always[r])

LEMMA RefusedMove ==
    ASSUME Typed, NEW r \in Request, CurrentOf(r), KnowsOf(r), NotMissedOf(r), Move(r)
    PROVE  RefusedOf(r)'
<1>1. /\ UNCHANGED <<always, question, shifted, allowReset>>
      /\ r \in Served /\ TypeOK /\ PlaceTyped
      /\ DOMAIN pc = Request /\ DOMAIN cursor = Request /\ DOMAIN answer = Request
  BY MovePlace, Places DEF Serving, history, sub2api, Typed, TypeOK
<1>2. answer'[r] = "forbidden" => \A g \in Group : Through(g, always[r]) => g \in shifted[r]
  BY NotMissedMove
<1>3. /\ Token \in always[r] => token
      /\ Right \subseteq always[r] => enabled /\ granted
  BY <1>1, NowIs DEF CurrentOf, Right
<1>4. answer[r] = None /\ None \notin {"unauthorized", "noRight"}
  BY <1>1, AccountRequestAssumption DEF PlaceTyped, Served, Answers
<1>5. \A x : Answer(r, x) => answer'[r] = x
  BY <1>1 DEF Answer
<1>6. \A l : Goto(r, l) => answer'[r] = None
  BY <1>1, <1>4 DEF Goto
<1>7. answer'[r] = "unauthorized" => ~token
  <2>1. CASE Authenticate(r)
    BY <1>4, <1>5, <1>6, <2>1 DEF Authenticate
  <2>2. CASE LoadSubscribedGroups(r)
    BY <1>1, <1>4, <1>5, <2>2 DEF LoadSubscribedGroups, ListNext
  <2>3. CASE ReadPage(r)
    BY <1>1, <1>4, <1>5, <1>6, <2>3 DEF ReadPage, ListNext, Permitted
  <2>4. CASE LoadDefinitions(r) \/ LoadValues(r) \/ LoadAccount(r) \/ Begin(r)
             \/ Send(r) \/ SendNothing(r) \/ QueryQuota(r)
    BY <1>4, <1>5, <1>6, <2>4 DEF LoadDefinitions, LoadValues, LoadAccount, Begin, Send,
                                  SendNothing, QueryQuota
  <2>5. QED
    BY <2>1, <2>2, <2>3, <2>4 DEF Move
<1>8. answer'[r] = "noRight" => ~allowReset /\ ~(enabled /\ granted)
  <2>1. CASE Authenticate(r)
    BY <1>4, <1>5, <1>6, <2>1 DEF Authenticate
  <2>2. CASE LoadSubscribedGroups(r)
    BY <1>1, <1>4, <1>5, <2>2 DEF LoadSubscribedGroups, ListNext
  <2>3. CASE ReadPage(r)
    BY <1>1, <1>4, <1>5, <1>6, <2>3 DEF ReadPage, ListNext, Permitted
  <2>4. CASE LoadDefinitions(r) \/ LoadValues(r)
    BY <1>4, <1>5, <1>6, <2>4 DEF LoadDefinitions, LoadValues, KnowsOf
  <2>5. CASE LoadAccount(r) \/ Begin(r) \/ Send(r) \/ SendNothing(r) \/ QueryQuota(r)
    BY <1>4, <1>5, <1>6, <2>5 DEF LoadAccount, Begin, Send, SendNothing, QueryQuota
  <2>6. QED
    BY <2>1, <2>2, <2>3, <2>4, <2>5 DEF Move
<1>9. QED
  BY <1>1, <1>2, <1>3, <1>7, <1>8 DEF RefusedOf, Through

LEMMA RefusedStep ==
    ASSUME Typed, NEW o \in Request, CurrentOf(o), KnowsOf(o), NotMissedOf(o), RefusedOf(o),
           [Next]_vars
    PROVE  RefusedOf(o)'
<1>1. None \notin {"unauthorized", "forbidden", "noRight"}
  BY AccountRequestAssumption DEF Answers
<1>2. CASE answer'[o] = None
  BY <1>1, <1>2 DEF RefusedOf
<1>3. CASE Move(o)
  BY <1>3, RefusedMove
<1>4. CASE Receive(o) \/ Return(o)
  BY <1>2, <1>4, ReceiveHistory DEF Return, Typed, TypeOK
<1>5. CASE Changes
  <2>1. /\ always'[o] \subseteq always[o]
        /\ UNCHANGED <<allowReset, answer>>
        /\ shifted[o] \subseteq shifted'[o]
    BY <1>5, ChangeHistory
  <2>2. QED
    BY <2>1 DEF RefusedOf, Through
<1>6. CASE ~Changes /\ ~Move(o) /\ ~Receive(o) /\ ~Return(o) /\ answer'[o] # None
  <2>1. UNCHANGED <<pc[o], answer[o]>>
    BY <1>6, OtherPlace
  <2>2. pc'[o] # "idle"
    BY <1>6, <2>1 DEF Typed, TypeOK
  <2>3. UNCHANGED <<always[o], shifted[o], allowReset>>
    BY <1>6, <2>2, OtherHistory
  <2>4. QED
    BY <2>1, <2>3 DEF RefusedOf, Through
<1>7. QED
  BY <1>2, <1>3, <1>4, <1>5, <1>6

LEMMA IInvInductive ==
    /\ Init => IInv
    /\ IInv /\ [Next]_vars => IInv'
<1>1. RefusalsJustified <=> \A r \in Request : RefusedOf(r)
  BY DEF RefusalsJustified, RefusedOf
<1>2. RefusalsJustified' <=> \A r \in Request : RefusedOf(r)'
  BY DEF RefusalsJustified, RefusedOf
<1>3. None \notin {"unauthorized", "forbidden", "noRight"}
  BY AccountRequestAssumption DEF Answers
<1>4. Init => \A r \in Request : NotMissedOf(r) /\ RefusedOf(r)
  BY <1>3 DEF Init, NotMissedOf, RefusedOf
<1>5. Init => IInv
  BY <1>1, <1>4, KnowsInductive DEF IInv, KnowsAll
<1>6. ASSUME IInv, [Next]_vars
      PROVE  IInv'
  <2>1. (Typed /\ KnowsAll)'
    BY <1>6, KnowsInductive DEF IInv, KnowsAll
  <2>2. ASSUME NEW r \in Request
        PROVE  NotMissedOf(r)' /\ RefusedOf(r)'
    BY <1>1, <1>6, NotMissedStep, RefusedStep DEF IInv
  <2>3. QED
    BY <1>2, <2>1, <2>2 DEF IInv, KnowsAll
<1>7. QED
  BY <1>5, <1>6

(* The inductive invariant.                                                *)
THEOREM Inductive == Spec => []IInv
BY IInvInductive, PTL DEF Spec

(* Nobody is turned away who had all that was needed all the while; the    *)
(* one exception is a list that lost an account before the wanted one      *)
(* while it was read.                                                      *)
THEOREM Refusals == Spec => []RefusalsJustified
<1>1. IInv => RefusalsJustified
  BY DEF IInv
<1>2. QED
  BY <1>1, Inductive, PTL

=============================================================================
