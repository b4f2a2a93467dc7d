--------------------------- MODULE AccountRequest ---------------------------
(***************************************************************************)
(* handleAccountAPI of server.go and what it calls in sub2api.go: who      *)
(* sends the request, which groups the user subscribes to, whether the     *)
(* account is in one of them, whether the user may reset, and then the     *)
(* quota query or the reset behind the guard of reset_guard.go.            *)
(*                                                                         *)
(* Every fact is one answer of Sub2API, read at a moment of its own, while *)
(* administrators go on changing things. Lists of accounts come in pages   *)
(* by offset, so a list that changes shifts under its reader. The user is  *)
(* one and the same; requests are several tabs of that user.               *)
(***************************************************************************)
EXTENDS Naturals, FiniteSets

CONSTANTS
    Request,    \* handlers
    Asks,       \* what may be asked: [action, method, account]
    Group,      \* subscription groups
    Account,    \* account IDs, numbers
    IdentityOf, \* the OpenAI identity of each account
    FirstMembers,   \* the accounts of each group at first
    PageSize,   \* accountsPageSize
    None,       \* nobody, nothing
    MaxUpsets   \* bound on changes at Sub2API, failed requests of clients
                \* that wait, and clients that go away

Location == {"idle", "authenticating", "subscribing", "listing", "defining", "valuing",
             "loading", "waiting", "posting", "querying", "answered"}
Answers == {"ok", "unauthorized", "forbidden", "badMethod", "noRight",
            "recent", "failed"}
Cursor == [todo : SUBSET Group, group : Group, page : Nat \ {0}, found : BOOLEAN]
Fact == ({"token", "enabled", "granted"} \X {None}) \cup ({"subscribed", "member"} \X Group)
Token == <<"token", None>>
Right == {<<"enabled", None>>, <<"granted", None>>}

Identity == {IdentityOf[a] : a \in Account}

ASSUME AccountRequestAssumption ==
    /\ Account \subseteq Nat /\ IsFiniteSet(Account)
    /\ PageSize \in Nat \ {0}
    /\ FirstMembers \in [Group -> SUBSET Account]
    /\ \A q \in Asks : q.action \in {"quota", "reset"} /\ q.account \in Account
    /\ None \notin Request \cup Asks \cup Cursor \cup Answers

VARIABLES
    token,      \* the user's token is valid, and of the user in the header
    subscribed, \* groups with an active subscription of the user
    members,    \* accounts of each group
    enabled,    \* the attribute allow_reset is defined and enabled
    granted,    \* the user's value of it parses as true
    allowReset, \* config.allowReset
    holder,     \* the guard: who holds the lock of each identity
    recent,     \* the guard: an attempt within accountResetDedupWindow
    pc,         \* where each handler is
    question,   \* what it was asked
    cursor,     \* its reading of account lists: [todo, group, page, found]
    answer,     \* what it answers
    gone,       \* its client has gone away, request.Context() is done
    ever, always,   \* history: facts that held at some moment, and at every
                    \* moment, since the request came
    shifted,    \* history: groups that lost an account before the wanted
                \* one while they were being read
    upsets      \* used up of MaxUpsets

sub2api == <<token, subscribed, members, enabled, granted>>
guard == <<holder, recent>>
history == <<ever, always, shifted>>
vars == <<token, subscribed, members, enabled, granted, allowReset, holder, recent,
          pc, question, cursor, answer, gone, ever, always, shifted, upsets>>

TypeOK ==
    /\ {token, enabled, granted, allowReset} \subseteq BOOLEAN
    /\ subscribed \subseteq Group
    /\ members \in [Group -> SUBSET Account]
    /\ holder \in [Identity -> Request \cup {None}]
    /\ recent \in [Identity -> BOOLEAN]
    /\ pc \in [Request -> Location]
    /\ question \in [Request -> {None} \cup Asks]
    /\ cursor \in [Request -> {None} \cup Cursor]
    /\ answer \in [Request -> {None} \cup Answers]
    /\ gone \in [Request -> BOOLEAN]
    /\ ever \in [Request -> SUBSET Fact]
    /\ always \in [Request -> SUBSET Fact]
    /\ shifted \in [Request -> SUBSET Group]
    /\ \A r \in Request :
        /\ cursor[r] # None <=> pc[r] = "listing"
        /\ answer[r] # None <=> pc[r] = "answered"
        /\ pc[r] = "posting" <=> \E i \in Identity : holder[i] = r
        /\ always[r] \subseteq ever[r]

Init ==
    /\ token = TRUE
    /\ subscribed = Group
    /\ members = FirstMembers
    /\ enabled = TRUE
    /\ granted \in BOOLEAN
    /\ allowReset \in BOOLEAN
    /\ holder = [i \in Identity |-> None]
    /\ recent = [i \in Identity |-> FALSE]
    /\ pc = [r \in Request |-> "idle"]
    /\ question = [r \in Request |-> None]
    /\ cursor = [r \in Request |-> None]
    /\ answer = [r \in Request |-> None]
    /\ gone = [r \in Request |-> FALSE]
    /\ ever = [r \in Request |-> {}]
    /\ always = [r \in Request |-> {}]
    /\ shifted = [r \in Request |-> {}]
    /\ upsets = 0

-----------------------------------------------------------------------------
(* What is true at Sub2API about account a, for the user.                  *)
FactsOf(a, valid, subs, mem, on, yes) ==
    {f \in Fact :
        \/ f = Token /\ valid
        \/ f[1] = "enabled" /\ on
        \/ f[1] = "granted" /\ yes
        \/ \E g \in subs : f = <<"subscribed", g>>
        \/ \E g \in Group : a \in mem[g] /\ f = <<"member", g>>}

Upset ==
    /\ upsets < MaxUpsets
    /\ upsets' = upsets + 1

Served == {r \in Request : pc[r] \notin {"idle", "answered"}}

(* An administrator, the user or time changes something at Sub2API.        *)
Change ==
    /\ Upset
    /\ LET now(r) == FactsOf(question[r].account, token', subscribed', members',
                             enabled', granted')
       IN /\ ever' = [r \in Request |-> IF r \in Served THEN ever[r] \cup now(r) ELSE ever[r]]
          /\ always' = [r \in Request |->
                IF r \in Served THEN always[r] \cap now(r) ELSE always[r]]
    /\ UNCHANGED <<allowReset, guard, pc, question, cursor, answer, gone>>

ToggleToken ==
    /\ token' = ~token
    /\ UNCHANGED <<subscribed, members, enabled, granted, shifted>>
    /\ Change

ToggleSubscription(g) ==
    /\ subscribed' = IF g \in subscribed THEN subscribed \ {g} ELSE subscribed \cup {g}
    /\ UNCHANGED <<token, members, enabled, granted, shifted>>
    /\ Change

ToggleAttribute ==
    /\ enabled' = ~enabled
    /\ UNCHANGED <<token, subscribed, members, granted, shifted>>
    /\ Change

ToggleGrant ==
    /\ granted' = ~granted
    /\ UNCHANGED <<token, subscribed, members, enabled, shifted>>
    /\ Change

JoinGroup(g, a) ==
    /\ a \notin members[g]
    /\ members' = [members EXCEPT ![g] = @ \cup {a}]
    /\ UNCHANGED <<token, subscribed, enabled, granted, shifted>>
    /\ Change

LeaveGroup(g, a) ==
    /\ a \in members[g]
    /\ members' = [members EXCEPT ![g] = @ \ {a}]
    /\ shifted' = [r \in Request |->
          IF cursor[r] # None /\ cursor[r].group = g /\ cursor[r].page > 1
             /\ a < question[r].account
          THEN shifted[r] \cup {g} ELSE shifted[r]]
    /\ UNCHANGED <<token, subscribed, enabled, granted>>
    /\ Change

(* The browser closes the connection.                                      *)
Disconnect(r) ==
    /\ r \in Served /\ ~gone[r]
    /\ Upset
    /\ gone' = [gone EXCEPT ![r] = TRUE]
    /\ UNCHANGED <<sub2api, allowReset, guard, pc, question, cursor, answer, history>>

-----------------------------------------------------------------------------
(* doSub2APIRequest: it fails when the client has gone away, or because of *)
(* the network or Sub2API, and succeeds only for a client that is there.   *)
Fails(r) ==
    \/ gone[r] /\ UNCHANGED upsets
    \/ ~gone[r] /\ Upset
Succeeds(r) == ~gone[r] /\ UNCHANGED upsets

\* Everybody's steps leave these alone.
Serving == UNCHANGED <<sub2api, allowReset, question, gone, history>>

Answer(r, x) ==
    /\ answer' = [answer EXCEPT ![r] = x]
    /\ pc' = [pc EXCEPT ![r] = "answered"]
    /\ cursor' = [cursor EXCEPT ![r] = None]

Goto(r, location) ==
    /\ pc' = [pc EXCEPT ![r] = location]
    /\ cursor' = [cursor EXCEPT ![r] = None]
    /\ UNCHANGED answer

(* parseAccountAPIPath has found an account and an action.                 *)
Receive(r) ==
    /\ pc[r] = "idle"
    /\ \E q \in Asks :
          LET facts == FactsOf(q.account, token, subscribed, members, enabled, granted)
          IN /\ question' = [question EXCEPT ![r] = q]
             /\ ever' = [ever EXCEPT ![r] = facts]
             /\ always' = [always EXCEPT ![r] = facts]
    /\ pc' = [pc EXCEPT ![r] = "authenticating"]
    /\ UNCHANGED <<sub2api, allowReset, guard, cursor, answer, gone, shifted, upsets>>

(* authenticateUser: GET /auth/me with the user's token. A request without *)
(* usable headers is refused before that and is left out.                  *)
Authenticate(r) ==
    /\ pc[r] = "authenticating"
    /\ \/ Fails(r) /\ Answer(r, "failed")
       \/ /\ Succeeds(r)
          /\ \/ ~token /\ Answer(r, "unauthorized")
             \/ token /\ Goto(r, "subscribing")
    /\ UNCHANGED guard
    /\ Serving

\* The next of the groups in todo is read from its first page; without one
\* the account is not the user's.
ListNext(r, todo) ==
    \/ todo = {} /\ Answer(r, "forbidden")
    \/ /\ \E g \in todo : cursor' = [cursor EXCEPT ![r] =
             [todo |-> todo \ {g}, group |-> g, page |-> 1, found |-> FALSE]]
       /\ pc' = [pc EXCEPT ![r] = "listing"]
       /\ UNCHANGED answer

(* loadSubscribedGroups for userCanAccessAccount; in which order the       *)
(* groups come is Sub2API's choice.                                        *)
LoadSubscribedGroups(r) ==
    /\ pc[r] = "subscribing"
    /\ \/ Fails(r) /\ Answer(r, "failed")
       \/ Succeeds(r) /\ ListNext(r, subscribed)
    /\ UNCHANGED guard
    /\ Serving

\* One page of the accounts S in ascending order, and how many there are.
Items(S, page) ==
    {a \in S : LET before == Cardinality({b \in S : b < a})
               IN before \div PageSize = page - 1}
Pages(S) == (Cardinality(S) + PageSize - 1) \div PageSize

\* Mutant: pages are counted from zero.
LastTooSoon(S, page) == Pages(S) <= page + 1 \/ Items(S, page) = {}

Last(S, page) == Pages(S) <= page \/ Items(S, page) = {}

MethodOf(action) == IF action = "quota" THEN "GET" ELSE "POST"

\* Mutant: access to the account is taken for the right to reset it.
PermittedAlways(r) ==
    \/ question[r].method # MethodOf(question[r].action) /\ Answer(r, "badMethod")
    \/ /\ question[r].method = MethodOf(question[r].action)
       /\ Goto(r, IF question[r].action = "quota" THEN "querying" ELSE "loading")

\* The account is the user's: on to the action.
Permitted(r) ==
    \/ question[r].method # MethodOf(question[r].action) /\ Answer(r, "badMethod")
    \/ /\ question[r].method = MethodOf(question[r].action)
       /\ Goto(r, IF question[r].action = "quota" THEN "querying"
                  ELSE IF allowReset THEN "loading" ELSE "defining")

\* Mutant: the same page again.
SamePage(c, found) == [c EXCEPT !.found = found]

NextPage(c, found) == [c EXCEPT !.page = @ + 1, !.found = found]

(* listGroupAccounts: one page; userCanAccessAccount looks for the account *)
(* when a group's list is complete.                                        *)
ReadPage(r) ==
    LET c == cursor[r]
        found == c.found \/ question[r].account \in Items(members[c.group], c.page)
        last == Last(members[c.group], c.page)
    IN
    /\ pc[r] = "listing"
    /\ \/ Fails(r) /\ Answer(r, "failed")
       \/ /\ Succeeds(r)
          /\ \/ /\ ~last
                /\ cursor' = [cursor EXCEPT ![r] = NextPage(c, found)]
                /\ UNCHANGED <<pc, answer>>
             \/ last /\ found /\ Permitted(r)
             \/ last /\ ~found /\ ListNext(r, c.todo)
    /\ UNCHANGED guard
    /\ Serving

(* userCanReset, first request: the definition of allow_reset.             *)
LoadDefinitions(r) ==
    /\ pc[r] = "defining"
    /\ \/ Fails(r) /\ Answer(r, "failed")
       \/ Succeeds(r) /\ enabled /\ Goto(r, "valuing")
       \/ Succeeds(r) /\ ~enabled /\ Answer(r, "noRight")
    /\ UNCHANGED guard
    /\ Serving

(* userCanReset, second request: the user's value.                         *)
LoadValues(r) ==
    /\ pc[r] = "valuing"
    /\ \/ Fails(r) /\ Answer(r, "failed")
       \/ Succeeds(r) /\ granted /\ Goto(r, "loading")
       \/ Succeeds(r) /\ ~granted /\ Answer(r, "noRight")
    /\ UNCHANGED guard
    /\ Serving

-----------------------------------------------------------------------------
IdentityFor(r) == IdentityOf[question[r].account]

(* resetOpenAIQuota: the account is loaded for its identity. Another       *)
(* account than the one asked for counts as a failure.                     *)
LoadAccount(r) ==
    /\ pc[r] = "loading"
    /\ \/ Fails(r) /\ Answer(r, "failed")
       \/ Succeeds(r) /\ Goto(r, "waiting")
    /\ UNCHANGED guard
    /\ Serving

(* withIdentity and beginAttempt. The wait for the lock does not end when  *)
(* the client goes away.                                                   *)
Begin(r) ==
    LET i == IdentityFor(r) IN
    /\ pc[r] = "waiting"
    /\ holder[i] = None
    /\ \/ recent[i] /\ Answer(r, "recent") /\ UNCHANGED guard
       \/ /\ ~recent[i]
          /\ Goto(r, "posting")
          /\ holder' = [holder EXCEPT ![i] = r]
          /\ recent' = [recent EXCEPT ![i] = TRUE]
    /\ UNCHANGED upsets
    /\ Serving

\* Mutant: a failed POST returns with the lock held.
UnlockAfterSuccess(r) ==
    /\ holder' = IF answer'[r] = "ok" THEN [holder EXCEPT ![IdentityFor(r)] = None] ELSE holder
    /\ recent' = [recent EXCEPT ![IdentityFor(r)] = TRUE]

\* finishAttempt and the deferred Unlock.
Unlock(r) ==
    /\ holder' = [holder EXCEPT ![IdentityFor(r)] = None]
    /\ recent' = [recent EXCEPT ![IdentityFor(r)] = TRUE]

(* performOpenAIQuotaReset: POST .../reset-quota reaches Sub2API.          *)
Send(r) ==
    /\ pc[r] = "posting"
    /\ ~gone[r]
    /\ \/ Succeeds(r) /\ Answer(r, "ok")
       \/ Fails(r) /\ Answer(r, "failed")
    /\ Unlock(r)
    /\ Serving

(* performOpenAIQuotaReset with a context that is done: nothing is sent.   *)
SendNothing(r) ==
    /\ pc[r] = "posting"
    /\ gone[r]
    /\ Fails(r) /\ Answer(r, "failed")
    /\ Unlock(r)
    /\ Serving

(* queryOpenAIQuota: from the cache, which needs no client, or Sub2API.    *)
QueryQuota(r) ==
    /\ pc[r] = "querying"
    /\ \/ Answer(r, "ok") /\ UNCHANGED upsets
       \/ Fails(r) /\ Answer(r, "failed")
    /\ UNCHANGED guard
    /\ Serving

(* The response is written.                                                *)
Return(r) ==
    /\ pc[r] = "answered"
    /\ pc' = [pc EXCEPT ![r] = "idle"]
    /\ question' = [question EXCEPT ![r] = None]
    /\ answer' = [answer EXCEPT ![r] = None]
    /\ gone' = [gone EXCEPT ![r] = FALSE]
    /\ ever' = [ever EXCEPT ![r] = {}]
    /\ always' = [always EXCEPT ![r] = {}]
    /\ shifted' = [shifted EXCEPT ![r] = {}]
    /\ UNCHANGED <<sub2api, allowReset, guard, cursor, upsets>>

(* accountResetDedupWindow passes.                                         *)
WindowEnds(i) ==
    /\ recent[i] /\ holder[i] = None
    /\ recent' = [recent EXCEPT ![i] = FALSE]
    /\ UNCHANGED <<sub2api, allowReset, holder, pc, question, cursor, answer, gone, history,
                   upsets>>

Step(r) ==
    \/ Authenticate(r) \/ LoadSubscribedGroups(r) \/ ReadPage(r)
    \/ LoadDefinitions(r) \/ LoadValues(r) \/ LoadAccount(r)
    \/ Send(r) \/ SendNothing(r) \/ QueryQuota(r) \/ Return(r)

Next ==
    \/ \E r \in Request : Receive(r) \/ Step(r) \/ Begin(r) \/ Disconnect(r)
    \/ ToggleToken \/ ToggleAttribute \/ ToggleGrant
    \/ \E g \in Group : ToggleSubscription(g)
    \/ \E g \in Group, a \in Account : JoinGroup(g, a) \/ LeaveGroup(g, a)
    \/ \E i \in Identity : WindowEnds(i)

Spec == Init /\ [][Next]_vars

(* Every request ends within the client's timeout; a waiter that starves   *)
(* is handed the lock.                                                     *)
Fairness == \A r \in Request : WF_vars(Step(r)) /\ SF_vars(Begin(r))

FairSpec == Spec /\ Fairness

-----------------------------------------------------------------------------
\* The account can be reached through group g.
Through(g, facts) == {<<"subscribed", g>>, <<"member", g>>} \subseteq facts

(* A POST goes out only if, since its request came, the token was valid,   *)
(* the account was in a group the user subscribed to, and the user had the *)
(* right to reset (README: token, membership and allow_reset are checked   *)
(* again for every reset). The facts may have changed while the request    *)
(* waited for the lock, but none is left from an earlier request.          *)
ResetsAuthorized ==
    [][\A r \in Request : Send(r) =>
          /\ question[r].action = "reset" /\ question[r].method = "POST"
          /\ Token \in ever[r]
          /\ \E g \in Group : Through(g, ever[r])
          /\ allowReset \/ Right \subseteq ever[r]]_vars

(* Nobody is turned away who had everything that was needed all the while; *)
(* the one exception is a list that lost an account before the wanted one  *)
(* while it was read.                                                      *)
RefusalsJustified ==
    \A r \in Request :
        /\ answer[r] = "unauthorized" => Token \notin always[r]
        /\ answer[r] = "forbidden" =>
              \A g \in Group : Through(g, always[r]) => g \in shifted[r]
        /\ answer[r] = "noRight" =>
              ~allowReset /\ ~(Right \subseteq always[r])

(* Every request is answered, whoever holds the lock and whatever fails.   *)
RequestsEnd == \A r \in Request : pc[r] # "idle" ~> pc[r] = "idle"

=============================================================================
