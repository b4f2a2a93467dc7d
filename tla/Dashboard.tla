----------------------------- MODULE Dashboard -----------------------------
(***************************************************************************)
(* loadDashboard and loadAccountUsage of sub2api.go with                   *)
(* enrichAccountUsageForUser of usage_window_stats.go: a request starts a  *)
(* goroutine for each account it shows, usageConcurrency of them work at a *)
(* time, and each asks for the account's usage and then, window by window, *)
(* for the user's statistics, which goroutines of several requests share   *)
(* through userUsageStatsCache. Requests are tabs of one user; each comes  *)
(* once.                                                                   *)
(*                                                                         *)
(* A goroutine keeps its place in the semaphore while it waits for another *)
(* request's goroutine, and a client may go away at any time.              *)
(***************************************************************************)
EXTENDS Naturals, FiniteSets, FiniteSetsExt

CONSTANTS
    Request,        \* GET /api/dashboard
    Account,        \* accounts of the user's groups
    Windows,        \* how many usageWindowDefinitions there are
    Concurrency,    \* usageConcurrency
    None,           \* nobody, nothing
    MaxUpsets       \* bound on failed requests of clients that wait, and on
                    \* clients that go away

Window == 1..Windows

\* How a flight ends: did the load succeed, and was it a refresh?
Outcome == [ok : BOOLEAN, force : BOOLEAN]

ASSUME DashboardAssumption ==
    /\ IsFiniteSet(Account)
    /\ Windows \in Nat
    /\ Concurrency \in Nat \ {0}
    /\ MaxUpsets \in Nat
    /\ None \notin Request \cup Outcome \cup {"usage", "error"}

VARIABLES
    pc,         \* the handler: "idle", "preparing", "loading", "answered"
    force,      \* ?active=1, the page's refresh
    gone,       \* request.Context() is done
    task,       \* the goroutine of each account
    todo,       \* windows it has not dealt with
    heard,      \* what the flight it waits for has ended with
    result,     \* results[accountID]: "usage", "error" or nothing
    slots,      \* the semaphore of each request
    flight,     \* userUsageCache.inflight: the request that leads it
    entry,      \* userUsageCache.entries: did the load succeed?
    upsets      \* used up of MaxUpsets

goroutines == <<task, todo, heard, result, slots>>
vars == <<pc, force, gone, goroutines, flight, entry, upsets>>

\* Where a goroutine is; all but the first two and the last hold a slot.
Task == {"none", "queued", "querying", "asking", "waiting", "leading", "done"}
Active == Task \ {"none", "queued", "done"}

Init ==
    /\ pc = [d \in Request |-> "idle"]
    /\ force = [d \in Request |-> FALSE]
    /\ gone = [d \in Request |-> FALSE]
    /\ task = [d \in Request |-> [a \in Account |-> "none"]]
    /\ todo = [d \in Request |-> [a \in Account |-> {}]]
    /\ heard = [d \in Request |-> [a \in Account |-> None]]
    /\ result = [d \in Request |-> [a \in Account |-> None]]
    /\ slots = [d \in Request |-> 0]
    /\ flight = [a \in Account |-> [w \in Window |-> None]]
    /\ entry = [a \in Account |-> [w \in Window |-> None]]
    /\ upsets = 0

-----------------------------------------------------------------------------
Upset ==
    /\ upsets < MaxUpsets
    /\ upsets' = upsets + 1

(* The browser closes the connection.                                      *)
Disconnect(d) ==
    /\ pc[d] \in {"preparing", "loading"} /\ ~gone[d]
    /\ Upset
    /\ gone' = [gone EXCEPT ![d] = TRUE]
    /\ UNCHANGED <<pc, force, goroutines, flight, entry>>

(* doSub2APIRequest: it fails when the client has gone away, or because of *)
(* the network or Sub2API, and succeeds only for a client that is there.   *)
Fails(d) ==
    \/ gone[d] /\ UNCHANGED upsets
    \/ ~gone[d] /\ Upset
Succeeds(d) == ~gone[d] /\ UNCHANGED upsets

(* GET /api/dashboard arrives at handleDashboard.                          *)
Receive(d) ==
    /\ pc[d] = "idle"
    /\ pc' = [pc EXCEPT ![d] = "preparing"]
    /\ \E f \in BOOLEAN : force' = [force EXCEPT ![d] = f]
    /\ UNCHANGED <<gone, goroutines, flight, entry, upsets>>

(* authenticateUser, userCanReset, loadSubscribedGroups, listGroupAccounts *)
(* (step by step in AccountRequest): the first failure is the answer. Then *)
(* loadAccountUsage starts a goroutine for every account of the lists;     *)
(* which accounts these are is Sub2API's choice.                           *)
Prepare(d) ==
    /\ pc[d] = "preparing"
    /\ \/ /\ Fails(d)
          /\ pc' = [pc EXCEPT ![d] = "answered"]
          /\ UNCHANGED task
       \/ /\ Succeeds(d)
          /\ pc' = [pc EXCEPT ![d] = "loading"]
          /\ \E accounts \in SUBSET Account :
                task' = [task EXCEPT ![d] =
                    [a \in Account |-> IF a \in accounts THEN "queued" ELSE "none"]]
    /\ UNCHANGED <<force, gone, todo, heard, result, slots, flight, entry>>

-----------------------------------------------------------------------------
Goto(d, a, place) == task' = [task EXCEPT ![d][a] = place]

\* Mutant: an error returns with the place taken.
FinishKeeping(d, a, x) ==
    /\ Goto(d, a, "done")
    /\ result' = [result EXCEPT ![d][a] = x]
    /\ slots' = IF x = "error" THEN slots ELSE [slots EXCEPT ![d] = @ - 1]

\* The goroutine returns: the deferred release and Done.
Finish(d, a, x) ==
    /\ Goto(d, a, "done")
    /\ result' = [result EXCEPT ![d][a] = x]
    /\ slots' = [slots EXCEPT ![d] = @ - 1]

(* The goroutine takes a place in the semaphore.                           *)
Acquire(d, a) ==
    /\ task[d][a] = "queued"
    /\ slots[d] < Concurrency
    /\ slots' = [slots EXCEPT ![d] = @ + 1]
    /\ Goto(d, a, "querying")
    /\ UNCHANGED <<pc, force, gone, todo, heard, result, flight, entry, upsets>>

\* Mutant: the goroutine does not wait for a place.
AbandonFull(d, a) ==
    /\ task[d][a] = "queued"
    /\ slots[d] = Concurrency
    /\ Goto(d, a, "done")
    /\ UNCHANGED <<pc, force, gone, todo, heard, result, slots, flight, entry, upsets>>

\* Mutant: the release is deferred before the place is taken.
AbandonReleasing(d, a) ==
    /\ task[d][a] = "queued"
    /\ gone[d]
    /\ Goto(d, a, "done")
    /\ slots' = [slots EXCEPT ![d] = @ - 1]
    /\ UNCHANGED <<pc, force, gone, todo, heard, result, flight, entry, upsets>>

(* It returns without a result when the client has gone; select may as     *)
(* well take the place.                                                    *)
Abandon(d, a) ==
    /\ task[d][a] = "queued"
    /\ gone[d]
    /\ Goto(d, a, "done")
    /\ UNCHANGED <<pc, force, gone, todo, heard, result, slots, flight, entry, upsets>>

(* queryAccountUsage and resolveAccountUsageWindows: the windows that will *)
(* get statistics are those whose reset time is known.                     *)
QueryUsage(d, a) ==
    /\ task[d][a] = "querying"
    /\ \/ Fails(d) /\ Finish(d, a, "error") /\ UNCHANGED todo
       \/ /\ Succeeds(d)
          /\ \E W \in SUBSET Window : todo' = [todo EXCEPT ![d][a] = W]
          /\ Goto(d, a, "asking")
          /\ UNCHANGED <<result, slots>>
    /\ UNCHANGED <<pc, force, gone, heard, flight, entry>>

(* All windows are dealt with: the usage is the result.                    *)
Complete(d, a) ==
    /\ task[d][a] = "asking"
    /\ todo[d][a] = {}
    /\ Finish(d, a, "usage")
    /\ UNCHANGED <<pc, force, gone, todo, heard, flight, entry, upsets>>

\* The window the goroutine is at.
At(d, a) == Min(todo[d][a])

\* The window has its statistics, or is marked as without.
NextWindow(d, a) ==
    /\ todo' = [todo EXCEPT ![d][a] = @ \ {At(d, a)}]
    /\ Goto(d, a, "asking")

(* userUsageStatsCache.load finds an entry.                                *)
Hit(d, a) ==
    /\ task[d][a] = "asking" /\ todo[d][a] # {}
    /\ flight[a][At(d, a)] = None
    /\ ~force[d] /\ entry[a][At(d, a)] # None
    /\ NextWindow(d, a)
    /\ UNCHANGED <<pc, force, gone, heard, result, slots, flight, entry, upsets>>

(* It finds a load under way and waits for it.                             *)
Join(d, a) ==
    /\ task[d][a] = "asking" /\ todo[d][a] # {}
    /\ flight[a][At(d, a)] # None
    /\ Goto(d, a, "waiting")
    /\ heard' = [heard EXCEPT ![d][a] = None]
    /\ UNCHANGED <<pc, force, gone, todo, result, slots, flight, entry, upsets>>

(* It finds neither and loads itself.                                      *)
Lead(d, a) ==
    /\ task[d][a] = "asking" /\ todo[d][a] # {}
    /\ flight[a][At(d, a)] = None
    /\ force[d] \/ entry[a][At(d, a)] = None
    /\ Goto(d, a, "leading")
    /\ flight' = [flight EXCEPT ![a][At(d, a)] = d]
    /\ UNCHANGED <<pc, force, gone, todo, heard, result, slots, entry, upsets>>

\* Who waits for the flight of account a and window w.
Follows(e, a, w) ==
    task[e][a] = "waiting" /\ heard[e][a] = None /\ At(e, a) = w

\* Mutant: a leader whose client has gone tells nobody.
TellUnlessGone(d, a, x) ==
    heard' = IF gone[d] THEN heard
             ELSE [e \in Request |-> [heard[e] EXCEPT ![a] =
                      IF Follows(e, a, At(d, a)) THEN x ELSE @]]

\* close(flight.done)
Tell(d, a, x) ==
    heard' = [e \in Request |-> [heard[e] EXCEPT ![a] =
                 IF Follows(e, a, At(d, a)) THEN x ELSE @]]

(* fetchUserWindowStats (see UsageWindow) with the leader's context, and   *)
(* the end of load: entry and followers get the outcome.                   *)
Load(d, a) ==
    /\ task[d][a] = "leading"
    /\ \E ok \in BOOLEAN :
          /\ IF ok THEN Succeeds(d) ELSE Fails(d)
          /\ entry' = [entry EXCEPT ![a][At(d, a)] = ok]
          /\ Tell(d, a, [ok |-> ok, force |-> force[d]])
    /\ flight' = [flight EXCEPT ![a][At(d, a)] = None]
    /\ NextWindow(d, a)
    /\ UNCHANGED <<pc, force, gone, result, slots>>

(* A follower wakes: the outcome is its own, except that a refresh does    *)
(* not take an ordinary load's and asks again.                             *)
Wake(d, a) ==
    /\ task[d][a] = "waiting" /\ heard[d][a] # None
    /\ heard' = [heard EXCEPT ![d][a] = None]
    /\ IF force[d] /\ ~heard[d][a].force
       THEN Goto(d, a, "asking") /\ UNCHANGED todo
       ELSE NextWindow(d, a)
    /\ UNCHANGED <<pc, force, gone, result, slots, flight, entry, upsets>>

(* A follower whose client has gone stops waiting; the window is marked.   *)
GiveUp(d, a) ==
    /\ task[d][a] = "waiting" /\ gone[d]
    /\ heard' = [heard EXCEPT ![d][a] = None]
    /\ NextWindow(d, a)
    /\ UNCHANGED <<pc, force, gone, result, slots, flight, entry, upsets>>

(* userUsageStatsCacheTTL, or that of failures, passes.                    *)
Expire(a, w) ==
    /\ entry[a][w] # None
    /\ entry' = [entry EXCEPT ![a][w] = None]
    /\ UNCHANGED <<pc, force, gone, goroutines, flight, upsets>>

(* waitGroup.Wait returns and the response is written.                     *)
Answer(d) ==
    /\ pc[d] = "loading"
    /\ \A a \in Account : task[d][a] \in {"none", "done"}
    /\ pc' = [pc EXCEPT ![d] = "answered"]
    /\ UNCHANGED <<force, gone, goroutines, flight, entry, upsets>>

Work(d, a) ==
    \/ Acquire(d, a) \/ QueryUsage(d, a) \/ Complete(d, a)
    \/ Hit(d, a) \/ Join(d, a) \/ Lead(d, a) \/ Load(d, a) \/ Wake(d, a)

Next ==
    \/ \E d \in Request : Receive(d) \/ Prepare(d) \/ Answer(d) \/ Disconnect(d)
    \/ \E d \in Request, a \in Account : Work(d, a) \/ Abandon(d, a) \/ GiveUp(d, a)
    \/ \E a \in Account, w \in Window : Expire(a, w)

Spec == Init /\ [][Next]_vars

(* Goroutines run and requests end within the client's timeout; nobody has *)
(* to go away for it.                                                      *)
Fairness ==
    /\ \A d \in Request : WF_vars(Prepare(d)) /\ WF_vars(Answer(d))
    /\ \A d \in Request, a \in Account : WF_vars(Work(d, a))

FairSpec == Spec /\ Fairness

-----------------------------------------------------------------------------
(* The places taken in a semaphore are those of the goroutines at work,    *)
(* whichever way each returned.                                            *)
TypeOK ==
    /\ pc \in [Request -> {"idle", "preparing", "loading", "answered"}]
    /\ force \in [Request -> BOOLEAN] /\ gone \in [Request -> BOOLEAN]
    /\ task \in [Request -> [Account -> Task]]
    /\ todo \in [Request -> [Account -> SUBSET Window]]
    /\ heard \in [Request -> [Account -> Outcome \cup {None}]]
    /\ result \in [Request -> [Account -> {"usage", "error", None}]]
    /\ slots \in [Request -> 0..Concurrency]
    /\ flight \in [Account -> [Window -> Request \cup {None}]]
    /\ entry \in [Account -> [Window -> BOOLEAN \cup {None}]]
    /\ \A d \in Request : slots[d] = Cardinality({a \in Account : task[d][a] \in Active})

(* Whoever waits for statistics waits for a flight that a goroutine at     *)
(* work, of another request, is leading for the same window; so waiting    *)
(* never goes in a circle, although the waiting one keeps a place in its   *)
(* own semaphore and clients come and go.                                  *)
FlightsLed ==
    /\ \A a \in Account, w \in Window : LET d == flight[a][w] IN
          d # None => task[d][a] = "leading" /\ todo[d][a] # {} /\ At(d, a) = w
    /\ \A d \in Request, a \in Account :
          task[d][a] = "waiting" /\ heard[d][a] = None =>
              todo[d][a] # {} /\ flight[a][At(d, a)] \notin {d, None}

(* A client that is still there is shown, for each of its accounts, the    *)
(* usage or an error; only nobody gets an account without either.          *)
AnswersComplete ==
    \A d \in Request : pc[d] = "answered" /\ ~gone[d] =>
        \A a \in Account : task[d][a] # "none" => result[d][a] # None

(* Every dashboard request is answered, however many goroutines wait for   *)
(* one another and whoever goes away.                                      *)
DashboardsAnswered == \A d \in Request : pc[d] = "preparing" ~> pc[d] = "answered"

=============================================================================
