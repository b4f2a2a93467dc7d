----------------------------- MODULE ResetGuard -----------------------------
(***************************************************************************)
(* accountResetCoordinator of reset_guard.go and the two kinds of          *)
(* goroutines that go through it: HTTP handlers in resetOpenAIQuota        *)
(* (quota_cache.go) and worker tasks in consumeExpiringCredit              *)
(* (auto_reset.go).                                                        *)
(*                                                                         *)
(* The coordinator maps an identity to a pointer to an accountResetState;  *)
(* the model keeps the pointers (stateOf, ref) because the guard works     *)
(* only if everybody who resets one identity locks the same object.        *)
(* coordinator.mutex covers exactly LookUp, which is therefore one step.   *)
(***************************************************************************)
EXTENDS Naturals

CONSTANTS
    Handler,    \* HTTP handlers
    Task,       \* tasks of the automatic reset worker
    Identity,   \* values of autoResetAccountIdentity
    State,      \* accountResetState objects that can be allocated
    Nil,        \* nil pointer, free mutex
    Never,      \* zero time.Time
    Busy,       \* only in the refinement mapping
    Window,     \* accountResetDedupWindow
    MaxClock    \* bound on the clock

Caller == Handler \cup Task

ASSUME GuardAssumption ==
    /\ Window \in Nat
    /\ MaxClock \in Nat
    /\ Nil \notin State \cup Caller
    /\ Never \notin Nat \cup {Busy}
    /\ Busy \notin Nat

VARIABLES
    clock,        \* coordinator.now()
    stateOf,      \* coordinator.identities
    mutex,        \* state.mutex: its holder or Nil
    lastAttempt,  \* state.lastAttempt
    pc,           \* where each caller is
    ident,        \* the identity the caller computed
    ref           \* the *accountResetState withIdentity works on

vars == <<clock, stateOf, mutex, lastAttempt, pc, ident, ref>>

Location == {"idle", "resolved", "queued", "locked", "posting"}

TypeOK ==
    /\ clock \in 0..MaxClock
    /\ stateOf \in [Identity -> State \cup {Nil}]
    /\ mutex \in [State -> Caller \cup {Nil}]
    /\ lastAttempt \in [State -> (0..MaxClock) \cup {Never}]
    /\ pc \in [Caller -> Location]
    /\ ident \in [Caller -> Identity \cup {Nil}]
    /\ ref \in [Caller -> State \cup {Nil}]

Init ==
    /\ clock = 0
    /\ stateOf = [i \in Identity |-> Nil]
    /\ mutex = [s \in State |-> Nil]
    /\ lastAttempt = [s \in State |-> Never]
    /\ pc = [c \in Caller |-> "idle"]
    /\ ident = [c \in Caller |-> Nil]
    /\ ref = [c \in Caller |-> Nil]

-----------------------------------------------------------------------------
(* The caller loads the account and derives its identity. Which identity   *)
(* it is depends on the credentials Sub2API returns this time. A failed    *)
(* load or an account mismatch returns before the coordinator is involved. *)
Resolve(c) ==
    /\ pc[c] = "idle"
    /\ \E i \in Identity : ident' = [ident EXCEPT ![c] = i]
    /\ pc' = [pc EXCEPT ![c] = "resolved"]
    /\ UNCHANGED <<clock, stateOf, mutex, lastAttempt, ref>>

\* Objects the map does not hold.
Unused == {s \in State : \A i \in Identity : stateOf[i] # s}

\* Mutant: a new object is stored without looking for an old one.
LookUpStoringAlways(c) ==
    /\ pc[c] = "resolved"
    /\ \E s \in Unused :
          /\ stateOf' = [stateOf EXCEPT ![ident[c]] = s]
          /\ ref' = [ref EXCEPT ![c] = s]
    /\ pc' = [pc EXCEPT ![c] = "queued"]
    /\ UNCHANGED <<clock, ident, lastAttempt, mutex>>

(* withIdentity under coordinator.mutex: find the object or create it.     *)
LookUp(c) ==
    LET i == ident[c] IN
    /\ pc[c] = "resolved"
    /\ \/ /\ stateOf[i] # Nil
          /\ UNCHANGED <<stateOf, lastAttempt, mutex>>
       \/ /\ stateOf[i] = Nil
          /\ \E s \in Unused :
                /\ stateOf' = [stateOf EXCEPT ![i] = s]
                /\ lastAttempt' = [lastAttempt EXCEPT ![s] = Never]
                /\ mutex' = [mutex EXCEPT ![s] = Nil]
    /\ ref' = [ref EXCEPT ![c] = stateOf'[i]]
    /\ pc' = [pc EXCEPT ![c] = "queued"]
    /\ UNCHANGED <<clock, ident>>

(* state.mutex.Lock()                                                      *)
Lock(c) ==
    /\ pc[c] = "queued"
    /\ mutex[ref[c]] = Nil
    /\ mutex' = [mutex EXCEPT ![ref[c]] = c]
    /\ pc' = [pc EXCEPT ![c] = "locked"]
    /\ UNCHANGED <<clock, stateOf, lastAttempt, ident, ref>>

\* The deferred state.mutex.Unlock() and the return to the caller.
Release(c) ==
    /\ mutex' = [mutex EXCEPT ![ref[c]] = Nil]
    /\ pc' = [pc EXCEPT ![c] = "idle"]
    /\ ident' = [ident EXCEPT ![c] = Nil]
    /\ ref' = [ref EXCEPT ![c] = Nil]
    /\ UNCHANGED <<clock, stateOf>>

(* The worker confirms the quota while it holds the lock, and leaves if    *)
(* the query failed, nothing is about to expire or the snapshot was tried. *)
Decline(c) ==
    /\ c \in Task
    /\ pc[c] = "locked"
    /\ Release(c)
    /\ UNCHANGED lastAttempt

TooRecent(s) == lastAttempt[s] # Never /\ clock - lastAttempt[s] < Window

\* Mutant: the early return leaves the mutex locked.
RejectAttemptLocked(c) ==
    /\ pc[c] = "locked"
    /\ TooRecent(ref[c])
    /\ pc' = [pc EXCEPT ![c] = "idle"]
    /\ UNCHANGED <<clock, stateOf, mutex, lastAttempt, ident, ref>>

(* beginAttempt answers RESET_RECENTLY_ATTEMPTED.                          *)
RejectAttempt(c) ==
    /\ pc[c] = "locked"
    /\ TooRecent(ref[c])
    /\ Release(c)
    /\ UNCHANGED lastAttempt

\* Mutant: the lock is given up before the POST.
BeginAttemptUnlocking(c) ==
    /\ pc[c] = "locked"
    /\ ~TooRecent(ref[c])
    /\ lastAttempt' = [lastAttempt EXCEPT ![ref[c]] = clock]
    /\ mutex' = [mutex EXCEPT ![ref[c]] = Nil]
    /\ pc' = [pc EXCEPT ![c] = "posting"]
    /\ UNCHANGED <<clock, stateOf, ident, ref>>

(* beginAttempt stamps the object and the POST leaves.                     *)
BeginAttempt(c) ==
    /\ pc[c] = "locked"
    /\ ~TooRecent(ref[c])
    /\ lastAttempt' = [lastAttempt EXCEPT ![ref[c]] = clock]
    /\ pc' = [pc EXCEPT ![c] = "posting"]
    /\ UNCHANGED <<clock, stateOf, mutex, ident, ref>>

\* Mutant: only the start of the POST is stamped.
FinishAttemptUnstamped(c) ==
    /\ pc[c] = "posting"
    /\ Release(c)
    /\ UNCHANGED lastAttempt

\* Mutant: the end of the window is stored in place of its start.
FinishAttemptDeadline(c) ==
    /\ pc[c] = "posting"
    /\ lastAttempt' = [lastAttempt EXCEPT ![ref[c]] = clock + Window]
    /\ Release(c)

(* The POST came back, whatever its outcome: the deferred finishAttempt    *)
(* stamps again, then the lock is released.                                *)
FinishAttempt(c) ==
    /\ pc[c] = "posting"
    /\ lastAttempt' = [lastAttempt EXCEPT ![ref[c]] = clock]
    /\ Release(c)

Tick ==
    /\ clock < MaxClock
    /\ clock' = clock + 1
    /\ UNCHANGED <<stateOf, mutex, lastAttempt, pc, ident, ref>>

Next ==
    \/ \E c \in Caller :
          \/ Resolve(c) \/ LookUp(c) \/ Lock(c) \/ Decline(c)
          \/ RejectAttempt(c) \/ BeginAttempt(c) \/ FinishAttempt(c)
    \/ Tick

Spec == Init /\ [][Next]_vars

(* Every goroutine keeps running, every request ends by client.Timeout,    *)
(* and sync.Mutex hands the lock to a waiter that has been starved.        *)
Fairness ==
    \A c \in Caller :
        /\ WF_vars(LookUp(c))
        /\ SF_vars(Lock(c))
        /\ WF_vars(Decline(c) \/ RejectAttempt(c) \/ BeginAttempt(c))
        /\ WF_vars(FinishAttempt(c))

FairSpec == Spec /\ Fairness

-----------------------------------------------------------------------------
(* Two resets of one underlying account are never on their way at once,    *)
(* whichever account IDs and callers they come from (README: resets are    *)
(* serialised by OpenAI account identity).                                 *)
OneResetInFlight ==
    \A c, d \in Caller :
        (pc[c] = "posting" /\ pc[d] = "posting" /\ ident[c] = ident[d]) => c = d

(* While the worker confirms a quota under the lock and until its own POST *)
(* leaves, nobody else starts or ends a reset of that account: what it     *)
(* confirmed can only be changed from outside this program.                *)
ConfirmedStep ==
    \A c \in Task, d \in Caller :
        (/\ pc[c] \in {"locked", "posting"}
         /\ d # c
         /\ ident[d] = ident[c])
           => (pc[d] = "posting" <=> pc'[d] = "posting")

ConfirmedUndisturbed == [][ConfirmedStep]_vars

(* The guard implements SpacedResets: an account is busy while somebody's   *)
(* POST for it is on its way; otherwise the stamp says when it was reset.  *)
Posting(i) == \E c \in Caller : pc[c] = "posting" /\ ident[c] = i

LastReset == [i \in Identity |->
    IF Posting(i) THEN Busy
    ELSE IF stateOf[i] = Nil THEN Never
    ELSE lastAttempt[stateOf[i]]]

Promise == INSTANCE SpacedResets WITH account <- LastReset

(* At most one reset per account at a time and Window between the end of   *)
(* one and the start of the next (README: a second submission within one   *)
(* minute is refused).                                                     *)
ResetsSpaced == Promise!Spec

(* A caller that asked for an identity's lock gets through and returns: no *)
(* path leaves the mutex locked and the lock is not starved.               *)
CallersReturn ==
    \A c \in Caller : pc[c] = "resolved" ~> pc[c] = "idle"

=============================================================================
