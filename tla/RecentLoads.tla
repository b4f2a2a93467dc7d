---------------------------- MODULE RecentLoads ----------------------------
(***************************************************************************)
(* What the usage statistics cache promises, without entries or flights:   *)
(* statistics of a key are loaded now and then, one load after the other.  *)
(* A question is answered with the load made for it, with another load     *)
(* that ended after it was asked, or - unless the refresh is forced - with *)
(* the last load before it, if that ended less than TTL ago, or less than  *)
(* ErrTTL ago when it failed. A forced question is only ever answered with *)
(* a forced load.                                                          *)
(***************************************************************************)
EXTENDS Naturals, Sequences

CONSTANTS
    Reader,         \* goroutines that ask
    Key,            \* what statistics are asked for
    None,           \* no question, no answer
    GaveUp,         \* an answer that is no load
    TTL,            \* how long a load may be reused
    ErrTTL          \* how long a failed one may

VARIABLES
    clock,
    loads,          \* loads[k]: the loads of k that have ended, in order
    question,       \* question[r]: None or what r asks
    answer          \* answer[r]: None, GaveUp or the number of a load

vars == <<clock, loads, question, answer>>

Init ==
    /\ clock = 0
    /\ loads = [k \in Key |-> << >>]
    /\ question = [r \in Reader |-> None]
    /\ answer = [r \in Reader |-> None]

Ask(r, k, force) ==
    /\ question[r] = None
    /\ question' = [question EXCEPT ![r] =
          [key |-> k, force |-> force, since |-> Len(loads[k]), at |-> clock]]
    /\ UNCHANGED <<clock, loads, answer>>

Open(r) == question[r] # None /\ answer[r] = None

Load(r, failed) ==
    LET q == question[r] IN
    /\ Open(r)
    /\ loads' = [loads EXCEPT ![q.key] =
          Append(@, [ended |-> clock, forced |-> q.force, failed |-> failed])]
    /\ answer' = [answer EXCEPT ![r] = Len(loads[q.key]) + 1]
    /\ UNCHANGED <<clock, question>>

ReuseFor(load) == IF load.failed THEN ErrTTL ELSE TTL

\* Load n of q's key may answer q.
Answers(n, q) ==
    LET load == loads[q.key][n] IN
    /\ n \in 1..Len(loads[q.key])
    /\ IF q.force THEN n > q.since /\ load.forced
       ELSE \/ n > q.since
            \/ n = q.since /\ q.at < load.ended + ReuseFor(load)

Share(r) ==
    /\ Open(r)
    /\ \E n \in 1..Len(loads[question[r].key]) :
          /\ Answers(n, question[r])
          /\ answer' = [answer EXCEPT ![r] = n]
    /\ UNCHANGED <<clock, loads, question>>

GiveUp(r) ==
    /\ Open(r)
    /\ answer' = [answer EXCEPT ![r] = GaveUp]
    /\ UNCHANGED <<clock, loads, question>>

Leave(r) ==
    /\ answer[r] # None
    /\ question' = [question EXCEPT ![r] = None]
    /\ answer' = [answer EXCEPT ![r] = None]
    /\ UNCHANGED <<clock, loads>>

Tick ==
    /\ clock' = clock + 1
    /\ UNCHANGED <<loads, question, answer>>

Next ==
    \/ \E r \in Reader, k \in Key, force \in BOOLEAN : Ask(r, k, force)
    \/ \E r \in Reader :
          \/ \E failed \in BOOLEAN : Load(r, failed)
          \/ Share(r) \/ GiveUp(r) \/ Leave(r)
    \/ Tick

Spec == Init /\ [][Next]_vars

=============================================================================
