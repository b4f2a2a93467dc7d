---------------------------- MODULE FreshAnswers ----------------------------
(***************************************************************************)
(* What the quota cache promises, without entries, flights or time: an     *)
(* account's quota on Sub2API moves through numbered readings, and a       *)
(* question is answered with an error or with a reading the account had    *)
(* no earlier than the last time the program said "forget what you know"   *)
(* before the question was asked, and no later than now.                   *)
(***************************************************************************)
EXTENDS Naturals

CONSTANTS
    Reader,     \* goroutines that ask
    Account,    \* Sub2API account IDs
    None,       \* no question, no answer
    Failed,     \* an error answer
    MaxReading  \* bound on the readings of an account

VARIABLES
    quota,      \* quota[a]: the reading Sub2API would return now
    floor,      \* floor[a]: the reading when a was last forgotten
    question,   \* question[r]: None or the account and its floor when asked
    answer      \* answer[r]: None, Failed or a reading

vars == <<quota, floor, question, answer>>

Init ==
    /\ quota = [a \in Account |-> 0]
    /\ floor = [a \in Account |-> 0]
    /\ question = [r \in Reader |-> None]
    /\ answer = [r \in Reader |-> None]

Change(a) ==
    /\ quota[a] < MaxReading
    /\ quota' = [quota EXCEPT ![a] = @ + 1]
    /\ UNCHANGED <<floor, question, answer>>

Forget(a) ==
    /\ floor' = [floor EXCEPT ![a] = quota[a]]
    /\ UNCHANGED <<quota, question, answer>>

Ask(r, a) ==
    /\ question[r] = None
    /\ question' = [question EXCEPT ![r] = [account |-> a, since |-> floor[a]]]
    /\ UNCHANGED <<quota, floor, answer>>

AskAfresh(r, a) ==
    /\ question[r] = None
    /\ floor' = [floor EXCEPT ![a] = quota[a]]
    /\ question' = [question EXCEPT ![r] = [account |-> a, since |-> quota[a]]]
    /\ UNCHANGED <<quota, answer>>

Answer(r) ==
    /\ question[r] # None
    /\ answer[r] = None
    /\ \E x \in {Failed} \cup (question[r].since .. quota[question[r].account]) :
          answer' = [answer EXCEPT ![r] = x]
    /\ UNCHANGED <<quota, floor, question>>

Leave(r) ==
    /\ answer[r] # None
    /\ question' = [question EXCEPT ![r] = None]
    /\ answer' = [answer EXCEPT ![r] = None]
    /\ UNCHANGED <<quota, floor>>

Next ==
    \/ \E a \in Account : Change(a) \/ Forget(a)
    \/ \E r \in Reader, a \in Account : Ask(r, a) \/ AskAfresh(r, a)
    \/ \E r \in Reader : Answer(r) \/ Leave(r)

Spec == Init /\ [][Next]_vars

=============================================================================
