---------------------------- MODULE SpacedResets ----------------------------
(***************************************************************************)
(* What reset_guard.go promises, without locks or callers: for every       *)
(* underlying OpenAI account at most one reset request is on its way to    *)
(* Sub2API, and the next one starts at least Window after the previous one *)
(* came back.                                                              *)
(***************************************************************************)
EXTENDS Naturals

CONSTANTS
    Identity,   \* underlying OpenAI accounts
    Window,     \* shortest pause between two resets of one of them
    Never,      \* the account has not been reset yet
    Busy,       \* a reset of the account is on its way
    MaxClock    \* bound on the clock

VARIABLES
    clock,      \* the time
    account     \* account[i]: Never, Busy, or when the last reset came back

vars == <<clock, account>>

Init ==
    /\ clock = 0
    /\ account = [i \in Identity |-> Never]

Start(i) ==
    /\ account[i] # Busy
    /\ account[i] # Never => clock - account[i] >= Window
    /\ account' = [account EXCEPT ![i] = Busy]
    /\ UNCHANGED clock

Finish(i) ==
    /\ account[i] = Busy
    /\ account' = [account EXCEPT ![i] = clock]
    /\ UNCHANGED clock

Tick ==
    /\ clock < MaxClock
    /\ clock' = clock + 1
    /\ UNCHANGED account

Next ==
    \/ \E i \in Identity : Start(i) \/ Finish(i)
    \/ Tick

Spec == Init /\ [][Next]_vars

=============================================================================
