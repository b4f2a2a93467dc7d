-------------------------- MODULE ResetGuardProofs --------------------------
(* The properties of ResetGuard, proved for any number of callers,         *)
(* identities and objects, any window and any clock bound.                 *)
EXTENDS ResetGuard, TLAPS

Inside(c) == pc[c] \in {"locked", "posting"}

\* A mutex is held by exactly the caller that is inside with that object.
HolderInside ==
    \A c \in Caller, s \in State : mutex[s] = c <=> (Inside(c) /\ ref[c] = s)

\* No object stands for two identities.
ObjectsDistinct ==
    \A i, j \in Identity : stateOf[i] = stateOf[j] /\ stateOf[i] # Nil => i = j

\* Whoever has looked its identity up works on the object the map holds.
RefCurrent ==
    \A c \in Caller :
        /\ pc[c] # "idle" => ident[c] \in Identity
        /\ pc[c] \in {"queued", "locked", "posting"} =>
              ref[c] \in State /\ ref[c] = stateOf[ident[c]]

IInv == TypeOK /\ HolderInside /\ ObjectsDistinct /\ RefCurrent

-----------------------------------------------------------------------------
(* The strengthened invariant holds at the start.                          *)
LEMMA InitIInv == Init => IInv
BY GuardAssumption
   DEF Init, IInv, TypeOK, HolderInside, ObjectsDistinct, RefCurrent, Inside, Location, Caller

(* Every step of every caller, and the clock, keeps it.                    *)
LEMMA NextIInv == IInv /\ [Next]_vars => IInv'
<1> SUFFICES ASSUME IInv, [Next]_vars PROVE IInv'
  OBVIOUS
<1> USE GuardAssumption DEF IInv, TypeOK, HolderInside, ObjectsDistinct, RefCurrent, Inside, Location
<1>1. ASSUME NEW c \in Caller, Resolve(c) PROVE IInv'
  BY <1>1 DEF Resolve
<1>2. ASSUME NEW c \in Caller, LookUp(c) PROVE IInv'
  BY <1>2 DEF LookUp, Unused
<1>3. ASSUME NEW c \in Caller, Lock(c) PROVE IInv'
  BY <1>3 DEF Lock
<1>4. ASSUME NEW c \in Caller, Decline(c) PROVE IInv'
  BY <1>4 DEF Decline, Release
<1>5. ASSUME NEW c \in Caller, RejectAttempt(c) PROVE IInv'
  BY <1>5 DEF RejectAttempt, Release
<1>6. ASSUME NEW c \in Caller, BeginAttempt(c) PROVE IInv'
  BY <1>6 DEF BeginAttempt
<1>7. ASSUME NEW c \in Caller, FinishAttempt(c) PROVE IInv'
  BY <1>7 DEF FinishAttempt, Release
<1>8. CASE Tick
  BY <1>8 DEF Tick
<1>9. CASE UNCHANGED vars
  BY <1>9 DEF vars
<1>10. QED
  BY <1>1, <1>2, <1>3, <1>4, <1>5, <1>6, <1>7, <1>8, <1>9 DEF Next

-----------------------------------------------------------------------------
(* The strengthened invariant holds in every reachable state.              *)
THEOREM Inductive == Spec => []IInv
BY InitIInv, NextIInv, PTL DEF Spec

(* Type correctness of the coordinator and its callers.                    *)
THEOREM TypeCorrect == Spec => []TypeOK
BY Inductive, PTL DEF IInv

(* Holding the object the map has for an identity is exclusive, because    *)
(* the mutex knows its holder and everybody with that identity refers to   *)
(* the same object.                                                        *)
LEMMA InsideIsExclusive ==
    ASSUME IInv, NEW c \in Caller, NEW d \in Caller,
           Inside(c), Inside(d), ident[c] = ident[d]
    PROVE  c = d
<1>1. ref[c] = ref[d] /\ ref[c] \in State
  BY DEF IInv, RefCurrent, Inside
<1>2. mutex[ref[c]] = c /\ mutex[ref[c]] = d
  BY <1>1 DEF IInv, HolderInside
<1>3. QED
  BY <1>2

(* Two resets of one underlying account are never on their way at once.    *)
THEOREM Exclusion == Spec => []OneResetInFlight
<1>1. IInv => OneResetInFlight
  BY InsideIsExclusive DEF OneResetInFlight, Inside
<1>2. QED
  BY <1>1, Inductive, PTL

(* What the worker confirmed under the lock is not disturbed by another    *)
(* caller of this program until its own POST has left.                     *)
THEOREM Undisturbed == Spec => ConfirmedUndisturbed
<1>1. ASSUME IInv, [Next]_vars PROVE [ConfirmedStep]_vars
  <2> SUFFICES ASSUME NEW c \in Task, NEW d \in Caller,
                      Inside(c), d # c, ident[d] = ident[c]
               PROVE  pc[d] = "posting" <=> pc'[d] = "posting"
    BY DEF Inside, ConfirmedStep
  <2>1. c \in Caller
    BY DEF Caller
  <2>2. pc[d] \notin {"locked", "posting"}
    BY <1>1, <2>1, InsideIsExclusive DEF Inside
  <2>3. pc[d] \in {"idle", "resolved", "queued"}
    BY <1>1, <2>2 DEF IInv, TypeOK, Location
  <2>4. pc'[d] # "posting"
    BY <1>1, <2>3 DEF IInv, TypeOK, Next, vars, Resolve, LookUp, Lock, Decline,
       RejectAttempt, BeginAttempt, FinishAttempt, Release, Tick
  <2>5. QED
    BY <2>3, <2>4
<1>2. QED
  BY <1>1, Inductive, PTL DEF Spec, ConfirmedUndisturbed

-----------------------------------------------------------------------------
(* The refinement of SpacedResets: steps that neither start nor end a      *)
(* POST, and leave the stamp the map shows for an account, stutter.        *)
Shown(i) == IF stateOf[i] = Nil THEN Never ELSE lastAttempt[stateOf[i]]

LEMMA Stutter ==
    ASSUME \A i \in Identity : Posting(i)' <=> Posting(i),
           \A i \in Identity : Shown(i)' = Shown(i)
    PROVE  LastReset' = LastReset
BY DEF LastReset, Shown

(* A POST that leaves is a Start: nobody else is posting for the account,  *)
(* and beginAttempt checked its stamp.                                     *)
LEMMA BeginStarts ==
    ASSUME IInv, NEW c \in Caller, NEW i \in Identity, ident[c] = i, BeginAttempt(c)
    PROVE  Promise!Start(i)
<1>1. stateOf[i] = ref[c] /\ ref[c] \in State /\ Inside(c)
  BY DEF IInv, RefCurrent, BeginAttempt, Inside
<1>2. ~Posting(i)
  BY InsideIsExclusive, <1>1 DEF Posting, Inside, BeginAttempt
<1>3. LastReset[i] = lastAttempt[ref[c]]
  BY <1>1, <1>2, GuardAssumption DEF LastReset
<1>4. LastReset[i] # Busy /\ (LastReset[i] # Never => clock - LastReset[i] >= Window)
  BY <1>1, <1>3, GuardAssumption DEF BeginAttempt, TooRecent, IInv, TypeOK
<1>5. Posting(i)' /\ \A j \in Identity \ {i} : Posting(j)' <=> Posting(j)
  BY <1>1 DEF Posting, BeginAttempt, IInv, TypeOK
<1>6. \A j \in Identity \ {i} : Shown(j)' = Shown(j)
  BY <1>1, GuardAssumption DEF Shown, BeginAttempt, IInv, TypeOK, ObjectsDistinct
<1>7. LastReset' = [LastReset EXCEPT ![i] = Busy]
  BY <1>1, <1>5, <1>6 DEF LastReset, Shown
<1>8. QED
  BY <1>4, <1>7 DEF Promise!Start, BeginAttempt

(* A POST that came back is a Finish: the account shows the time it ended. *)
LEMMA FinishFinishes ==
    ASSUME IInv, NEW c \in Caller, NEW i \in Identity, ident[c] = i, FinishAttempt(c)
    PROVE  Promise!Finish(i)
<1>1. stateOf[i] = ref[c] /\ ref[c] \in State /\ Inside(c)
  BY DEF IInv, RefCurrent, FinishAttempt, Inside
<1>2. LastReset[i] = Busy
  BY <1>1 DEF LastReset, Posting, FinishAttempt
<1>3. ~Posting(i)'
  BY <1>1, InsideIsExclusive DEF Posting, Inside, FinishAttempt, Release, IInv, TypeOK
<1>4. \A j \in Identity \ {i} : Posting(j)' <=> Posting(j)
  BY <1>1 DEF Posting, FinishAttempt, Release, IInv, TypeOK
<1>5. Shown(i)' = clock /\ \A j \in Identity \ {i} : Shown(j)' = Shown(j)
  BY <1>1, GuardAssumption DEF Shown, FinishAttempt, Release, IInv, TypeOK, ObjectsDistinct
<1>6. LastReset' = [LastReset EXCEPT ![i] = clock]
  BY <1>1, <1>3, <1>4, <1>5 DEF LastReset, Shown
<1>7. QED
  BY <1>2, <1>6 DEF Promise!Finish, FinishAttempt, Release

(* At most one reset per account at a time, and Window between them.       *)
THEOREM Spacing == Spec => ResetsSpaced
<1>1. Init => Promise!Init
  BY DEF Init, Promise!Init, LastReset, Posting
<1>2. ASSUME IInv, [Next]_vars PROVE [Promise!Next]_(Promise!vars)
  <2> USE <1>2 DEF IInv, TypeOK, Promise!vars
  <2>1. ASSUME NEW c \in Caller, Resolve(c) \/ Lock(c) \/ Decline(c) \/ RejectAttempt(c)
        PROVE  UNCHANGED Promise!vars
    <3>1. \A i \in Identity : Posting(i)' <=> Posting(i)
      BY <2>1 DEF Posting, Resolve, Lock, Decline, RejectAttempt, Release
    <3>2. \A i \in Identity : Shown(i)' = Shown(i)
      BY <2>1 DEF Shown, Resolve, Lock, Decline, RejectAttempt, Release
    <3>3. QED
      BY <2>1, <3>1, <3>2, Stutter DEF Resolve, Lock, Decline, RejectAttempt, Release
  <2>2. ASSUME NEW c \in Caller, LookUp(c) PROVE UNCHANGED Promise!vars
    <3>1. \A i \in Identity : Posting(i)' <=> Posting(i)
      BY <2>2 DEF Posting, LookUp
    <3>2. \A i \in Identity : Shown(i)' = Shown(i)
      BY <2>2, GuardAssumption DEF Shown, LookUp, Unused, RefCurrent
    <3>3. QED
      BY <2>2, <3>1, <3>2, Stutter DEF LookUp
  <2>3. ASSUME NEW c \in Caller, BeginAttempt(c) PROVE Promise!Next
    <3>1. ident[c] \in Identity
      BY <2>3 DEF BeginAttempt, RefCurrent
    <3>2. QED
      BY <2>3, <3>1, BeginStarts DEF Promise!Next
  <2>4. ASSUME NEW c \in Caller, FinishAttempt(c) PROVE Promise!Next
    <3>1. ident[c] \in Identity
      BY <2>4 DEF FinishAttempt, RefCurrent
    <3>2. QED
      BY <2>4, <3>1, FinishFinishes DEF Promise!Next
  <2>5. ASSUME Tick PROVE Promise!Next
    <3>1. LastReset' = LastReset
      BY <2>5, Stutter DEF Tick, Posting, Shown
    <3>2. QED
      BY <2>5, <3>1 DEF Tick, Promise!Next, Promise!Tick
  <2>6. ASSUME UNCHANGED vars PROVE UNCHANGED Promise!vars
    BY <2>6, Stutter DEF vars, Posting, Shown
  <2>7. QED
    BY <2>1, <2>2, <2>3, <2>4, <2>5, <2>6 DEF Next
<1>3. QED
  BY <1>1, <1>2, Inductive, PTL DEF Spec, ResetsSpaced, Promise!Spec

=============================================================================
