-------------------------- MODULE DashboardProofs --------------------------
(* The safety properties of Dashboard, proved for any number of requests,  *)
(* accounts, windows and places, whoever goes away and whatever fails.     *)
EXTENDS Dashboard, FiniteSetTheorems, WellFoundedInduction, TLAPS

\* Goroutines are started when everything is prepared and have returned when
\* the request is answered.
Stages ==
    \A d \in Request, a \in Account :
        /\ pc[d] \in {"idle", "preparing"} => task[d][a] = "none"
        /\ pc[d] = "answered" => task[d][a] \in {"none", "done"}

\* A goroutine that returns leaves a result, unless the client has gone.
Reported ==
    \A d \in Request, a \in Account :
        task[d][a] = "done" /\ ~gone[d] => result[d][a] # None

\* A goroutine that leads has its flight in the air, for its window.
LeadersFly ==
    \A d \in Request, a \in Account : task[d][a] = "leading" =>
        todo[d][a] # {} /\ flight[a][At(d, a)] = d

IInv ==
    /\ TypeOK
    /\ Stages
    /\ Reported
    /\ LeadersFly
    /\ FlightsLed

-----------------------------------------------------------------------------
Below == {p \in Nat \X Nat : p[1] < p[2]}

(* The next window of a goroutine is one it has not dealt with.            *)
LEMMA MinIsWindow ==
    ASSUME NEW W \in SUBSET Window, W # {}
    PROVE  Min(W) \in W /\ Min(W) \in Window
<1>1. IsWellFoundedOn(Below, Nat)
  BY NatLessThanWellFounded, Zenon DEF OpToRel, Below
<1>2. W \subseteq Nat
  BY DashboardAssumption DEF Window
<1>3. PICK x \in W : \A y \in W : ~(<<y, x>> \in Below)
  BY <1>1, <1>2, WFMin
<1>4. ASSUME NEW y \in W
      PROVE  x <= y
  <2>1. ~(y < x)
    BY <1>2, <1>3, Zenon DEF Below
  <2>2. QED
    BY <1>2, <2>1
<1>5. Min(W) \in W
  BY <1>4 DEF Min
<1>6. QED
  BY <1>5

(* A goroutine that goes from one place to another takes a place in the    *)
(* semaphore, gives one back, or neither.                                  *)
LEMMA Places ==
    ASSUME TypeOK, NEW d \in Request, NEW a \in Account, NEW place \in Task,
           Goto(d, a, place),
           NEW T, T = {b \in Account : task'[d][b] \in Active}
    PROVE  Cardinality(T) =
                 IF place \in Active
                 THEN IF task[d][a] \in Active THEN slots[d] ELSE slots[d] + 1
                 ELSE IF task[d][a] \in Active THEN slots[d] - 1 ELSE slots[d]
<1>1. \A b \in Account : task'[d][b] = IF b = a THEN place ELSE task[d][b]
  BY DEF TypeOK, Goto
<1>2. PICK S : S = {b \in Account : task[d][b] \in Active}
  OBVIOUS
<1>3. IsFiniteSet(S) /\ slots[d] = Cardinality(S)
  BY <1>2, DashboardAssumption, FS_Subset DEF TypeOK
<1>4. T = IF place \in Active THEN S \cup {a} ELSE S \ {a}
  BY <1>1, <1>2
<1>5. a \in S <=> task[d][a] \in Active
  BY <1>2
<1>6. /\ Cardinality(S \cup {a}) = IF a \in S THEN slots[d] ELSE slots[d] + 1
      /\ Cardinality(S \ {a}) = IF a \in S THEN slots[d] - 1 ELSE slots[d]
  BY <1>3, FS_AddElement, FS_RemoveElement
<1>7. QED
  BY <1>4, <1>5, <1>6

(* Nothing has started.                                                    *)
LEMMA InitIInv == Init => IInv
<1> SUFFICES ASSUME Init
             PROVE  IInv
  OBVIOUS
<1>1. \A d \in Request : slots[d] = Cardinality({a \in Account : task[d][a] \in Active})
  <2>1. ASSUME NEW d \in Request
        PROVE  slots[d] = Cardinality({a \in Account : task[d][a] \in Active})
    <3>1. {a \in Account : task[d][a] \in Active} = {}
      BY DEF Init, Active
    <3>2. QED
      BY <3>1, FS_EmptySet DEF Init
  <2>2. QED
    BY <2>1
<1>2. slots \in [Request -> 0..Concurrency]
  BY DashboardAssumption DEF Init
<1>3. TypeOK
  BY <1>1, <1>2 DEF Init, TypeOK, Task
<1>4. Stages /\ Reported /\ LeadersFly
  BY DEF Init, Stages, Reported, LeadersFly
<1>5. FlightsLed
  BY DEF Init, FlightsLed
<1>6. QED
  BY <1>3, <1>4, <1>5 DEF IInv

-----------------------------------------------------------------------------
(* Who is at work serves a request that is loading.                        *)
LEMMA Serving ==
    ASSUME IInv, NEW d \in Request, NEW a \in Account, task[d][a] \notin {"none", "done"}
    PROVE  pc[d] = "loading"
BY DEF IInv, TypeOK, Stages

\* The goroutine of d for a goes to place, leads no flight before or after,
\* and leaves flights and entries alone; W, h, x and n are what is then to do,
\* heard, reported and taken.
Moves(d, a, place, W, h, x, n) ==
    /\ task[d][a] \notin {"none", "leading", "done"}
    /\ place \in Task \ {"none", "leading"} /\ Goto(d, a, place)
    /\ W \in SUBSET Window /\ todo' = [todo EXCEPT ![d][a] = W]
    /\ h \in Outcome \cup {None} /\ heard' = [heard EXCEPT ![d][a] = h]
    /\ x \in {"usage", "error", None} /\ result' = [result EXCEPT ![d][a] = x]
    /\ n \in 0..Concurrency /\ slots' = [slots EXCEPT ![d] = n]
    /\ n = Cardinality({b \in Account : task'[d][b] \in Active})
    /\ place = "done" /\ ~gone[d] => x # None
    /\ place = "waiting" /\ h = None => W # {} /\ flight[a][Min(W)] \notin {d, None}
    /\ UNCHANGED <<pc, force, gone, flight, entry>>

(* Such a move keeps the invariant.                                        *)
LEMMA MoveIInv ==
    ASSUME IInv, NEW d \in Request, NEW a \in Account, NEW place, NEW W, NEW h, NEW x, NEW n,
           Moves(d, a, place, W, h, x, n)
    PROVE  IInv'
<1> USE DEF Moves
<1>1. /\ task' \in [Request -> [Account -> Task]]
      /\ task'[d][a] = place
      /\ \A e \in Request, b \in Account : e # d \/ b # a => task'[e][b] = task[e][b]
      /\ \A e \in Request : e # d => task'[e] = task[e]
  BY DEF IInv, TypeOK, Goto
<1>2. /\ todo' \in [Request -> [Account -> SUBSET Window]]
      /\ todo'[d][a] = W
      /\ \A e \in Request, b \in Account : e # d \/ b # a => todo'[e][b] = todo[e][b]
  BY DEF IInv, TypeOK
<1>3. /\ heard' \in [Request -> [Account -> Outcome \cup {None}]]
      /\ heard'[d][a] = h
      /\ \A e \in Request, b \in Account : e # d \/ b # a => heard'[e][b] = heard[e][b]
  BY DEF IInv, TypeOK
<1>4. /\ result' \in [Request -> [Account -> {"usage", "error", None}]]
      /\ result'[d][a] = x
      /\ \A e \in Request, b \in Account : e # d \/ b # a => result'[e][b] = result[e][b]
  BY DEF IInv, TypeOK
<1>5. /\ slots' \in [Request -> 0..Concurrency]
      /\ \A e \in Request :
            slots'[e] = Cardinality({b \in Account : task'[e][b] \in Active})
  <2>1. slots \in [Request -> 0..Concurrency] /\ n \in 0..Concurrency
    BY DashboardAssumption DEF IInv, TypeOK
  <2>2. slots' \in [Request -> 0..Concurrency]
    BY <2>1
  <2>3. ASSUME NEW e \in Request
        PROVE  slots'[e] = Cardinality({b \in Account : task'[e][b] \in Active})
    <3>1. CASE e = d
      BY <2>1, <3>1
    <3>2. CASE e # d
      <4>1. slots[e] = Cardinality({b \in Account : task[e][b] \in Active})
        BY DEF IInv, TypeOK
      <4>2. slots'[e] = slots[e] /\ task'[e] = task[e]
        BY <1>1, <2>1, <3>2
      <4>3. QED
        BY <4>1, <4>2
    <3>3. QED
      BY <3>1, <3>2
  <2>4. QED
    BY <2>2, <2>3
<1>6. TypeOK'
  BY <1>1, <1>2, <1>3, <1>4, <1>5 DEF IInv, TypeOK
<1>7. Stages'
  BY <1>1, Serving DEF IInv, Stages
<1>8. Reported'
  <2>1. ASSUME NEW e \in Request, NEW b \in Account, task'[e][b] = "done", ~gone[e]
        PROVE  result'[e][b] # None
    BY <1>1, <1>4, <2>1 DEF IInv, Reported
  <2>2. QED
    BY <2>1 DEF Reported
<1>9. LeadersFly'
  BY <1>1, <1>2 DEF IInv, LeadersFly, At
<1>10. FlightsLed'
  <2>1. ASSUME NEW b \in Account, NEW w \in Window, flight[b][w] # None
        PROVE  /\ task'[flight[b][w]][b] = "leading" /\ todo'[flight[b][w]][b] # {}
               /\ Min(todo'[flight[b][w]][b]) = w
    <3>1. PICK e \in Request : e = flight[b][w]
      BY <2>1 DEF IInv, TypeOK
    <3>2. task[e][b] = "leading" /\ todo[e][b] # {} /\ Min(todo[e][b]) = w
      BY <2>1, <3>1 DEF IInv, FlightsLed, At
    <3>3. e # d \/ b # a
      BY <3>2
    <3>4. QED
      BY <1>1, <1>2, <3>1, <3>2, <3>3
  <2>2. ASSUME NEW e \in Request, NEW b \in Account,
               task'[e][b] = "waiting", heard'[e][b] = None
        PROVE  todo'[e][b] # {} /\ flight[b][Min(todo'[e][b])] \notin {e, None}
    BY <1>1, <1>2, <1>3, <2>2 DEF IInv, FlightsLed, At
  <2>3. QED
    BY <2>1, <2>2 DEF FlightsLed, At
<1>11. QED
  BY <1>6, <1>7, <1>8, <1>9, <1>10 DEF IInv

(* What a goroutine keeps while it moves.                                  *)
LEMMA Keeps ==
    ASSUME IInv, NEW d \in Request, NEW a \in Account
    PROVE  /\ todo[d][a] \in SUBSET Window /\ todo = [todo EXCEPT ![d][a] = todo[d][a]]
           /\ heard[d][a] \in Outcome \cup {None}
           /\ heard = [heard EXCEPT ![d][a] = heard[d][a]]
           /\ result[d][a] \in {"usage", "error", None}
           /\ result = [result EXCEPT ![d][a] = result[d][a]]
           /\ slots[d] \in 0..Concurrency
           /\ slots = [slots EXCEPT ![d] = slots[d]]
           /\ task[d][a] \in Active => slots[d] - 1 \in 0..Concurrency
<1>1. /\ todo[d][a] \in SUBSET Window /\ todo = [todo EXCEPT ![d][a] = todo[d][a]]
      /\ heard[d][a] \in Outcome \cup {None}
      /\ heard = [heard EXCEPT ![d][a] = heard[d][a]]
      /\ result[d][a] \in {"usage", "error", None}
      /\ result = [result EXCEPT ![d][a] = result[d][a]]
  BY DEF IInv, TypeOK
<1>2. /\ slots[d] \in 0..Concurrency /\ Concurrency \in Nat
      /\ slots = [slots EXCEPT ![d] = slots[d]]
  BY DashboardAssumption DEF IInv, TypeOK
<1>3. ASSUME task[d][a] \in Active
      PROVE  slots[d] - 1 \in 0..Concurrency
  <2>1. PICK S : S = {b \in Account : task[d][b] \in Active}
    OBVIOUS
  <2>2. IsFiniteSet(S) /\ slots[d] = Cardinality(S) /\ a \in S
    BY <1>3, <2>1, DashboardAssumption, FS_Subset DEF IInv, TypeOK
  <2>3. slots[d] # 0
    BY <2>2, FS_EmptySet
  <2>4. QED
    BY <1>2, <2>3
<1>4. QED
  BY <1>1, <1>2, <1>3

-----------------------------------------------------------------------------
(* A goroutine takes a place when there is one.                            *)
LEMMA AcquireIInv ==
    ASSUME IInv, NEW d \in Request, NEW a \in Account, Acquire(d, a)
    PROVE  IInv'
<1>1. PICK W \in SUBSET Window : W = todo[d][a] /\ todo' = [todo EXCEPT ![d][a] = W]
  BY Keeps DEF Acquire
<1>2. PICK h \in Outcome \cup {None} :
        h = heard[d][a] /\ heard' = [heard EXCEPT ![d][a] = h]
  BY Keeps DEF Acquire
<1>3. PICK x \in {"usage", "error", None} :
        x = result[d][a] /\ result' = [result EXCEPT ![d][a] = x]
  BY Keeps DEF Acquire
<1>4. PICK n \in 0..Concurrency : n = slots[d] + 1
  <2>1. slots[d] \in 0..Concurrency /\ Concurrency \in Nat /\ slots[d] < Concurrency
    BY Keeps, DashboardAssumption DEF Acquire
  <2>2. QED
    BY <2>1
<1>5. slots' = [slots EXCEPT ![d] = n]
  BY <1>4 DEF Acquire
<1>6. /\ task[d][a] = "queued" /\ Goto(d, a, "querying")
      /\ UNCHANGED <<pc, force, gone, flight, entry>>
  BY DEF Acquire
<1>7. PICK place \in Task \ {"none", "leading"} : place = "querying"
  BY DEF Task
<1>8. PICK T : T = {b \in Account : task'[d][b] \in Active}
  OBVIOUS
<1>9. Cardinality(T) = n
  <2>1. "querying" \in Active /\ "queued" \notin Active
    BY DEF Task, Active
  <2>2. Cardinality(T) = slots[d] + 1
    BY <1>6, <1>7, <1>8, <2>1, Places DEF IInv
  <2>3. QED
    BY <1>4, <2>2
<1>10. Moves(d, a, place, W, h, x, n)
  BY <1>1, <1>2, <1>3, <1>4, <1>5, <1>6, <1>7, <1>8, <1>9 DEF Moves, Task, Active
<1>11. QED
  BY <1>10, MoveIInv

(* A goroutine returns with a result and gives its place back.             *)
LEMMA FinishIInv ==
    ASSUME IInv, NEW d \in Request, NEW a \in Account,
           task[d][a] \in Active \ {"leading"}, NEW x \in {"usage", "error"},
           Finish(d, a, x),
           UNCHANGED <<pc, force, gone, todo, heard, flight, entry>>
    PROVE  IInv'
<1>1. PICK W \in SUBSET Window : W = todo[d][a] /\ todo' = [todo EXCEPT ![d][a] = W]
  BY Keeps
<1>2. PICK h \in Outcome \cup {None} :
        h = heard[d][a] /\ heard' = [heard EXCEPT ![d][a] = h]
  BY Keeps
<1>3. /\ x \in {"usage", "error", None} /\ x # None
      /\ result' = [result EXCEPT ![d][a] = x] /\ Goto(d, a, "done")
  BY DashboardAssumption DEF Finish
<1>4. PICK n \in 0..Concurrency : n = slots[d] - 1
  BY Keeps
<1>5. slots' = [slots EXCEPT ![d] = n]
  BY <1>4 DEF Finish
<1>6. PICK place \in Task \ {"none", "leading"} : place = "done"
  BY DEF Task
<1>7. PICK T : T = {b \in Account : task'[d][b] \in Active}
  OBVIOUS
<1>8. Cardinality(T) = n
  <2>1. "done" \notin Active
    BY DEF Task, Active
  <2>2. Cardinality(T) = slots[d] - 1
    BY <1>3, <1>6, <1>7, <2>1, Places DEF IInv
  <2>3. QED
    BY <1>4, <2>2
<1>9. Moves(d, a, place, W, h, x, n)
  BY <1>1, <1>2, <1>3, <1>4, <1>5, <1>6, <1>7, <1>8 DEF Moves, Task, Active
<1>10. QED
  BY <1>9, MoveIInv

(* A goroutine goes on without a result, with or without the window it is  *)
(* at, and waits only for a flight that another request leads.             *)
LEMMA GoOnIInv ==
    ASSUME IInv, NEW d \in Request, NEW a \in Account,
           task[d][a] \in Active \ {"leading"},
           NEW place \in {"asking", "waiting"}, Goto(d, a, place),
           NEW W \in SUBSET Window, todo' = [todo EXCEPT ![d][a] = W],
           NEW h \in Outcome \cup {None}, heard' = [heard EXCEPT ![d][a] = h],
           place = "waiting" => W # {} /\ flight[a][Min(W)] \notin {d, None},
           UNCHANGED <<pc, force, gone, result, slots, flight, entry>>
    PROVE  IInv'
<1>1. PICK x \in {"usage", "error", None} :
        x = result[d][a] /\ result' = [result EXCEPT ![d][a] = x]
  BY Keeps
<1>2. PICK n \in 0..Concurrency : n = slots[d] /\ slots' = [slots EXCEPT ![d] = n]
  BY Keeps
<1>3. /\ task[d][a] \notin {"none", "leading", "done"} /\ place # "done"
      /\ place \in Task \ {"none", "leading"} /\ place \in Active
  BY DEF Task, Active
<1>4. PICK T : T = {b \in Account : task'[d][b] \in Active}
  OBVIOUS
<1>5. Cardinality(T) = n
  BY <1>2, <1>3, <1>4, Places DEF IInv
<1>6. Moves(d, a, place, W, h, x, n)
  BY <1>1, <1>2, <1>3, <1>4, <1>5 DEF Moves, Task, Active
<1>7. QED
  BY <1>6, MoveIInv

(* A goroutine whose client has gone returns without having had a place.   *)
LEMMA AbandonIInv ==
    ASSUME IInv, NEW d \in Request, NEW a \in Account, Abandon(d, a)
    PROVE  IInv'
<1>1. PICK W \in SUBSET Window : W = todo[d][a] /\ todo' = [todo EXCEPT ![d][a] = W]
  BY Keeps DEF Abandon
<1>2. PICK h \in Outcome \cup {None} :
        h = heard[d][a] /\ heard' = [heard EXCEPT ![d][a] = h]
  BY Keeps DEF Abandon
<1>3. PICK x \in {"usage", "error", None} :
        x = result[d][a] /\ result' = [result EXCEPT ![d][a] = x]
  BY Keeps DEF Abandon
<1>4. PICK n \in 0..Concurrency : n = slots[d] /\ slots' = [slots EXCEPT ![d] = n]
  BY Keeps DEF Abandon
<1>5. /\ task[d][a] = "queued" /\ Goto(d, a, "done") /\ gone[d]
      /\ UNCHANGED <<pc, force, gone, flight, entry>>
  BY DEF Abandon
<1>6. PICK place \in Task \ {"none", "leading"} : place = "done"
  BY DEF Task
<1>7. PICK T : T = {b \in Account : task'[d][b] \in Active}
  OBVIOUS
<1>8. Cardinality(T) = n
  <2>1. "done" \notin Active /\ "queued" \notin Active
    BY DEF Task, Active
  <2>2. QED
    BY <1>4, <1>5, <1>6, <1>7, <2>1, Places DEF IInv
<1>9. Moves(d, a, place, W, h, x, n)
  BY <1>1, <1>2, <1>3, <1>4, <1>5, <1>6, <1>7, <1>8 DEF Moves, Task, Active
<1>10. QED
  BY <1>9, MoveIInv

(* The usage is asked for: the goroutine fails, or gets its windows.       *)
LEMMA QueryUsageIInv ==
    ASSUME IInv, NEW d \in Request, NEW a \in Account, QueryUsage(d, a)
    PROVE  IInv'
<1>1. /\ task[d][a] \in Active \ {"leading"}
      /\ UNCHANGED <<pc, force, gone, heard, flight, entry>>
  BY DEF QueryUsage, Task, Active
<1>2. CASE Finish(d, a, "error") /\ UNCHANGED todo
  BY <1>1, <1>2, FinishIInv
<1>3. CASE /\ \E W \in SUBSET Window : todo' = [todo EXCEPT ![d][a] = W]
           /\ Goto(d, a, "asking")
           /\ UNCHANGED <<result, slots>>
  <2>1. PICK W \in SUBSET Window : todo' = [todo EXCEPT ![d][a] = W]
    BY <1>3
  <2>2. PICK h \in Outcome \cup {None} : heard' = [heard EXCEPT ![d][a] = h]
    BY <1>1, Keeps
  <2>3. QED
    BY <1>1, <1>3, <2>1, <2>2, GoOnIInv
<1>4. QED
  BY <1>2, <1>3 DEF QueryUsage

(* All windows are dealt with.                                             *)
LEMMA CompleteIInv ==
    ASSUME IInv, NEW d \in Request, NEW a \in Account, Complete(d, a)
    PROVE  IInv'
<1>1. task[d][a] \in Active \ {"leading"}
  BY DEF Complete, Task, Active
<1>2. QED
  BY <1>1, FinishIInv DEF Complete

(* An entry is found for the window.                                       *)
LEMMA HitIInv ==
    ASSUME IInv, NEW d \in Request, NEW a \in Account, Hit(d, a)
    PROVE  IInv'
<1>1. /\ task[d][a] \in Active \ {"leading"} /\ Goto(d, a, "asking")
      /\ UNCHANGED <<pc, force, gone, heard, result, slots, flight, entry>>
  BY DEF Hit, NextWindow, Task, Active
<1>2. PICK W \in SUBSET Window : todo' = [todo EXCEPT ![d][a] = W]
  BY Keeps DEF Hit, NextWindow
<1>3. PICK h \in Outcome \cup {None} : heard' = [heard EXCEPT ![d][a] = h]
  BY <1>1, Keeps
<1>4. QED
  BY <1>1, <1>2, <1>3, GoOnIInv

(* A flight is found for the window. It is another request's: this one is  *)
(* not leading.                                                            *)
LEMMA JoinIInv ==
    ASSUME IInv, NEW d \in Request, NEW a \in Account, Join(d, a)
    PROVE  IInv'
<1>1. /\ task[d][a] = "asking" /\ task[d][a] \in Active \ {"leading"}
      /\ Goto(d, a, "waiting")
      /\ heard' = [heard EXCEPT ![d][a] = None]
      /\ UNCHANGED <<pc, force, gone, result, slots, flight, entry>>
  BY DEF Join, Task, Active
<1>2. PICK W \in SUBSET Window : /\ W = todo[d][a] /\ W # {}
                                 /\ todo' = [todo EXCEPT ![d][a] = W]
                                 /\ flight[a][Min(W)] # None
  BY Keeps DEF Join, At
<1>3. PICK w \in Window : w = Min(W)
  BY <1>2, MinIsWindow
<1>4. flight[a][w] # d
  BY <1>1, <1>2, <1>3 DEF IInv, FlightsLed
<1>5. QED
  BY <1>1, <1>2, <1>3, <1>4, GoOnIInv

(* A follower wakes and takes the outcome, or asks again.                  *)
LEMMA WakeIInv ==
    ASSUME IInv, NEW d \in Request, NEW a \in Account, Wake(d, a)
    PROVE  IInv'
<1>1. /\ task[d][a] \in Active \ {"leading"}
      /\ Goto(d, a, "asking")
      /\ heard' = [heard EXCEPT ![d][a] = None]
      /\ UNCHANGED <<pc, force, gone, result, slots, flight, entry>>
  BY DEF Wake, NextWindow, Task, Active
<1>2. PICK W \in SUBSET Window : todo' = [todo EXCEPT ![d][a] = W]
  <2>1. /\ todo[d][a] \in SUBSET Window /\ todo[d][a] \ {At(d, a)} \in SUBSET Window
        /\ todo = [todo EXCEPT ![d][a] = todo[d][a]]
    BY Keeps
  <2>2. \/ UNCHANGED todo
        \/ todo' = [todo EXCEPT ![d][a] = todo[d][a] \ {At(d, a)}]
    BY DEF Wake, NextWindow
  <2>3. QED
    BY <2>1, <2>2
<1>3. QED
  BY <1>1, <1>2, GoOnIInv

(* A follower gives up.                                                    *)
LEMMA GiveUpIInv ==
    ASSUME IInv, NEW d \in Request, NEW a \in Account, GiveUp(d, a)
    PROVE  IInv'
<1>1. /\ task[d][a] \in Active \ {"leading"}
      /\ Goto(d, a, "asking")
      /\ heard' = [heard EXCEPT ![d][a] = None]
      /\ UNCHANGED <<pc, force, gone, result, slots, flight, entry>>
  BY DEF GiveUp, NextWindow, Task, Active
<1>2. PICK W \in SUBSET Window : todo' = [todo EXCEPT ![d][a] = W]
  BY Keeps DEF GiveUp, NextWindow
<1>3. QED
  BY <1>1, <1>2, GoOnIInv

(* A goroutine that has windows left is at one of them.                    *)
LEMMA AtIsWindow ==
    ASSUME IInv, NEW d \in Request, NEW a \in Account, todo[d][a] # {}
    PROVE  \E w \in Window : w = Min(todo[d][a])
<1>1. PICK W \in SUBSET Window : W = todo[d][a]
  BY DEF IInv, TypeOK
<1>2. Min(W) \in Window
  BY <1>1, MinIsWindow
<1>3. QED
  BY <1>1, <1>2

(* A flight begins: there was none for the window, and nobody waits for it *)
(* yet.                                                                    *)
LEMMA LeadIInv ==
    ASSUME IInv, NEW d \in Request, NEW a \in Account, Lead(d, a)
    PROVE  IInv'
<1>1. PICK w \in Window : w = Min(todo[d][a])
  BY AtIsWindow DEF Lead
<1>2. /\ task[d][a] = "asking" /\ todo[d][a] # {} /\ flight[a][w] = None
      /\ task' = [task EXCEPT ![d][a] = "leading"]
      /\ flight' = [flight EXCEPT ![a][w] = d]
      /\ UNCHANGED <<pc, force, gone, todo, heard, result, slots, entry>>
  BY <1>1 DEF Lead, Goto, At
<1>3. /\ task' \in [Request -> [Account -> Task]]
      /\ task'[d][a] = "leading"
      /\ \A e \in Request, b \in Account : e # d \/ b # a => task'[e][b] = task[e][b]
  BY <1>2 DEF IInv, TypeOK, Task
<1>4. /\ flight' \in [Account -> [Window -> Request \cup {None}]]
      /\ flight'[a][w] = d
      /\ \A b \in Account, v \in Window : b # a \/ v # w => flight'[b][v] = flight[b][v]
  BY <1>2 DEF IInv, TypeOK
<1>5. TypeOK'
  <2>1. ASSUME NEW e \in Request
        PROVE  slots[e] = Cardinality({b \in Account : task'[e][b] \in Active})
    <3>1. {b \in Account : task'[e][b] \in Active} = {b \in Account : task[e][b] \in Active}
      BY <1>2, <1>3 DEF Active, Task
    <3>2. QED
      BY <3>1 DEF IInv, TypeOK
  <2>2. QED
    BY <1>2, <1>3, <1>4, <2>1 DEF IInv, TypeOK
<1>6. Stages'
  BY <1>2, <1>3, Serving DEF IInv, Stages
<1>7. Reported'
  <2>1. ASSUME NEW e \in Request, NEW b \in Account, task'[e][b] = "done"
        PROVE  task[e][b] = "done"
    BY <1>3, <2>1
  <2>2. QED
    BY <1>2, <2>1 DEF IInv, Reported
<1>8. \A e \in Request, b \in Account, v \in Window :
        flight[b][v] # None => b # a \/ v # w
  BY <1>2
<1>9. LeadersFly'
  <2>1. ASSUME NEW e \in Request, NEW b \in Account, task'[e][b] = "leading"
        PROVE  todo[e][b] # {} /\ flight'[b][Min(todo[e][b])] = e
    <3>1. CASE e = d /\ b = a
      BY <1>1, <1>2, <1>4, <3>1
    <3>2. CASE ~(e = d /\ b = a)
      <4>1. task[e][b] = "leading"
        BY <1>3, <2>1, <3>2
      <4>2. todo[e][b] # {} /\ flight[b][Min(todo[e][b])] = e
        BY <4>1 DEF IInv, LeadersFly, At
      <4>3. PICK v \in Window : v = Min(todo[e][b])
        BY <4>2, AtIsWindow
      <4>4. e # None
        BY DashboardAssumption
      <4>5. QED
        BY <1>4, <1>8, <4>2, <4>3, <4>4
    <3>3. QED
      BY <3>1, <3>2
  <2>2. QED
    BY <1>2, <2>1 DEF LeadersFly, At
<1>10. FlightsLed'
  <2>1. ASSUME NEW b \in Account, NEW v \in Window, flight'[b][v] # None
        PROVE  /\ task'[flight'[b][v]][b] = "leading" /\ todo[flight'[b][v]][b] # {}
               /\ Min(todo[flight'[b][v]][b]) = v
    <3>1. CASE b = a /\ v = w
      BY <1>1, <1>2, <1>3, <1>4, <3>1
    <3>2. CASE ~(b = a /\ v = w)
      <4>1. flight'[b][v] = flight[b][v]
        BY <1>4, <3>2
      <4>2. PICK e \in Request : e = flight[b][v]
        BY <2>1, <4>1 DEF IInv, TypeOK
      <4>3. task[e][b] = "leading" /\ todo[e][b] # {} /\ Min(todo[e][b]) = v
        BY <2>1, <4>1, <4>2 DEF IInv, FlightsLed, At
      <4>4. task'[e][b] = "leading"
        BY <1>2, <1>3, <4>3
      <4>5. QED
        BY <4>1, <4>2, <4>3, <4>4
    <3>3. QED
      BY <3>1, <3>2
  <2>2. ASSUME NEW e \in Request, NEW b \in Account,
               task'[e][b] = "waiting", heard[e][b] = None
        PROVE  todo[e][b] # {} /\ flight'[b][Min(todo[e][b])] \notin {e, None}
    <3>1. task[e][b] = "waiting"
      BY <1>3, <2>2
    <3>2. todo[e][b] # {} /\ flight[b][Min(todo[e][b])] \notin {e, None}
      BY <2>2, <3>1 DEF IInv, FlightsLed, At
    <3>3. PICK v \in Window : v = Min(todo[e][b])
      BY <3>2, AtIsWindow
    <3>4. QED
      BY <1>4, <1>8, <3>2, <3>3
  <2>3. QED
    BY <1>2, <2>1, <2>2 DEF FlightsLed, At
<1>11. QED
  BY <1>5, <1>6, <1>7, <1>9, <1>10 DEF IInv

(* A flight ends: its leader goes on, and nobody waits for it any more.    *)
LEMMA LoadIInv ==
    ASSUME IInv, NEW d \in Request, NEW a \in Account, Load(d, a)
    PROVE  IInv'
<1>1. task[d][a] = "leading" /\ todo[d][a] # {} /\ flight[a][Min(todo[d][a])] = d
  BY DEF Load, IInv, LeadersFly, At
<1>2. PICK w \in Window : w = Min(todo[d][a])
  BY <1>1, AtIsWindow
<1>3. PICK ok \in BOOLEAN : /\ entry' = [entry EXCEPT ![a][w] = ok]
                            /\ Tell(d, a, [ok |-> ok, force |-> force[d]])
  BY <1>2 DEF Load, At
<1>4. PICK x \in Outcome : x = [ok |-> ok, force |-> force[d]]
  BY DEF Outcome, IInv, TypeOK
<1>5. /\ flight' = [flight EXCEPT ![a][w] = None]
      /\ todo' = [todo EXCEPT ![d][a] = @ \ {w}]
      /\ task' = [task EXCEPT ![d][a] = "asking"]
      /\ UNCHANGED <<pc, force, gone, result, slots>>
  BY <1>2 DEF Load, NextWindow, Goto, At
<1>6. heard' = [e \in Request |-> [heard[e] EXCEPT ![a] = IF Follows(e, a, w) THEN x ELSE @]]
  BY <1>2, <1>3, <1>4 DEF Tell, At
<1>7. /\ task' \in [Request -> [Account -> Task]]
      /\ task'[d][a] = "asking"
      /\ \A e \in Request, b \in Account : e # d \/ b # a => task'[e][b] = task[e][b]
  BY <1>5 DEF IInv, TypeOK, Task
<1>8. /\ todo' \in [Request -> [Account -> SUBSET Window]]
      /\ \A e \in Request, b \in Account : e # d \/ b # a => todo'[e][b] = todo[e][b]
  BY <1>5 DEF IInv, TypeOK
<1>9. /\ flight' \in [Account -> [Window -> Request \cup {None}]]
      /\ flight'[a][w] = None
      /\ \A b \in Account, v \in Window : b # a \/ v # w => flight'[b][v] = flight[b][v]
  BY <1>5 DEF IInv, TypeOK
<1>10. /\ heard' \in [Request -> [Account -> Outcome \cup {None}]]
       /\ \A e \in Request, b \in Account : b # a => heard'[e][b] = heard[e][b]
       /\ \A e \in Request : heard'[e][a] = IF Follows(e, a, w) THEN x ELSE heard[e][a]
  BY <1>6 DEF IInv, TypeOK
<1>11. entry' \in [Account -> [Window -> BOOLEAN \cup {None}]]
  BY <1>3 DEF IInv, TypeOK
<1>12. TypeOK'
  <2>1. ASSUME NEW e \in Request
        PROVE  slots[e] = Cardinality({b \in Account : task'[e][b] \in Active})
    <3>1. {b \in Account : task'[e][b] \in Active} = {b \in Account : task[e][b] \in Active}
      BY <1>1, <1>7 DEF Active, Task
    <3>2. QED
      BY <3>1 DEF IInv, TypeOK
  <2>2. QED
    BY <1>5, <1>7, <1>8, <1>9, <1>10, <1>11, <2>1 DEF IInv, TypeOK
<1>13. Stages'
  BY <1>1, <1>5, <1>7, Serving DEF IInv, Stages
<1>14. Reported'
  <2>1. ASSUME NEW e \in Request, NEW b \in Account, task'[e][b] = "done"
        PROVE  task[e][b] = "done"
    BY <1>7, <2>1
  <2>2. QED
    BY <1>5, <2>1 DEF IInv, Reported
<1>15. LeadersFly'
  <2>1. ASSUME NEW e \in Request, NEW b \in Account, task'[e][b] = "leading"
        PROVE  todo'[e][b] # {} /\ flight'[b][Min(todo'[e][b])] = e
    <3>1. (e # d \/ b # a) /\ task[e][b] = "leading" /\ todo'[e][b] = todo[e][b]
      BY <1>7, <1>8, <2>1
    <3>2. todo[e][b] # {} /\ flight[b][Min(todo[e][b])] = e
      BY <3>1 DEF IInv, LeadersFly, At
    <3>3. PICK v \in Window : v = Min(todo[e][b])
      BY <3>2, AtIsWindow
    <3>4. b # a \/ v # w
      BY <1>1, <1>2, <3>1, <3>2, <3>3
    <3>5. QED
      BY <1>9, <3>1, <3>2, <3>3, <3>4
  <2>2. QED
    BY <2>1 DEF LeadersFly, At
<1>16. FlightsLed'
  <2>1. ASSUME NEW b \in Account, NEW v \in Window, flight'[b][v] # None
        PROVE  /\ task'[flight'[b][v]][b] = "leading" /\ todo'[flight'[b][v]][b] # {}
               /\ Min(todo'[flight'[b][v]][b]) = v
    <3>1. (b # a \/ v # w) /\ flight'[b][v] = flight[b][v]
      BY <1>9, <2>1
    <3>2. PICK e \in Request : e = flight[b][v]
      BY <2>1, <3>1 DEF IInv, TypeOK
    <3>3. task[e][b] = "leading" /\ todo[e][b] # {} /\ Min(todo[e][b]) = v
      BY <2>1, <3>1, <3>2 DEF IInv, FlightsLed, At
    <3>4. e # d \/ b # a
      BY <1>2, <3>1, <3>3
    <3>5. QED
      BY <1>7, <1>8, <3>1, <3>2, <3>3, <3>4
  <2>2. ASSUME NEW e \in Request, NEW b \in Account,
               task'[e][b] = "waiting", heard'[e][b] = None
        PROVE  todo'[e][b] # {} /\ flight'[b][Min(todo'[e][b])] \notin {e, None}
    <3>1. task[e][b] = "waiting" /\ todo'[e][b] = todo[e][b]
      BY <1>7, <1>8, <2>2
    <3>2. x # None
      BY DashboardAssumption
    <3>3. heard[e][b] = None /\ (b = a => ~Follows(e, a, w))
      BY <1>10, <2>2, <3>2
    <3>4. todo[e][b] # {} /\ flight[b][Min(todo[e][b])] \notin {e, None}
      BY <3>1, <3>3 DEF IInv, FlightsLed, At
    <3>5. PICK v \in Window : v = Min(todo[e][b])
      BY <3>4, AtIsWindow
    <3>6. b # a \/ v # w
      BY <3>1, <3>3, <3>5 DEF Follows, At
    <3>7. QED
      BY <1>9, <3>1, <3>4, <3>5, <3>6
  <2>3. QED
    BY <2>1, <2>2 DEF FlightsLed, At
<1>17. QED
  BY <1>12, <1>13, <1>14, <1>15, <1>16 DEF IInv

-----------------------------------------------------------------------------
(* Steps that move no goroutine and end no flight keep what is true of     *)
(* flights.                                                                *)
LEMMA Still ==
    ASSUME IInv, UNCHANGED <<task, todo, heard, flight>>
    PROVE  LeadersFly' /\ FlightsLed'
<1>1. LeadersFly'
  BY DEF IInv, LeadersFly, At
<1>2. FlightsLed'
  BY DEF IInv, FlightsLed, At
<1>3. QED
  BY <1>1, <1>2

(* A request arrives.                                                      *)
LEMMA ReceiveIInv ==
    ASSUME IInv, NEW d \in Request, Receive(d)
    PROVE  IInv'
<1>1. PICK f \in BOOLEAN : force' = [force EXCEPT ![d] = f]
  BY DEF Receive
<1>2. /\ pc[d] = "idle" /\ pc' = [pc EXCEPT ![d] = "preparing"]
      /\ UNCHANGED <<gone, task, todo, heard, result, slots, flight, entry>>
  BY DEF Receive, goroutines
<1>3. force' \in [Request -> BOOLEAN]
  BY <1>1 DEF IInv, TypeOK
<1>4. TypeOK'
  BY <1>2, <1>3 DEF IInv, TypeOK
<1>5. Stages' /\ Reported'
  BY <1>2 DEF IInv, TypeOK, Stages, Reported
<1>6. QED
  BY <1>2, <1>4, <1>5, Still DEF IInv

(* The handler has failed, or starts a goroutine for each account. There   *)
(* was none before, so none was at work.                                   *)
LEMMA PrepareIInv ==
    ASSUME IInv, NEW d \in Request, Prepare(d)
    PROVE  IInv'
<1>1. /\ pc[d] = "preparing"
      /\ UNCHANGED <<force, gone, todo, heard, result, slots, flight, entry>>
  BY DEF Prepare
<1>2. CASE pc' = [pc EXCEPT ![d] = "answered"] /\ task' = task
  <2>1. TypeOK'
    BY <1>1, <1>2 DEF IInv, TypeOK
  <2>2. Stages' /\ Reported'
    BY <1>1, <1>2 DEF IInv, TypeOK, Stages, Reported
  <2>3. QED
    BY <1>1, <1>2, <2>1, <2>2, Still DEF IInv
<1>3. CASE /\ pc' = [pc EXCEPT ![d] = "loading"]
           /\ \E accounts \in SUBSET Account :
                 task' = [task EXCEPT ![d] =
                     [a \in Account |-> IF a \in accounts THEN "queued" ELSE "none"]]
  <2>1. /\ task' \in [Request -> [Account -> Task]]
        /\ \A a \in Account : task[d][a] = "none" /\ task'[d][a] \in {"queued", "none"}
        /\ \A e \in Request : e # d => task'[e] = task[e]
    BY <1>1, <1>3 DEF IInv, TypeOK, Stages, Task
  <2>2. ASSUME NEW e \in Request
        PROVE  slots[e] = Cardinality({b \in Account : task'[e][b] \in Active})
    <3>1. {b \in Account : task'[e][b] \in Active} = {b \in Account : task[e][b] \in Active}
      BY <2>1 DEF Active
    <3>2. QED
      BY <3>1 DEF IInv, TypeOK
  <2>3. pc' \in [Request -> {"idle", "preparing", "loading", "answered"}]
    BY <1>3 DEF IInv, TypeOK
  <2>4. TypeOK'
    BY <1>1, <2>1, <2>2, <2>3 DEF IInv, TypeOK
  <2>5. \A e \in Request, b \in Account :
          task'[e][b] \notin {"queued", "none"} => e # d /\ task'[e][b] = task[e][b]
    BY <2>1
  <2>6. \A e \in Request, b \in Account : task[e][b] # "none" => task'[e][b] = task[e][b]
    BY <2>1
  <2>7. Stages'
    BY <1>3, <2>1 DEF IInv, TypeOK, Stages
  <2>8. Reported'
    BY <1>1, <2>5 DEF IInv, Reported
  <2>9. LeadersFly'
    BY <1>1, <2>5 DEF IInv, LeadersFly, At
  <2>10. FlightsLed'
    <3>1. ASSUME NEW b \in Account, NEW v \in Window, flight[b][v] # None
          PROVE  /\ task'[flight[b][v]][b] = "leading" /\ todo[flight[b][v]][b] # {}
                 /\ Min(todo[flight[b][v]][b]) = v
      <4>1. PICK e \in Request : e = flight[b][v]
        BY <3>1 DEF IInv, TypeOK
      <4>2. task[e][b] = "leading" /\ todo[e][b] # {} /\ Min(todo[e][b]) = v
        BY <3>1, <4>1 DEF IInv, FlightsLed, At
      <4>3. QED
        BY <2>6, <4>1, <4>2
    <3>2. ASSUME NEW e \in Request, NEW b \in Account,
                 task'[e][b] = "waiting", heard[e][b] = None
          PROVE  todo[e][b] # {} /\ flight[b][Min(todo[e][b])] \notin {e, None}
      BY <2>5, <3>2 DEF IInv, FlightsLed, At
    <3>3. QED
      BY <1>1, <3>1, <3>2 DEF FlightsLed, At
  <2>11. QED
    BY <2>4, <2>7, <2>8, <2>9, <2>10 DEF IInv
<1>4. QED
  BY <1>2, <1>3 DEF Prepare

(* All goroutines have returned and the response is written.               *)
LEMMA AnswerIInv ==
    ASSUME IInv, NEW d \in Request, Answer(d)
    PROVE  IInv'
<1>1. /\ \A a \in Account : task[d][a] \in {"none", "done"}
      /\ pc' = [pc EXCEPT ![d] = "answered"]
      /\ UNCHANGED <<force, gone, task, todo, heard, result, slots, flight, entry>>
  BY DEF Answer, goroutines
<1>2. TypeOK'
  BY <1>1 DEF IInv, TypeOK
<1>3. Stages' /\ Reported'
  BY <1>1 DEF IInv, TypeOK, Stages, Reported
<1>4. QED
  BY <1>1, <1>2, <1>3, Still DEF IInv

(* A client goes away.                                                     *)
LEMMA DisconnectIInv ==
    ASSUME IInv, NEW d \in Request, Disconnect(d)
    PROVE  IInv'
<1>1. /\ gone' = [gone EXCEPT ![d] = TRUE]
      /\ UNCHANGED <<pc, force, task, todo, heard, result, slots, flight, entry>>
  BY DEF Disconnect, goroutines
<1>2. gone' \in [Request -> BOOLEAN] /\ \A e \in Request : ~gone'[e] => ~gone[e]
  BY <1>1 DEF IInv, TypeOK
<1>3. TypeOK'
  BY <1>1, <1>2 DEF IInv, TypeOK
<1>4. Stages' /\ Reported'
  BY <1>1, <1>2 DEF IInv, Stages, Reported
<1>5. QED
  BY <1>1, <1>3, <1>4, Still DEF IInv

(* An entry expires.                                                       *)
LEMMA ExpireIInv ==
    ASSUME IInv, NEW a \in Account, NEW w \in Window, Expire(a, w)
    PROVE  IInv'
<1>1. /\ entry' = [entry EXCEPT ![a][w] = None]
      /\ UNCHANGED <<pc, force, gone, task, todo, heard, result, slots, flight>>
  BY DEF Expire, goroutines
<1>2. entry' \in [Account -> [Window -> BOOLEAN \cup {None}]]
  BY <1>1 DEF IInv, TypeOK
<1>3. TypeOK'
  BY <1>1, <1>2 DEF IInv, TypeOK
<1>4. Stages' /\ Reported'
  BY <1>1 DEF IInv, Stages, Reported
<1>5. QED
  BY <1>1, <1>3, <1>4, Still DEF IInv

(* A step that changes nothing.                                           *)
LEMMA StutterIInv ==
    ASSUME IInv, UNCHANGED vars
    PROVE  IInv'
<1>1. UNCHANGED <<pc, force, gone, task, todo, heard, result, slots, flight, entry>>
  BY DEF vars, goroutines
<1>2. TypeOK' /\ Stages' /\ Reported'
  BY <1>1 DEF IInv, TypeOK, Stages, Reported
<1>3. QED
  BY <1>1, <1>2, Still DEF IInv

(* Every step keeps the invariant.                                         *)
LEMMA StepIInv ==
    ASSUME IInv, [Next]_vars
    PROVE  IInv'
<1>1. ASSUME NEW d \in Request, Receive(d) \/ Prepare(d) \/ Answer(d) \/ Disconnect(d)
      PROVE  IInv'
  BY <1>1, ReceiveIInv, PrepareIInv, AnswerIInv, DisconnectIInv
<1>2. ASSUME NEW d \in Request, NEW a \in Account, Work(d, a)
      PROVE  IInv'
  BY <1>2, AcquireIInv, QueryUsageIInv, CompleteIInv, HitIInv, JoinIInv, LeadIInv,
     LoadIInv, WakeIInv DEF Work
<1>3. ASSUME NEW d \in Request, NEW a \in Account, Abandon(d, a) \/ GiveUp(d, a)
      PROVE  IInv'
  BY <1>3, AbandonIInv, GiveUpIInv
<1>4. ASSUME NEW a \in Account, NEW w \in Window, Expire(a, w)
      PROVE  IInv'
  BY <1>4, ExpireIInv
<1>5. CASE UNCHANGED vars
  BY <1>5, StutterIInv
<1>6. QED
  BY <1>1, <1>2, <1>3, <1>4, <1>5 DEF Next

-----------------------------------------------------------------------------
(* The inductive invariant of the dashboard's goroutines: handlers,        *)
(* places, results and flights agree.                                      *)
THEOREM Inductive == Spec => []IInv
BY InitIInv, StepIInv, PTL DEF Spec

(* TypeOK: the places taken in each semaphore are those of the goroutines  *)
(* at work, however they return, and never more than usageConcurrency.     *)
THEOREM TypeCorrect == Spec => []TypeOK
<1>1. IInv => TypeOK
  BY DEF IInv
<1>2. QED
  BY <1>1, Inductive, PTL

(* Every flight is led by a goroutine at work, and whoever waits waits for *)
(* another request's: waiting never goes in a circle.                      *)
THEOREM Led == Spec => []FlightsLed
<1>1. IInv => FlightsLed
  BY DEF IInv
<1>2. QED
  BY <1>1, Inductive, PTL

(* A client that is still there gets the usage or an error for each of its *)
(* accounts.                                                               *)
THEOREM Completeness == Spec => []AnswersComplete
<1>1. IInv => AnswersComplete
  BY DEF IInv, Stages, Reported, AnswersComplete
<1>2. QED
  BY <1>1, Inductive, PTL

=============================================================================
