---------------------------- MODULE BudgetProofs ----------------------------
(***************************************************************************)
(* Theorems about Budget, for every number of workers, requests and teams, *)
(* every table of limits, and any number of hours and of store errors,     *)
(* resets and crashes.                                                     *)
(***************************************************************************)
EXTENDS Budget, FiniteSetTheorems, TLAPS

USE DEF clocks

-----------------------------------------------------------------------------
(* Rows of the table.                                                      *)

\* The remainder of a clock by a period lies between zero and the clock.
LEMMA ModBounded ==
  ASSUME NEW a \in Nat, NEW b \in Nat \ {0}
  PROVE  a % b \in 0 .. a
<1>1. a = b * (a \div b) + (a % b)
  OBVIOUS
<1>2. a \div b \in Nat /\ a % b \in Nat
  OBVIOUS
<1>3. b * (a \div b) >= 0
  BY <1>2
<1> QED
  BY <1>1, <1>2, <1>3

\* The truncated start of a window is itself a time the model's clock can show.
LEMMA WindowStartType ==
  ASSUME NEW h \in Hours, NEW typ
  PROVE  WindowStart(h, typ) \in Hours
<1>1. h \in Nat /\ HoursPerDay \in Nat \ {0}
  BY BudgetAssumption DEF Hours
<1>2. h % HoursPerDay \in 0 .. h
  BY <1>1, ModBounded
<1> QED
  BY <1>1, <1>2, BudgetAssumption DEF WindowStart, Hours

\* A row of a team and a time is one of the rows of the usage table.
LEMMA RowType ==
  ASSUME NEW t \in Teams, NEW h \in Hours, NEW typ \in WindowTypes
  PROVE  Row(t, h, typ) \in Slots
  BY WindowStartType DEF Row, Slots

\* The row a request looks up is one of the rows of the usage table.
LEMMA SlotType ==
  ASSUME TypeOK, NEW r \in Requests, NEW typ \in WindowTypes
  PROVE  Slot(r, typ) \in Slots
<1>1. at[r] \in Hours /\ TeamOf[r] \in Teams
  BY BudgetAssumption DEF TypeOK
<1> QED
  BY <1>1, RowType DEF Slot

\* The limit that applies to a row is a natural number.
LEMMA LimitType ==
  ASSUME NEW s \in Slots
  PROVE  LimitOf(s) \in Nat
  BY BudgetAssumption DEF Slots, LimitOf

\* A request knows two rows, and they are never the same one.
LEMMA SlotsDiffer ==
  ASSUME NEW r
  PROVE  /\ Slot(r, "hour") # Slot(r, "day")
         /\ \A typ \in WindowTypes :
              LimitOf(Slot(r, typ)) = CallLimit[TeamOf[r]][typ]
  BY DEF Slot, Row, LimitOf

\* What a response is billed to has the type of a bill.
LEMMA BillType ==
  ASSUME TypeOK, NEW r \in Requests
  PROVE  Matched(r) \cup Unmatched(r) \subseteq [team : Teams, at : Hours]
<1>1. Matched(r) \subseteq [team : Teams, at : Hours]
  BY BudgetAssumption DEF Matched, TypeOK
<1>2. 0 .. now \subseteq Hours /\ at[r] .. now \subseteq Hours
  BY BudgetAssumption DEF TypeOK, Hours
<1>3. Unmatched(r) \subseteq [team : Teams, at : Hours]
  BY <1>2, BudgetAssumption DEF Unmatched
<1> QED
  BY <1>1, <1>3

-----------------------------------------------------------------------------
(* Type correctness.                                                       *)

\* Every variable keeps its type, whatever disturbs the requests.
THEOREM TypeCorrect == Spec => []TypeOK
<1>1. Init => TypeOK
  BY BudgetAssumption
  DEF Init, TypeOK, Hours, Places, Active, Critical, Checking, Charging, Recording, Ended
<1>2. TypeOK /\ [Next]_vars => TypeOK'
  <2> SUFFICES ASSUME TypeOK, [Next]_vars PROVE TypeOK'
    OBVIOUS
  <2> USE BudgetAssumption
  <2>1. ASSUME NEW r \in Requests, Step(r) PROVE TypeOK'
    <3>1. /\ Slot(r, "hour") \in Slots /\ TokenSlot(r, "hour") \in Slots
          /\ Slot(r, "day") \in Slots /\ TokenSlot(r, "day") \in Slots
          /\ ManagerOf[r] \in Managers
          /\ TokensOf[r] \in Nat
      BY SlotType, RowType DEF WindowTypes, TokenSlot, TypeOK
    <3> USE DEF TypeOK, Goto, Places, Active, Critical, Checking, Charging,
                Recording, Ended, table, history
    <3>2. CASE ReadClock(r)
      BY <3>2 DEF ReadClock
    <3>3. CASE ReadFrame(r)
      BY <3>3 DEF ReadFrame
    <3>4. ASSUME NEW from, NEW to \in Critical, Lock(r, from, to) PROVE TypeOK'
      BY <3>4, <3>1 DEF Lock
    <3>5. CASE CheckHour(r) \/ CheckDay(r) \/ CheckTokens(r)
      BY <3>5 DEF CheckHour, CheckDay, CheckTokens
    <3>6. CASE Block(r) \/ StoreError(r) \/ RecordError(r)
      BY <3>6, <3>1 DEF Block, StoreError, RecordError, Unlock
    <3>7. CASE ChargeHour(r)
      BY <3>7, <3>1, SMTT(30) DEF ChargeHour, AddCall, WindowTypes
    <3>8. CASE ChargeDay(r)
      BY <3>8, <3>1 DEF ChargeDay, AddCall, Unlock, WindowTypes
    <3>9. CASE RecordHour(r)
      BY <3>9, <3>1 DEF RecordHour, AddTokens, WindowTypes
    <3>10. CASE RecordDay(r)
      BY <3>10, <3>1 DEF RecordDay, AddTokens, Unlock, WindowTypes
    <3>11. CASE Forward(r)
      BY <3>11 DEF Forward, Hours
    <3>12. CASE Answer(r) \/ AnswerUncounted(r)
      BY <3>12, BillType DEF Answer, AnswerUncounted
    <3> QED
      BY <2>1, <3>2, <3>3, <3>4, <3>5, <3>6, <3>7, <3>8, <3>9, <3>10, <3>11, <3>12
      DEF Step, Inside, LockToCheck, LockToRecord
  <2>2. ASSUME NEW t \in Teams, NEW typ \in WindowTypes, Reset(t, typ) PROVE TypeOK'
    <3>1. Row(t, now, typ) \in Slots
      BY RowType DEF TypeOK
    <3> QED
      BY <2>2, <3>1 DEF TypeOK, Reset, history
  <2>3. ASSUME NEW m \in Managers, Crash(m) PROVE TypeOK'
    BY <2>3 DEF TypeOK, Crash, table, history, Places, Ended
  <2>4. CASE Tick
    BY <2>4 DEF TypeOK, Tick, table, history, Hours
  <2>5. CASE UNCHANGED vars
    BY <2>5 DEF TypeOK, vars, Slots
  <2> QED
    BY <2>1, <2>2, <2>3, <2>4, <2>5 DEF Next
<1> QED
  BY <1>1, <1>2, PTL DEF Spec

-----------------------------------------------------------------------------
(* Mutual exclusion within a worker.                                       *)

\* The mutex of a manager is held by exactly the requests that are between
\* mu.Lock and its deferred mu.Unlock, on every path of both methods.
THEOREM MutexCorrect == Spec => []MutexHeld
<1>1. Init => MutexHeld
  BY BudgetAssumption DEF Init, MutexHeld, Critical, Checking, Charging, Recording
<1>2. TypeOK /\ MutexHeld /\ [Next]_vars => MutexHeld'
  <2> SUFFICES ASSUME TypeOK, MutexHeld, [Next]_vars,
                      NEW m \in Managers, NEW q \in Requests
               PROVE  (lock'[m] = q) <=> (ManagerOf[q] = m /\ pc'[q] \in Critical)
    BY DEF MutexHeld
  <2> USE BudgetAssumption
  <2>0. (lock[m] = q) <=> (ManagerOf[q] = m /\ pc[q] \in Critical)
    BY DEF MutexHeld
  <2>1. ASSUME NEW r \in Requests, Step(r)
        PROVE  (lock'[m] = q) <=> (ManagerOf[q] = m /\ pc'[q] \in Critical)
    <3>0. /\ ManagerOf[r] \in Managers
          /\ (lock[ManagerOf[r]] = r) <=> pc[r] \in Critical
          /\ (lock[ManagerOf[r]] = q) <=> (ManagerOf[q] = ManagerOf[r] /\ pc[q] \in Critical)
      BY DEF MutexHeld
    <3> USE DEF TypeOK, Goto, Critical, Checking, Charging, Recording
    <3>1. CASE \/ ReadClock(r) \/ ReadFrame(r) \/ Forward(r) \/ Answer(r)
               \/ AnswerUncounted(r)
      BY <3>1, <2>0 DEF ReadClock, ReadFrame, Forward, Answer, AnswerUncounted
    <3>2. CASE \/ CheckHour(r) \/ CheckDay(r) \/ CheckTokens(r) \/ ChargeHour(r)
               \/ RecordHour(r)
      BY <3>2, <2>0 DEF CheckHour, CheckDay, CheckTokens, ChargeHour, RecordHour
    <3>3. ASSUME NEW from \in {"waiting", "answered"}, NEW to \in Critical, Lock(r, from, to)
          PROVE  (lock'[m] = q) <=> (ManagerOf[q] = m /\ pc'[q] \in Critical)
      BY <3>3, <3>0, <2>0 DEF Lock
    <3>4. CASE \/ Block(r) \/ StoreError(r) \/ ChargeDay(r) \/ RecordDay(r)
               \/ RecordError(r)
      <4>1. /\ pc[r] \in Critical
            /\ \E to \in {"blocked", "admitted", "done"} : pc' = [pc EXCEPT ![r] = to]
            /\ lock' = [lock EXCEPT ![ManagerOf[r]] = None]
        BY <3>4 DEF Block, StoreError, AtStore, ChargeDay, RecordDay, RecordError, Unlock
      <4> QED
        BY <4>1, <3>0, <2>0
    <3> QED
      BY <2>1, <3>1, <3>2, <3>3, <3>4 DEF Step, Inside, LockToCheck, LockToRecord
  <2>2. ASSUME NEW n \in Managers, Crash(n)
        PROVE  (lock'[m] = q) <=> (ManagerOf[q] = m /\ pc'[q] \in Critical)
    BY <2>2, <2>0 DEF Crash, TypeOK, Active, Critical, Checking, Charging, Recording
  <2>3. CASE \/ Tick \/ UNCHANGED vars
             \/ \E t \in Teams, typ \in WindowTypes : Reset(t, typ)
    BY <2>3, <2>0 DEF Tick, vars, Reset
  <2> QED
    BY <2>1, <2>2, <2>3 DEF Next
<1> QED
  BY <1>1, <1>2, TypeCorrect, PTL DEF Spec

-----------------------------------------------------------------------------
(* How far a limit can be passed.                                          *)

\* Sets of managers are finite, and a subset has no more members.
LEMMA ManagerSets ==
  ASSUME NEW S \in SUBSET Managers, NEW T \in SUBSET Managers, S \subseteq T
  PROVE  /\ IsFiniteSet(S)
         /\ Cardinality(S) \in Nat /\ Cardinality(T) \in Nat
         /\ Cardinality(S) <= Cardinality(T)
<1>1. IsFiniteSet(S) /\ IsFiniteSet(T)
  BY FS_Subset, BudgetAssumption
<1> QED
  BY <1>1, FS_Subset, FS_CardinalityType

\* The bound on how far a limit can be passed is a natural number.
LEMMA OvershootType == Overshoot \in Nat
<1>1. Cardinality(Managers) \in Nat /\ Cardinality(Managers) # 0
  BY FS_EmptySet, FS_CardinalityType, BudgetAssumption
<1> QED
  BY <1>1 DEF Overshoot

\* Two requests that hold a promise at the same time are on different workers.
LEMMA OnePromisePerManager ==
  ASSUME MutexHeld, NEW q \in Requests, NEW r \in Requests, NEW s,
         pc[r] \in Critical, Entitled(q, s), ManagerOf[q] = ManagerOf[r]
  PROVE  q = r
<1>1. pc[q] \in Critical
  BY DEF Entitled, Critical, Checking, Charging
<1> QED
  BY <1>1, BudgetAssumption DEF MutexHeld

\* A step that promises nothing and does not raise the count of a row.
LEMMA NoNewPromise ==
  ASSUME TypeOK, TypeOK', PromisesBounded, NEW s \in Slots, LimitOf(s) > 0,
         calls'[s] <= calls[s],
         \A q \in Requests : Entitled(q, s)' => Entitled(q, s)
  PROVE  calls'[s] + Cardinality(EntitledManagers(s)') <= LimitOf(s) + Overshoot
<1>1. EntitledManagers(s)' \subseteq EntitledManagers(s)
  BY DEF EntitledManagers
<1>2. /\ Cardinality(EntitledManagers(s)') <= Cardinality(EntitledManagers(s))
      /\ Cardinality(EntitledManagers(s)') \in Nat
      /\ Cardinality(EntitledManagers(s)) \in Nat
  BY <1>1, ManagerSets DEF EntitledManagers
<1>3. calls[s] \in Nat /\ calls'[s] \in Nat
  BY DEF TypeOK
<1>4. calls[s] + Cardinality(EntitledManagers(s)) <= LimitOf(s) + Overshoot
  BY DEF PromisesBounded
<1> QED
  BY <1>2, <1>3, <1>4, LimitType, OvershootType

\* A step that has just seen room in a row, and does not write it.
LEMMA RoomSeen ==
  ASSUME TypeOK, NEW s \in Slots, calls'[s] = calls[s], calls[s] + 1 <= LimitOf(s)
  PROVE  calls'[s] + Cardinality(EntitledManagers(s)') <= LimitOf(s) + Overshoot
<1>1. /\ Cardinality(EntitledManagers(s)') <= Cardinality(Managers)
      /\ Cardinality(EntitledManagers(s)') \in Nat
      /\ Cardinality(Managers) \in Nat
  BY ManagerSets DEF EntitledManagers
<1> QED
  BY <1>1, LimitType DEF Overshoot, TypeOK

\* A step that keeps a promise: the row takes the place of its manager.
LEMMA PromiseKept ==
  ASSUME TypeOK, MutexHeld, PromisesBounded, NEW s \in Slots, LimitOf(s) > 0,
         NEW r \in Requests, Entitled(r, s), pc[r] \in Critical,
         calls'[s] = calls[s] + 1,
         \A q \in Requests : Entitled(q, s)' => Entitled(q, s) /\ q # r
  PROVE  calls'[s] + Cardinality(EntitledManagers(s)') <= LimitOf(s) + Overshoot
<1>1. EntitledManagers(s)' \subseteq EntitledManagers(s) \ {ManagerOf[r]}
  BY OnePromisePerManager DEF EntitledManagers
<1>2. ManagerOf[r] \in EntitledManagers(s)
  BY BudgetAssumption DEF EntitledManagers
<1>3. IsFiniteSet(EntitledManagers(s)) /\ Cardinality(EntitledManagers(s)) \in Nat
  BY ManagerSets DEF EntitledManagers
<1>4. Cardinality(EntitledManagers(s) \ {ManagerOf[r]}) = Cardinality(EntitledManagers(s)) - 1
  BY <1>2, <1>3, FS_RemoveElement
<1>5. /\ Cardinality(EntitledManagers(s)') <= Cardinality(EntitledManagers(s) \ {ManagerOf[r]})
      /\ Cardinality(EntitledManagers(s)') \in Nat
  BY <1>1, ManagerSets DEF EntitledManagers
<1>6. calls[s] + Cardinality(EntitledManagers(s)) <= LimitOf(s) + Overshoot
  BY DEF PromisesBounded
<1> QED
  BY <1>3, <1>4, <1>5, <1>6, LimitType, OvershootType DEF TypeOK

\* Calls made and calls promised together stay within the limit plus the number
\* of extra workers.
THEOREM PromisesCorrect == Spec => []PromisesBounded
<1>1. Init => PromisesBounded
  <2> SUFFICES ASSUME Init, NEW s \in Slots, LimitOf(s) > 0
               PROVE  calls[s] + Cardinality(EntitledManagers(s)) <= LimitOf(s) + Overshoot
    BY DEF PromisesBounded
  <2>1. EntitledManagers(s) = {}
    BY DEF Init, EntitledManagers, Entitled
  <2> QED
    BY <2>1, FS_EmptySet, OvershootType, LimitType DEF Init
<1>2. TypeOK /\ TypeOK' /\ MutexHeld /\ PromisesBounded /\ [Next]_vars => PromisesBounded'
  <2> SUFFICES ASSUME TypeOK, TypeOK', MutexHeld, PromisesBounded, [Next]_vars,
                      NEW s \in Slots, LimitOf(s) > 0
               PROVE  calls'[s] + Cardinality(EntitledManagers(s)') <= LimitOf(s) + Overshoot
    BY DEF PromisesBounded, LimitOf
  <2> DEFINE Goal == calls'[s] + Cardinality(EntitledManagers(s)') <= LimitOf(s) + Overshoot
             Quiet == /\ calls'[s] <= calls[s]
                      /\ \A q \in Requests : Entitled(q, s)' => Entitled(q, s)
  <2>0. /\ calls[s] \in Nat
        /\ Quiet => Goal
    BY NoNewPromise DEF TypeOK
  <2> HIDE DEF Goal
  <2>1. ASSUME NEW r \in Requests, Step(r) PROVE Goal
    <3>0. /\ TeamOf[r] \in Teams
          /\ pc \in [Requests -> Places] /\ at \in [Requests -> Hours]
          /\ calls \in [Slots -> Nat]
          /\ Slot(r, "hour") # Slot(r, "day")
          /\ Slot(r, "hour") \in Slots /\ Slot(r, "day") \in Slots
          /\ LimitOf(Slot(r, "hour")) = CallLimit[TeamOf[r]]["hour"]
          /\ LimitOf(Slot(r, "day")) = CallLimit[TeamOf[r]]["day"]
      BY SlotType, SlotsDiffer, BudgetAssumption DEF TypeOK, WindowTypes
    <3>1. CASE ReadClock(r)
      <4>1. Quiet
        BY <3>0, <2>0, <3>1 DEF ReadClock, Goto, table, Entitled, Slot
      <4> QED
        BY <4>1, <2>0
    <3>2. CASE \/ ReadFrame(r) \/ Forward(r) \/ Answer(r) \/ AnswerUncounted(r)
               \/ RecordHour(r) \/ RecordDay(r) \/ RecordError(r) \/ Block(r)
               \/ StoreError(r) \/ CheckTokens(r)
      <4>1. calls' = calls /\ at' = at
        BY <3>2 DEF ReadFrame, Forward, Answer, AnswerUncounted, RecordHour, RecordDay,
                    RecordError, Block, StoreError, CheckTokens, table
      <4>2. \/ \E to \in {"waiting", "forwarded", "answered", "done", "tokensDay",
                            "blocked", "admitted"} : pc' = [pc EXCEPT ![r] = to]
            \/ pc[r] = "checkTokens" /\ pc' = [pc EXCEPT ![r] = "chargeHour"]
        BY <3>2 DEF ReadFrame, Forward, Answer, AnswerUncounted, RecordHour, RecordDay,
                    RecordError, Block, StoreError, CheckTokens, Goto
      <4>3. Quiet
        BY <4>1, <4>2, <3>0, <2>0 DEF Entitled, Slot
      <4> QED
        BY <4>3, <2>0
    <3>3. CASE LockToCheck(r) \/ LockToRecord(r)
      <4>1. Quiet
        BY <3>0, <3>3, <2>0 DEF LockToCheck, LockToRecord, Lock, Goto, table, Entitled, Slot
      <4> QED
        BY <4>1, <2>0
    <3>4. CASE CheckHour(r)
      <4>1. calls' = calls /\ at' = at /\ pc' = [pc EXCEPT ![r] = "checkDay"]
        BY <3>4 DEF CheckHour, Goto, table
      <4>2. CASE s = Slot(r, "hour")
        <5>1. calls[s] + 1 <= LimitOf(s)
          BY <3>0, <3>4, <4>2, <2>0, LimitType DEF CheckHour, Exhausted
        <5> QED
          BY <5>1, <4>1, RoomSeen DEF Goal
      <4>3. CASE s # Slot(r, "hour")
        <5>1. Quiet
          BY <4>1, <4>3, <3>0, <2>0 DEF Entitled, Slot
        <5> QED
          BY <5>1, <2>0
      <4> QED
        BY <4>2, <4>3
    <3>5. CASE CheckDay(r)
      <4>1. /\ calls' = calls /\ at' = at
            /\ pc[r] = "checkDay" /\ pc' = [pc EXCEPT ![r] = "checkTokens"]
        BY <3>5 DEF CheckDay, Goto, table
      <4>2. CASE s = Slot(r, "day")
        <5>1. calls[s] + 1 <= LimitOf(s)
          BY <3>0, <3>5, <4>2, <2>0, LimitType DEF CheckDay, Exhausted
        <5> QED
          BY <5>1, <4>1, RoomSeen DEF Goal
      <4>3. CASE s # Slot(r, "day")
        <5>1. Quiet
          BY <4>1, <4>3, <3>0, <2>0 DEF Entitled, Slot
        <5> QED
          BY <5>1, <2>0
      <4> QED
        BY <4>2, <4>3
    <3>6. CASE ChargeHour(r)
      <4>1. /\ calls' = [calls EXCEPT ![Slot(r, "hour")] = @ + 1] /\ at' = at
            /\ pc[r] = "chargeHour" /\ pc' = [pc EXCEPT ![r] = "chargeDay"]
        BY <3>6 DEF ChargeHour, Goto, AddCall
      <4>2. CASE s = Slot(r, "hour")
        <5>1. Entitled(r, s) /\ pc[r] \in Critical /\ calls'[s] = calls[s] + 1
          BY <4>1, <4>2, <3>0 DEF Entitled, Critical, Charging
        <5>2. \A q \in Requests : Entitled(q, s)' => Entitled(q, s) /\ q # r
          BY <4>1, <4>2, <3>0 DEF Entitled, Slot
        <5> QED
          BY <5>1, <5>2, PromiseKept DEF Goal
      <4>3. CASE s # Slot(r, "hour")
        <5>1. Quiet
          BY <4>1, <4>3, <3>0, <2>0 DEF Entitled, Slot
        <5> QED
          BY <5>1, <2>0
      <4> QED
        BY <4>2, <4>3
    <3>7. CASE ChargeDay(r)
      <4>1. /\ calls' = [calls EXCEPT ![Slot(r, "day")] = @ + 1] /\ at' = at
            /\ pc[r] = "chargeDay" /\ pc' = [pc EXCEPT ![r] = "admitted"]
        BY <3>7 DEF ChargeDay, Goto, AddCall
      <4>2. CASE s = Slot(r, "day")
        <5>1. Entitled(r, s) /\ pc[r] \in Critical /\ calls'[s] = calls[s] + 1
          BY <4>1, <4>2, <3>0 DEF Entitled, Critical, Charging
        <5>2. \A q \in Requests : Entitled(q, s)' => Entitled(q, s) /\ q # r
          BY <4>1, <4>2, <3>0 DEF Entitled, Slot
        <5> QED
          BY <5>1, <5>2, PromiseKept DEF Goal
      <4>3. CASE s # Slot(r, "day")
        <5>1. Quiet
          BY <4>1, <4>3, <3>0, <2>0 DEF Entitled, Slot
        <5> QED
          BY <5>1, <2>0
      <4> QED
        BY <4>2, <4>3
    <3> QED
      BY <2>1, <3>1, <3>2, <3>3, <3>4, <3>5, <3>6, <3>7 DEF Step, Inside
  <2>2. ASSUME NEW t \in Teams, NEW typ \in WindowTypes, Reset(t, typ) PROVE Goal
    <3>1. pc' = pc /\ at' = at /\ calls'[s] \in {calls[s], 0}
      BY <2>2 DEF Reset, TypeOK
    <3>2. Quiet
      BY <3>1, <2>0 DEF Entitled, Slot
    <3> QED
      BY <3>2, <2>0
  <2>3. ASSUME NEW m \in Managers, Crash(m) PROVE Goal
    <3>1. /\ calls' = calls /\ at' = at
          /\ \A q \in Requests : pc'[q] \in {pc[q], "lost"}
      BY <2>3 DEF Crash, table
    <3>2. Quiet
      BY <3>1, <2>0 DEF Entitled, Slot
    <3> QED
      BY <3>2, <2>0
  <2>4. ASSUME Tick \/ UNCHANGED vars PROVE Goal
    <3>1. calls' = calls /\ at' = at /\ pc' = pc
      BY <2>4 DEF Tick, vars, table
    <3>2. Quiet
      BY <3>1, <2>0 DEF Entitled, Slot
    <3> QED
      BY <3>2, <2>0
  <2>5. Goal
    BY <2>1, <2>2, <2>3, <2>4 DEF Next
  <2> QED
    BY <2>5 DEF Goal
<1> QED
  BY <1>1, <1>2, TypeCorrect, MutexCorrect, PTL DEF Spec

\* Calls and open promises bounded together leave the calls bounded alone.
LEMMA PromisesGiveBound == TypeOK /\ PromisesBounded => OvershootBounded
<1> SUFFICES ASSUME TypeOK, PromisesBounded, NEW s \in Slots, LimitOf(s) > 0
             PROVE  calls[s] <= LimitOf(s) + Overshoot
  BY DEF OvershootBounded
<1>1. calls[s] + Cardinality(EntitledManagers(s)) <= LimitOf(s) + Overshoot
  BY DEF PromisesBounded
<1>2. Cardinality(EntitledManagers(s)) \in Nat
  BY ManagerSets DEF EntitledManagers
<1> QED
  BY <1>1, <1>2, LimitType, OvershootType DEF TypeOK

\* However many workers share the table, a limited window is passed by at most
\* one call per extra worker.
THEOREM OvershootCorrect == Spec => []OvershootBounded
  BY TypeCorrect, PromisesCorrect, PromisesGiveBound, PTL

\* With a single worker no window ever passes its limit.
THEOREM OneWorkerHoldsLimits ==
  ASSUME Cardinality(Managers) = 1
  PROVE  Spec => []CallLimitHeld
<1>1. TypeOK /\ OvershootBounded => CallLimitHeld
  BY LimitType DEF OvershootBounded, CallLimitHeld, Overshoot, TypeOK
<1> QED
  BY <1>1, TypeCorrect, OvershootCorrect, PTL

-----------------------------------------------------------------------------
(* Refinement.                                                             *)

\* Whoever increments a row was promised room in it.
LEMMA RoomForCharge ==
  ASSUME TypeOK, PromisesBounded, NEW r \in Requests, NEW s \in Slots,
         Entitled(r, s), LimitOf(s) > 0
  PROVE  calls[s] < LimitOf(s) + Overshoot
<1>1. ManagerOf[r] \in EntitledManagers(s)
  BY BudgetAssumption DEF EntitledManagers
<1>2. /\ Cardinality(EntitledManagers(s)) \in Nat
      /\ Cardinality(EntitledManagers(s)) # 0
  BY <1>1, ManagerSets, FS_EmptySet DEF EntitledManagers
<1>3. calls[s] + Cardinality(EntitledManagers(s)) <= LimitOf(s) + Overshoot
  BY DEF PromisesBounded
<1> QED
  BY <1>2, <1>3, LimitType, OvershootType DEF TypeOK

\* Every behaviour of the proxies is, in the call counts, a behaviour of the
\* abstract quota: reservations are taken one at a time and never past capacity.
THEOREM QuotaCorrect == Spec => ImplementsQuota
<1>1. Init => Promise!Init
  BY DEF Init, Promise!Init
<1>2. TypeOK /\ PromisesBounded /\ [Next]_vars => [Promise!Next]_calls
  <2> SUFFICES ASSUME TypeOK, PromisesBounded, [Next]_vars, calls' # calls
               PROVE  Promise!Next
    OBVIOUS
  <2>1. ASSUME NEW r \in Requests, Step(r) PROVE Promise!Next
    <3>1. PICK typ \in WindowTypes :
            /\ Entitled(r, Slot(r, typ))
            /\ calls' = [calls EXCEPT ![Slot(r, typ)] = @ + 1]
      BY <2>1
      DEF Step, Inside, ReadClock, ReadFrame, LockToCheck, LockToRecord, Lock, CheckHour,
          CheckDay, CheckTokens, Block, ChargeHour, ChargeDay, AddCall, StoreError,
          RecordHour, RecordDay, RecordError, Forward, Answer, AnswerUncounted, table,
          Goto, Entitled, WindowTypes
    <3> DEFINE s == Slot(r, typ)
    <3>2. s \in Slots
      BY SlotType
    <3>3. LimitOf(s) = 0 \/ calls[s] < LimitOf(s) + Overshoot
      BY <3>1, <3>2, RoomForCharge, LimitType
    <3>4. Promise!Take(s)
      BY <3>1, <3>2, <3>3 DEF Promise!Take
    <3> QED
      BY <3>2, <3>4 DEF Promise!Next
  <2>2. ASSUME NEW t \in Teams, NEW typ \in WindowTypes, Reset(t, typ) PROVE Promise!Next
    <3> DEFINE s == Row(t, now, typ)
    <3>1. s \in Slots
      BY RowType DEF TypeOK
    <3>2. Promise!Clear(s)
      BY <2>2 DEF Reset, Promise!Clear
    <3> QED
      BY <3>1, <3>2 DEF Promise!Next
  <2> QED
    BY <2>1, <2>2 DEF Next, Crash, Tick, vars, table
<1> QED
  BY <1>1, <1>2, TypeCorrect, PromisesCorrect, PTL DEF Spec, ImplementsQuota, Promise!Spec
-----------------------------------------------------------------------------
(* Verdicts and charges.                                                   *)

\* What a request has charged, by where it is.
Uncharged == {"idle", "reading", "waiting", "chargeHour", "blocked"} \cup Checking
Admitted == {"admitted", "forwarded", "answered", "done"} \cup Recording
BothCalls == {"calls"} \X WindowTypes
ChargesKnown ==
  \A r \in Requests :
    /\ pc[r] \in Uncharged => charged[r] = {}
    /\ pc[r] = "chargeDay" => charged[r] = {<<"calls", "hour">>}
    /\ pc[r] \in Admitted => r \in failed \/ BothCalls \subseteq charged[r]
    /\ pc[r] = "tokensDay" => <<"tokens", "hour">> \in charged[r]
    /\ \A typ \in WindowTypes : <<"tokens", typ>> \in charged[r] =>
         r \in failed \/ BothCalls \subseteq charged[r]
    /\ <<"calls", "day">> \in charged[r] => <<"calls", "hour">> \in charged[r]
    /\ <<"tokens", "day">> \in charged[r] => <<"tokens", "hour">> \in charged[r]

\* A request that a step does not charge and leaves at the same stage keeps
\* what is known of it.
LEMMA ChargesUntouched ==
  ASSUME ChargesKnown, NEW r \in Requests,
         charged'[r] = charged[r], r \in failed => r \in failed',
         \/ pc'[r] = pc[r]
         \/ pc[r] \in Uncharged /\ pc'[r] \in Uncharged
         \/ pc[r] \in Admitted /\ pc'[r] \in Admitted \ {"tokensDay"}
         \/ pc'[r] = "lost"
  PROVE  /\ pc'[r] \in Uncharged => charged'[r] = {}
         /\ pc'[r] = "chargeDay" => charged'[r] = {<<"calls", "hour">>}
         /\ pc'[r] \in Admitted => r \in failed' \/ BothCalls \subseteq charged'[r]
         /\ pc'[r] = "tokensDay" => <<"tokens", "hour">> \in charged'[r]
         /\ \A typ \in WindowTypes : <<"tokens", typ>> \in charged'[r] =>
              r \in failed' \/ BothCalls \subseteq charged'[r]
         /\ <<"calls", "day">> \in charged'[r] => <<"calls", "hour">> \in charged'[r]
         /\ <<"tokens", "day">> \in charged'[r] => <<"tokens", "hour">> \in charged'[r]
  BY DEF ChargesKnown, Uncharged, Admitted, Checking, Recording

\* What is known of the charges at every place of the protocol.
THEOREM ChargesCorrect == Spec => []ChargesKnown
<1>1. Init => ChargesKnown
  BY DEF Init, ChargesKnown, Uncharged, Admitted, Recording
<1>2. TypeOK /\ ChargesKnown /\ [Next]_vars => ChargesKnown'
  <2> SUFFICES ASSUME TypeOK, ChargesKnown, [Next]_vars, NEW q \in Requests
               PROVE  /\ pc'[q] \in Uncharged => charged'[q] = {}
                      /\ pc'[q] = "chargeDay" => charged'[q] = {<<"calls", "hour">>}
                      /\ pc'[q] \in Admitted => q \in failed' \/ BothCalls \subseteq charged'[q]
                      /\ pc'[q] = "tokensDay" => <<"tokens", "hour">> \in charged'[q]
                      /\ \A typ \in WindowTypes : <<"tokens", typ>> \in charged'[q] =>
                           q \in failed' \/ BothCalls \subseteq charged'[q]
                      /\ <<"calls", "day">> \in charged'[q] => <<"calls", "hour">> \in charged'[q]
                      /\ <<"tokens", "day">> \in charged'[q] => <<"tokens", "hour">> \in charged'[q]
    BY DEF ChargesKnown, Uncharged, Admitted
  <2>1. ASSUME NEW r \in Requests, Step(r), r # q
        PROVE  charged'[q] = charged[q] /\ pc'[q] = pc[q] /\ (q \in failed => q \in failed')
    BY <2>1
    DEF TypeOK, Step, Inside, LockToCheck, LockToRecord, Lock, ReadClock, ReadFrame,
        CheckHour, CheckDay, CheckTokens, Block, ChargeHour, ChargeDay, StoreError,
        Forward, Answer, AnswerUncounted, RecordHour, RecordDay, RecordError,
        AddCall, AddTokens, Goto, history
  <2>2. CASE Step(q)
    <3> USE DEF TypeOK, Goto, Uncharged, Admitted, Checking, Recording, history
    <3>1. CASE ChargeHour(q)
      <4>1. pc[q] = "chargeHour" /\ pc'[q] = "chargeDay" /\ charged'[q] = charged[q] \cup {<<"calls", "hour">>}
        BY <3>1 DEF ChargeHour, AddCall
      <4>2. charged[q] = {}
        BY <4>1 DEF ChargesKnown
      <4> QED
        BY <4>1, <4>2
    <3>2. CASE ChargeDay(q)
      <4>1. pc[q] = "chargeDay" /\ pc'[q] = "admitted" /\ charged'[q] = charged[q] \cup {<<"calls", "day">>}
        BY <3>2 DEF ChargeDay, AddCall
      <4>2. charged[q] = {<<"calls", "hour">>}
        BY <4>1 DEF ChargesKnown
      <4> QED
        BY <4>1, <4>2 DEF BothCalls, WindowTypes
    <3>3. CASE StoreError(q)
      <4>1. pc'[q] = "admitted" /\ q \in failed' /\ charged' = charged
        BY <3>3 DEF StoreError
      <4> QED
        BY <4>1 DEF ChargesKnown
    <3>4. CASE RecordHour(q)
      <4>1. pc[q] = "tokensHour" /\ pc'[q] = "tokensDay" /\ failed' = failed
            /\ charged'[q] = charged[q] \cup {<<"tokens", "hour">>}
        BY <3>4 DEF RecordHour, AddTokens
      <4>2. q \in failed \/ BothCalls \subseteq charged[q]
        BY <4>1 DEF ChargesKnown
      <4>3. <<"calls", "day">> \in charged[q] => <<"calls", "hour">> \in charged[q]
        BY DEF ChargesKnown
      <4> QED
        BY <4>1, <4>2, <4>3
    <3>5. CASE RecordDay(q)
      <4>1. pc[q] = "tokensDay" /\ pc'[q] = "done" /\ failed' = failed
            /\ charged'[q] = charged[q] \cup {<<"tokens", "day">>}
        BY <3>5 DEF RecordDay, AddTokens
      <4>2. /\ q \in failed \/ BothCalls \subseteq charged[q]
            /\ <<"tokens", "hour">> \in charged[q]
        BY <4>1 DEF ChargesKnown
      <4>3. <<"calls", "day">> \in charged[q] => <<"calls", "hour">> \in charged[q]
        BY DEF ChargesKnown
      <4> QED
        BY <4>1, <4>2, <4>3
    <3>6. CASE \/ ReadClock(q) \/ ReadFrame(q) \/ LockToCheck(q) \/ CheckHour(q)
               \/ CheckDay(q) \/ CheckTokens(q) \/ Block(q)
      <4>1. pc[q] \in Uncharged /\ pc'[q] \in Uncharged /\ charged' = charged /\ failed' = failed
        BY <3>6 DEF ReadClock, ReadFrame, LockToCheck, Lock, CheckHour, CheckDay, CheckTokens, Block
      <4> QED
        BY <4>1, ChargesUntouched
    <3>7. CASE \/ LockToRecord(q) \/ Forward(q) \/ Answer(q) \/ AnswerUncounted(q)
               \/ RecordError(q)
      <4>1. /\ pc[q] \in Admitted /\ pc'[q] \in Admitted \ {"tokensDay"}
            /\ charged' = charged /\ failed' = failed
        BY <3>7 DEF LockToRecord, Lock, Forward, Answer, AnswerUncounted, RecordError
      <4> QED
        BY <4>1, ChargesUntouched
    <3> QED
      BY <2>2, <3>1, <3>2, <3>3, <3>4, <3>5, <3>6, <3>7, Zenon
      DEF Step, Inside
  <2>3. ASSUME \/ \E t \in Teams, typ \in WindowTypes : Reset(t, typ)
               \/ \E m \in Managers : Crash(m)
               \/ Tick
               \/ UNCHANGED vars
        PROVE  charged' = charged /\ failed' = failed /\ pc'[q] \in {pc[q], "lost"}
    BY <2>3 DEF TypeOK, Reset, Crash, Tick, vars, history
  <2> QED
    BY <2>1, <2>2, <2>3, ChargesUntouched DEF Next
<1> QED
  BY <1>1, <1>2, TypeCorrect, PTL DEF Spec

\* A blocked request has charged nothing, one that went on without a store
\* error has charged one call to each of its two windows, and no request charges
\* tokens unless it has done so too or has met a store error.
THEOREM VerdictCorrect == Spec => []ChargeMatchesVerdict
<1>1. TypeOK /\ ChargesKnown => ChargeMatchesVerdict
  <2> SUFFICES ASSUME TypeOK, ChargesKnown, NEW r \in Requests
               PROVE  LET charge == {c \in charged[r] : c[1] = "calls"}
                          Reserved == r \in failed \/ charge = BothCalls
                      IN
                 /\ pc[r] = "blocked" => charged[r] = {}
                 /\ pc[r] \in {"admitted", "forwarded", "answered", "done"} => Reserved
                 /\ charged[r] # charge => Reserved
                 /\ \A col \in {"calls", "tokens"} :
                      <<col, "day">> \in charged[r] => <<col, "hour">> \in charged[r]
    BY DEF ChargeMatchesVerdict, BothCalls
  <2> DEFINE charge == {c \in charged[r] : c[1] = "calls"}
  <2>1. charged[r] \subseteq {"calls", "tokens"} \X WindowTypes
    BY DEF TypeOK
  <2>2. charge \subseteq BothCalls
    BY <2>1 DEF BothCalls
  <2>3. BothCalls \subseteq charged[r] => charge = BothCalls
    BY <2>2 DEF BothCalls
  <2>4. charged[r] # charge => \E typ \in WindowTypes : <<"tokens", typ>> \in charged[r]
    BY <2>1
  <2>5. charged[r] # charge => r \in failed \/ BothCalls \subseteq charged[r]
    BY <2>4 DEF ChargesKnown
  <2>6. /\ pc[r] = "blocked" => charged[r] = {}
        /\ pc[r] \in {"admitted", "forwarded", "answered", "done"} =>
             r \in failed \/ BothCalls \subseteq charged[r]
        /\ \A col \in {"calls", "tokens"} :
             <<col, "day">> \in charged[r] => <<col, "hour">> \in charged[r]
    BY DEF ChargesKnown, Uncharged, Admitted
  <2> QED
    BY <2>3, <2>5, <2>6
<1> QED
  BY <1>1, TypeCorrect, ChargesCorrect, PTL
-----------------------------------------------------------------------------
(* Sums over finite sets of requests.  A claim about every finite set is   *)
(* proved by showing that there is no smallest set for which it fails.     *)

\* The member of a set that a sum takes first.
Pick(U) == CHOOSE x \in U : TRUE

\* g sums the tokens of every subset of S.
Sums(g, S) ==
  g = [U \in SUBSET S |->
         IF U = {} THEN 0 ELSE TokensOf[Pick(U)] + g[U \ {Pick(U)}]]

TokenSum(U) == MapThenSumSet(LAMBDA r : TokensOf[r], U)

LEMMA TokenSumDef == ASSUME NEW S PROVE TokenSum(S) = (CHOOSE g : Sums(g, S))[S]
BY DEF TokenSum, MapThenSumSet, MapThenFoldSet, Sums, Pick

\* Induction over the subsets of a finite set, as a minimal counterexample.
LEMMA Smallest ==
  ASSUME NEW S, IsFiniteSet(S), NEW Bad \in SUBSET SUBSET S, Bad # {}
  PROVE  \E U \in Bad : \A V \in SUBSET U : V # U => V \notin Bad
<1>1. FiniteSubsetsOf(S) = SUBSET S
  BY FS_FiniteSubsetsOfFinite
<1>2. IsWellFoundedOn(StrictSubsetOrdering(S), SUBSET S)
  BY <1>1, FS_StrictSubsetOrderingWellFounded
<1>3. PICK U \in Bad : \A V \in Bad : <<V, U>> \notin StrictSubsetOrdering(S)
  BY <1>2, WFMin
<1> QED  BY <1>3 DEF StrictSubsetOrdering

LEMMA PickType == ASSUME NEW U, U # {} PROVE Pick(U) \in U
BY DEF Pick

LEMMA SumsUnfold ==
  ASSUME NEW S, NEW g, Sums(g, S), NEW U \in SUBSET S
  PROVE  /\ U = {} => g[U] = 0
         /\ U # {} => g[U] = TokensOf[Pick(U)] + g[U \ {Pick(U)}]
BY DEF Sums

\* Two sums agree where both are defined.
LEMMA SumsAgree ==
  ASSUME NEW S, NEW T, NEW g, NEW h, Sums(g, S), Sums(h, T), IsFiniteSet(S),
         NEW U \in SUBSET S, U \in SUBSET T
  PROVE  g[U] = h[U]
<1> DEFINE Bad == {V \in SUBSET U : g[V] # h[V]}
<1> SUFFICES ASSUME Bad # {} PROVE FALSE
  OBVIOUS
<1>0. IsFiniteSet(U) /\ Bad \in SUBSET SUBSET U
  BY FS_Subset
<1>1. PICK V \in Bad : \A W \in SUBSET V : W # V => W \notin Bad
  <2> HIDE DEF Bad
  <2> QED  BY <1>0, Smallest
<1>2. V # {}
  <2>1. {} \in SUBSET S /\ {} \in SUBSET T
    OBVIOUS
  <2>2. g[{}] = 0 /\ h[{}] = 0
    BY <2>1, SumsUnfold
  <2> QED  BY <1>1, <2>2
<1>3. V \ {Pick(V)} \in SUBSET V /\ V \ {Pick(V)} # V
  BY <1>2, PickType
<1>4. g[V \ {Pick(V)}] = h[V \ {Pick(V)}]
  BY <1>1, <1>3
<1> QED  BY <1>1, <1>2, <1>4, SumsUnfold

\* A finite set has a sum.
LEMMA SumsExist ==
  ASSUME NEW S, IsFiniteSet(S)
  PROVE  \E g : Sums(g, S)
<1> DEFINE Bad == {V \in SUBSET S : ~ \E g : Sums(g, V)}
<1> SUFFICES ASSUME Bad # {} PROVE FALSE
  OBVIOUS
<1>1. PICK U \in Bad : \A V \in SUBSET U : V # U => V \notin Bad
  <2>1. Bad \in SUBSET SUBSET S
    OBVIOUS
  <2> HIDE DEF Bad
  <2> QED  BY <2>1, Smallest
<1>2. \A V \in SUBSET U : V # U => \E g : Sums(g, V)
  BY <1>1
<1> DEFINE the(V) == CHOOSE g : Sums(g, V)
           sum(V) == IF V = {} THEN 0 ELSE TokensOf[Pick(V)] + the(V \ {Pick(V)})[V \ {Pick(V)}]
           all == [V \in SUBSET U |-> sum(V)]
<1>3. \A V \in SUBSET U : V # U => Sums(the(V), V)
  BY <1>2
<1>4. ASSUME NEW V \in SUBSET U, V # {}
      PROVE  all[V \ {Pick(V)}] = the(V \ {Pick(V)})[V \ {Pick(V)}]
  <2> DEFINE W == V \ {Pick(V)}
  <2>1. W \in SUBSET U /\ W # U
    BY <1>4, PickType
  <2>2. Sums(the(W), W) /\ all[W] = sum(W)
    BY <1>3, <2>1
  <2>3. CASE W = {}
    <3>1. sum(W) = 0
      BY <2>3
    <3>2. the(W)[W] = 0
      <4> HIDE DEF the, W
      <4>1. W \in SUBSET W
        OBVIOUS
      <4> QED  BY <2>2, <2>3, <4>1, SumsUnfold
    <3> HIDE DEF the, sum, all
    <3> QED  BY <2>2, <3>1, <3>2
  <2>4. CASE W # {}
    <3> DEFINE X == W \ {Pick(W)}
    <3>1. X \in SUBSET U /\ X # U /\ X \in SUBSET W
      BY <2>1, <2>4, PickType
    <3>2. Sums(the(X), X) /\ IsFiniteSet(X)
      <4>1. IsFiniteSet(U)
        BY FS_Subset
      <4> QED  BY <1>3, <3>1, <4>1, FS_Subset
    <3>3. the(W)[X] = the(X)[X]
      <4> HIDE DEF the, X, W
      <4>0. IsFiniteSet(W)
        BY <2>1, FS_Subset
      <4> QED  BY <2>2, <3>1, <3>2, <4>0, SumsAgree
    <3>4. sum(W) = TokensOf[Pick(W)] + the(X)[X]
      BY <2>4
    <3>5. the(W)[W] = TokensOf[Pick(W)] + the(W)[X]
      <4> HIDE DEF the, W
      <4> QED  BY <2>2, <2>4, SumsUnfold
    <3> HIDE DEF the, sum, all
    <3> QED  BY <2>2, <3>3, <3>4, <3>5
  <2> QED  BY <2>3, <2>4
<1>5. Sums(all, U)
  <2>1. \A V \in SUBSET U : sum(V) = IF V = {} THEN 0 ELSE TokensOf[Pick(V)] + all[V \ {Pick(V)}]
    <3> SUFFICES ASSUME NEW V \in SUBSET U
                 PROVE  sum(V) = IF V = {} THEN 0 ELSE TokensOf[Pick(V)] + all[V \ {Pick(V)}]
      OBVIOUS
    <3> HIDE DEF all, the
    <3>1. CASE V = {}
      BY <3>1
    <3>2. CASE V # {}
      <4>1. all[V \ {Pick(V)}] = the(V \ {Pick(V)})[V \ {Pick(V)}]
        BY <1>4, <3>2
      <4> QED  BY <3>2, <4>1
    <3> QED  BY <3>1, <3>2
  <2>2. [V \in SUBSET U |-> sum(V)]
          = [V \in SUBSET U |-> IF V = {} THEN 0 ELSE TokensOf[Pick(V)] + all[V \ {Pick(V)}]]
    <3> HIDE DEF all, sum
    <3> QED  BY <2>1
  <2>3. all = [V \in SUBSET U |-> IF V = {} THEN 0 ELSE TokensOf[Pick(V)] + all[V \ {Pick(V)}]]
    <3> HIDE DEF sum
    <3> QED  BY <2>2
  <2> HIDE DEF all
  <2> QED  BY <2>3 DEF Sums
<1> QED  BY <1>1, <1>5


LEMMA SumsNat ==
  ASSUME NEW S \in SUBSET Requests, NEW g, Sums(g, S), IsFiniteSet(S)
  PROVE  \A U \in SUBSET S : g[U] \in Nat
<1> DEFINE Bad == {V \in SUBSET S : g[V] \notin Nat}
<1> SUFFICES ASSUME Bad # {} PROVE FALSE
  OBVIOUS
<1>1. PICK V \in Bad : \A W \in SUBSET V : W # V => W \notin Bad
  <2>1. Bad \in SUBSET SUBSET S
    OBVIOUS
  <2> HIDE DEF Bad
  <2> QED  BY <2>1, Smallest
<1>a. V \in SUBSET S /\ g[V] \notin Nat
  OBVIOUS
<1>2. V # {}
  <2>1. {} \in SUBSET S
    OBVIOUS
  <2>2. g[{}] = 0
    BY <2>1, SumsUnfold
  <2> QED  BY <1>a, <2>2
<1>3. Pick(V) \in V /\ g[V \ {Pick(V)}] \in Nat
  BY <1>1, <1>2, PickType
<1>4. TokensOf[Pick(V)] \in Nat
  BY <1>3, BudgetAssumption
<1>5. g[V] = TokensOf[Pick(V)] + g[V \ {Pick(V)}]
  BY <1>2, SumsUnfold
<1> QED  BY <1>a, <1>3, <1>4, <1>5

\* The order in which the members are added makes no difference.
LEMMA SumsAdd ==
  ASSUME NEW S \in SUBSET Requests, NEW g, Sums(g, S), IsFiniteSet(S),
         NEW U \in SUBSET S, NEW x \in S \ U
  PROVE  g[U \cup {x}] = g[U] + TokensOf[x]
<1> DEFINE Bad == {V \in SUBSET S : \E z \in S \ V : g[V \cup {z}] # g[V] + TokensOf[z]}
<1> SUFFICES ASSUME Bad # {} PROVE FALSE
  OBVIOUS
<1>1. PICK V \in Bad : \A W \in SUBSET V : W # V => W \notin Bad
  <2>1. Bad \in SUBSET SUBSET S
    OBVIOUS
  <2> HIDE DEF Bad
  <2> QED  BY <2>1, Smallest
<1>2. V \in SUBSET S /\ \E z \in S \ V : g[V \cup {z}] # g[V] + TokensOf[z]
  OBVIOUS
<1>3. \A W \in SUBSET V : W # V => \A v \in S \ W : g[W \cup {v}] = g[W] + TokensOf[v]
  BY <1>1
<1> HIDE DEF Bad
<1>4. PICK z \in S \ V : g[V \cup {z}] # g[V] + TokensOf[z]
  BY <1>2
<1>5. \A W \in SUBSET S : g[W] \in Nat
  BY SumsNat
<1>6. PICK E : E = V \cup {z}
  OBVIOUS
<1>7. PICK y : y = Pick(E)
  OBVIOUS
<1>8. PICK W : W = V \ {y}
  OBVIOUS
<1>9. y \in E /\ E \in SUBSET S /\ W \in SUBSET S
  BY <1>2, <1>6, <1>7, <1>8, PickType
<1>10. g[E] = TokensOf[y] + g[E \ {y}]
  BY <1>7, <1>9, SumsUnfold
<1>11. TokensOf[y] \in Nat /\ TokensOf[z] \in Nat /\ g[V] \in Nat /\ g[W] \in Nat
  <2>1. y \in Requests /\ z \in Requests
    BY <1>9
  <2>2. TokensOf[y] \in Nat /\ TokensOf[z] \in Nat
    BY <2>1, BudgetAssumption
  <2> QED  BY <1>2, <1>5, <1>9, <2>2
<1>12. CASE y = z
  <2>1. E \ {y} = V
    BY <1>2, <1>6, <1>12
  <2> QED  BY <1>4, <1>6, <1>10, <1>11, <1>12, <2>1
<1>13. CASE y # z
  <2>1. y \in V /\ W # V /\ W \in SUBSET V /\ y \in S \ W /\ z \in S \ W
    BY <1>2, <1>6, <1>8, <1>9, <1>13
  <2>2. E \ {y} = W \cup {z} /\ V = W \cup {y}
    BY <1>2, <1>6, <1>8, <1>9, <1>13
  <2>3. g[W \cup {z}] = g[W] + TokensOf[z] /\ g[W \cup {y}] = g[W] + TokensOf[y]
    BY <1>3, <2>1
  <2>4. g[E] = TokensOf[y] + (g[W] + TokensOf[z]) /\ g[V] = g[W] + TokensOf[y]
    BY <1>10, <2>2, <2>3
  <2> QED  BY <1>4, <1>6, <1>11, <2>4
<1> QED  BY <1>12, <1>13

\* The sum over a set that grows by one member grows by what it counts.
LEMMA TokenSumAdd ==
  ASSUME NEW S \in SUBSET Requests, IsFiniteSet(S), NEW r \in Requests \ S
  PROVE  TokenSum(S \cup {r}) = TokenSum(S) + TokensOf[r] /\ TokenSum(S) \in Nat
<1> DEFINE T == S \cup {r}
           g == CHOOSE f : Sums(f, S)
           h == CHOOSE f : Sums(f, T)
<1>1. IsFiniteSet(T) /\ T \in SUBSET Requests
  BY FS_AddElement
<1>2. Sums(g, S) /\ Sums(h, T)
  <2>1. (\E f : Sums(f, S)) /\ (\E f : Sums(f, T))
    BY <1>1, SumsExist
  <2> QED  BY <2>1
<1>3. TokenSum(S) = g[S] /\ TokenSum(T) = h[T]
  BY TokenSumDef
<1> HIDE DEF g, h
<1>4. g[S] = h[S] /\ S \in SUBSET T /\ r \in T \ S
  BY <1>1, <1>2, SumsAgree
<1>5. h[S \cup {r}] = h[S] + TokensOf[r] /\ h[S] \in Nat
  <2> HIDE DEF T
  <2> QED  BY <1>1, <1>2, <1>4, SumsAdd, SumsNat
<1> QED  BY <1>3, <1>4, <1>5

LEMMA TokenSumEmpty == TokenSum({}) = 0
<1> DEFINE g == CHOOSE f : Sums(f, {})
<1>1. Sums(g, {})
  <2>1. \E f : Sums(f, {})
    BY FS_EmptySet, SumsExist
  <2> QED  BY <2>1
<1>2. TokenSum({}) = g[{}]
  BY TokenSumDef
<1> HIDE DEF g
<1> QED  BY <1>1, <1>2, SumsUnfold
-----------------------------------------------------------------------------
(* The ledger.                                                             *)

\* A request that is about to charge tokens to a row has not yet done so.
TokensFresh ==
  \A r \in Requests :
    /\ pc[r] \in {"admitted", "forwarded", "answered", "tokensHour"} =>
         \A typ \in WindowTypes : <<"tokens", typ>> \notin charged[r]
    /\ pc[r] = "tokensDay" => <<"tokens", "day">> \notin charged[r]

\* Response tokens are charged to each window once.
THEOREM TokensFreshCorrect == Spec => []TokensFresh
<1>1. Init => TokensFresh
  BY DEF Init, TokensFresh
<1>2. TypeOK /\ ChargesKnown /\ TokensFresh /\ [Next]_vars => TokensFresh'
  <2> SUFFICES ASSUME TypeOK, ChargesKnown, TokensFresh, [Next]_vars, NEW q \in Requests
               PROVE  /\ pc'[q] \in {"admitted", "forwarded", "answered", "tokensHour"} =>
                           \A typ \in WindowTypes : <<"tokens", typ>> \notin charged'[q]
                      /\ pc'[q] = "tokensDay" => <<"tokens", "day">> \notin charged'[q]
    BY DEF TokensFresh
  <2>1. ASSUME NEW r \in Requests, Step(r), r # q
        PROVE  charged'[q] = charged[q] /\ pc'[q] = pc[q]
    BY <2>1
    DEF TypeOK, Step, Inside, LockToCheck, LockToRecord, Lock, ReadClock, ReadFrame,
        CheckHour, CheckDay, CheckTokens, Block, ChargeHour, ChargeDay, StoreError,
        Forward, Answer, AnswerUncounted, RecordHour, RecordDay, RecordError,
        AddCall, AddTokens, Goto, history
  <2>2. CASE Step(q)
    <3> USE DEF TypeOK, Goto, history
    <3>1. CASE ChargeDay(q)
      <4>1. pc[q] = "chargeDay" /\ charged'[q] = charged[q] \cup {<<"calls", "day">>}
            /\ pc'[q] = "admitted"
        BY <3>1 DEF ChargeDay, AddCall
      <4>2. charged[q] = {<<"calls", "hour">>}
        BY <4>1 DEF ChargesKnown
      <4> QED
        BY <4>1, <4>2
    <3>2. CASE StoreError(q)
      <4>1. pc[q] \in Checking \cup Charging /\ pc'[q] = "admitted" /\ charged' = charged
        BY <3>2 DEF StoreError, AtStore, Checking, Charging
      <4>2. charged[q] = {} \/ charged[q] = {<<"calls", "hour">>}
        BY <4>1 DEF ChargesKnown, Uncharged, Checking, Charging
      <4> QED
        BY <4>1, <4>2
    <3>3. CASE RecordHour(q)
      <4>1. pc[q] = "tokensHour" /\ charged'[q] = charged[q] \cup {<<"tokens", "hour">>}
            /\ pc'[q] = "tokensDay"
        BY <3>3 DEF RecordHour, AddTokens
      <4>2. <<"tokens", "day">> \notin charged[q]
        BY <4>1 DEF TokensFresh, WindowTypes
      <4> QED
        BY <4>1, <4>2
    <3>4. CASE \/ ReadClock(q) \/ ReadFrame(q) \/ LockToCheck(q) \/ CheckHour(q)
               \/ CheckDay(q) \/ CheckTokens(q) \/ Block(q) \/ ChargeHour(q)
               \/ RecordDay(q) \/ RecordError(q) \/ AnswerUncounted(q)
      <4>1. pc'[q] \notin {"admitted", "forwarded", "answered", "tokensHour", "tokensDay"}
        BY <3>4
        DEF ReadClock, ReadFrame, LockToCheck, Lock, CheckHour, CheckDay, CheckTokens,
            Block, ChargeHour, RecordDay, RecordError, AnswerUncounted
      <4> QED
        BY <4>1
    <3>5. CASE LockToRecord(q) \/ Forward(q) \/ Answer(q)
      <4>1. /\ pc[q] \in {"admitted", "forwarded", "answered"}
            /\ pc'[q] \in {"forwarded", "answered", "tokensHour"}
            /\ charged' = charged
        BY <3>5 DEF LockToRecord, Lock, Forward, Answer
      <4> QED
        BY <4>1 DEF TokensFresh
    <3> QED
      BY <2>2, <3>1, <3>2, <3>3, <3>4, <3>5 DEF Step, Inside
  <2>3. ASSUME \/ \E t \in Teams, typ \in WindowTypes : Reset(t, typ)
               \/ \E m \in Managers : Crash(m)
               \/ Tick
               \/ UNCHANGED vars
        PROVE  charged' = charged /\ pc'[q] \in {pc[q], "lost"}
    BY <2>3 DEF TypeOK, Reset, Crash, Tick, vars, history
  <2> QED
    BY <2>1, <2>2, <2>3 DEF Next, TokensFresh
<1> QED
  BY <1>1, <1>2, TypeCorrect, ChargesCorrect, PTL DEF Spec

Columns == {"calls", "tokens"}

\* The ledger of one row, which adds to LedgerExact that every row has
\* finitely many chargers: without it the sums would mean nothing.
RowExact(s) ==
  /\ calls[s] = Cardinality(Chargers("calls", s))
  /\ tokens[s] = TokenSum(Chargers("tokens", s))
FiniteChargers == \A s \in Slots, col \in Columns : IsFiniteSet(Chargers(col, s))
Ledger == FiniteChargers /\ \A s \in Slots \ cleared : RowExact(s)

\* A step that leaves the charges of a request, and what they are charged to.
SameRows(r) ==
  /\ charged'[r] = charged[r]
  /\ at'[r] = at[r] \/ charged[r] = {}
  /\ \/ bill'[r] = bill[r]
     \/ \A typ \in WindowTypes : <<"tokens", typ>> \notin charged[r]

\* Who has charged a row depends on the charges and on what they are charged to.
LEMMA ChargersSame ==
  ASSUME \A r \in Requests : SameRows(r), NEW col \in Columns, NEW s \in Slots
  PROVE  Chargers(col, s)' = Chargers(col, s)
<1>1. s[2] \in WindowTypes
  BY DEF Slots
<1>2. ASSUME NEW r \in Requests
      PROVE  /\ charged'[r] = charged[r]
             /\ <<col, s[2]>> \in charged[r] => RowOf(col, r, s[2])' = RowOf(col, r, s[2])
  BY <1>1 DEF SameRows, RowOf, Columns, Slot, TokenSlot
<1>3. \A r \in Requests : (r \in Chargers(col, s)') <=> (r \in Chargers(col, s))
  BY <1>2 DEF Chargers
<1> QED
  BY <1>3 DEF Chargers

\* A charge adds the request to the chargers of one row in one column.
LEMMA ChargersGrow ==
  ASSUME TypeOK, NEW r \in Requests, NEW col \in Columns, NEW typ \in WindowTypes,
         at' = at, bill' = bill,
         charged'[r] = charged[r] \cup {<<col, typ>>},
         \A q \in Requests : q # r => charged'[q] = charged[q],
         NEW c \in Columns, NEW s \in Slots
  PROVE  /\ c = col /\ s = RowOf(col, r, typ) => Chargers(c, s)' = Chargers(c, s) \cup {r}
         /\ c # col \/ s # RowOf(col, r, typ) => Chargers(c, s)' = Chargers(c, s)
<1>1. \A q \in Requests : RowOf(c, q, s[2])' = RowOf(c, q, s[2])
  BY DEF RowOf, Slot, TokenSlot, Row
<1>2. RowOf(col, r, typ)[2] = typ
  BY DEF RowOf, Slot, TokenSlot, Row
<1>3. \A q \in Requests : (q \in Chargers(c, s)') <=> (<<c, s[2]>> \in charged'[q] /\ s = RowOf(c, q, s[2]))
  BY <1>1 DEF Chargers
<1>4. Chargers(c, s)' \subseteq Requests
  BY DEF Chargers
<1>5. CASE c = col /\ s = RowOf(col, r, typ)
  <2>1. \A q \in Requests : (q \in Chargers(c, s)') <=> q \in Chargers(c, s) \/ q = r
    BY <1>2, <1>3, <1>5 DEF Chargers
  <2> QED
    BY <1>4, <1>5, <2>1 DEF Chargers
<1>6. CASE c # col \/ s # RowOf(col, r, typ)
  <2>1. s = RowOf(c, r, s[2]) => <<c, s[2]>> # <<col, typ>>
    BY <1>6
  <2>2. \A q \in Requests : (q \in Chargers(c, s)') <=> q \in Chargers(c, s)
    BY <1>3, <2>1 DEF Chargers
  <2> QED
    BY <1>4, <1>6, <2>2 DEF Chargers
<1> QED
  BY <1>5, <1>6

\* A call counted to a row keeps the ledger.
LEMMA CallKeepsLedger ==
  ASSUME TypeOK, Ledger, NEW r \in Requests, NEW typ \in WindowTypes, AddCall(r, typ),
         <<"calls", typ>> \notin charged[r], at' = at, bill' = bill,
         tokens' = tokens, cleared' = cleared
  PROVE  Ledger'
<1> SUFFICES ASSUME NEW s \in Slots
             PROVE  /\ \A col \in Columns : IsFiniteSet(Chargers(col, s)')
                    /\ s \notin cleared => RowExact(s)'
  BY DEF Ledger, FiniteChargers
<1>1. /\ s = Slot(r, typ) => Chargers("calls", s)' = Chargers("calls", s) \cup {r}
      /\ s # Slot(r, typ) => Chargers("calls", s)' = Chargers("calls", s)
      /\ Chargers("tokens", s)' = Chargers("tokens", s)
  <2>1. /\ charged'[r] = charged[r] \cup {<<"calls", typ>>}
        /\ \A q \in Requests : q # r => charged'[q] = charged[q]
    BY DEF AddCall, TypeOK
  <2>2. "calls" \in Columns /\ "tokens" \in Columns /\ "calls" # "tokens"
    BY DEF Columns
  <2>3. ASSUME NEW c \in Columns
        PROVE  /\ c = "calls" /\ s = Slot(r, typ) => Chargers(c, s)' = Chargers(c, s) \cup {r}
               /\ c # "calls" \/ s # Slot(r, typ) => Chargers(c, s)' = Chargers(c, s)
    BY <2>1, <2>2, ChargersGrow DEF RowOf
  <2> QED
    BY <2>2, <2>3
<1>2. IsFiniteSet(Chargers("calls", s)) /\ IsFiniteSet(Chargers("tokens", s))
  BY DEF Ledger, FiniteChargers, Columns
<1>3. \A col \in Columns : IsFiniteSet(Chargers(col, s)')
  BY <1>1, <1>2, FS_AddElement DEF Columns
<1>4. s \notin cleared => RowExact(s)
  BY DEF Ledger
<1>5. CASE s = Slot(r, typ)
  <2>1. r \notin Chargers("calls", s)
    BY <1>5 DEF Chargers, RowOf, Slot, Row
  <2>2. Cardinality(Chargers("calls", s)') = Cardinality(Chargers("calls", s)) + 1
    BY <1>1, <1>2, <1>5, <2>1, FS_AddElement
  <2>3. calls'[s] = calls[s] + 1
    BY <1>5 DEF AddCall, TypeOK
  <2> QED
    BY <1>1, <1>3, <1>4, <2>2, <2>3 DEF RowExact
<1>6. CASE s # Slot(r, typ)
  <2>1. calls'[s] = calls[s]
    BY <1>6 DEF AddCall, TypeOK
  <2> QED
    BY <1>1, <1>3, <1>4, <1>6, <2>1 DEF RowExact
<1> QED
  BY <1>5, <1>6

\* So do the tokens of a response.
LEMMA TokensKeepLedger ==
  ASSUME TypeOK, Ledger, NEW r \in Requests, NEW typ \in WindowTypes, AddTokens(r, typ),
         <<"tokens", typ>> \notin charged[r], at' = at, bill' = bill,
         calls' = calls, cleared' = cleared
  PROVE  Ledger'
<1> SUFFICES ASSUME NEW s \in Slots
             PROVE  /\ \A col \in Columns : IsFiniteSet(Chargers(col, s)')
                    /\ s \notin cleared => RowExact(s)'
  BY DEF Ledger, FiniteChargers
<1>1. /\ s = TokenSlot(r, typ) => Chargers("tokens", s)' = Chargers("tokens", s) \cup {r}
      /\ s # TokenSlot(r, typ) => Chargers("tokens", s)' = Chargers("tokens", s)
      /\ Chargers("calls", s)' = Chargers("calls", s)
  <2>1. /\ charged'[r] = charged[r] \cup {<<"tokens", typ>>}
        /\ \A q \in Requests : q # r => charged'[q] = charged[q]
    BY DEF AddTokens, TypeOK
  <2>2. "calls" \in Columns /\ "tokens" \in Columns /\ "calls" # "tokens"
    BY DEF Columns
  <2>3. ASSUME NEW c \in Columns
        PROVE  /\ c = "tokens" /\ s = TokenSlot(r, typ) => Chargers(c, s)' = Chargers(c, s) \cup {r}
               /\ c # "tokens" \/ s # TokenSlot(r, typ) => Chargers(c, s)' = Chargers(c, s)
    BY <2>1, <2>2, ChargersGrow DEF RowOf
  <2> QED
    BY <2>2, <2>3
<1>2. IsFiniteSet(Chargers("calls", s)) /\ IsFiniteSet(Chargers("tokens", s))
  BY DEF Ledger, FiniteChargers, Columns
<1>3. \A col \in Columns : IsFiniteSet(Chargers(col, s)')
  BY <1>1, <1>2, FS_AddElement DEF Columns
<1>4. s \notin cleared => RowExact(s)
  BY DEF Ledger
<1>5. CASE s = TokenSlot(r, typ)
  <2>1. r \notin Chargers("tokens", s) /\ Chargers("tokens", s) \subseteq Requests
    BY <1>5 DEF Chargers, RowOf, TokenSlot, Row
  <2>2. TokenSum(Chargers("tokens", s) \cup {r}) = TokenSum(Chargers("tokens", s)) + TokensOf[r]
    BY <1>2, <2>1, TokenSumAdd
  <2>3. tokens'[s] = tokens[s] + TokensOf[r]
    BY <1>5 DEF AddTokens, TypeOK
  <2> QED
    BY <1>1, <1>3, <1>4, <1>5, <2>2, <2>3 DEF RowExact
<1>6. CASE s # TokenSlot(r, typ)
  <2>1. tokens'[s] = tokens[s]
    BY <1>6 DEF AddTokens, TypeOK
  <2> QED
    BY <1>1, <1>3, <1>4, <1>6, <2>1 DEF RowExact
<1> QED
  BY <1>5, <1>6

\* A step that moves no charge keeps the ledger.
LEMMA QuietKeepsLedger ==
  ASSUME Ledger, calls' = calls, tokens' = tokens, cleared' = cleared,
         \A r \in Requests : SameRows(r)
  PROVE  Ledger'
<1>1. \A s \in Slots, col \in Columns : Chargers(col, s)' = Chargers(col, s)
  BY ChargersSame
<1> QED
  BY <1>1 DEF Ledger, FiniteChargers, RowExact, Columns

\* A row that was never reset holds exactly the calls reserved in it and the
\* tokens of the traces of its team and window, whatever calls the responses
\* are matched with and whatever the workers, store errors and crashes do.
THEOREM LedgerCorrect == Spec => []LedgerExact
<1>1. Init => Ledger
  <2> SUFFICES ASSUME Init PROVE Ledger
    OBVIOUS
  <2>1. \A s \in Slots, col \in Columns : Chargers(col, s) = {}
    BY DEF Init, Chargers
  <2>2. \A s \in Slots : RowExact(s)
    BY <2>1, TokenSumEmpty, FS_EmptySet DEF Init, RowExact, Columns
  <2> QED
    BY <2>1, <2>2, FS_EmptySet DEF Ledger, FiniteChargers
<1>2. TypeOK /\ ChargesKnown /\ TokensFresh /\ Ledger /\ [Next]_vars => Ledger'
  <2> SUFFICES ASSUME TypeOK, ChargesKnown, TokensFresh, Ledger, [Next]_vars PROVE Ledger'
    OBVIOUS
  <2>1. ASSUME NEW r \in Requests, Step(r) PROVE Ledger'
    <3>1. CASE ReadClock(r)
      <4>1. charged[r] = {}
        BY <3>1 DEF ReadClock, Goto, ChargesKnown, Uncharged
      <4>2. \A q \in Requests : SameRows(q)
        BY <3>1, <4>1 DEF ReadClock, history, TypeOK, SameRows
      <4> QED
        BY <3>1, <4>2, QuietKeepsLedger DEF ReadClock, table
    <3>2. CASE ChargeHour(r)
      <4>1. <<"calls", "hour">> \notin charged[r]
        BY <3>2 DEF ChargeHour, Goto, ChargesKnown, Uncharged
      <4> QED
        BY <3>2, <4>1, CallKeepsLedger DEF ChargeHour, WindowTypes
    <3>3. CASE ChargeDay(r)
      <4>1. charged[r] = {<<"calls", "hour">>}
        BY <3>3 DEF ChargeDay, Goto, ChargesKnown
      <4>2. <<"calls", "day">> \notin charged[r]
        BY <4>1
      <4> QED
        BY <3>3, <4>2, CallKeepsLedger DEF ChargeDay, WindowTypes
    <3>4. CASE RecordHour(r)
      <4>1. <<"tokens", "hour">> \notin charged[r]
        BY <3>4 DEF RecordHour, Goto, TokensFresh, WindowTypes
      <4> QED
        BY <3>4, <4>1, TokensKeepLedger DEF RecordHour, WindowTypes
    <3>5. CASE RecordDay(r)
      <4>1. <<"tokens", "day">> \notin charged[r]
        BY <3>5 DEF RecordDay, Goto, TokensFresh
      <4> QED
        BY <3>5, <4>1, TokensKeepLedger DEF RecordDay, WindowTypes
    <3>6. CASE \/ ReadFrame(r) \/ LockToCheck(r) \/ LockToRecord(r) \/ CheckHour(r)
               \/ CheckDay(r) \/ CheckTokens(r) \/ Block(r) \/ StoreError(r)
               \/ RecordError(r) \/ Forward(r) \/ AnswerUncounted(r)
      <4>1. calls' = calls /\ tokens' = tokens /\ cleared' = cleared
            /\ charged' = charged /\ at' = at /\ bill' = bill
        BY <3>6
        DEF ReadFrame, LockToCheck, LockToRecord, Lock, CheckHour, CheckDay, CheckTokens,
            Block, StoreError, RecordError, Forward, AnswerUncounted, table, history
      <4> QED
        BY <4>1, QuietKeepsLedger DEF SameRows
    <3>7. CASE Answer(r)
      <4>1. \A typ \in WindowTypes : <<"tokens", typ>> \notin charged[r]
        BY <3>7 DEF Answer, Goto, TokensFresh
      <4>2. \A q \in Requests : SameRows(q)
        BY <3>7, <4>1 DEF Answer, history, TypeOK, SameRows
      <4> QED
        BY <3>7, <4>2, QuietKeepsLedger DEF Answer, table
    <3> QED
      BY <2>1, <3>1, <3>2, <3>3, <3>4, <3>5, <3>6, <3>7 DEF Step, Inside
  <2>2. ASSUME NEW t \in Teams, NEW typ \in WindowTypes, Reset(t, typ) PROVE Ledger'
    <3> DEFINE row == Row(t, now, typ)
    <3>1. \A s \in Slots, col \in Columns : Chargers(col, s)' = Chargers(col, s)
      BY <2>2, ChargersSame DEF Reset, history, SameRows
    <3>2. \A s \in Slots \ cleared' : s \notin cleared /\ calls'[s] = calls[s] /\ tokens'[s] = tokens[s]
      BY <2>2 DEF Reset, TypeOK
    <3> QED
      BY <3>1, <3>2 DEF Ledger, FiniteChargers, RowExact, Columns
  <2>3. ASSUME (\E m \in Managers : Crash(m)) \/ Tick \/ UNCHANGED vars PROVE Ledger'
    <3>1. calls' = calls /\ tokens' = tokens /\ cleared' = cleared
          /\ charged' = charged /\ at' = at /\ bill' = bill
      BY <2>3 DEF Crash, Tick, vars, table, history
    <3> QED
      BY <3>1, QuietKeepsLedger DEF SameRows
  <2> QED
    BY <2>1, <2>2, <2>3 DEF Next
<1>3. Ledger => LedgerExact
  BY DEF Ledger, LedgerExact, RowExact, TokenSum
<1> QED
  BY <1>1, <1>2, <1>3, TypeCorrect, ChargesCorrect, TokensFreshCorrect, PTL DEF Spec
=============================================================================
