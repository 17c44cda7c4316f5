-------------------------- MODULE UltrasonicProofs --------------------------
(***************************************************************************)
(* Proofs about the Ultrasonic round robin for every set of sensors and of *)
(* program threads.                                                        *)
(***************************************************************************)
EXTENDS Ultrasonic, TLAPS

\* Erasing one element of a sequence of sensors leaves a sequence of sensors.
LEMMA EraseAtType ==
    ASSUME NEW S, NEW q \in Seq(S), NEW i \in 1..Len(q)
    PROVE  EraseAt(q, i) \in Seq(S)
<1>1. Len(q) - 1 \in Nat
  OBVIOUS
<1>2. \A j \in 1..Len(q) - 1 : (IF j < i THEN q[j] ELSE q[j + 1]) \in S
  OBVIOUS
<1>. QED
  BY <1>1, <1>2 DEF EraseAt

LEMMA InitTypeOK == Init => TypeOK
<1> SUFFICES ASSUME Init PROVE TypeOK
  OBVIOUS
<1>1. AnySensor \in Sensors
  BY SensorsAssumption DEF AnySensor
<1>2. /\ obj \in [Users -> Sensors] /\ ret \in [Users -> UserPCs]
      /\ op \in [Users -> Ops] /\ upc \in [Users -> UserPCs]
  BY <1>1 DEF Init, UserPCs, Ops
<1>3. /\ automatic \in BOOLEAN /\ joinable \in BOOLEAN /\ crashed \in BOOLEAN
      /\ enabled \in [Sensors -> BOOLEAN] /\ saved \in [Users -> BOOLEAN]
      /\ arg \in [Users -> BOOLEAN]
  BY Zenon DEF Init
<1>4. /\ checker \in CheckerPCs /\ pos \in Nat /\ sensors \in Seq(Sensors)
      /\ life \in [Sensors -> {"unborn", "ctor", "live", "dtor", "dead"}]
  BY DEF Init, CheckerPCs
<1>. QED
  BY <1>2, <1>3, <1>4, Zenon DEF TypeOK

LEMMA NextTypeOK == TypeOK /\ [Next]_vars => TypeOK'
<1> SUFFICES ASSUME TypeOK, [Next]_vars PROVE TypeOK'
  OBVIOUS
<1>. USE DEF TypeOK, UserPCs, CheckerPCs, Ops, locals
<1>1. ASSUME NEW u \in Users, UserCall(u) PROVE TypeOK'
  <2>1. CASE Construct(u)
    BY <2>1 DEF Construct
  <2>2. CASE Destroy(u)
    BY <2>2 DEF Destroy
  <2>3. CASE SetAutomaticModeCall(u)
    BY <2>3 DEF SetAutomaticModeCall
  <2>4. CASE SetEnabled(u)
    BY <2>4 DEF SetEnabled
  <2>. QED
    BY <1>1, <2>1, <2>2, <2>3, <2>4 DEF UserCall
<1>2. ASSUME NEW u \in Users, UserStep(u) PROVE TypeOK'
  <2>1. CASE InitRead(u)
    BY <2>1 DEF InitRead, CallSetAutomaticMode, Return
  <2>2. CASE InitLink(u)
    BY <2>2 DEF InitLink, CallSetAutomaticMode, Return
  <2>3. CASE DestroyErase(u)
    <3>1. sensors' \in Seq(Sensors)
      <4>1. CASE Linked(obj[u])
        BY <2>3, <4>1, EraseAtType DEF DestroyErase
      <4>2. CASE ~Linked(obj[u])
        BY <2>3, <4>2 DEF DestroyErase
      <4>. QED
        BY <4>1, <4>2
    <3>. QED
      BY <2>3, <3>1 DEF DestroyErase
  <2>4. CASE DestroyRestart(u)
    <3>0. UNCHANGED <<automatic, joinable, checker, pos, sensors, enabled, life, crashed>>
      BY <2>4 DEF DestroyRestart
    <3>1. CASE sensors # <<>> /\ saved[u]
      <4>1. /\ upc' = [upc EXCEPT ![u] = "sa_check"]
            /\ arg' = [arg EXCEPT ![u] = TRUE]
            /\ ret' = [ret EXCEPT ![u] = "d_done"]
            /\ UNCHANGED <<obj, saved, op>>
        BY <2>4, <3>1 DEF DestroyRestart, CallSetAutomaticMode
      <4>2. upc' \in [Users -> UserPCs] /\ arg' \in [Users -> BOOLEAN] /\ ret' \in [Users -> UserPCs]
        BY <4>1
      <4>. QED
        BY <3>0, <4>1, <4>2, Zenon
    <3>2. CASE ~(sensors # <<>> /\ saved[u])
      <4>1. upc' = [upc EXCEPT ![u] = "d_done"] /\ UNCHANGED <<obj, saved, arg, ret, op>>
        BY <2>4, <3>2, Zenon DEF DestroyRestart, locals
      <4>2. upc' \in [Users -> UserPCs]
        BY <4>1
      <4>. QED
        BY <3>0, <4>1, <4>2, Zenon
    <3>. QED
      BY <3>1, <3>2
  <2>5. CASE DestroyDone(u)
    BY <2>5 DEF DestroyDone, CallSetAutomaticMode, Return
  <2>6. CASE SACheck(u)
    BY <2>6 DEF SACheck, CallSetAutomaticMode, Return
  <2>7. CASE SAStore(u)
    BY <2>7 DEF SAStore, CallSetAutomaticMode, Return
  <2>8. CASE SAStart(u)
    <3>1. CASE joinable
      BY <2>8, <3>1 DEF SAStart
    <3>2. CASE ~joinable
      BY <2>8, <3>2 DEF SAStart, Return
    <3>. QED
      BY <3>1, <3>2
  <2>9. CASE SAJoin(u)
    <3>1. CASE joinable
      <4>1. /\ upc' = [upc EXCEPT ![u] = ret[u]] /\ joinable' = FALSE
            /\ UNCHANGED <<automatic, checker, pos, sensors, enabled, life, crashed,
                           obj, saved, arg, ret, op>>
        BY <2>9, <3>1 DEF SAJoin, Return
      <4>2. upc' \in [Users -> UserPCs]
        BY <4>1
      <4>. QED
        BY <4>1, <4>2, Zenon
    <3>2. CASE ~joinable
      BY <2>9, <3>2 DEF SAJoin
    <3>. QED
      BY <3>1, <3>2
  <2>. QED
    BY <1>2, <2>1, <2>2, <2>3, <2>4, <2>5, <2>6, <2>7, <2>8, <2>9 DEF UserStep
<1>3. CASE CheckerStep
  BY <1>3 DEF CheckerStep, CheckerTop, CheckerEndPass, CheckerVisit, CheckerNext
<1>4. CASE UNCHANGED vars
  BY <1>4 DEF vars
<1>. QED
  BY <1>1, <1>2, <1>3, <1>4 DEF Next

\* The round-robin state always holds values of its types.
THEOREM TypeCorrect == Spec => []TypeOK
BY InitTypeOK, NextTypeOK, PTL DEF Spec
-----------------------------------------------------------------------------
(* One program thread                                                      *)

\* The phases of SetAutomaticMode.
SAPhases == {"sa_check", "sa_store", "sa_start", "sa_join"}

\* With one program thread u, the strengthening of ThreadTracksMode: the
\* flag, m_thread and the checker agree except inside SetAutomaticMode
\* between the store and the start or the join, and SetAutomaticMode(false)
\* called from Initialize or the destructor returns with the flag off.
SingleInv(u) ==
    /\ ~crashed
    /\ checker # "off" => joinable
    /\ upc[u] = "sa_store" => arg[u] # automatic
    /\ upc[u] = "sa_start" => automatic /\ arg[u] /\ ~joinable
    /\ upc[u] = "sa_join" => ~automatic /\ ~arg[u] /\ joinable
    /\ upc[u] # "sa_start" => (automatic => joinable /\ checker # "off")
    /\ upc[u] # "sa_join" => (~automatic => ~joinable)
    /\ upc[u] \in SAPhases => ret[u] \in {"idle", "i_link", "d_erase", "d_done"}
    /\ upc[u] \in SAPhases /\ ret[u] \in {"i_link", "d_erase"} => ~arg[u]
    /\ upc[u] \in {"i_link", "d_erase"} => ~automatic

LEMMA SingleInvStep ==
    ASSUME NEW u, Users = {u}, TypeOK, SingleInv(u), [Next]_vars
    PROVE  SingleInv(u)'
<1>. USE DEF SingleInv, SAPhases, TypeOK, locals
<1>1. CASE Construct(u)
  BY <1>1 DEF Construct
<1>2. CASE Destroy(u)
  BY <1>2 DEF Destroy
<1>3. CASE SetAutomaticModeCall(u)
  BY <1>3 DEF SetAutomaticModeCall
<1>4. CASE SetEnabled(u)
  BY <1>4 DEF SetEnabled
<1>5. CASE InitRead(u)
  BY <1>5 DEF InitRead, CallSetAutomaticMode, Return
<1>6. CASE InitLink(u)
  BY <1>6 DEF InitLink, CallSetAutomaticMode, Return
<1>7. CASE DestroyErase(u)
  BY <1>7 DEF DestroyErase, CallSetAutomaticMode, Return
<1>8. CASE DestroyRestart(u)
  BY <1>8 DEF DestroyRestart, CallSetAutomaticMode, Return
<1>9. CASE DestroyDone(u)
  BY <1>9 DEF DestroyDone, CallSetAutomaticMode, Return
<1>10. CASE SACheck(u)
  <2>1. CASE arg[u] = automatic
    <3>1. upc' = [upc EXCEPT ![u] = ret[u]]
          /\ UNCHANGED <<automatic, joinable, checker, crashed, arg, ret>>
      BY <1>10, <2>1 DEF SACheck, Return, locals
    <3>2. upc'[u] = ret[u] /\ ret[u] \in {"idle", "i_link", "d_erase", "d_done"}
      BY <1>10, <3>1 DEF SACheck
    <3>. QED
      BY <1>10, <2>1, <3>1, <3>2 DEF SACheck
  <2>2. CASE arg[u] # automatic
    BY <1>10, <2>2 DEF SACheck, locals
  <2>. QED
    BY <2>1, <2>2
<1>11. CASE SAStore(u)
  <2>0. UNCHANGED <<joinable, checker, crashed, arg, ret>> /\ upc[u] = "sa_store"
    BY <1>11 DEF SAStore, locals
  <2>1. /\ automatic' = arg[u]
        /\ upc' = [upc EXCEPT ![u] = IF arg[u] THEN "sa_start" ELSE "sa_join"]
    BY <1>11 DEF SAStore
  <2>2. CASE arg[u]
    <3>1. ~automatic /\ ~joinable
      BY <1>11, <2>2, Zenon DEF SAStore
    <3>2. upc'[u] = "sa_start" /\ automatic'
      BY <2>1, <2>2
    <3>. QED
      BY <2>0, <2>2, <3>1, <3>2
  <2>3. CASE ~arg[u]
    <3>1. automatic /\ joinable /\ checker # "off"
      BY <1>11, <2>3, Zenon DEF SAStore
    <3>2. upc'[u] = "sa_join" /\ ~automatic'
      BY <2>1, <2>3
    <3>. QED
      BY <2>0, <2>3, <3>1, <3>2
  <2>. QED
    BY <2>2, <2>3
<1>12. CASE SAStart(u)
  <2>1. /\ joinable' /\ checker' = "top"
        /\ upc' = [upc EXCEPT ![u] = ret[u]]
        /\ UNCHANGED <<automatic, crashed, arg, ret>>
    BY <1>12 DEF SAStart, Return, locals
  <2>2. automatic /\ arg[u] /\ upc'[u] = ret[u]
        /\ ret[u] \in {"idle", "d_done"}
    BY <1>12, <2>1 DEF SAStart
  <2>. QED
    BY <2>1, <2>2
<1>13. CASE SAJoin(u)
  <2>1. /\ ~joinable' /\ checker = "off"
        /\ upc' = [upc EXCEPT ![u] = ret[u]]
        /\ UNCHANGED <<automatic, checker, crashed, arg, ret>>
    BY <1>13 DEF SAJoin, Return, locals
  <2>2. ~automatic /\ upc'[u] = ret[u]
        /\ ret[u] \in {"idle", "i_link", "d_erase", "d_done"}
    BY <1>13, <2>1 DEF SAJoin
  <2>. QED
    BY <2>1, <2>2
<1>14. CASE CheckerTop
  <2>1. UNCHANGED <<automatic, joinable, crashed, upc, arg, ret>> /\ checker = "top"
    BY <1>14 DEF CheckerTop, locals
  <2>2. CASE automatic
    <3>1. checker' = "inner"
      BY <1>14, <2>2 DEF CheckerTop
    <3>2. joinable
      BY <2>1
    <3>. QED
      BY <2>1, <2>2, <3>1, <3>2, Zenon
  <2>3. CASE ~automatic
    <3>1. checker' = "off"
      BY <1>14, <2>3 DEF CheckerTop
    <3>. QED
      BY <2>1, <2>3, <3>1
  <2>. QED
    BY <2>2, <2>3
<1>15. CASE CheckerEndPass
  <2>1. /\ UNCHANGED <<automatic, joinable, crashed, upc, arg, ret>>
        /\ checker = "inner" /\ checker' = "top"
    BY <1>15 DEF CheckerEndPass, locals
  <2>. QED
    BY <2>1
<1>16. CASE CheckerVisit
  BY <1>16, ZenonT(60) DEF CheckerVisit
<1>17. CASE CheckerNext
  BY <1>17 DEF CheckerNext
<1>18. CASE UNCHANGED vars
  BY <1>18 DEF vars, locals
<1>. QED
  BY <1>1, <1>2, <1>3, <1>4, <1>5, <1>6, <1>7, <1>8, <1>9, <1>10, <1>11, <1>12, <1>13, <1>14, <1>15, <1>16, <1>17, <1>18 DEF Next, UserStep, UserCall, CheckerStep
LEMMA SingleInvHolds ==
    ASSUME NEW u, Users = {u}
    PROVE  Spec => [](TypeOK /\ SingleInv(u))
<1>1. Init => SingleInv(u)
  BY DEF Init, SingleInv, SAPhases
<1>2. TypeOK /\ SingleInv(u) /\ [Next]_vars => TypeOK' /\ SingleInv(u)'
  BY NextTypeOK, SingleInvStep
<1>. QED
  BY <1>1, <1>2, InitTypeOK, PTL DEF Spec

\* With one program thread, std::thread is never misused
\* (NoThreadMisuse): SetAutomaticMode assigns m_thread only after a join
\* and joins only a started thread, for every set of sensors.
THEOREM SingleThreadNoMisuse ==
    ASSUME NEW u, Users = {u}
    PROVE  Spec => []NoThreadMisuse
<1>1. SingleInv(u) => NoThreadMisuse
  BY DEF SingleInv, NoThreadMisuse
<1>. QED
  BY <1>1, SingleInvHolds, PTL

\* With one program thread, m_sensors changes only while the checker is
\* stopped (SensorsStableWhileChecking): Initialize and the destructor
\* touch the list only after SetAutomaticMode(false) has joined it.
THEOREM SingleThreadListStable ==
    ASSUME NEW u, Users = {u}
    PROVE  Spec => SensorsStableWhileChecking
<1>1. TypeOK /\ SingleInv(u) /\ [Next]_vars
        => [sensors' # sensors => checker = "off"]_vars
  <2> SUFFICES ASSUME TypeOK, SingleInv(u), [Next]_vars, sensors' # sensors
               PROVE  checker = "off"
    BY DEF vars
  <2>1. upc[u] \in {"i_link", "d_erase"}
    <3>1. ASSUME NEW v \in Users, UserStep(v) \/ UserCall(v)
          PROVE  upc[u] \in {"i_link", "d_erase"}
      <4>1. v = u
        OBVIOUS
      <4>2. ~Construct(v)
        BY DEF Construct
      <4>3. ~Destroy(v)
        BY DEF Destroy
      <4>4. ~SetAutomaticModeCall(v)
        BY DEF SetAutomaticModeCall
      <4>5. ~SetEnabled(v)
        BY DEF SetEnabled
      <4>6. ~InitRead(v)
        BY DEF InitRead
      <4>7. ~DestroyRestart(v)
        <5>1. DestroyRestart(v) => UNCHANGED sensors
          BY Zenon DEF DestroyRestart
        <5>. QED
          BY <5>1
      <4>8. ~DestroyDone(v)
        BY DEF DestroyDone
      <4>9. ~SACheck(v)
        BY DEF SACheck
      <4>10. ~SAStore(v)
        BY DEF SAStore
      <4>11. ~SAStart(v)
        BY DEF SAStart
      <4>12. ~SAJoin(v)
        BY DEF SAJoin
      <4>13. InitLink(v) \/ DestroyErase(v)
        BY <3>1, <4>2, <4>3, <4>4, <4>5, <4>6, <4>7, <4>8, <4>9, <4>10, <4>11, <4>12 DEF UserStep, UserCall
      <4>. QED
        BY <4>1, <4>13 DEF InitLink, DestroyErase
    <3>2. CASE CheckerStep
      BY <3>2 DEF CheckerStep, CheckerTop, CheckerEndPass, CheckerVisit, CheckerNext
    <3>3. CASE UNCHANGED vars
      BY <3>3 DEF vars
    <3>. QED
      BY <3>1, <3>2, <3>3 DEF Next
  <2>2. ~automatic /\ ~joinable
    BY <2>1 DEF SingleInv
  <2>. QED
    BY <2>2 DEF SingleInv
<1>. QED
  BY <1>1, SingleInvHolds, PTL DEF Spec, SensorsStableWhileChecking

\* With one program thread, between operations m_thread holds a running
\* checker exactly when automatic mode is on (ThreadTracksMode).
THEOREM SingleThreadTracksMode ==
    ASSUME NEW u, Users = {u}
    PROVE  Spec => []ThreadTracksMode
<1>1. TypeOK /\ SingleInv(u) => ThreadTracksMode
  <2> SUFFICES ASSUME TypeOK, SingleInv(u), upc[u] = "idle"
               PROVE  joinable = automatic /\ (checker # "off") = automatic
    BY DEF ThreadTracksMode
  <2>1. automatic => joinable /\ checker # "off"
    BY DEF SingleInv
  <2>2. ~automatic => ~joinable /\ checker = "off"
    BY DEF SingleInv
  <2>. QED
    BY <2>1, <2>2, Zenon DEF TypeOK
<1>. QED
  BY <1>1, SingleInvHolds, PTL
-----------------------------------------------------------------------------
(* Restoring the mode                                                      *)

\* With one program thread u, what Initialize and the destructor remember
\* across their calls of SetAutomaticMode: each pc belongs to the operation
\* that reaches it, the call from InitLink restores originalMode, the call
\* from DestroyRestart was made only with wasAutomaticMode set and sensors
\* left, and after the destructor's SetAutomaticMode(false) the flag is
\* off until DestroyRestart decides.
ModeInv(u) ==
    /\ upc[u] \in {"i_read", "i_link"} => op[u] = "ctor"
    /\ upc[u] \in {"d_erase", "d_restart", "d_done"} => op[u] = "dtor"
    /\ upc[u] \in SAPhases /\ ret[u] = "i_link" => op[u] = "ctor"
    /\ upc[u] \in SAPhases /\ ret[u] \in {"d_erase", "d_done"} => op[u] = "dtor"
    /\ upc[u] \in SAPhases /\ op[u] = "dtor" => ret[u] \in {"d_erase", "d_done"}
    /\ upc[u] \in SAPhases /\ op[u] = "ctor" /\ ret[u] = "idle"
          => arg[u] = saved[u]
    /\ upc[u] \in SAPhases /\ ret[u] = "d_done"
          => arg[u] /\ saved[u] /\ sensors # <<>>
    /\ upc[u] = "d_restart" => ~automatic
    /\ upc[u] = "d_done" => automatic = (saved[u] /\ sensors # <<>>)

LEMMA ModeInvStep ==
    ASSUME NEW u, Users = {u}, TypeOK, SingleInv(u), ModeInv(u), [Next]_vars
    PROVE  ModeInv(u)'
<1>. USE DEF ModeInv, SAPhases, TypeOK, locals
<1>1. CASE Construct(u)
  BY <1>1 DEF Construct
<1>2. CASE Destroy(u)
  BY <1>2 DEF Destroy
<1>3. CASE SetAutomaticModeCall(u)
  BY <1>3 DEF SetAutomaticModeCall
<1>4. CASE SetEnabled(u)
  BY <1>4 DEF SetEnabled
<1>5. CASE InitRead(u)
  BY <1>5 DEF InitRead
<1>6. CASE InitLink(u)
  BY <1>6 DEF InitLink, CallSetAutomaticMode
<1>7. CASE DestroyErase(u)
  BY <1>7 DEF DestroyErase, SingleInv
<1>8. CASE DestroyRestart(u)
  BY <1>8 DEF DestroyRestart, CallSetAutomaticMode
<1>9. CASE DestroyDone(u)
  BY <1>9 DEF DestroyDone
<1>10. CASE SACheck(u)
  <2>1. CASE arg[u] = automatic
    <3>1. /\ upc' = [upc EXCEPT ![u] = ret[u]]
          /\ UNCHANGED <<automatic, sensors, obj, saved, arg, ret, op>>
      BY <1>10, <2>1 DEF SACheck, Return
    <3>2. upc[u] = "sa_check" /\ ret[u] \in {"idle", "i_link", "d_erase", "d_done"}
      BY <1>10 DEF SACheck, SingleInv
    <3>. QED
      BY <2>1, <3>1, <3>2
  <2>2. CASE arg[u] # automatic
    BY <1>10, <2>2 DEF SACheck
  <2>. QED
    BY <2>1, <2>2
<1>11. CASE SAStore(u)
  BY <1>11 DEF SAStore
<1>12. CASE SAStart(u)
  <2>1. /\ upc' = [upc EXCEPT ![u] = ret[u]]
        /\ UNCHANGED <<automatic, sensors, obj, saved, arg, ret, op>>
    BY <1>12 DEF SAStart, Return, SingleInv
  <2>2. /\ upc[u] = "sa_start" /\ automatic /\ arg[u]
        /\ ret[u] \in {"idle", "d_done"}
    BY <1>12 DEF SAStart, SingleInv
  <2>3. CASE ret[u] = "idle"
    BY <2>1, <2>2, <2>3
  <2>4. CASE ret[u] = "d_done"
    <3>1. saved[u] /\ sensors # <<>> /\ op[u] = "dtor"
      BY <2>2, <2>4
    <3>2. /\ upc'[u] = "d_done" /\ automatic' = TRUE /\ op'[u] = "dtor"
          /\ saved'[u] = TRUE /\ sensors' # <<>>
      BY <2>1, <2>2, <2>4, <3>1
    <3>. QED
      BY <3>2, Zenon
  <2>. QED
    BY <2>2, <2>3, <2>4
<1>13. CASE SAJoin(u)
  <2>1. /\ upc' = [upc EXCEPT ![u] = ret[u]]
        /\ UNCHANGED <<automatic, sensors, obj, saved, arg, ret, op>>
    BY <1>13 DEF SAJoin, Return, SingleInv
  <2>2. /\ upc[u] = "sa_join" /\ ~automatic /\ ~arg[u]
        /\ ret[u] \in {"idle", "i_link", "d_erase", "d_done"}
    BY <1>13 DEF SAJoin, SingleInv
  <2>. QED
    BY <2>1, <2>2
<1>14. CASE CheckerStep
  BY <1>14 DEF CheckerStep, CheckerTop, CheckerEndPass, CheckerVisit, CheckerNext
<1>15. CASE UNCHANGED vars
  BY <1>15 DEF vars
<1>. QED
  BY <1>1, <1>2, <1>3, <1>4, <1>5, <1>6, <1>7, <1>8, <1>9, <1>10, <1>11,
     <1>12, <1>13, <1>14, <1>15 DEF Next, UserStep, UserCall

LEMMA ModeInvHolds ==
    ASSUME NEW u, Users = {u}
    PROVE  Spec => [](TypeOK /\ SingleInv(u) /\ ModeInv(u))
<1>1. Init => ModeInv(u)
  BY DEF Init, ModeInv, SAPhases
<1>2. TypeOK /\ SingleInv(u) /\ ModeInv(u) /\ [Next]_vars => ModeInv(u)'
  BY ModeInvStep
<1>. QED
  BY <1>1, <1>2, SingleInvHolds, PTL DEF Spec

\* With one program thread, a constructor leaves automatic mode as it found
\* it, and a destructor too unless it removed the last sensor, when it
\* leaves the mode off (ModeRestored): Initialize's and the destructor's
\* SetAutomaticMode(false) and the calls that restore originalMode and
\* wasAutomaticMode, for every set of sensors.
THEOREM SingleThreadModeRestored ==
    ASSUME NEW u, Users = {u}
    PROVE  Spec => ModeRestored
<1> DEFINE A == \A v \in Users :
                (upc[v] # "idle" /\ upc'[v] = "idle" /\ op[v] \in {"ctor", "dtor"})
                   => automatic' = (saved[v] /\ (op[v] = "dtor" => sensors # <<>>))
<1>1. TypeOK /\ SingleInv(u) /\ ModeInv(u) /\ [Next]_vars => [A]_vars
  <2> SUFFICES ASSUME TypeOK, SingleInv(u), ModeInv(u), [Next]_vars,
                      upc[u] # "idle", upc'[u] = "idle", op[u] \in {"ctor", "dtor"}
               PROVE  automatic' = (saved[u] /\ (op[u] = "dtor" => sensors # <<>>))
    OBVIOUS
  <2>. USE DEF TypeOK, locals
  <2>1. CASE SACheck(u) \/ SAStart(u) \/ SAJoin(u)
    <3>1. upc[u] \in SAPhases /\ ret[u] = "idle"
      BY <2>1 DEF SACheck, SAStart, SAJoin, Return, SAPhases
    <3>2. op[u] = "ctor" /\ arg[u] = saved[u]
      BY <3>1 DEF ModeInv
    <3>3. automatic' = arg[u]
      BY <2>1, <3>1 DEF SACheck, SAStart, SAJoin, Return, SingleInv
    <3>. QED
      BY <3>2, <3>3
  <2>2. CASE DestroyDone(u)
    BY <2>2 DEF DestroyDone, ModeInv
  <2>3. CASE \/ Construct(u) \/ Destroy(u) \/ SetAutomaticModeCall(u)
             \/ SetEnabled(u) \/ InitRead(u) \/ InitLink(u) \/ DestroyErase(u)
             \/ DestroyRestart(u) \/ SAStore(u)
    BY <2>3 DEF Construct, Destroy, SetAutomaticModeCall, SetEnabled, InitRead,
                InitLink, DestroyErase, DestroyRestart, SAStore,
                CallSetAutomaticMode
  <2>4. CASE CheckerStep \/ UNCHANGED vars
    BY <2>4 DEF CheckerStep, CheckerTop, CheckerEndPass, CheckerVisit,
                CheckerNext, vars
  <2>. QED
    BY <2>1, <2>2, <2>3, <2>4 DEF Next, UserStep, UserCall
<1>2. Spec => [](TypeOK /\ SingleInv(u) /\ ModeInv(u))
  BY ModeInvHolds
<1>3. Spec => [][Next]_vars
  BY PTL DEF Spec
<1>. QED
  BY <1>1, <1>2, <1>3, PTL DEF ModeRestored, A
-----------------------------------------------------------------------------
(* Live sensors only, for any number of program threads                   *)

\* The points SetAutomaticMode returns to.
RetPoints == {"idle", "i_link", "d_erase", "d_done"}

\* u is in a constructor that has not linked its object yet, in a
\* destructor, or in a destructor that has erased its object.
InCtor(u) == upc[u] \in {"i_read", "i_link"} \/ (upc[u] \in SAPhases /\ ret[u] = "i_link")
InDtor(u) ==
    \/ upc[u] \in {"d_erase", "d_restart", "d_done"}
    \/ upc[u] \in SAPhases /\ ret[u] \in {"d_erase", "d_done"}
Erased(u) == upc[u] \in {"d_restart", "d_done"} \/ (upc[u] \in SAPhases /\ ret[u] = "d_done")

\* The strengthening of SensorsAlive: SetAutomaticMode returns to the
\* idle point, Initialize or the destructor; a constructor's object is still in
\* its "ctor" state and a destructor's in its "dtor" state, no two threads
\* construct or destroy the same object, and a destructor past its erase
\* has left no copy of its object in m_sensors.
AliveInv ==
    /\ TypeOK
    /\ SensorsAlive
    /\ \A u \in Users : ret[u] \in RetPoints
    /\ \A u \in Users : InCtor(u) => life[obj[u]] = "ctor"
    /\ \A u \in Users : InDtor(u) => life[obj[u]] = "dtor"
    /\ \A u \in Users : Erased(u) => ~Linked(obj[u])
    /\ \A u, v \in Users : u # v /\ InCtor(u) /\ InCtor(v) => obj[u] # obj[v]
    /\ \A u, v \in Users : u # v /\ InDtor(u) /\ InDtor(v) => obj[u] # obj[v]

\* Erasing the i-th element of a sequence without repetitions leaves a
\* sequence without repetitions that no longer holds that element, and
\* each of whose elements was in the sequence.
LEMMA EraseAtInjective ==
    ASSUME NEW S, NEW q \in Seq(S), IsInjective(q), NEW i \in 1..Len(q)
    PROVE  /\ IsInjective(EraseAt(q, i))
           /\ \A j \in 1..Len(EraseAt(q, i)) :
                 /\ EraseAt(q, i)[j] # q[i]
                 /\ \E k \in 1..Len(q) : EraseAt(q, i)[j] = q[k]
<1> DEFINE e == EraseAt(q, i)
           g(j) == IF j < i THEN j ELSE j + 1
<1>1. e \in Seq(S) /\ Len(e) = Len(q) - 1 /\ DOMAIN e = 1..Len(q) - 1
  BY EraseAtType DEF EraseAt
<1>2. \A j \in 1..Len(q) - 1 : e[j] = q[g(j)]
  BY DEF EraseAt
<1>3. \A a, b \in 1..Len(q) : q[a] = q[b] => a = b
  BY DEF IsInjective
<1>4. \A j \in 1..Len(q) - 1 : g(j) \in 1..Len(q) /\ g(j) # i
  OBVIOUS
<1>5. \A a, b \in 1..Len(q) - 1 : g(a) = g(b) => a = b
  OBVIOUS
<1>6. IsInjective(e)
  <2> SUFFICES ASSUME NEW a \in 1..Len(q) - 1, NEW b \in 1..Len(q) - 1,
                      e[a] = e[b]
               PROVE  a = b
    BY <1>1 DEF IsInjective
  <2>1. q[g(a)] = q[g(b)]
    BY <1>2
  <2>2. g(a) = g(b)
    BY <2>1, <1>3, <1>4
  <2>. QED
    BY <2>2, <1>5
<1>7. ASSUME NEW j \in 1..Len(e)
      PROVE  e[j] # q[i] /\ \E k \in 1..Len(q) : e[j] = q[k]
  <2>1. j \in 1..Len(q) - 1
    BY <1>1
  <2>2. e[j] = q[g(j)] /\ g(j) \in 1..Len(q) /\ g(j) # i
    BY <2>1, <1>2, <1>4
  <2>3. e[j] # q[i]
    BY <2>2, <1>3
  <2>. QED
    BY <2>2, <2>3
<1>. QED
  BY <1>6, <1>7

LEMMA InitAliveInv == Init => AliveInv
<1> SUFFICES ASSUME Init PROVE AliveInv
  OBVIOUS
<1>1. TypeOK
  BY InitTypeOK
<1>2. SensorsAlive
  BY DEF Init, SensorsAlive, IsInjective
<1>3. \A u \in Users : ~InCtor(u) /\ ~InDtor(u) /\ ~Erased(u)
  BY DEF Init, InCtor, InDtor, Erased, SAPhases
<1>4. \A u \in Users : ret[u] \in RetPoints
  BY DEF Init, RetPoints
<1>. QED
  BY <1>1, <1>2, <1>3, <1>4 DEF AliveInv


\* A step that leaves m_sensors, the objects' states and the threads'
\* objects alone, and moves no thread into a constructor or destructor
\* phase it was not in, keeps AliveInv.
LEMMA AliveFrame ==
    ASSUME AliveInv, TypeOK', UNCHANGED <<sensors, life, obj>>,
           \A u \in Users : ret'[u] \in RetPoints,
           \A u \in Users : /\ InCtor(u)' => InCtor(u)
                            /\ InDtor(u)' => InDtor(u)
                            /\ Erased(u)' => Erased(u)
    PROVE  AliveInv'
<1>1. SensorsAlive'
  BY DEF AliveInv, SensorsAlive, IsInjective
<1>2. \A u \in Users : InCtor(u)' => life'[obj'[u]] = "ctor"
  BY DEF AliveInv
<1>3. \A u \in Users : InDtor(u)' => life'[obj'[u]] = "dtor"
  BY DEF AliveInv
<1>4. \A u \in Users : Erased(u)' => ~Linked(obj[u])'
  BY DEF AliveInv, Linked
<1>5. \A u, v \in Users : u # v /\ InCtor(u)' /\ InCtor(v)' => obj'[u] # obj'[v]
  BY DEF AliveInv
<1>6. \A u, v \in Users : u # v /\ InDtor(u)' /\ InDtor(v)' => obj'[u] # obj'[v]
  BY DEF AliveInv
<1>. QED
  BY <1>1, <1>2, <1>3, <1>4, <1>5, <1>6, Zenon DEF AliveInv

\* A step of thread t that changes only t's pc and return point, and moves
\* t into no phase it was not in, moves no thread into a new phase.
LEMMA PhasesKept ==
    ASSUME TypeOK, NEW t \in Users,
           \A u \in Users \ {t} : upc'[u] = upc[u] /\ ret'[u] = ret[u],
           InCtor(t)' => InCtor(t), InDtor(t)' => InDtor(t), Erased(t)' => Erased(t)
    PROVE  \A u \in Users : /\ InCtor(u)' => InCtor(u)
                            /\ InDtor(u)' => InDtor(u)
                            /\ Erased(u)' => Erased(u)
BY DEF InCtor, InDtor, Erased

\* A step of thread t that leaves the other threads' return points alone
\* and gives t one of SetAutomaticMode's return points keeps them all.
LEMMA RetKept ==
    ASSUME AliveInv, NEW t \in Users,
           \A u \in Users \ {t} : ret'[u] = ret[u], ret'[t] \in RetPoints
    PROVE  \A u \in Users : ret'[u] \in RetPoints
BY DEF AliveInv

LEMMA AliveInvStep == AliveInv /\ [Next]_vars => AliveInv'
<1> SUFFICES ASSUME AliveInv, [Next]_vars PROVE AliveInv'
  OBVIOUS
<1>0. TypeOK /\ TypeOK'
  BY NextTypeOK DEF AliveInv
<1>. USE <1>0
<1>1. ASSUME NEW t \in Users, SetAutomaticModeCall(t) \/ SetEnabled(t)
      PROVE  AliveInv'
  <2>2. CASE SetAutomaticModeCall(t)
    <3>0. UNCHANGED <<sensors, life, obj>>
      BY <2>2 DEF SetAutomaticModeCall
    <3>1. /\ \A u \in Users \ {t} : upc'[u] = upc[u] /\ ret'[u] = ret[u]
          /\ upc'[t] = "sa_check" /\ ret'[t] = "idle"
      BY <2>2 DEF SetAutomaticModeCall, TypeOK
    <3>. QED
      BY <3>0, <3>1, RetKept, PhasesKept, AliveFrame
         DEF InCtor, InDtor, Erased, RetPoints
  <2>3. CASE SetEnabled(t)
    <3>1. UNCHANGED <<upc, ret, sensors, life, obj>>
      BY <2>3 DEF SetEnabled, locals
    <3>. QED
      BY <3>1, AliveFrame DEF InCtor, InDtor, Erased, AliveInv
  <2>. QED
    BY <1>1, <2>2, <2>3
<1>2. ASSUME NEW t \in Users, InitRead(t) \/ DestroyRestart(t)
      PROVE  AliveInv'
  <2>1. /\ UNCHANGED <<sensors, life, obj>>
        /\ \A u \in Users \ {t} : upc'[u] = upc[u] /\ ret'[u] = ret[u]
    BY <1>2 DEF InitRead, DestroyRestart, CallSetAutomaticMode, TypeOK, locals
  <2>2. CASE InitRead(t)
    <3>1. upc[t] = "i_read" /\ upc'[t] = "sa_check" /\ ret'[t] = "i_link"
      BY <2>2 DEF InitRead, TypeOK
    <3>. QED
      BY <2>1, <3>1, RetKept, PhasesKept, AliveFrame
         DEF InCtor, InDtor, Erased, SAPhases, RetPoints
  <2>3. CASE DestroyRestart(t)
    <3>1. /\ upc[t] = "d_restart"
          /\ \/ upc'[t] = "sa_check" /\ ret'[t] = "d_done"
             \/ upc'[t] = "d_done" /\ ret'[t] = ret[t]
      BY <2>3 DEF DestroyRestart, CallSetAutomaticMode, TypeOK, locals
    <3>2. ret'[t] \in RetPoints
      BY <3>1 DEF AliveInv, RetPoints
    <3>. QED
      BY <2>1, <3>1, <3>2, RetKept, PhasesKept, AliveFrame
         DEF InCtor, InDtor, Erased, SAPhases
  <2>. QED
    BY <1>2, <2>2, <2>3
<1>3. ASSUME NEW t \in Users, SACheck(t) \/ SAStore(t) \/ SAStart(t) \/ SAJoin(t)
      PROVE  AliveInv'
  <2>1. /\ UNCHANGED <<sensors, life, obj, ret>>
        /\ \A u \in Users \ {t} : upc'[u] = upc[u]
        /\ upc[t] \in SAPhases
        /\ upc'[t] \in SAPhases \cup {ret[t]}
    <3>1. CASE SACheck(t)
      BY <3>1 DEF SACheck, Return, TypeOK, locals, SAPhases
    <3>2. CASE SAStore(t)
      <4>1. upc' = [upc EXCEPT ![t] = IF arg[t] THEN "sa_start" ELSE "sa_join"]
            /\ UNCHANGED <<sensors, life, obj, ret>> /\ upc[t] = "sa_store"
        BY <3>2 DEF SAStore, locals
      <4>2. upc'[t] \in {"sa_start", "sa_join"}
        BY <4>1 DEF TypeOK
      <4>3. \A u \in Users \ {t} : upc'[u] = upc[u]
        BY <4>1 DEF TypeOK
      <4>. QED
        BY <4>1, <4>2, <4>3 DEF SAPhases
    <3>3. CASE SAStart(t)
      BY <3>3 DEF SAStart, Return, TypeOK, locals, SAPhases
    <3>4. CASE SAJoin(t)
      BY <3>4 DEF SAJoin, Return, TypeOK, locals, SAPhases
    <3>. QED
      BY <1>3, <3>1, <3>2, <3>3, <3>4
  <2>2. /\ \A u \in Users \ {t} : upc'[u] = upc[u] /\ ret'[u] = ret[u]
        /\ \A u \in Users : ret'[u] \in RetPoints
    BY <2>1 DEF AliveInv
  <2>3. CASE upc'[t] \in SAPhases
    <3>1. /\ InCtor(t)' => InCtor(t)
          /\ InDtor(t)' => InDtor(t)
          /\ Erased(t)' => Erased(t)
      BY <2>1, <2>3 DEF InCtor, InDtor, Erased, SAPhases
    <3>. QED
      BY <2>1, <2>2, <3>1, PhasesKept, AliveFrame
  <2>4. CASE upc'[t] = ret[t]
    <3>0. ret[t] \in RetPoints
      BY DEF AliveInv
    <3>1. /\ InCtor(t)' => InCtor(t)
          /\ InDtor(t)' => InDtor(t)
          /\ Erased(t)' => Erased(t)
      BY <2>1, <2>4, <3>0 DEF InCtor, InDtor, Erased, SAPhases, RetPoints
    <3>. QED
      BY <2>1, <2>2, <3>1, PhasesKept, AliveFrame
  <2>. QED
    BY <2>1, <2>3, <2>4
<1>4. CASE CheckerStep \/ UNCHANGED vars
  <2>1. UNCHANGED <<sensors, life, obj, upc, ret>>
    BY <1>4 DEF CheckerStep, CheckerTop, CheckerEndPass, CheckerVisit,
                CheckerNext, vars, locals
  <2>. QED
    BY <2>1, AliveFrame DEF InCtor, InDtor, Erased, AliveInv
<1>5. ASSUME NEW t \in Users, Construct(t) PROVE AliveInv'
  <2>1. PICK s \in Sensors :
          /\ life[s] = "unborn"
          /\ \/ /\ life' = [life EXCEPT ![s] = "live"]
                /\ UNCHANGED <<upc, obj, ret>>
             \/ /\ life' = [life EXCEPT ![s] = "ctor"]
                /\ upc' = [upc EXCEPT ![t] = "i_read"]
                /\ obj' = [obj EXCEPT ![t] = s]
                /\ UNCHANGED ret
    BY <1>5 DEF Construct, locals
  <2>2. upc[t] = "idle" /\ UNCHANGED sensors
    BY <1>5 DEF Construct
  <2>3. \A i \in 1..Len(sensors) : sensors[i] # s
    BY <2>1 DEF AliveInv, SensorsAlive
  <2>4. \A u \in Users : InCtor(u) \/ InDtor(u) => obj[u] # s
    BY <2>1 DEF AliveInv
  <2>5. ~InCtor(t) /\ ~InDtor(t) /\ ~Erased(t)
    BY <2>2 DEF InCtor, InDtor, Erased, SAPhases
  <2>6. PICK X : life' = [life EXCEPT ![s] = X]
    BY <2>1
  <2>7. SensorsAlive'
    <3>1. IsInjective(sensors')
      BY <2>2 DEF AliveInv, SensorsAlive
    <3>2. \A i \in 1..Len(sensors) : life'[sensors[i]] = life[sensors[i]]
      BY <2>3, <2>6 DEF TypeOK
    <3>. QED
      BY <2>2, <3>1, <3>2 DEF AliveInv, SensorsAlive
  <2>8. \A u \in Users : InCtor(u) \/ InDtor(u) => life'[obj[u]] = life[obj[u]]
    BY <2>4, <2>6 DEF TypeOK
  <2>9. CASE UNCHANGED <<upc, obj, ret>>
    <3>1. \A u \in Users : /\ InCtor(u)' = InCtor(u) /\ InDtor(u)' = InDtor(u)
                           /\ Erased(u)' = Erased(u)
      BY <2>9, Zenon DEF InCtor, InDtor, Erased
    <3>2. \A u \in Users : Erased(u) => ~Linked(obj[u])'
      BY <2>2, <2>9 DEF AliveInv, Linked
    <3>3. \A u \in Users : ret'[u] \in RetPoints
      BY <2>9 DEF AliveInv
    <3>. QED
      BY <2>7, <2>8, <2>9, <3>1, <3>2, <3>3, Zenon DEF AliveInv
  <2>10. CASE /\ life' = [life EXCEPT ![s] = "ctor"]
              /\ upc' = [upc EXCEPT ![t] = "i_read"]
              /\ obj' = [obj EXCEPT ![t] = s]
              /\ UNCHANGED ret
    <3>1. InCtor(t)' /\ ~InDtor(t)' /\ ~Erased(t)' /\ obj'[t] = s /\ life'[s] = "ctor"
      <4>1. upc'[t] = "i_read" /\ obj'[t] = s /\ life'[s] = "ctor"
        BY <2>10 DEF TypeOK
      <4>. QED
        BY <4>1 DEF InCtor, InDtor, Erased, SAPhases
    <3>2. \A u \in Users \ {t} : /\ InCtor(u)' = InCtor(u) /\ InDtor(u)' = InDtor(u)
                                 /\ Erased(u)' = Erased(u) /\ obj'[u] = obj[u]
      <4>1. \A u \in Users \ {t} : upc'[u] = upc[u] /\ ret'[u] = ret[u] /\ obj'[u] = obj[u]
        BY <2>10 DEF TypeOK
      <4>. QED
        BY <4>1, Zenon DEF InCtor, InDtor, Erased
    <3>3. \A u \in Users : InCtor(u)' => life'[obj'[u]] = "ctor"
      BY <2>5, <2>8, <3>1, <3>2 DEF AliveInv
    <3>4. \A u \in Users : InDtor(u)' => life'[obj'[u]] = "dtor"
      BY <2>5, <2>8, <3>1, <3>2 DEF AliveInv
    <3>5. \A u \in Users : Erased(u)' => ~Linked(obj[u])'
      BY <2>2, <2>5, <3>1, <3>2 DEF AliveInv, Linked
    <3>6. \A u, v \in Users : u # v /\ InCtor(u)' /\ InCtor(v)' => obj'[u] # obj'[v]
      BY <2>4, <2>5, <3>1, <3>2 DEF AliveInv
    <3>7. \A u, v \in Users : u # v /\ InDtor(u)' /\ InDtor(v)' => obj'[u] # obj'[v]
      BY <2>5, <3>1, <3>2 DEF AliveInv
    <3>8. \A u \in Users : ret'[u] \in RetPoints
      BY <2>10 DEF AliveInv
    <3>. QED
      BY <2>7, <3>3, <3>4, <3>5, <3>6, <3>7, <3>8, Zenon DEF AliveInv
  <2>. QED
    BY <2>1, <2>9, <2>10
<1>6. ASSUME NEW t \in Users, Destroy(t) PROVE AliveInv'
  <2>1. PICK s \in Sensors :
          /\ life[s] = "live"
          /\ life' = [life EXCEPT ![s] = "dtor"]
          /\ obj' = [obj EXCEPT ![t] = s]
    BY <1>6, Zenon DEF Destroy
  <2>2. /\ upc[t] = "idle" /\ UNCHANGED sensors
        /\ upc' = [upc EXCEPT ![t] = "sa_check"]
        /\ ret' = [ret EXCEPT ![t] = "d_erase"]
    BY <1>6 DEF Destroy
  <2>3. \A u \in Users : InCtor(u) \/ InDtor(u) => obj[u] # s
    BY <2>1 DEF AliveInv
  <2>4. ~InCtor(t) /\ ~InDtor(t) /\ ~Erased(t)
    BY <2>2 DEF InCtor, InDtor, Erased, SAPhases
  <2>5. SensorsAlive'
    <3>1. \A i \in 1..Len(sensors) :
             life'[sensors[i]] = IF sensors[i] = s THEN "dtor" ELSE life[sensors[i]]
      BY <2>1 DEF TypeOK
    <3>. QED
      BY <2>2, <3>1 DEF AliveInv, SensorsAlive
  <2>6. ~InCtor(t)' /\ InDtor(t)' /\ ~Erased(t)' /\ obj'[t] = s /\ life'[s] = "dtor"
    <3>1. upc'[t] = "sa_check" /\ ret'[t] = "d_erase" /\ obj'[t] = s /\ life'[s] = "dtor"
      BY <2>1, <2>2 DEF TypeOK
    <3>. QED
      BY <3>1 DEF InCtor, InDtor, Erased, SAPhases
  <2>7. \A u \in Users \ {t} : /\ InCtor(u)' = InCtor(u) /\ InDtor(u)' = InDtor(u)
                               /\ Erased(u)' = Erased(u) /\ obj'[u] = obj[u]
                               /\ ret'[u] = ret[u]
    <3>1. \A u \in Users \ {t} : upc'[u] = upc[u] /\ ret'[u] = ret[u] /\ obj'[u] = obj[u]
      BY <2>1, <2>2 DEF TypeOK
    <3>. QED
      BY <3>1, Zenon DEF InCtor, InDtor, Erased
  <2>8. \A u \in Users : InCtor(u) \/ InDtor(u) => life'[obj[u]] = life[obj[u]]
    BY <2>1, <2>3 DEF TypeOK
  <2>9. \A u \in Users : InCtor(u)' => life'[obj'[u]] = "ctor"
    BY <2>4, <2>6, <2>7, <2>8 DEF AliveInv
  <2>10. \A u \in Users : InDtor(u)' => life'[obj'[u]] = "dtor"
    BY <2>4, <2>6, <2>7, <2>8 DEF AliveInv
  <2>11. \A u \in Users : Erased(u)' => ~Linked(obj[u])'
    BY <2>2, <2>4, <2>6, <2>7 DEF AliveInv, Linked
  <2>12. \A u, v \in Users : u # v /\ InCtor(u)' /\ InCtor(v)' => obj'[u] # obj'[v]
    BY <2>4, <2>6, <2>7 DEF AliveInv
  <2>13. \A u, v \in Users : u # v /\ InDtor(u)' /\ InDtor(v)' => obj'[u] # obj'[v]
    BY <2>3, <2>4, <2>6, <2>7 DEF AliveInv
  <2>14. \A u \in Users : ret'[u] \in RetPoints
    BY <2>2, <2>7 DEF AliveInv, RetPoints, TypeOK
  <2>. QED
    BY <2>5, <2>9, <2>10, <2>11, <2>12, <2>13, <2>14, Zenon DEF AliveInv
<1>7. ASSUME NEW t \in Users, InitLink(t) PROVE AliveInv'
  <2> DEFINE s == obj[t]
  <2>1. /\ upc[t] = "i_link"
        /\ sensors' = Append(sensors, s)
        /\ life' = [life EXCEPT ![s] = "live"]
        /\ upc' = [upc EXCEPT ![t] = "sa_check"]
        /\ ret' = [ret EXCEPT ![t] = "idle"]
        /\ UNCHANGED obj
    BY <1>7 DEF InitLink, CallSetAutomaticMode
  <2>2. InCtor(t) /\ ~InDtor(t) /\ life[s] = "ctor" /\ s \in Sensors
    BY <2>1 DEF InCtor, InDtor, AliveInv, TypeOK
  <2>3. \A i \in 1..Len(sensors) : sensors[i] # s
    BY <2>2 DEF AliveInv, SensorsAlive
  <2>4. \A u \in Users \ {t} : InCtor(u) \/ InDtor(u) => obj[u] # s
    BY <2>2 DEF AliveInv
  <2>5. SensorsAlive'
    <3>1. IsInjective(sensors')
      BY <2>1, <2>3 DEF AliveInv, SensorsAlive, IsInjective, TypeOK
    <3>2. \A i \in 1..Len(sensors) : life'[sensors[i]] = life[sensors[i]]
      BY <2>1, <2>3 DEF TypeOK
    <3>3. \A i \in 1..Len(sensors') : life'[sensors'[i]] \in {"live", "dtor"}
      BY <2>1, <2>2, <3>2 DEF AliveInv, SensorsAlive, TypeOK
    <3>. QED
      BY <3>1, <3>3 DEF SensorsAlive
  <2>6. ~InCtor(t)' /\ ~InDtor(t)' /\ ~Erased(t)'
    <3>1. upc'[t] = "sa_check" /\ ret'[t] = "idle"
      BY <2>1 DEF TypeOK
    <3>. QED
      BY <3>1 DEF InCtor, InDtor, Erased
  <2>7. \A u \in Users \ {t} : /\ InCtor(u)' = InCtor(u) /\ InDtor(u)' = InDtor(u)
                               /\ Erased(u)' = Erased(u) /\ ret'[u] = ret[u]
    <3>1. \A u \in Users \ {t} : upc'[u] = upc[u] /\ ret'[u] = ret[u]
      BY <2>1 DEF TypeOK
    <3>. QED
      BY <3>1, Zenon DEF InCtor, InDtor, Erased
  <2>8. \A u \in Users \ {t} : InCtor(u) \/ InDtor(u) => life'[obj[u]] = life[obj[u]]
    BY <2>1, <2>4 DEF TypeOK
  <2>9. \A u \in Users \ {t} : Erased(u) => obj[u] # s /\ ~Linked(obj[u])
    BY <2>4 DEF AliveInv, Erased, InDtor
  <2>10. \A u \in Users : Erased(u)' => ~Linked(obj[u])'
    <3>1. \A x \in Sensors : x # s /\ ~Linked(x) => ~Linked(x)'
      BY <2>1, <2>3 DEF Linked, TypeOK
    <3>. QED
      BY <2>1, <2>6, <2>7, <2>9, <3>1 DEF TypeOK
  <2>11. \A u \in Users : InCtor(u)' => life'[obj'[u]] = "ctor"
    BY <2>1, <2>6, <2>7, <2>8 DEF AliveInv
  <2>12. \A u \in Users : InDtor(u)' => life'[obj'[u]] = "dtor"
    BY <2>1, <2>6, <2>7, <2>8 DEF AliveInv
  <2>13. \A u, v \in Users : u # v /\ InCtor(u)' /\ InCtor(v)' => obj'[u] # obj'[v]
    BY <2>1, <2>6, <2>7 DEF AliveInv
  <2>14. \A u, v \in Users : u # v /\ InDtor(u)' /\ InDtor(v)' => obj'[u] # obj'[v]
    BY <2>1, <2>6, <2>7 DEF AliveInv
  <2>15. \A u \in Users : ret'[u] \in RetPoints
    BY <2>1, <2>7 DEF AliveInv, RetPoints, TypeOK
  <2>. QED
    BY <2>5, <2>10, <2>11, <2>12, <2>13, <2>14, <2>15, Zenon DEF AliveInv
<1>8. ASSUME NEW t \in Users, DestroyErase(t) PROVE AliveInv'
  <2> DEFINE s == obj[t]
  <2>1. /\ upc[t] = "d_erase"
        /\ upc' = [upc EXCEPT ![t] = "d_restart"]
        /\ UNCHANGED <<life, obj, ret>>
        /\ IF Linked(s)
             THEN \E i \in 1..Len(sensors) :
                     sensors[i] = s /\ sensors' = EraseAt(sensors, i)
             ELSE UNCHANGED sensors
    BY <1>8 DEF DestroyErase, locals
  <2>2. InDtor(t) /\ ~InCtor(t) /\ s \in Sensors
    BY <2>1 DEF InCtor, InDtor, TypeOK, SAPhases
  <2>3. /\ IsInjective(sensors')
        /\ ~Linked(s)'
        /\ \A j \in 1..Len(sensors') : \E k \in 1..Len(sensors) : sensors'[j] = sensors[k]
    <3>1. CASE Linked(s)
      <4>1. PICK i \in 1..Len(sensors) : sensors[i] = s /\ sensors' = EraseAt(sensors, i)
        BY <2>1, <3>1, Zenon
      <4>2. sensors \in Seq(Sensors) /\ IsInjective(sensors)
        BY DEF TypeOK, AliveInv, SensorsAlive
      <4>3. /\ IsInjective(EraseAt(sensors, i))
            /\ \A j \in 1..Len(EraseAt(sensors, i)) :
                  /\ EraseAt(sensors, i)[j] # sensors[i]
                  /\ \E k \in 1..Len(sensors) : EraseAt(sensors, i)[j] = sensors[k]
        BY <4>2, EraseAtInjective
      <4>. QED
        BY <2>1, <4>1, <4>3 DEF Linked
    <3>2. CASE ~Linked(s)
      BY <2>1, <3>2 DEF AliveInv, SensorsAlive, Linked
    <3>. QED
      BY <3>1, <3>2
  <2>4. SensorsAlive'
    BY <2>1, <2>3 DEF AliveInv, SensorsAlive
  <2>5. InDtor(t)' /\ Erased(t)' /\ ~InCtor(t)'
    <3>1. upc'[t] = "d_restart"
      BY <2>1 DEF TypeOK
    <3>. QED
      BY <3>1 DEF InCtor, InDtor, Erased, SAPhases
  <2>6. \A u \in Users \ {t} : /\ InCtor(u)' = InCtor(u) /\ InDtor(u)' = InDtor(u)
                               /\ Erased(u)' = Erased(u)
    <3>1. \A u \in Users \ {t} : upc'[u] = upc[u]
      BY <2>1 DEF TypeOK
    <3>. QED
      BY <2>1, <3>1, Zenon DEF InCtor, InDtor, Erased
  <2>7. \A u \in Users : Erased(u)' => ~Linked(obj[u])'
    <3>1. \A x \in Sensors : ~Linked(x) => ~Linked(x)'
      BY <2>3 DEF Linked
    <3>2. \A u \in Users \ {t} : Erased(u)' => ~Linked(obj[u])
      BY <2>6 DEF AliveInv
    <3>3. \A u \in Users \ {t} : Erased(u)' => ~Linked(obj[u])'
      BY <2>1, <3>1, <3>2 DEF TypeOK
    <3>. QED
      BY <2>1, <2>3, <3>3
  <2>8. \A u \in Users : InCtor(u)' => life'[obj'[u]] = "ctor"
    BY <2>1, <2>2, <2>5, <2>6 DEF AliveInv
  <2>9. \A u \in Users : InDtor(u)' => life'[obj'[u]] = "dtor"
    BY <2>1, <2>2, <2>5, <2>6 DEF AliveInv
  <2>10. \A u, v \in Users : u # v /\ InCtor(u)' /\ InCtor(v)' => obj'[u] # obj'[v]
    BY <2>1, <2>2, <2>5, <2>6 DEF AliveInv
  <2>11. \A u, v \in Users : u # v /\ InDtor(u)' /\ InDtor(v)' => obj'[u] # obj'[v]
    BY <2>1, <2>2, <2>5, <2>6 DEF AliveInv
  <2>12. \A u \in Users : ret'[u] \in RetPoints
    BY <2>1 DEF AliveInv
  <2>. QED
    BY <2>4, <2>7, <2>8, <2>9, <2>10, <2>11, <2>12, Zenon DEF AliveInv
<1>9. ASSUME NEW t \in Users, DestroyDone(t) PROVE AliveInv'
  <2> DEFINE s == obj[t]
  <2>1. /\ upc[t] = "d_done"
        /\ life' = [life EXCEPT ![s] = "dead"]
        /\ upc' = [upc EXCEPT ![t] = "idle"]
        /\ UNCHANGED <<sensors, obj, ret>>
    BY <1>9 DEF DestroyDone, locals
  <2>2. InDtor(t) /\ Erased(t) /\ s \in Sensors
    BY <2>1 DEF InDtor, Erased, TypeOK
  <2>3. life[s] = "dtor" /\ ~Linked(s)
    BY <2>2 DEF AliveInv
  <2>4. ~InCtor(t)' /\ ~InDtor(t)' /\ ~Erased(t)'
    <3>1. upc'[t] = "idle"
      BY <2>1 DEF TypeOK
    <3>. QED
      BY <3>1 DEF InCtor, InDtor, Erased, SAPhases
  <2>5. \A u \in Users \ {t} : /\ InCtor(u)' = InCtor(u) /\ InDtor(u)' = InDtor(u)
                               /\ Erased(u)' = Erased(u)
    <3>1. \A u \in Users \ {t} : upc'[u] = upc[u]
      BY <2>1 DEF TypeOK
    <3>. QED
      BY <2>1, <3>1, Zenon DEF InCtor, InDtor, Erased
  <2>6. \A x \in Sensors \ {s} : life'[x] = life[x]
    BY <2>1 DEF TypeOK
  <2>7. \A u \in Users \ {t} : InCtor(u) \/ InDtor(u) => obj[u] # s
    BY <2>2, <2>3 DEF AliveInv
  <2>8. SensorsAlive'
    <3>1. \A i \in 1..Len(sensors) : sensors[i] # s
      BY <2>3 DEF Linked
    <3>. QED
      BY <2>1, <2>6, <3>1 DEF AliveInv, SensorsAlive, TypeOK
  <2>9. \A u \in Users : InCtor(u)' => life'[obj'[u]] = "ctor"
    BY <2>1, <2>4, <2>5, <2>6, <2>7 DEF AliveInv, TypeOK
  <2>10. \A u \in Users : InDtor(u)' => life'[obj'[u]] = "dtor"
    BY <2>1, <2>4, <2>5, <2>6, <2>7 DEF AliveInv, TypeOK
  <2>11. \A u \in Users : Erased(u)' => ~Linked(obj[u])'
    BY <2>1, <2>4, <2>5 DEF AliveInv, Linked
  <2>12. \A u, v \in Users : u # v /\ InCtor(u)' /\ InCtor(v)' => obj'[u] # obj'[v]
    BY <2>1, <2>4, <2>5 DEF AliveInv
  <2>13. \A u, v \in Users : u # v /\ InDtor(u)' /\ InDtor(v)' => obj'[u] # obj'[v]
    BY <2>1, <2>4, <2>5 DEF AliveInv
  <2>14. \A u \in Users : ret'[u] \in RetPoints
    BY <2>1 DEF AliveInv
  <2>. QED
    BY <2>8, <2>9, <2>10, <2>11, <2>12, <2>13, <2>14, Zenon DEF AliveInv
<1>. QED
  BY <1>1, <1>2, <1>3, <1>4, <1>5, <1>6, <1>7, <1>8, <1>9
     DEF Next, UserStep, UserCall

LEMMA AliveInvHolds == Spec => []AliveInv
<1>1. Init => AliveInv
  BY InitAliveInv
<1>2. AliveInv /\ [Next]_vars => AliveInv'
  BY AliveInvStep
<1>. QED
  BY <1>1, <1>2, PTL DEF Spec

\* With one program thread constructing and destroying sensors against the
\* checker thread, m_sensors never holds the same sensor twice and never
\* holds a pointer to a sensor whose destructor has finished
\* (SensorsAlive): Initialize appends its object once, the destructor's
\* std::remove and erase take it out before the object dies, and the
\* checker only reads the vector.  The model makes each emplace_back and
\* erase one step, which several program threads changing the unlocked
\* std::vector at once would not be; AliveInvHolds itself needs no bound on
\* Users, but the theorem claims the one-thread program only.
THEOREM SingleThreadSensorsAlive ==
    ASSUME NEW u, Users = {u}
    PROVE  Spec => []SensorsAlive
<1>1. AliveInv => SensorsAlive
  BY DEF AliveInv
<1>. QED
  BY <1>1, AliveInvHolds, PTL
=============================================================================
