----------------------------- MODULE Ultrasonic -----------------------------
(***************************************************************************)
(* The automatic (round-robin) mode of the Ultrasonic sensor class         *)
(* (Ultrasonic.cpp): the static list m_sensors, the static flag           *)
(* m_automaticEnabled, the static background thread m_thread that runs    *)
(* UltrasonicChecker, and the program threads that construct and destroy  *)
(* sensors and switch the mode.                                            *)
(*                                                                         *)
(* Each program thread u runs one operation at a time; upc[u] is where it  *)
(* is, and obj, saved, arg, ret and op hold its locals.  SetAutomaticMode  *)
(* is called from Initialize and from the destructor as well as directly: *)
(* ret[u] is the point it returns to.  Reading and storing the atomic      *)
(* m_automaticEnabled are separate steps, as in the code.                  *)
(***************************************************************************)
EXTENDS Naturals, Sequences, Functions

CONSTANTS
    Sensors,   \* the Ultrasonic objects a program may create
    Users      \* the program threads

\* A program that has sensor objects to create.
ASSUME SensorsAssumption == Sensors # {}

VARIABLES
    automatic, \* Ultrasonic::m_automaticEnabled
    joinable,  \* whether m_thread holds a thread not yet joined
    checker,   \* where the UltrasonicChecker thread is ("off": not running)
    pos,       \* its position in m_sensors
    sensors,   \* Ultrasonic::m_sensors
    enabled,   \* m_enabled of every sensor
    life,      \* "unborn", "ctor", "live", "dtor" or "dead"
    upc,       \* where every program thread is
    obj,       \* the object the thread's constructor or destructor runs on
    saved,     \* originalMode (Initialize) or wasAutomaticMode (destructor)
    arg,       \* the argument of SetAutomaticMode
    ret,       \* where SetAutomaticMode returns to
    op,        \* the operation the thread runs
    crashed    \* std::terminate was called

\* The locals of the program threads.
locals == <<obj, saved, arg, ret, op>>

vars == <<automatic, joinable, checker, pos, sensors, enabled, life, upc,
          locals, crashed>>

UserPCs == {"idle", "i_read", "i_link", "d_erase", "d_restart",
            "d_done", "sa_check", "sa_store", "sa_start", "sa_join"}
CheckerPCs == {"off", "top", "inner", "wait"}
Ops == {"ctor", "dtor", "setauto", "none"}

\* The sequence q without its i-th element.
EraseAt(q, i) == [j \in 1..Len(q) - 1 |-> IF j < i THEN q[j] ELSE q[j + 1]]

\* Whether s is linked in m_sensors.
Linked(s) == \E i \in 1..Len(sensors) : sensors[i] = s

\* A call of SetAutomaticMode(b) by u that returns to the point to.
CallSetAutomaticMode(u, b, to) ==
    /\ upc' = [upc EXCEPT ![u] = "sa_check"]
    /\ arg' = [arg EXCEPT ![u] = b]
    /\ ret' = [ret EXCEPT ![u] = to]
    /\ UNCHANGED <<obj, saved, op>>

\* Return from SetAutomaticMode.
Return(u) == upc' = [upc EXCEPT ![u] = ret[u]]

\* The object obj names for a thread before its first operation.
AnySensor == CHOOSE s \in Sensors : TRUE

Init ==
    /\ automatic = FALSE
    /\ joinable = FALSE
    /\ checker = "off"
    /\ pos = 1
    /\ sensors = <<>>
    /\ enabled = [s \in Sensors |-> FALSE]
    /\ life = [s \in Sensors |-> "unborn"]
    /\ upc = [u \in Users |-> "idle"]
    /\ obj = [u \in Users |-> AnySensor]
    /\ saved = [u \in Users |-> FALSE]
    /\ arg = [u \in Users |-> FALSE]
    /\ ret = [u \in Users |-> "idle"]
    /\ op = [u \in Users |-> "none"]
    /\ crashed = FALSE

-----------------------------------------------------------------------------
(* Program threads                                                         *)

\* A constructor: the null-parameter one sets the error and returns
\* without Initialize (the object is never linked nor enabled); the
\* others run Initialize.
Construct(u) ==
    /\ upc[u] = "idle"
    /\ \E s \in Sensors :
         /\ life[s] = "unborn"
         /\ \/ /\ life' = [life EXCEPT ![s] = "live"]
               /\ UNCHANGED <<upc, locals>>
            \/ /\ life' = [life EXCEPT ![s] = "ctor"]
               /\ upc' = [upc EXCEPT ![u] = "i_read"]
               /\ obj' = [obj EXCEPT ![u] = s]
               /\ op' = [op EXCEPT ![u] = "ctor"]
               /\ UNCHANGED <<saved, arg, ret>>
    /\ UNCHANGED <<automatic, joinable, checker, pos, sensors, enabled, crashed>>

\* Fault variant of InitRead that links the sensor without stopping the
\* round robin.
InitReadKeepingMode(u) ==
    /\ upc[u] = "i_read"
    /\ saved' = [saved EXCEPT ![u] = automatic]
    /\ upc' = [upc EXCEPT ![u] = "i_link"]
    /\ UNCHANGED <<obj, arg, ret, op>>
    /\ UNCHANGED <<automatic, joinable, checker, pos, sensors, enabled, life, crashed>>

\* Initialize: originalMode = m_automaticEnabled; SetAutomaticMode(false).
InitRead(u) ==
    /\ upc[u] = "i_read"
    /\ saved' = [saved EXCEPT ![u] = automatic]
    /\ upc' = [upc EXCEPT ![u] = "sa_check"]
    /\ arg' = [arg EXCEPT ![u] = FALSE]
    /\ ret' = [ret EXCEPT ![u] = "i_link"]
    /\ UNCHANGED <<obj, op>>
    /\ UNCHANGED <<automatic, joinable, checker, pos, sensors, enabled, life, crashed>>

\* Initialize: link the object, reset its counter, enable it, then
\* SetAutomaticMode(originalMode); the constructor is done on return.
InitLink(u) ==
    /\ upc[u] = "i_link"
    /\ LET s == obj[u] IN
       /\ sensors' = Append(sensors, s)
       /\ enabled' = [enabled EXCEPT ![s] = TRUE]
       /\ life' = [life EXCEPT ![s] = "live"]
    /\ CallSetAutomaticMode(u, saved[u], "idle")
    /\ UNCHANGED <<automatic, joinable, checker, pos, crashed>>

\* ~Ultrasonic: wasAutomaticMode = m_automaticEnabled; SetAutomaticMode(false).
Destroy(u) ==
    /\ upc[u] = "idle"
    /\ \E s \in Sensors :
         /\ life[s] = "live"
         /\ life' = [life EXCEPT ![s] = "dtor"]
         /\ obj' = [obj EXCEPT ![u] = s]
    /\ op' = [op EXCEPT ![u] = "dtor"]
    /\ saved' = [saved EXCEPT ![u] = automatic]
    /\ upc' = [upc EXCEPT ![u] = "sa_check"]
    /\ arg' = [arg EXCEPT ![u] = FALSE]
    /\ ret' = [ret EXCEPT ![u] = "d_erase"]
    /\ UNCHANGED <<automatic, joinable, checker, pos, sensors, enabled, crashed>>

\* Fault variant of DestroyErase that calls std::remove without the erase:
\* the elements after the object move down one place, the size stays, and
\* the last slot keeps the pointer it held.
DestroyEraseNoShrink(u) ==
    /\ upc[u] = "d_erase"
    /\ IF Linked(obj[u])
         THEN \E i \in 1..Len(sensors) :
                 /\ sensors[i] = obj[u]
                 /\ sensors' = Append(EraseAt(sensors, i), sensors[Len(sensors)])
         ELSE UNCHANGED sensors
    /\ upc' = [upc EXCEPT ![u] = "d_restart"]
    /\ UNCHANGED <<automatic, joinable, checker, pos, enabled, life, locals, crashed>>

\* Erase the object from m_sensors (std::remove then erase).  Each object
\* runs Initialize once, so it occurs in m_sensors at most once, and only
\* if its constructor linked it.
DestroyErase(u) ==
    /\ upc[u] = "d_erase"
    /\ IF Linked(obj[u])
         THEN \E i \in 1..Len(sensors) :
                 sensors[i] = obj[u] /\ sensors' = EraseAt(sensors, i)
         ELSE UNCHANGED sensors
    /\ upc' = [upc EXCEPT ![u] = "d_restart"]
    /\ UNCHANGED <<automatic, joinable, checker, pos, enabled, life, locals, crashed>>

\* Fault variant of DestroyRestart that never restarts the round robin.
DestroyRestartNever(u) ==
    /\ upc[u] = "d_restart"
    /\ upc' = [upc EXCEPT ![u] = "d_done"]
    /\ UNCHANGED <<automatic, joinable, checker, pos, sensors, enabled, life, locals, crashed>>

\* if (!m_sensors.empty() && wasAutomaticMode) SetAutomaticMode(true).
DestroyRestart(u) ==
    /\ upc[u] = "d_restart"
    /\ IF sensors # <<>> /\ saved[u]
         THEN CallSetAutomaticMode(u, TRUE, "d_done")
         ELSE upc' = [upc EXCEPT ![u] = "d_done"] /\ UNCHANGED locals
    /\ UNCHANGED <<automatic, joinable, checker, pos, sensors, enabled, life, crashed>>

DestroyDone(u) ==
    /\ upc[u] = "d_done"
    /\ life' = [life EXCEPT ![obj[u]] = "dead"]
    /\ upc' = [upc EXCEPT ![u] = "idle"]
    /\ UNCHANGED <<automatic, joinable, checker, pos, sensors, enabled, locals, crashed>>

\* A direct call of SetAutomaticMode(b).
SetAutomaticModeCall(u) ==
    /\ upc[u] = "idle"
    /\ \E b \in BOOLEAN :
         /\ upc' = [upc EXCEPT ![u] = "sa_check"]
         /\ arg' = [arg EXCEPT ![u] = b]
         /\ ret' = [ret EXCEPT ![u] = "idle"]
         /\ op' = [op EXCEPT ![u] = "setauto"]
    /\ UNCHANGED <<obj, saved>>
    /\ UNCHANGED <<automatic, joinable, checker, pos, sensors, enabled, life, crashed>>

\* SetEnabled(b) on a live sensor (IsEnabled is read by the checker).
SetEnabled(u) ==
    /\ upc[u] = "idle"
    /\ \E s \in Sensors, b \in BOOLEAN :
         /\ life[s] = "live"
         /\ enabled' = [enabled EXCEPT ![s] = b]
    /\ UNCHANGED <<automatic, joinable, checker, pos, sensors, life, upc, locals, crashed>>

\* Fault variant of SACheck without the early return on no change.
SACheckAlways(u) ==
    /\ upc[u] = "sa_check"
    /\ upc' = [upc EXCEPT ![u] = "sa_store"]
    /\ UNCHANGED <<automatic, joinable, checker, pos, sensors, enabled, life, locals, crashed>>

\* if (enabling == m_automaticEnabled) return;
SACheck(u) ==
    /\ upc[u] = "sa_check"
    /\ IF arg[u] = automatic
         THEN Return(u)
         ELSE upc' = [upc EXCEPT ![u] = "sa_store"]
    /\ UNCHANGED <<automatic, joinable, checker, pos, sensors, enabled, life, locals, crashed>>

\* m_automaticEnabled = enabling;
SAStore(u) ==
    /\ upc[u] = "sa_store"
    /\ automatic' = arg[u]
    /\ upc' = [upc EXCEPT ![u] = IF arg[u] THEN "sa_start" ELSE "sa_join"]
    /\ UNCHANGED <<joinable, checker, pos, sensors, enabled, life, locals, crashed>>

\* Reset the counters, then m_thread = std::thread(...): assigning to a
\* std::thread that is still joinable calls std::terminate.
SAStart(u) ==
    /\ upc[u] = "sa_start"
    /\ IF joinable
         THEN crashed' = TRUE /\ UNCHANGED <<joinable, checker, pos, upc>>
         ELSE /\ joinable' = TRUE /\ checker' = "top" /\ pos' = 1
              /\ Return(u) /\ UNCHANGED crashed
    /\ UNCHANGED <<automatic, sensors, enabled, life, locals>>

\* Fault variant of SAJoin that detaches instead of waiting for the thread.
SAJoinNoWait(u) ==
    /\ upc[u] = "sa_join"
    /\ IF joinable
         THEN joinable' = FALSE /\ Return(u) /\ UNCHANGED crashed
         ELSE crashed' = TRUE /\ UNCHANGED <<joinable, upc>>
    /\ UNCHANGED <<automatic, checker, pos, sensors, enabled, life, locals>>

\* m_thread.join(), then reset the counters.  join() of a thread that is
\* not joinable throws std::system_error, which nothing catches.
SAJoin(u) ==
    /\ upc[u] = "sa_join"
    /\ IF joinable
         THEN checker = "off" /\ joinable' = FALSE /\ Return(u) /\ UNCHANGED crashed
         ELSE crashed' = TRUE /\ UNCHANGED <<joinable, upc>>
    /\ UNCHANGED <<automatic, checker, pos, sensors, enabled, life, locals>>

-----------------------------------------------------------------------------
(* The UltrasonicChecker thread                                           *)

\* Fault variant of CheckerTop whose loop never tests the flag.
CheckerTopForever ==
    /\ checker = "top"
    /\ checker' = "inner" /\ pos' = 1
    /\ UNCHANGED <<automatic, joinable, sensors, enabled, life, upc, locals, crashed>>

\* while (m_automaticEnabled): start a pass over m_sensors, or exit.
CheckerTop ==
    /\ checker = "top"
    /\ checker' = IF automatic THEN "inner" ELSE "off"
    /\ pos' = 1
    /\ UNCHANGED <<automatic, joinable, sensors, enabled, life, upc, locals, crashed>>

\* Fault variant of CheckerEndPass that ends the pass one sensor early.
CheckerEndPassEarly ==
    /\ checker = "inner"
    /\ pos >= Len(sensors) \/ ~automatic
    /\ checker' = "top"
    /\ UNCHANGED <<automatic, joinable, pos, sensors, enabled, life, upc, locals, crashed>>

\* The end of the pass, or if (!m_automaticEnabled) break;
CheckerEndPass ==
    /\ checker = "inner"
    /\ pos > Len(sensors) \/ ~automatic
    /\ checker' = "top"
    /\ UNCHANGED <<automatic, joinable, pos, sensors, enabled, life, upc, locals, crashed>>

\* Ping the sensor at pos if it is enabled, then Wait(0.1).
CheckerVisit ==
    /\ checker = "inner"
    /\ pos <= Len(sensors) /\ automatic
    /\ checker' = "wait"
    /\ UNCHANGED <<automatic, joinable, pos, sensors, enabled, life, upc, locals, crashed>>

\* The wait is over: the next sensor.
CheckerNext ==
    /\ checker = "wait"
    /\ checker' = "inner" /\ pos' = pos + 1
    /\ UNCHANGED <<automatic, joinable, sensors, enabled, life, upc, locals, crashed>>

\* The checker pings sensor s.
PingOf(s) == CheckerVisit /\ sensors[pos] = s /\ enabled[s]

-----------------------------------------------------------------------------

\* The steps of an operation already under way.
UserStep(u) ==
    \/ InitRead(u) \/ InitLink(u) \/ DestroyErase(u) \/ DestroyRestart(u)
    \/ DestroyDone(u) \/ SACheck(u) \/ SAStore(u) \/ SAStart(u) \/ SAJoin(u)

\* Starting an operation: the program decides.
UserCall(u) ==
    \/ Construct(u) \/ Destroy(u) \/ SetAutomaticModeCall(u) \/ SetEnabled(u)

CheckerStep == CheckerTop \/ CheckerEndPass \/ CheckerVisit \/ CheckerNext

Next ==
    /\ ~crashed
    /\ \/ \E u \in Users : UserStep(u) \/ UserCall(u)
       \/ CheckerStep

\* Every thread with a step to take is scheduled eventually; the program
\* need not start another operation.
Spec == Init /\ [][Next]_vars
        /\ \A u \in Users : WF_vars(~crashed /\ UserStep(u))
        /\ WF_vars(~crashed /\ CheckerStep)

-----------------------------------------------------------------------------
(* Properties                                                              *)

\* Every variable holds a value of its type.
TypeOK ==
    /\ automatic \in BOOLEAN /\ joinable \in BOOLEAN /\ crashed \in BOOLEAN
    /\ checker \in CheckerPCs
    /\ pos \in Nat
    /\ sensors \in Seq(Sensors)
    /\ enabled \in [Sensors -> BOOLEAN]
    /\ life \in [Sensors -> {"unborn", "ctor", "live", "dtor", "dead"}]
    /\ upc \in [Users -> UserPCs]
    /\ obj \in [Users -> Sensors] /\ saved \in [Users -> BOOLEAN]
    /\ arg \in [Users -> BOOLEAN] /\ ret \in [Users -> UserPCs]
    /\ op \in [Users -> Ops]

\* The class comments ("make sure to disable automatic mode before touching
\* the list"; "no synchronization needed because the background task is
\* stopped"): m_sensors changes only while the checker thread is not
\* running, so its range-for never sees the vector change.
SensorsStableWhileChecking == [][sensors' # sensors => checker = "off"]_vars

\* When no operation is under way, m_thread holds a thread exactly when
\* automatic mode is on, and the checker runs exactly then: the mode flag,
\* the thread object and the thread agree (SetAutomaticMode, Initialize,
\* the destructor).
ThreadTracksMode ==
    (\A u \in Users : upc[u] = "idle") =>
        /\ joinable = automatic
        /\ (checker # "off") = automatic

\* No std::thread misuse: m_thread is never assigned while joinable and
\* never joined while not joinable (either would end the program).
NoThreadMisuse == ~crashed

\* m_sensors, which the checker's range-for dereferences, holds only objects
\* whose Initialize linked them and whose destructor has not yet finished,
\* each once: the destructor's erase(remove(...)) takes out the only copy
\* before the object dies, whatever the other threads do meanwhile.
SensorsAlive ==
    /\ IsInjective(sensors)
    /\ \A i \in 1..Len(sensors) : life[sensors[i]] \in {"live", "dtor"}

\* A constructor leaves automatic mode as it found it; a destructor too,
\* unless it removed the last sensor, when the mode is left off.
ModeRestored ==
    [][\A v \in Users :
         (upc[v] # "idle" /\ upc'[v] = "idle" /\ op[v] \in {"ctor", "dtor"})
            => automatic' = (saved[v] /\ (op[v] = "dtor" => sensors # <<>>))]_vars

\* SetAutomaticMode(false) returns: the join waits for a checker that
\* sees the flag cleared and leaves its loop.
JoinReturns == \A u \in Users : (upc[u] = "sa_join") ~> (upc[u] # "sa_join")

\* While automatic mode stays on and a sensor stays linked and enabled,
\* the round robin pings it again and again.
EnabledSensorPinged ==
    \A s \in Sensors :
        <>[](automatic /\ Linked(s) /\ enabled[s]) => []<><<PingOf(s)>>_vars
-----------------------------------------------------------------------------
(* Statements the code does not meet                                       *)

\* SetAutomaticMode's comment ("all sensors will fire in round robin,
\* waiting a set time between each sensor"): every pass of the checker's
\* while loop that ends with automatic mode still on has waited at least
\* once, so the thread never spins without sleeping.
CheckerWaitsEachPass ==
    [][(checker = "inner" /\ checker' = "top" /\ automatic) => pos > 1]_vars
=============================================================================
