# Formal models of the wpilibc command Scheduler, Ultrasonic round robin, Filter and DIO access

This directory holds TLA+ models of these parts of the repository:

- the command **Scheduler** (`src/wpilibc/src/main/native/cpp/Commands/Scheduler.cpp`
  lines 1-270), with an abstract allocator specification that it refines;
- the automatic (round-robin) mode of the **Ultrasonic** sensor class
  (`src/unnamed/part_000` is `Ultrasonic.h`, `src/unnamed/part_001` is `Ultrasonic.cpp`);
- the C++ **Filter** base class (`Filters/Filter.h`; its `.cpp` is appended
  to Scheduler.cpp at lines 271-298) over a gyro source (`GyroBase.java`);
- the HAL function **UnsafeManipulateDIO** (`src/unnamed/part_003`).

The directory has TLC configurations that check the models on small
instances, and TLAPS proofs of the main safety properties for every
instance. `PROJECT.json` maps every definition to the source lines it
translates. It also lists the runs, the mutants, the findings, the hazards
and the theorems.

## The system and its parts

| Part | Source | Module | Status |
|---|---|---|---|
| Scheduler: `Run`, `ProcessCommandAddition`, `AddCommand`, `Remove`, `RemoveAll`, `SetEnabled`, dashboard update callback | Scheduler.cpp 21-270 | `Scheduler` | modelled |
| What the Scheduler promises about subsystems | spec.md §4.3/§4.5 | `Allocation` | abstract specification |
| Command lifecycle (`StartRunning`, `Cancel`, `Removed`, `Run`'s report) | not in the repository | `Command` | from spec.md §4.2/§6 |
| Subsystem holder / `ConfirmCommand`, ButtonScheduler `Execute` | not in the repository | `Scheduler` | from spec.md, as the scheduler sees them |
| Ultrasonic automatic mode: constructors, `Initialize`, destructor, `SetAutomaticMode`, `SetEnabled`, `UltrasonicChecker` | part_001 22-227, part_000 56 | `Ultrasonic` | modelled (without `Ping`, ranges, counters) |
| Filter over a PIDSource (C++ Filter, GyroBase.pidGet) | Filter.h, Scheduler.cpp 284-298, GyroBase.java 25-35 | `Filter` | modelled |
| HAL `UnsafeManipulateDIO` | part_003 58-82 | `UnsafeDIO` | modelled (one call) |
| Gradle script, README | part_002, README.md | none | no runtime behaviour |

The Scheduler runs on the robot-loop thread. Each iteration calls
`Scheduler::Run()` and then the update callback that `InitSendable`
installs. That callback reads the dashboard's Cancel entry and publishes the
Names and Ids entries. Two kinds of actor run alongside the loop:

- other threads may call `AddCommand` (through `Command::Start`) under
  `m_additionsMutex`;
- the dashboard writes the Cancel entry.

Commands call back into the scheduler from `removed()` hooks.

In the Ultrasonic class, the static flag `m_automaticEnabled`, the static
vector `m_sensors` and the static `m_thread` are shared by the program
threads and the checker thread. Program threads construct or destroy
sensors and switch the mode. The checker thread runs `UltrasonicChecker`
over `m_sensors`.

## Modules

- `Command.tla` holds the per-command lifecycle operators over a function
  `st`. They are `StartRunning`, `CancelAll` (idempotent: only a Running
  command becomes Canceled), `RemovedAll` and `RunReportsDone` (a canceled
  command reports done). Command.cpp is absent, so these come from the
  specification and are marked `spec_modelled` in the map.
- `Scheduler.tla` models the Scheduler.
  - **Constants.** Commands, subsystems, requirements, the interruptible
    commands, the defaults, the `std::set` iteration orders (`SubOrder`,
    `CmdOrder`), the buttons, the command each `removed()` hook starts, and
    the commands other threads may start.
  - **State.** `m_enabled`, `m_commands`, `m_additions`,
    `m_runningCommandsChanged`, each subsystem's current command, what
    `ConfirmCommand` last confirmed, each command's lifecycle, the published
    Ids, the Cancel entry and `toCancel`. A loop counter `pc`/`idx` splits
    `Run()` into one step per button, per command, per queued addition and
    per subsystem.
  - **Actions.** Each handler or loop iteration of `Run()` is an action:
    `RunStart`, `RunDisabled`, `PollButton`, `EndButtons`, `StepCommand`
    (whose removal branch is `StepRemoval`), `EndStep`, `DrainAddition`,
    `EndDrain`, `FillDefault`, `EndFill`, `ReadCancels` and `ClearCancels`.
    `ProcessCommandAddition` appears in them as `CanAdmit`, `Grant` and
    `DrainReject`, and `Remove` as `Remove`. The environment actions are
    `SetEnabled`, `ExternalStart` and `DashboardCancel`.
  - **Hook abstraction.** A `removed()` hook that calls `Start()` queues its
    command, as `AddCommand`. If this happens inside the drain, the mutex is
    already held, so the loop moves to `pc = "blocked"` and stays there.
    This matches the self-deadlock of a non-recursive `wpi::mutex`.
- `Ultrasonic.tla` models the Ultrasonic round robin.
  - **Program threads.** Each program thread runs one operation at a time.
    Its position is `upc[u]`, and `obj`, `saved`, `arg`, `ret` and `op` are
    its locals.
  - **SetAutomaticMode.** It is split at the points where another thread can
    interleave:
    - the test (line 198);
    - the store (line 200);
    - the thread start (line 210), where assigning to a joinable
      `std::thread` terminates;
    - the join (line 218), where joining a non-joinable thread throws.

    Calls from `Initialize` and the destructor return to `ret[u]`.
  - **Checker thread.** The checker has four positions: the `while` test,
    the inner `for` test and break, the ping, and the wait.
  - **Crash.** `crashed` records a `std::terminate`. `Next` stops after it.
- `Allocation.tla` is the abstract specification of the Scheduler: commands
  are admitted atomically, all or nothing, displacing only interruptible
  holders, and released in sets. `Scheduler.tla` instantiates it with the
  refinement mapping `holder <- current, active <- commands` and states
  `AllocationRefined == Alloc!Spec`. The dashboard, the queue, the buttons,
  the lifecycle and the loop phases are invisible to it: those steps must
  be stutters.
- `Scheduler.tla` also models `RemoveAll()` (208-212). The robot program
  calls it between loop iterations (`RemoveAllCall`). Each iteration of its
  loop is `RemoveAllStep`: the first running command in the iteration order
  of `m_commands` goes through the whole of `Remove`, and its `removed()`
  hook may queue a start. `RemoveAllReturn` returns once `m_commands` is
  empty. These actions belong to `SpecWithRemoveAll`, the specification of
  a program that calls it.
- `Filter.tla` models the C++ `Filter`. The constructors leave
  `m_pidSourceType` uninitialised, so `Init` chooses any value of its
  storage (a valid enumerator or another int). `SetPIDSourceType` stores a
  type. `PIDGetSource` is a caller's `PIDGet(t)` reading the source through
  `PIDGetSource()`, whose source dispatches like `GyroBase.pidGet`: the rate,
  the angle, or 0.0 in the default branch.
- `UnsafeDIO.tla` models one call of `UnsafeManipulateDIO`: the port lookup,
  the mask, the status test, and the locked register reads with `func`. The
  test compares the caller's pointer `StatusPtr` with null, as line 69 does.
- `MCScheduler.tla` and `MCUltrasonic.tla` give the constants for TLC.
- `SchedulerProofs.tla` and `UltrasonicProofs.tla` hold the TLAPS proofs.

### Abstractions

- Data is abstracted:
  - commands, subsystems and sensors are model values;
  - names and ids are the commands themselves;
  - the Names/Ids arrays are a set, since only membership is compared.
- `ProcessCommandAddition` is one atomic step. It runs only on the loop
  thread, and nothing else touches `m_commands` or the holders (spec §5).
- Each program thread's `Ultrasonic` operations are split only at reads and
  writes of the shared statics.
- Counter resets, `Pulse` and `Wait` are left out because no property reads
  them. `Ping` only resets the counter and pulses; its `wpi_assert` is
  non-fatal.
- `std::remove` plus `erase` is `EraseAt` at the object's single position.
  Each object runs `Initialize` at most once, so it is linked at most once.

## Runs

### Passing runs

**`scheduler_main`** (`MCScheduler.cfg`, 4,791 distinct states) models three
commands over two subsystems:

- A needs S1 and is S1's default;
- B needs S1 and S2 and is not interruptible;
- C needs S2.

Three buttons (whenPressed B, cancelWhenPressed B, toggleWhenPressed C) and
an external `Start(C)` cover displacement, rejection, default fill,
cancellation and removal. It checks:

- `OwnershipConsistent` (mutual exclusion plus holder/running agreement);
- `LifecycleMatchesMembership`;
- `PublishedIsRunning`;
- the action property `NonInterruptibleKept`;
- the liveness property `CanceledEventuallyRemoved`;
- `AllocationRefined`: the Scheduler implements `Allocation`.

**`scheduler_remove_all`** (`MCSchedulerRemoveAll.cfg`, 8,182 distinct
states) runs `SpecWithRemoveAll` with a robot whose hooks start commands:
C's `removed()` starts A, every command is interruptible, and the defaults
are B and C. So hooks fire from the command loop, from the default fill,
from the drain (where the loop thread blocks on the mutex it holds) and
from `RemoveAll()`. The deadlock check is off because that block is real.
The run checks that ownership and the lifecycle stay consistent and that
every step, each `Remove` of `RemoveAll`'s loop included (a release of one
running command), refines `Allocation`.

**`ultrasonic_one_thread`** (`MCUltrasonic.cfg`, 5,119 distinct states) has
two sensors and one program thread against the checker. It checks:

- `SensorsStableWhileChecking`;
- `SensorsAlive`: `m_sensors` holds no sensor twice and none whose
  destructor has finished;
- `ThreadTracksMode`;
- `NoThreadMisuse`;
- `ModeRestored`;
- `JoinReturns`;
- `EnabledSensorPinged`.

The bounds are enough: every branch of every handler is reached. Examples
are displacement of an interruptible holder, refusal by a non-interruptible
one, a default filling a vacated subsystem, the destructor of the last
sensor versus one of two, and both constructor paths. More commands or
sensors repeat the same cases with other names.

### Violation runs (findings)

Each violation run checks one statement of the specification or of a code
comment:

| Run | Property | What the code does |
|---|---|---|
| `scheduler_disabled` | `CanceledRemovedEvenIfDisabled` | `Run()` returns at line 119 when disabled and skips command stepping. spec §3/§9 says only the button poll is skipped. |
| `scheduler_drain_hook` | `TickCompletes` | A `removed()` hook calling `Start()` during the drain relocks `m_additionsMutex` (lines 151, 47), and the loop hangs. |
| `scheduler_cancel_lost` | `CancelRequestsKept` | A Cancel entry written between the read (235) and the clear (253) is erased unread. |
| `scheduler_stale_ids` | `PublishedAfterUpdate` | `RemoveAll()` (208-212) empties `m_commands` but never sets `m_runningCommandsChanged`. When the next `Run()` returns at line 119 because the scheduler is disabled, the update skips the publish at 257, and the dashboard keeps listing the removed commands (spec §8). The property is an action property on the step that ends an update, so it is not broken merely by `RemoveAll` returning. A `RemoveAll` that sets the flag passes this run: here an enabled tick after `RemoveAll` admits the defaults, which sets the flag again. |
| `ultrasonic_spin` | `CheckerWaitsEachPass` | With automatic mode on and no sensor linked, `UltrasonicChecker` loops at 39-49 without ever reaching `Wait(0.1)`. |
| `filter_uninitialised` | `ReadsMeasurement` | `PIDGetSource` before `SetPIDSourceType` reads the uninitialised `m_pidSourceType` (Filter.h 53). It can reach `GyroBase`'s default branch, which returns 0.0. |
| `dio_status_test` | `ValidCallRunsFunc` | `if (status != 0) return;` (part_003 line 69) tests the pointer, so `func` never runs. |
| `ultrasonic_race` | `SensorsStableWhileChecking` | With two program threads, one can turn automatic mode on after another's `SetAutomaticMode(false)` and before that thread changes `m_sensors`. This contradicts the comments at lines 33-36 and 175. |

### Mutants

Every property of a passing run has a mutant: a fault variant defined just
before the operator it replaces. Each mutant is a plausible bug:

- a `Remove` that keeps the holders or skips `removed()`;
- a removal that does not flag the change;
- admission without the `IsInterruptible` test;
- `Run` ignoring the cancel flag;
- a `RemoveAll` that erases each command from `m_commands` without
  `Remove` (as `ResetAll` does);
- a destructor that calls `std::remove` without the `erase`;
- `SetAutomaticMode` without the no-change test or without waiting in
  `join`;
- `Initialize` not stopping the round robin;
- a destructor that never restarts it;
- a checker loop that never tests the flag, or ends a pass one sensor early.

TLC finds each of these.

## Fairness

- **Scheduler.** The loop thread is weakly fair (`WF_vars(LoopStep)`): the
  robot loop keeps calling `Run()` and the update callback.
  `SetEnabled`, `ExternalStart` and the dashboard are the program and the
  operator, so they get no fairness.
- **Ultrasonic.** Each program thread is weakly fair on the steps of an
  operation it has begun, since a thread runs the code it is in. The
  checker thread is also weakly fair. Starting a new operation is the
  program's choice and gets no fairness.

## Proofs (TLAPS)

`SchedulerProofs.tla` proves, for every value of the constants under the
ASSUMEs of `Scheduler.tla`:

- **`TypeCorrect`.** The invariant is strengthened with `ButtonIndexOK`
  (`idx` indexes the buttons while polling), because `PollButton` reads
  `Buttons[idx]`.
- **`OwnershipInvariant`** and **`LifecycleInvariant`** follow from one
  inductive invariant, `Inv == TypeInv /\ OwnershipConsistent /\
  LifecycleMatchesMembership`. Both conjuncts are needed together:
  - `Grant` relies on the lifecycle to know the displaced commands are
    running;
  - the lifecycle step of `Grant` relies on ownership to know `Displaced(c)`
    are exactly the running commands that conflict with `c`.

  The lemmas `GrantOwnership`, `RemoveOwnership`, `CancelLifecycle` and
  `FrameOwnership` each handle one operator.
- **`PublishedInvariant`** (`PublishedIsRunning`). `PublishedIsRunning`
  alone is not inductive. The strengthening says:
  - while idle or polling buttons, the published set is the running set;
  - whenever `changed` is false, it is the running set.
- **`Refinement`** (`AllocationRefined`: `Spec => Alloc!Spec`). Initial
  states map to the abstract initial state. Each step either maps to an
  abstract step or stutters:
  - `Grant` past `CanAdmit` is `Admit` (lemma `GrantRefines`; the
    displaced set is the abstract victims set);
  - `Remove` of a running command is `Release({c})` (lemma
    `RemoveRefines`);
  - every other action leaves holders and the running set alone.

  `Remove` clears the command's requirements, but `Release` clears what the
  command holds. The two agree only under `OwnershipConsistent`, so the
  proof rests on `InvHolds`.
- **`NonInterruptibleHolderKept`** (`NonInterruptibleKept`) follows from the
  type invariant and `GrantKeepsHolder`.

`UltrasonicProofs.tla` proves `TypeCorrect` for any sensors and threads. For
a single program thread (`Users = {u}`), it also proves `SingleThreadNoMisuse`,
`SingleThreadListStable` and `SingleThreadTracksMode`. They rest on the
inductive invariant `SingleInv(u)`, which TLC checked as an invariant
first. It relates:

- the position of the thread in `SetAutomaticMode` to the flag, `joinable`
  and `arg`;
- the return point to the argument (calls from `Initialize` and the
  destructor pass `false` on the way in);
- the checker to `joinable`.

Without the conjuncts about `sa_start`/`sa_join`, a step from `SAStore`
cannot be shown safe. The two-thread case is false: see `ultrasonic_race`.

For one program thread it also proves **`SingleThreadModeRestored`**
(`ModeRestored`, an action property). The inductive invariant `ModeInv(u)`
adds to `SingleInv(u)` what the nested `SetAutomaticMode` call must carry:

- the operation (`op`) matches the phase and the return point;
- a call from a constructor returns to it with `arg = saved`;
- the destructor's restart call happens only if `saved` held and sensors
  remain, and the mode is off in `d_restart`;
- at `d_done` the mode equals `saved /\ sensors # <<>>`.

For one program thread and any number of sensors it proves
**`SingleThreadSensorsAlive`** (`SensorsAlive`). The model makes
`Initialize`'s `emplace_back` and the destructor's `erase(remove(...))` one
step each. That is faithful for one program thread, since the checker only
reads the vector. Several program threads would change the unlocked
`std::vector` concurrently, so the theorem claims one thread only. The
inductive invariant below needs no such bound. `SensorsAlive` alone is not
inductive: a `DestroyDone` step kills a sensor, and the proof must know the
sensor is no longer in `m_sensors`. The strengthening `AliveInv` says:

- every thread's return point is one of `RetPoints`;
- a thread inside a constructor (`InCtor`) has an object still in `"ctor"`,
  and one inside a destructor (`InDtor`) an object in `"dtor"`;
- once a destructor has erased its object (`Erased`), it is not linked;
- no two constructors, and no two destructors, work on one object.

Lemma `EraseAtInjective` shows that erasing the object keeps the vector
injective and removes the object. `AliveInvStep` has one case per action.
TLC checked `AliveInv` as an invariant with two program threads before the
proof was written.

`SchedulerProofs.tla` also proves the Scheduler's results for a program that
calls `RemoveAll()` (`SpecWithRemoveAll`):
**`OwnershipInvariantWithRemoveAll`**,
**`LifecycleInvariantWithRemoveAll`** and **`RefinementWithRemoveAll`**.
`RemoveAllStep` is `Remove` plus the hook's `AddCommand`, so the lemmas for
`Remove` and the drain carry over. Lemma `RemoveAllRefines` maps each step of
the loop to `Release({c})`.

Only TLC checks the following:

- the liveness properties (`TickCompletes`, `CanceledEventuallyRemoved`,
  `JoinReturns`, `EnabledSensorPinged`), because TLAPS does not handle
  fairness and ENABLED;
- the liveness of the scheduler tick (`TickCompletes`) is only checked
  where it fails (`scheduler_drain_hook`). Without hooks that start
  commands, every phase of a tick is a bounded loop, so the property would
  hold by the shape of the model;
- nothing about the Ultrasonic model with two or more program threads.
  `SensorsStableWhileChecking` is false there (`ultrasonic_race`), and the
  model's atomic vector updates would not be faithful there;
- `PublishedIsRunning` and `NonInterruptibleKept` under
  `SpecWithRemoveAll`. The first is false right after `RemoveAll` returns,
  and the dashboard stays stale after the next update
  (`PublishedAfterUpdate`, `scheduler_stale_ids`). The second is not run
  against it;
- induction over data in general. The library's induction rules take an
  operator parameter, which no installed prover instantiates.

## Not modelled

- `ResetAll`, `AddButton` and `RegisterSubsystem` change the button and
  subsystem lists, which the model fixes as constants. Making them
  variables would only add setup steps; `ResetAll`'s comment already calls
  it undefined while running (listed as a hazard).
- `Filter::GetPIDSourceType` only reads. The Java `Filter` and `PIDSource`
  hold no state.
- `Ultrasonic::Ping`, the counters and ranges: no modelled state reads them.
  Ping during automatic mode is listed as a hazard.
- The `DIOSetProxy` setters are single register writes made by `func`.
- The checker's busy spin on an empty list is a performance fault.

## Plan for later work

- Prove `ThreadTracksMode` and `ModeRestored` as far as they hold with
  several program threads (they need a lock the code does not take).
- Model `Ping` against the round robin.
- Model the button-list mutex and `AddButton` during polling.
- Add `Ping` against automatic mode for the non-fatal assert.
