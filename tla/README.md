# TLA+ verification of Scilab's core

Scilab is an interactive numerical language. Most of its code is sequential
numerics; what makes it a concurrent program is how commands and lines of text
reach the single interpreter thread: typed at the console, sent by callbacks of
figures, by Java and Tcl, by startup options, by Ctrl-C, by the debugger, nested
in `pause` loops. This project models that part, with the threads, locks,
signals and exceptions it is made of, and the symbol table the interpreter
works on. `M/` below stands for `src/scilab/modules/`.

## 1. Inventory

### The system's parts

| Part | Code | State it keeps | Operations | Talks to |
|---|---|---|---|---|
| Command store | `M/core/src/cpp/storeCommand.cpp`, `M/ast/src/cpp/system_env/threadmanagement.cpp` | two queues, the store lock, four signals (condition variable + boolean) | StoreCommand, StorePrioritaryCommand, StoreConsoleCommand, StoreDebuggerCommand, GetCommand, isEmptyCommandQueue(Prioritary), Wait/Send... | every thread |
| Interpreter thread | `M/core/src/cpp/InitScilab.cpp` (interactiveMain), `runner.cpp`, `pause.cpp`, `M/ast/src/cpp/ast/run_SeqExp.hpp`, gateways quit, exit, abort, pause | the C++ call stack of `launch` and `pause_interpreter`, `m_CurrentRunner`, the pause level, the force-quit flag | launch, statement loop, pause, resume, quit, exit, abort, errors | pops the store; releases the console |
| Console thread | `M/core/src/cpp/InitScilab.cpp` (scilabReadAndStore) | what it read and waits for | prompt, parse, store, wait for the end | store, ConsoleExecDone |
| Command clients | `M/action_binding/src/c/InterpreterManagement.c`, `M/core/src/c/csignal.c` | nothing | putCommandInScilabQueue, requestScilabExec, Ctrl-C handler | store, execution-break flag |
| Console input for mscanf and stepping | `M/fileio/sci_gateway/cpp/sci_mscanf.cpp`, `M/console/src/cpp/scilabRead.cpp`, `run_SeqExp.hpp` | one line, its lock, a "wanted" flag | hand-over of a typed line to a running command | console and interpreter threads |
| Synchronous Java execution | `M/action_binding/.../ScilabInterpreterManagement.java`, `Signal.java` | map of uid to waiter | store, wait, notify | store |
| File monitor, library reloader | `M/commons/.../FileSystemMonitor.java`, `M/action_binding/.../LibraryReloader.java` | watch keys, last event times, suppressed paths | watch, debounce, suppress, reload | store (as a client) |
| Tcl bridge | `M/tclsci/src/c/TCL_Command.c`, `M/tclsci/src/cpp/ScilabEval.cpp` | one command slot, its locks and signals | evaluate in the Tcl thread, call back to Scilab | store |
| Debugger | `M/ast/src/cpp/ast/debugmanager.cpp`, `debuggervisitor.cpp` | breakpoints, step mode | break, step, abort, watch | interpreter, DebuggerExecDone and Awaken signals |
| Symbol table, values | `M/ast/src/cpp/symbol/context.cpp`, `M/ast/src/cpp/types/internal.cpp` | scopes, stacks of values, reference counts | put, get, clear, begin/end scope | interpreter only |
| Expression evaluation, parser | `M/ast/src/cpp/ast`, `M/ast/src/cpp/parse` | syntax trees | visit, parse under a lock | interpreter, store |
| Others | graphics, Xcos, GUI, terminal, files, history, external objects, call_scilab, coverage, slint, parallel_run, numerics | see `components` of PROJECT.json | | reach the engine as clients, or not at all |

### What is hard, and what makes each part correct

- **Command store.** Several threads push while one pops; a signal's boolean is
  written away from its lock; one wait releases another mutex. Correct when the
  queues are only touched under the store lock, no command is lost, duplicated
  or taken out of turn, and a queued command always wakes the interpreter.
- **Interpreter thread.** Pause loops, interrupting commands and exceptions nest
  to any depth and share two globals. Correct when `m_CurrentRunner` and the
  pause level always describe the stack, only prioritary commands interrupt and
  only interruptible ones are interrupted, and an abort gets back to the top.
- **Console thread.** One boolean tells it that "its" command has ended. Correct
  when the prompt comes back exactly when the user may type: never over a running
  console command, always in the end.
- **Clients.** Correct when what they store is executed, and their requests do
  not disturb the console's protocol.
- **Synchronous Java execution.** A rendezvous by name: the caller registers an
  object under the hash of its command, the command ends with `notify` of that
  hash. Correct when a call comes back, after its own command, and `notify` never
  keeps the interpreter.
- **File monitor and library reloader.** Five threads (monitor, executor,
  scheduler, interpreter, windows) share maps under different locks. Correct when
  what is watched has a key, and what is reported is reloaded.
- **Console input.** A line typed has two possible readers, and the flag that says
  which is set without the lock of the line. Correct when each line is taken
  once, by the reader it is for, and a reader that asks is answered.
- **Debugger.** Commands typed in one thread write the fields the interpreter tests
  in another, and a stop is a pause, a launch and an entry of the call stack at
  once. Correct when every way out of a stop takes back all three, a step stops
  where it was asked to, and abort ends what runs.
- **Tcl bridge.** One slot for texts and files, looked at without its lock, and
  condition variables without a boolean. Correct when each sender is answered,
  with its own result, and closing ends the thread.
- **Symbol table.** Bindings are kept in a stack per name, in a set per scope, and
  libraries a third time. Correct when the three agree whatever resume, global
  and clear do, and a function only changes what its caller let it.

PROJECT.json lists each hazard with its line and the properties that cover it.

## 2. Modules

    CommandStore ──► Interpreter ──┐
         └─────────► ConsoleThread ┴► CommandEngine ──► MCCommandEngine (TLC)
    CommandService ◄── refined by ─────┘      └─► CommandEngineProofs
                                                   └─► CommandEngineRunnerProofs
    CommandService ◄── environment of ── SynchronousExec (TLC) ──► SynchronousExecProofs
    FileMonitor ──► LibraryReload ──► MCLibraryReload (TLC)
                         └─► LibraryReloadProofs
    ConsoleInput ──► MCConsoleInput (TLC)
         └─► ConsoleInputProofs
    Debugger (TLC) ──► DebuggerProofs
    TclBridge (TLC) ──► TclBridgeProofs
    ScopedStore ◄── refined by ── SymbolContext ──► MCSymbolContext (TLC)
                                      └─► SymbolContextProofs

| Module | Models | State and actions |
|---|---|---|
| `CommandStore` | queues, store lock, signals, execution-break and force-quit flags | `prioQueue`, `normQueue`, `storeLock`, `commandStored`, `consoleDone`, `startPending`, `execBreak`, `forceQuit`; `Push`, `PopCommand`, `LockStoreCommand`, ... are the bodies of the functions of the same name |
| `Interpreter` | interactiveMain, launch, SeqExp, pause_interpreter, the gateways | `frames` is the call stack: one `launch` frame per call of `launch` (command, saved runner, `iPauseLvl`, next statement), one `pause` frame per pause loop; `curRunner` is `m_CurrentRunner`, `pauseLevel` is `m_iPauseLevel`, `mpc` the place in the code |
| `ConsoleThread` | scilabReadAndStore, StoreConsoleCommand, WaitForConsoleExecDoneSignal | `cpc`, `ccmd`; one action per place where another thread can intervene |
| `CommandEngine` | the composition, the client threads, Ctrl-C, the properties | `tpc`, `tcmd` |
| `CommandService` | the promise to those who store commands, without threads, locks or runners | `prio`, `norm`, `active` |
| `MCCommandEngine` | the instances for TLC | |
| `CommandEngineProofs` | theorems: types, the call stack, the store lock, pause levels, the null runner | |
| `CommandEngineRunnerProofs` | theorems: the runner, interruptions, `CommandService`, the console and its prompt | |
| `SynchronousExec` | ScilabInterpreterManagement, Signal, the gateway notify | `pc`, `uid`, `obj` of each calling thread, `tasks` of the executor, `running` is runningTasks, `waiters` is Signal.waiters, `npc`, `data` the interpreter in Signal.notify; the commands themselves follow `CommandService` |
| `FileMonitor` | FileSystemMonitor, and the watch service as its environment | `listeners`, `keysByRoot`, `rootsByKey` are the maps of those names, `toRegister`, `rkey` the executor, `mpc`, `todo`, `callees` the monitor thread, `suppressed`, `recent` the two time windows |
| `LibraryReload` | LibraryReloader, on top of `FileMonitor` | `dirToLib`, `heard` (the keys of its `listeners`), `pendingFuncs`, `scheduled` (timers), `upc` the interpreter in watch or unwatch, `lpc` the monitor thread in onEvent, `fpc`, `ffuncs` the scheduler in flush |
| `ConsoleInput` | scilabRead, getConsoleReadStr, isScilabCommand, sci_mscanf, the questions of modes 4 and 7, over a reduced engine | `readLock`, `hasLine`, `isCommand`, `consoleDone` shared; `cpc`, `cret` the console thread; `frames`, `mpc`, `rows` the interpreter |
| `Debugger` | executeDebuggerCommand, DebuggerManager, DebuggerVisitor, launch and pause as the debugger uses them | `action`, `level`, `interrupted`, `enabled` are its fields, `where` the call stack (ConfigVariable::where), `pauses` the pause levels, `frames` the launches and stops, `pc` the interpreter, `console` the thread that types; `asked` is history: what was asked for and not got yet |
| `TclBridge` | TCL_Command.c, InitTclTk.c, the gateways TCL_EvalStr, TCL_EvalFile, TCL_DeleteInterp | `TclCommand`, `TclFile`, `TclSlave`, `TclInterpReturn`, `TclInterpResult` are the slot; `mpc` the interpreter thread, `tpc` the Tcl thread, `timer` sleepAndSignal; three locks, of which one is the slot's |
| `SymbolContext` | context.cpp, variables.cpp, libraries.cpp as the interpreter and the gateways global, clear, clearglobal, resume, predef call them | `stack`, `scopes`, `libs`, `level`, and the two fields of a global variable |
| `ScopedStore` | the promise: scopes with bindings of their own, no stacks | `env[level][name]`, `global` |
| `SymbolContextProofs`, `TclBridgeProofs`, `ConsoleInputProofs`, `SynchronousExecProofs`, `LibraryReloadProofs`, `DebuggerProofs` | theorems about the module of that name | |
| `MCLibraryReload`, `MCConsoleInput`, `MCSymbolContext` | instances for TLC | |

### Correspondence with the code

*Steps.* A step of a thread ends wherever another thread can see the difference:
at each lock, unlock, signal and unlocked access to shared data. So
`WaitForCommandStoredSignal` is three actions (`PeekQueues` reads the queues under
the store lock, `AssignStored` writes the boolean without the signal's lock,
`WaitStored` waits) and `StoreConsoleCommand` is `ConsoleLock`, `ConsolePush`,
`ConsoleWait`. The signal locks are taken for a few instructions only and
nothing is acquired inside them, so those sections are single steps; a wait is
a guard on the boolean, since the code loops on it.

*Commands.* A command is an identity with attributes: its queue (`Prioritary`),
`m_isInterruptible`, its origin, and a `Program`: for each statement the set of
things the statement may do (`step`, `error`, `pause`, `resume`, `quit`, `exit`,
`abort`, `recursion`). An identity can be stored again when nothing refers to it
any more (`Live`), so a handful of them stands for an endless session.

*Leaving a command.* `Finish` is the normal end of `launch` and its end after an
error. `AbortLaunch` and `ThrowThroughPause` are InternalAbort unwinding launch
frames (each lowers the level and signals) and pause frames. `RecursionInPause`,
`RecursionError`, `RecursionCaught` are the three fates of RecursionException: thrown
again by `launch` when the level is positive (without restoring the runner),
turned into an error, or caught by a `try` of the command (`Guarded`).

*Ctrl-C.* The handler sets a flag (`CtrlC`); the statement loop stores a
prioritary, non-interruptible `pause` of origin NONE (`StorePause`).

*Undefined behaviour.* At startup WaitForConsoleExecDoneSignal unlocks a mutex its
caller does not own; `UnlockForeignStoreCommand` allows both outcomes.

*Synchronous execution.* The steps of a call are the accesses to shared data:
`SyncCall` (test of runningTasks), `Request` (the store), `AddTask`, `PutWaiter`
(the object registered), `WaitOnObject`, `RemoveTask`; those of `notify` are
`FindWaiter`, `WakeWaiter`, `ForgetWaiter`. A command may end, fail, pause or be
aborted at any time, as the service allows. With `Patient` a text is asked again
only when nothing refers to it any more.

*File monitor.* `subscribe`, `unsubscribe` and the second half of `register` are
synchronized, so one step each; the monitor thread takes no lock, so it has a
step per access to a map (`ResetKey`, then `ForgetKey`). The watch service queues
a key once until it is reset, and a key dies with its directory or when it is
cancelled. The debounce and suppression windows and the timer of a flush
end at any time: their lengths are not modelled.

*Console input.* A row of mscanf and a question of a step are the same hand-over:
`Ask` writes the flag, `GetLine` tries, `SendFirst` signals, `SpinMscanf` or
`SpinStep` tries again. `ReadMode` is the end of scilabRead, `ConsoleFetch` the
getConsoleReadStr of the console thread. The statement loop and the queues are
reduced to what decides who reads: the order of commands, and who signals.

*Debugger.* A program is any nesting of calls, bodies and errors: `Simple`, `Block`,
`Call` and `Fail` are alternatives of a statement, `After`, `End`, `Leave`
its end and those of what contains it. A breakpoint is the choice of `Check`
to stop. `Stop` and `GoOn` are internal_stop with the pause it calls, and the exceptions
are `Thrown` (an error) and `Unwind` (an abort).

*Tcl bridge.* `Send` writes the slot under its lock and `WaitDone` gives the lock up in the wait, as
the code does; `Loop` looks at the slot without it. A signal wakes a thread that
waits and is lost otherwise (`WakeUp`, `WorkIsDone`, `InterpReady`). `Flush` is a
TCL_EvalStr called by Scilab code that Tcl code runs, in the Tcl thread.

*Symbol table.* An action is a call of the gateway or of the interpreter with all
the functions of context.cpp it leads to. ScopedStore has one environment per
level, and its mapping reads level `l` of each stack.

*Faulty variants.* An operator whose comment begins with "Fault" stands beside the
action it spoils (`GetCommandUnlocked`, `ReleasesPromptAlways`, ...). No
specification uses it; substituting it for the action makes a property fail,
which shows that the property looks at the code.

*Abstracted.* In the engine: text, parsing (a client's text may fail to parse:
`ClientParseFails`; a console line that does not parse, or that a running mscanf
takes, stores nothing and is a stutter), display, values and scopes, the
debugger's modes, the TCLSCI prompt, the batch main loop. In `SynchronousExec`: stopScilabExec and
stopAllScilabExec (nothing calls them), the executor's interruption at exit, and
spurious wake-ups of `Object.wait`. In `LibraryReload`: names, kinds of change,
failures of the rebuilt library. In `ConsoleInput`: `pause`, prompts and what mscanf
makes of a line. In `Debugger`: the list of breakpoints and the recursion limit. In `TclBridge`:
the lock of the interpreter, and a TCL_EvalFile in a flush, which never ends. In
`SymbolContext`: classes, functions found in a library, funcprot, `ans`.

## 3. What is checked

| Run | Instance | Shows | Size |
|---|---|---|---|
| `gui` | 2 console commands, 1 callback, 1 request, 1 Ctrl-C pause, 1 client thread | `TypeOK`, `StoreLockExclusion`, `RunnerNotNull`, `RunnerRestored`, `InterruptDiscipline`, `ConsoleCommandHeld`, `ConsoleNotForgotten`, and that the engine implements `CommandService` | 282k states |
| `prompt` | a `-f` command, 3 console commands that also quit and exit, 1 request, no Ctrl-C, no abort | `PromptDiscipline`, `ConsoleSequential`, `StartupFileFirst` | 8k states |
| `live` | 2 console commands that pause, err, quit, exit, abort or recurse, a callback that pauses inside a `try`, a request | `PauseBacked`, and under fairness `ConsoleAnswered`, `AbortUnwinds`, `QuitCompletes` | 24k states |
| `lost_wakeup` | console only | a stored command sleeps: `NoLostWakeup` is violated | |
| `exec` | 2 callers, the executor, 2 texts, 4 objects | `ReturnsAfterExecution`, `NotifyHasWaiter`, and under fairness `NotifyReturns`, `CallerReleased` | 31k states |
| `reload` | 1 library, 1 file, 1 key | `PendingHasFlush`, and under fairness `DeliveredIsReloaded` | 271k states |
| `watching` | 1 directory that is deleted and created again, reloader and editor, 3 keys | under fairness `WatchTakesHold` | 620k states |
| `input` | 3 commands that read up to two lines, a callback, stepping or not | `NoLineLost`, `ConsoleHasLine`, `NotParsed`, and under fairness `LineTaken`, `StepPrompts` | 54k states |
| `symbols` | 2 names, one global and resumed, one a library; 3 levels | `StacksOrdered`, `BindingsRegistered`, `LibrariesHeld`, `CallersKept`, and that the table implements `ScopedStore` | 175k states |
| `dangling_library` | 2 names that hold the same library | `LibrariesHeld` is violated | |
| `debug` | 3 commands typed, 1 callback, calls to depth 2, 2 stops | `StopsCounted`, `StepsStop`, and under fairness `DebuggerReleased`, `AbortObeyed` | 436k states |
| `tcl` | 3 texts or files, the Tcl thread started twice | `OwnAnswer`, `NoStaleRequest`, and under fairness `TclAnswered`, `CloseReturns` | 13k states |

Where a type invariant is not listed it is a conjunct of another one
(`ReturnsAfterExecution`, `PendingHasFlush`, `ConsoleHasLine`, `StopsCounted`, `NoStaleRequest`).

**Two disagreements have a run.** `lost_wakeup` (`threadmanagement.cpp:281-283`): the interpreter
sees empty queues, a thread stores a command and sets the boolean, the
interpreter overwrites it with false and sleeps. `ConsoleAnswered` is therefore
stated "unless the interpreter ends up asleep for ever with a command queued".
`dangling_library` (`libraries.cpp:298`): after `x = lib(p); y = x; y = 1`, the library that `y` loses
is taken out of the libraries under the name `x`, and `clear` then frees a
library still listed under `y`.

**The passing runs state the situations in which a property holds.** Each of the
following is a situation of the code in which it does not. They have no run of
their own; where a parameter is named, changing it reproduces the situation.

1. *Two releases of one prompt* (`runner.cpp:158` and `228`). After Ctrl-C the command
   below a `resume` is the NONE `pause`, so `resume` releases the prompt while the
   interrupted command goes on; after `abort` in a pause, or `exit` in a callback, each
   unwound launch signals. The same happens when a callback is interruptible: a console
   command that interrupts it and resumes finds the callback below it, and releases
   the prompt while the command that had paused goes on. `prompt` therefore has neither
   Ctrl-C nor abort and only requests, while `gui` has all of them (`PauseCmds`,
   `Program`, `ClientCmds`).
2. *Exit with a pausing callback* (`InitScilab.cpp:796`). The console's farewell signal
   wakes a `launch` with nothing to run, and a null Runner is dereferenced. `gui`
   has no exit; `live` has, with `QuitCompletes` stated up to a pause (`Program`).
3. *A text asked twice* (`Signal.java:78`). `notify` wakes the caller and only then
   removes what is registered: a caller that asks the same text again in between
   loses its new registration, and the interpreter stays in the next `notify`. `exec`
   is `Patient`, so `NotifyHasWaiter` is about texts that are not in use.
4. *A directory that comes back* (`LibraryReloader.java:102`). The reloader keeps its
   listener of a deleted directory, so watching it again does nothing.
   `WatchTakesHold` is therefore about a watch that does subscribe, and finds no key
   of the deleted directory in `keysByRoot`.
5. *A flush of a window's event* (`TCL_Command.c:356`). With `EventsFlush` such a flush may replace a
   text that was just sent, whose sender then waits for ever; without anything
   in progress it waits for locks its own thread holds.
6. *Stepping in modes 4 and 7* reads lines that mscanf or the console were to read, so the
   safety properties of `input` are about the other modes, and `StepPrompts` about these.
7. *abort in the debugger* is a value of a field that other commands overwrite; `AbortObeyed` gives up
   an abort that another command has replaced (section 6).
8. *A step and the catch of a caller* (`debuggervisitor.cpp:109-118, 397`). When an error of the
   function being stepped is caught in a caller, the step stays as it was: stepin and
   stepnext are tested before a statement but not below their level, and stepout, which any step then
   is, only after one. The first statement of the catch begins, with what runs in it,
   before the debugger stops. `StepsStop` allows that statement (`InCatch`), and
   asks that it does not end unseen. It also says nothing of a step once a command has
   ended outside a stop, a callback for instance, since `launch` then resets it (`runner.cpp:238`);
   while the callback runs, the step holds in it too.

**Bounds.** One client thread is enough for the lock because the interpreter and
the console compete too (a client's only state is the command it stores); the
lock theorem covers any number. Two statements per command give an "after the
interruption" and a "before" it; two interruptible levels and the pauses between
them are the shortest stack on which saving and restoring the runner, or
comparing pause levels, can go wrong. The number of live commands bounds the
queues and the stack, which no code does. The number of `PauseCmds` bounds how
many Ctrl-C pauses are alive. In `exec` two texts and three threads let one caller
wait, one ask and the executor follow; four objects are one per thread and the
one `notify` holds; `MaxTasks` bounds the executor's queue. In `reload` and
`watching` keys are a pool (a dead key that nobody holds is a new one): one is
enough when registration is not the question, three let a live key, a dead
one still recorded and one held by the executor exist together. `MaxRegister` and
`MaxReloads` bound the queues of registrations and reload commands. A second file
adds nothing but the product, since no step compares files. In `input` three commands (`MaxCommands`) let one read, one interrupt it and one be queued;
mscanf of two lines is the shortest that asks again. In `symbols`, `MaxLevel = 3` gives a
function, its caller and the caller's caller, which `CallersKept` is about; a name with
global and resume, another one with a library and a primitive below it
(`Bindings`, `Globals`, `Resumed`, `PredefLevels` keep the product small) reach every branch. In `debug`, `MaxStops = 2` lets
one stop be in another and `MaxCalls = 2` gives a step a caller to come back to; a
recursion of calls or stops only repeats these. In `tcl` the third text follows
one that left something behind, and `MaxOpens = 2` restarts the thread once. Deadlock is not
checked: after `exit` the threads have stopped, at a bound nothing is typed any
more, and with all commands paused everybody waits for the user.

**Startup.** `EarlyClients = FALSE` keeps clients quiet until the first prompt is
about to appear, and `StartNorm` (`-quit`) is empty in the runs: with any
non-console command queued at startup the console waits for an end signal
nobody sends (section 6). The model has the parameters, so the hang can be
reproduced by changing them.

**Fairness.** `FairSpec` asks strong fairness of the interpreter, of the console's own
steps and of a client that has begun to store. Threads are scheduled by the
operating system, and the store lock is held for a bounded number of
instructions by everybody (or until a wait that releases it), so a thread that
keeps asking finds it free again and again and, with the mutexes used, gets it:
that is strong fairness, weak fairness would let it starve. Nothing is asked of the user
(`ConsoleRead`), of clients that have not begun, or of Ctrl-C. Requests that never
stop do starve the console command they interrupt (`run_SeqExp.hpp:91`):
`ConsoleAnswered` excludes them by name (`ClientsQuiet`).

In `SynchronousExec` and `LibraryReload` weak fairness of each thread's own steps is
enough: their locks are held for one step, or until a step that is always
enabled. Nothing is asked of callers that have not begun, of running commands, of
files, or of the end of a time window. That a timer fires stands for
an assumption on the environment: each event sets it again, so changes must
stop for COALESCE_MS (400 ms).

In `ConsoleInput` both threads have strong fairness, for the lock of the line as for
the store lock; the user types, or a line that is awaited never comes. In
`Debugger` the threads have weak fairness, and `Block` strong: a program that runs for ever
does so in a loop or by calls, and each turn of it enters a body, where an abort is seen;
nothing is asked of the user. In `TclBridge` the threads and the timer have weak fairness (the locks
are free again after each step of their owner, who does not take them twice
while the other waits), and evaluated Tcl code ends. `SymbolContext` is safety only.

## 4. What is proved

With TLAPS, for every value of the constants that satisfies the assumptions of the
module (checked by TLC in each run): `CommandAssumption`, `ThreadAssumption` and
`KindAssumption` for the engine (any clients, commands and programs, any starting queues unless
stated), `SymbolAssumption` (any names, values, libraries, depth of calls), `DebuggerAssumption` (any
number of commands, calls and stops), `ReloadAssumption` with `FileAssumption`,
`InputAssumption`, `ExecAssumption`, `TclAssumption`.

| Theorem | Statement | Extra hypothesis |
|---|---|---|
| `TypeCorrect` | `[]TypeOK` | none |
| `StackCorrect` | `[]StackInv` | none |
| `StoreLockCorrect` | `[]StoreLockExclusion` | `QuietStart`: nothing queued at startup |
| `ConsoleCommandHeldCorrect` | `[]ConsoleCommandHeld` | `QuietStart` |
| `RunnerNotNullCorrect` | `[](cpc # "done" => RunnerNotNull)` | none |
| `PauseBackedCorrect` | `[]PauseBacked` | none |
| `RunnerRestoredCorrect` | `[]RunnerRestored` | `[]NoRecursionInPause` |
| `InterruptDisciplineCorrect` | `[]InterruptDiscipline` | `[]NoRecursionInPause` |
| `ImplementsServiceCorrect` | `ImplementsService`: the engine refines `CommandService` | `[]NoRecursionInPause` |
| `ConsoleNotForgottenCorrect` | `[]ConsoleNotForgotten` | `QuietStart`, `[]NoRecursionInPause` |
| `PromptDisciplineCorrect` | `[]PromptDiscipline` | `Orderly` |
| `ConsoleSequentialCorrect` | `[]ConsoleSequential` | `Orderly` |
| `StartupFileFirstCorrect` | `[]StartupFileFirst` | `Orderly` |
| `SymbolTypeCorrect` | `[]SymbolTypeOK` | none |
| `StacksOrderedCorrect` | `[]StacksOrdered` | none |
| `BindingsRegisteredCorrect` | `[]BindingsRegistered` | none |
| `GlobalHasValueCorrect` | `[]GlobalHasValue` | none |
| `CallersKeptCorrect` | `CallersKept` | none |
| `ImplementsStoreCorrect` | `ImplementsStore`: the symbol table refines `ScopedStore` | `Globals \subseteq Plain` |
| `LibrariesHeldCorrect` | `[]LibrariesHeld` | `OneNamePerLibrary`, `Globals \cup Resumed \subseteq Plain` |
| `StopsCountedCorrect` | `[]StopsCounted` | none |
| `StepsStopCorrect` | `StepsStop` | none |
| `ReturnsAfterExecutionCorrect` | `[]ReturnsAfterExecution` | `Patient` |
| `NotifyHasWaiterCorrect` | `[]NotifyHasWaiter` | `Patient` |
| `PendingHasFlushCorrect` | `[]PendingHasFlush` | none |
| `NoLineLostCorrect` | `[]NoLineLost` | `CallbacksDoNotRead` |
| `ConsoleHasLineCorrect` | `[]ConsoleHasLine` | `CallbacksDoNotRead` |
| `NotParsedCorrect` | `[]NotParsed` | `CallbacksDoNotRead` |
| `OwnAnswerCorrect` | `[]OwnAnswer` | `~EventsFlush` |
| `NoStaleRequestCorrect` | `[]NoStaleRequest` | `~EventsFlush` |

**The hypotheses** are not conveniences: each was added after a counterexample of TLC.

- `QuietStart`: the console that finds a command at startup unlocks the store while a client
  may own it, and exclusion fails; its wait wipes the signal of a command that was
  short (situation 1 of section 6).
- `[]NoRecursionInPause`: `launch` rethrows before it restores the runner
  (`runner.cpp:94-100`), and the runner stays on a command that has ended.
- `Orderly`: only what is typed at the console pauses, resumes, quits and exits; nobody aborts or
  presses Ctrl-C; callbacks cannot be interrupted; startup leaves at most one
  command. Each part is needed: a callback that is interrupted, that resumes the pause of a
  console command, or that is the first of several launches an abort unwinds, gives
  the prompt back while the console command goes on (situation 1 of section 3); with two
  startup commands the second interrupts the first. `exit` and `quit`
  typed at the console are allowed, since after them nothing more is typed.
- `Globals \subseteq Plain`: no name declared global is bound to a library. `clearglobal`
  leaves the library in the libraries, `global` then takes it from there, and the store
  promises the empty matrix (section 6).
- `OneNamePerLibrary`: the run `dangling_library` refutes `LibrariesHeld` when two names hold one
  library. Resumed names are excluded because `unrefLibrary` sees only the
  tops of the stacks (section 6).
- `Patient`: a text is not asked for again while it is in use (situation 3 of section 3).
- `CallbacksDoNotRead`: an mscanf in a callback competes with the console for the line.
- `~EventsFlush`: a flush takes the place of a text that was sent (situation 5 of section 3).

**The arguments.**

*Types and stack.* `TypeOK` is not inductive: advancing a statement or ending a pause loop
needs to know what is on top of the stack. `StackInv` adds that a pause frame
always sits on the launch frame whose command paused (`WellFormed`), that the
program counter agrees with the top frame (`TopMatches`), and that the console and
clients hold commands of their own kind. One lemma per stack operation
(`LaunchPushed`, `PausePushed`, `Popped`, `Advanced`), then one step per action.

*Locks.* `StoreLockCorrect` adds `Waiting`: until the console has looked at the (empty) queues, nothing
has started, so the foreign unlock of startup is unreachable. `MainEffects`
sums up what all interpreter actions do to lock and queues in four cases.
`ConsoleCommandHeld` then follows because only the lock's owner pops and, from push to
wait, the owner is the console.

*Runner and interruptions.* `RunnerInv` writes `RunnerRestored` and `InterruptDiscipline` for an arbitrary stack
(`Linked`), so that pushing, popping and advancing preserve it by lemma, and adds `WillYield`:
between the unlocked test of the prioritary queue and the pop there is still a
prioritary command to take, because only the interpreter takes them.

*Pauses.* `PauseInv` replaces "some loop backs the level" by "the topmost loop does, and each loop is
at most one level above the loop below it", which survives the end of the
topmost loop; while an exception unwinds, the level is below that of a pause
frame on top, since the launch it came through has lowered it.

*Release of the console.* `ReleaseInv` says that a waiting console that has no signal yet has a
`Releaser`: a console command that is queued or running. A console command that ends releases
the prompt unless `launch` leaves that to the command it interrupted, and then that one is
a console command too, still on the stack. The first one has none below it; it
releases because it started, and ends, at pause level 0 (`BottomLevel`).

*Refinement of `CommandService`.* The steps that store, pop and end a command are those of the
service under the mapping (what is queued, what the launch frames are), the pop of an
interruption being one that `InterruptDiscipline` allows; all others stutter.

*Prompt.* `PromptInv` says that there is one right to type, which goes round: the console
has it, or one console command is queued, or the innermost console command runs. `Right` states it,
`Covered` that while it is open every console command on the stack is inside a pause that goes on,
`Shaped` what can be on top of what, and `Ending` that after `exit` nothing more is typed.
`ConsoleSequential` is read off `Shaped`; `StartupFileFirst` follows because the startup
command has the right when the console begins.

*Symbol table.* `IInv` is the conjunction of the first four: a name
is popped only if it is registered, registration only helps if the top of the stack is the
innermost level, and a shown global variable must have a value for the result of
`Get` to be one. The operations on a single stack have a lemma each (`PutValueStack`, `PopAtStack`,
`ResumeStack`, ...: type, order, levels, what is kept below), and each action a lemma that it preserves
`IInv` and changes nothing of the callers of the caller (`Kept`), from which `CallersKept` follows.
For the refinement the lemmas say what each operation does to the binding at each level;
`Pure` keeps libraries out of the names that are never bound to one. `Agree` then says, level by level,
that a name is bound to a library if and only if the stack of libraries lists
it there, which gives `LibrariesHeld`.

*Debugger.* The counts are not inductive, since a launch that is left cuts the calls back to the depth it
began at. `StackInv` says that the calls below that depth have as many pauses as there are
stops below the launch (`Balanced`), and that a level rises by at most one, at a stop (`Levels`). For `StepsStop`,
`StepInv` says that while a step is pending the fields hold it (`Held`), and nothing has gone below the
level it asked for without having looked (`Above`): only `return` and an error go down, and both
stop there. An error caught in a caller does not look; from there on the fields
alone, which a catch leaves as they are, make the first statement that ends stop.

*Synchronous execution.* A text belongs to one thread (`ThreadInv`), or to a task that has not started
(`TaskInv`); its command is stored or run once (`CommandInv`), for the thread that asked
(`OwnerInv`), whose object is the one registered (`WaiterInv`) and the one notify takes
(`NotifyInv`). A thread that was woken finds its command over (`Returned`).

*Library reloader.* A timer is set for the directory of the change being delivered. So `Covered` adds that
the monitor thread is in `onEvent` with that change while it is noted and not scheduled.
The rest is where each of the four threads is and what it then holds.

*Console input.* There is at most one command of the console, stored or running (`OneCommand`).
`Line` says whom a line is for: while the console reads, a running command can only be an
mscanf waiting for that line, and the flag says which of the two it is; while the console
waits, the flag is down from the question to the line, and only a waiting mscanf leaves a line where it is.

*Tcl bridge.* Who owns each lock follows from where the threads are (`LockInv`); the slot holds the
request or nothing (`SlotInv`: the Tcl thread looks at it without the lock, but what it has seen
stays until it evaluates it); code and result are those of the request
from its evaluation to the next one (`AnswerInv`).

**Only model-checked**: the liveness properties (`ConsoleAnswered`, `AbortUnwinds`, `QuitCompletes`, `NotifyReturns`,
`CallerReleased`, `DeliveredIsReloaded`, `WatchTakesHold`, `LineTaken`, `StepPrompts`, `DebuggerReleased`,
`AbortObeyed`, `TclAnswered`, `CloseReturns`), which are beyond the prover, as is anything with
ENABLED. Every other property of the passing runs is stated by a theorem. Outside the
hypotheses above they hold only on the instances of section 3 that go there.

## 5. Not modelled, and what could follow

What would add most, in this order:

1. Proofs: the prompt theorems for sessions with a recursion error that nobody pauses over;
   `NoLineLost` for callbacks that read, with the weaker guarantee they leave.
2. In `LibraryReload`, the lengths of the windows: that the debounce never hides the last
   write, but for the race of section 6.
3. In `Debugger`, the list of breakpoints with its lock; in `ConsoleInput`, `pause` while a
   line is awaited.

**Not modelled.** Parser: generated, sequential, under one lock; only whether a text
parses matters to the engine. Values: reference counts and copies are sequential
and spread over every gateway. Graphic objects, Xcos, Swing windows, terminal: views of
data, which reach the engine as clients. Files, history, external objects, HDF5,
XML: sequential tables and wrappers of foreign libraries. call_scilab has one
thread and no queue; parallel_run is no longer built; coverage and slint are
offline. Numerical libraries (linear algebra, differential equations, sparse
matrices, signal processing, with the solvers shipped beside them) are by far most
of the code, and floating-point arithmetic is out of a model checker's reach.
For this reason the share of lines the modules translate stays small, although
the parts where several threads meet, and the table they work on, are covered.

## 6. Observed while modelling, without a run

Besides the situations of section 3.

*Engine*

- `InitScilab.cpp:641-646, 842-844`: the `-f` command may end before the console waits for
  it; the wait wipes the signal and the first prompt never comes. A queued
  command that is not a console command has the same effect always.
- `threadmanagement.cpp:160`: at startup and for mscanf, the wait unlocks a store mutex
  its caller does not own.
- `runner.cpp:94-100`: after a recursion error through a callback's pause,
  `m_CurrentRunner` stays on a finished command.
- `pause.cpp:41`: the pause loop does not look at the force-quit flag. `pause.cpp:43`: the
  prompt mode is not restored when an exception leaves the loop.
- `runner.cpp:69`: a Ctrl-C just before a command starts is dropped.

*Console input*

- `InitScilab.cpp:678`, `threadmanagement.cpp:161`: mscanf of two lines takes the first one, asks
  for the second and signals, all before the console, whose line was for mscanf,
  begins to wait: the wait wipes the signal and both wait. `LineTaken` is about
  lines already typed.
- `sci_mscanf.cpp:95-113`: the flag that a line is wanted is set without the lock and polled.

*Debugger*

- `runner.cpp:67`: an abort is a value of `action`, which each launch, each step and the end of a
  callback overwrite; `InterpreterManagement.c:25` tests that nothing is stopped and stores afterwards.
- `debugmanager.cpp:603`: the end of a stop inside another one clears `interrupted` for both; then `continue`
  is refused and `abort` is only noted (`debug.xml:60-66` describes both as commands of a stop).
- The `resume` that continues from a stop releases the prompt before the next stop, which
  `runner.cpp:224-227` wants to avoid. A recursion error in a stop leaves its pause in the call
  stack: internal_stop catches only InternalAbort.
- `runner.cpp:238`: the end of any command resets a step that is pending, also when the command is a
  callback of the GUI. An error caught in a caller lets the first statement of the catch run
  before a step stops (situation 8 of section 3).
- `debugmanager.cpp:261`: one writer of the list of breakpoints takes its lock, the others do not. The lock is
  held while a condition is evaluated, and a breakpoint that stops once is removed from
  the list during the walk over it.

*Tcl bridge*

- `InitTclTk.c:289-292`: the thread may be ready before it is waited for; `InitTclTk.c:227-236`: one of the
  errors of initialisation tells nobody. Either way the interpreter waits for ever.
- `TCL_Command.c:175, 192, 227, 316, 344-366`: the slot is read without its lock, and waits
  have no condition to test again. A text in a flush ignores the slave it names, and
  its result stays for the next reader. A TCL_EvalFile in a flush waits for itself.

*Symbol table*

- `variables.cpp:556-559`: a `resume` that is refused because the caller's variable is protected
  loses the function's own binding.
- `variables.cpp:616`: `clearglobal` removes the entry of the current level, global or not, and leaves a
  library it held in the libraries. Declaring the name global again then finds that
  library, and not the empty matrix.
- `libraries.cpp:292-305`: when `resume` replaces a library of the caller, the libraries are searched
  by the tops of their stacks only. If the function has bound the name too, its own entry is
  removed (the same library) or none is (another one), and the caller's stays.

*Library reloader, synchronous execution*

- `FileSystemMonitor.java:323-326`: the debounce drops the last events of a burst. The flush
  comes later and sees their writes too, unless the flush of an earlier event
  took the function in between (`LibraryReloader.java:151-164`): then the last write
  is not loaded.
- `FileSystemMonitor.java:318`: a file saved in SciNotes is hidden from the library reloader too.
- `FileSystemMonitor.java:187, 307`: a subscription that comes before the monitor has forgotten
  a deleted directory is never registered; the monitor may remove a newer key
  than the dead one, which is then never cancelled.
- `Signal.java:44`: notify may precede the wait, which then never ends (`Missed`).
  `ScilabInterpreterManagement.java:88-97`: test and registration of a command are separate.
  `ScilabInterpreterManagement.java:373`: `abort` leaves the caller waiting.

## 7. Running

    tlc -workers 2 -config gui.cfg MCCommandEngine
    tlapm CommandEngineProofs.tla
    tlapm CommandEngineRunnerProofs.tla
    tlapm SymbolContextProofs.tla
    tlapm DebuggerProofs.tla
    tlapm SynchronousExecProofs.tla
    tlapm ConsoleInputProofs.tla
    tlapm LibraryReloadProofs.tla
    tlapm TclBridgeProofs.tla

Each run of PROJECT.json is a configuration of `MCCommandEngine`, `SynchronousExec`,
`MCLibraryReload`, `MCConsoleInput`, `MCSymbolContext`, `Debugger` or `TclBridge` (`symbols` and `debug`
take minutes, the others less); `map` gives the source lines each definition translates.
