-------------------------- MODULE ModuleLifecycle --------------------------
(***************************************************************************)
(* Loading and unloading of the client's kernel module: poise_init_module  *)
(* and poise_exit_module (mon_poise.c) with the parts they set up: the     *)
(* device (mon_fs.c), the collector thread (mon_rs.c), the reply thread,   *)
(* the netfilter hook (mon_nf.c) and the security operations (mon_lsm.c).  *)
(* Every call that registers or allocates may fail.  A thread is reduced   *)
(* to its loop: a round of work of any length, a sleep, the test of the    *)
(* flag that stops it.  What its rounds do is in ContextReply.             *)
(*                                                                         *)
(* The text of the module is freed when poise_exit_module returns; a       *)
(* thread that runs afterwards crashes the machine.  As long as one is     *)
(* left the module is not loaded again: whatever else happens, it crashes. *)
(*                                                                         *)
(* Operators marked "Mutant:" state a plausible mistake in the definition  *)
(* after them; they are not part of the specification.                     *)
(***************************************************************************)
EXTENDS Integers

CONSTANTS
    ms_period,          \* the reply thread's sleep, and the wait on unloading
    read_period         \* the collector thread's sleep

ASSUME Periods == ms_period \in Nat /\ read_period \in Nat

VARIABLES
    DBG_LSM,            \* how the module was built: with the security operations only
    pc,                 \* the next step of poise_init_module and poise_exit_module
    registered,         \* what is registered with the kernel
    hook_op,            \* local_out_hook_op: "NULL", "allocated" or "freed"
    go,                 \* the threads whose flag is set (read_context_auto, isRun)
    thread,             \* what each thread does
    timer,              \* how long each sleep still takes
    failed,             \* the calls that failed since the module was loaded
    wrong,              \* the calls made to remove what was not there
    busy                \* the threads that were not asleep when told to stop

thread_vars == <<go, thread, timer, busy>>
call_vars   == <<failed, wrong>>
life_vars   == <<DBG_LSM, pc, registered, hook_op, thread_vars, call_vars>>

Device    == {"chrdev", "class", "device"}
Thread    == {"reply", "read"}
Sleeper   == Thread \cup {"exit"}
Period(t) == IF t = "reply" THEN ms_period ELSE read_period
Alive(t)  == thread[t] \in {"round", "asleep"}

-----------------------------------------------------------------------------
(***************************************************************************)
(* poise_init_module.                                                      *)
(***************************************************************************)
Insmod ==
    /\ pc = "unloaded" /\ \A t \in Thread : ~Alive(t)
    /\ pc' = IF DBG_LSM THEN "lsm_init" ELSE "register_chrdev"
    /\ hook_op' = "NULL"
    /\ go' = {}
    /\ thread' = [t \in Thread |-> "none"]
    /\ timer' = [t \in Sleeper |-> 0]
    /\ failed' = {} /\ wrong' = {} /\ busy' = {}
    /\ UNCHANGED <<DBG_LSM, registered>>

\* poise_rs_init fails, and poise_init_module returns 0: the module is loaded.
FsFails(call) == pc' = "loaded" /\ failed' = failed \cup {call}

register_chrdev ==
    /\ pc = "register_chrdev"
    /\ \/ registered' = registered \cup {"chrdev"} /\ pc' = "class_create" /\ UNCHANGED failed
       \/ FsFails("register_chrdev") /\ UNCHANGED registered
    /\ UNCHANGED <<DBG_LSM, hook_op, thread_vars, wrong>>

\* Mutant: the number stays registered.
UndoClassKeeps == {"class"}

UndoClass == {"chrdev"}

class_create ==
    /\ pc = "class_create"
    /\ \/ registered' = registered \cup {"class"} /\ pc' = "device_create" /\ UNCHANGED failed
       \/ FsFails("class_create") /\ registered' = registered \ UndoClass
    /\ UNCHANGED <<DBG_LSM, hook_op, thread_vars, wrong>>

device_create ==
    /\ pc = "device_create"
    /\ \/ registered' = registered \cup {"device"} /\ pc' = "read" /\ UNCHANGED failed
       \/ FsFails("device_create") /\ registered' = registered \ {"class", "chrdev"}
    /\ UNCHANGED <<DBG_LSM, hook_op, thread_vars, wrong>>

\* A thread is created, its flag set, and the thread woken.  As in the source,
\* a thread that cannot be created is a NULL pointer.
kthread_create(t, next) ==
    /\ pc = t /\ pc' = next
    /\ \/ /\ go' = go \cup {t}
          /\ thread' = [thread EXCEPT ![t] = "asleep"]
          /\ UNCHANGED failed
       \/ failed' = failed \cup {"kthread_create"} /\ UNCHANGED <<go, thread>>
    /\ UNCHANGED <<DBG_LSM, registered, hook_op, timer, busy, wrong>>

poise_nf_init ==
    /\ pc = "nf_init" /\ pc' = "lsm_init"
    /\ \/ hook_op' = "allocated" /\ registered' = registered \cup {"hook"} /\ UNCHANGED failed
       \/ hook_op' = "allocated" /\ failed' = failed \cup {"nf_register_hook"} /\ UNCHANGED registered
       \/ failed' = failed \cup {"kmalloc"} /\ UNCHANGED <<hook_op, registered>>
    /\ UNCHANGED <<DBG_LSM, thread_vars, wrong>>

poise_lsm_init ==
    /\ pc = "lsm_init" /\ pc' = "loaded"
    /\ \/ registered' = registered \cup {"lsm"} /\ UNCHANGED failed
       \/ failed' = failed \cup {"cus_register_security"} /\ UNCHANGED registered
    /\ UNCHANGED <<DBG_LSM, hook_op, thread_vars, wrong>>

-----------------------------------------------------------------------------
(***************************************************************************)
(* poise_exit_module.                                                      *)
(***************************************************************************)
Rmmod ==
    /\ pc = "loaded"
    /\ pc' = IF DBG_LSM THEN "lsm_exit" ELSE "nf_exit"
    /\ UNCHANGED <<DBG_LSM, registered, hook_op, thread_vars, call_vars>>

\* A call that removes an object is wrong if the object is not there.
Removes(call, object) == IF object \in registered THEN {} ELSE {call}

\* Mutant: the pointer is not tested.
HasHookAlways == TRUE

HasHook == hook_op # "NULL"

poise_nf_exit ==
    /\ pc = "nf_exit" /\ pc' = "lsm_exit"
    /\ IF HasHook
       THEN /\ hook_op' = "freed"
            /\ registered' = registered \ {"hook"}
            /\ wrong' = wrong \cup Removes("nf_unregister_hook", "hook")
       ELSE UNCHANGED <<hook_op, registered, wrong>>
    /\ UNCHANGED <<DBG_LSM, thread_vars, failed>>

poise_lsm_exit ==
    /\ pc = "lsm_exit" /\ pc' = IF DBG_LSM THEN "unloaded" ELSE "stop_reply"
    /\ registered' = registered \ {"lsm"}
    /\ wrong' = wrong \cup Removes("cus_unregister_security", "lsm")
    /\ UNCHANGED <<DBG_LSM, hook_op, thread_vars, failed>>

Stop(t, next) ==
    /\ pc' = next
    /\ go' = go \ {t}
    /\ busy' = IF thread[t] = "round" THEN busy \cup {t} ELSE busy
    /\ UNCHANGED <<DBG_LSM, registered, hook_op, thread, timer, call_vars>>

StopReply     == pc = "stop_reply" /\ Stop("reply", "stop_read")
StopRead == pc = "stop_read" /\ Stop("read", "fs_fini")

\* Mutant: unregister_chrdev is forgotten.
FsRemovedKeeps == {"device", "class"}

FsRemoved == Device

\* Mutant: no wait for the threads.
WaitNone == 0

Wait == ms_period

\* class_destroy unregisters the class that class_unregister has unregistered.
\* Then poise_exit_module waits.
poise_fs_fini ==
    /\ pc = "fs_fini" /\ pc' = "wait"
    /\ registered' = registered \ FsRemoved
    /\ wrong' = wrong \cup Removes("device_destroy", "device") \cup Removes("class_unregister", "class")
                      \cup {"class_destroy"} \cup Removes("unregister_chrdev", "chrdev")
    /\ timer' = [timer EXCEPT !["exit"] = Wait]
    /\ UNCHANGED <<DBG_LSM, hook_op, go, thread, busy, failed>>

Unload ==
    /\ pc = "wait" /\ timer["exit"] = 0
    /\ pc' = "unloaded"
    /\ UNCHANGED <<DBG_LSM, registered, hook_op, thread_vars, call_vars>>

-----------------------------------------------------------------------------
(***************************************************************************)
(* The threads, and time.  A thread that has slept long enough runs again  *)
(* sooner or later.                                                        *)
(***************************************************************************)
EndRound(t) ==
    /\ pc \notin {"unloaded", "crashed"} /\ thread[t] = "round"
    /\ thread' = [thread EXCEPT ![t] = "asleep"]
    /\ timer' = [timer EXCEPT ![t] = Period(t)]
    /\ UNCHANGED <<DBG_LSM, pc, registered, hook_op, go, busy, call_vars>>

Wake(t) ==
    /\ pc \notin {"unloaded", "crashed"} /\ thread[t] = "asleep" /\ timer[t] = 0
    /\ thread' = [thread EXCEPT ![t] = IF t \in go THEN "round" ELSE "ended"]
    /\ UNCHANGED <<DBG_LSM, pc, registered, hook_op, go, timer, busy, call_vars>>

Crash(t) ==
    /\ pc = "unloaded"
    /\ thread[t] = "round" \/ (thread[t] = "asleep" /\ timer[t] = 0)
    /\ pc' = "crashed"
    /\ UNCHANGED <<DBG_LSM, registered, hook_op, thread_vars, call_vars>>

Tick ==
    /\ pc # "crashed" /\ \E s \in Sleeper : timer[s] > 0
    /\ timer' = [s \in Sleeper |-> IF timer[s] > 0 THEN timer[s] - 1 ELSE 0]
    /\ UNCHANGED <<DBG_LSM, pc, registered, hook_op, go, thread, busy, call_vars>>

-----------------------------------------------------------------------------
LifeInit ==
    /\ DBG_LSM \in BOOLEAN /\ pc = "unloaded"
    /\ registered = {} /\ hook_op = "NULL"
    /\ go = {} /\ thread = [t \in Thread |-> "none"]
    /\ timer = [t \in Sleeper |-> 0]
    /\ failed = {} /\ wrong = {} /\ busy = {}

InitModule ==
    \/ register_chrdev \/ class_create \/ device_create
    \/ kthread_create("read", "reply") \/ kthread_create("reply", "nf_init")
    \/ poise_nf_init \/ poise_lsm_init

ExitModule ==
    poise_nf_exit \/ poise_lsm_exit \/ StopReply \/ StopRead \/ poise_fs_fini \/ Unload

Run(t) == EndRound(t) \/ Wake(t) \/ Crash(t)

LifeNext == Insmod \/ InitModule \/ Rmmod \/ ExitModule \/ Tick \/ \E t \in Thread : Run(t)

LifeSpec == LifeInit /\ [][LifeNext]_life_vars

-----------------------------------------------------------------------------
FsCalls == {"register_chrdev", "class_create", "device_create"}

\* The calls that may fail on loading, for each wrong call on unloading.
Cause == [nf_unregister_hook      |-> {"nf_register_hook"},
          cus_unregister_security |-> {"cus_register_security"} \cup FsCalls,
          device_destroy          |-> FsCalls,
          class_unregister        |-> FsCalls,
          unregister_chrdev       |-> FsCalls]

Failed(calls) == failed \cap calls # {}

\* Whatever failed on loading, nothing of the module is registered with the
\* kernel once it is unloaded (poise_exit_module removes without asking).
NothingLeft == pc \in {"unloaded", "crashed"} => registered = {}

\* A loaded module has the whole device or nothing of it (the error paths of
\* poise_fs_init), and without it neither threads nor a hook.
DeviceWhole ==
    pc = "loaded" =>
        \/ Device \subseteq registered
        \/ /\ registered \subseteq {"lsm"} /\ hook_op = "NULL"
           /\ \A t \in Thread : thread[t] = "none"

\* Unloading removes only what loading has set up, unless a call failed that
\* poise_init_module did not report; but class_destroy comes too late always.
RemovesWhatIsThere == \A call \in wrong \ {"class_destroy"} : Failed(Cause[call])

\* A thread that was asleep when told to stop has slept to the end by the time
\* the module is gone, if its period is no longer than the wait: the reply
\* thread's is not, the collector's is.
AsleepDue ==
    pc = "unloaded" =>
        \A t \in Thread : thread[t] = "asleep" /\ t \notin busy /\ Period(t) <= ms_period => timer[t] = 0

\* "Waiting for all threads exit" (mon_poise.c:140): when the module is gone,
\* so are its threads.
ThreadsGone == pc = "unloaded" => \A t \in Thread : ~Alive(t)
=============================================================================
