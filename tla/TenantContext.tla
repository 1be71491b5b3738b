--------------------------- MODULE TenantContext ---------------------------
(***************************************************************************)
(* Which tenant's database an operation reaches. A repository call uses    *)
(* the key in force when it starts: that of the gRPC call it runs in       *)
(* (tenant-context.ts), and outside a call, in the queue worker and in     *)
(* socket handlers, one static default that the process has                *)
(* (abstract.repository.ts). A task is one such handler; it runs the       *)
(* operations of its path, and other tasks run at every await. Calls and   *)
(* jobs run in the process of a service, socket handlers in that of the    *)
(* gateway; both read and fill the same settings in Redis.                 *)
(***************************************************************************)
EXTENDS Naturals, Sequences, FiniteSets, Functions

CONSTANTS
    Tenants,    \* instance keys
    StartKey,   \* the static default of a new process
    NoKey,      \* "no key", "nothing cached"
    Outside,    \* the context of a task that runs in no gRPC call
    Tasks,      \* what runs in the two processes; bounds its number
    MaxAlike    \* bounds the number of calls and of socket handlers

ASSUME KeysAssumption ==
    /\ NoKey \notin Tenants \cup {StartKey}
    /\ Outside \notin Tasks
    /\ MaxAlike \in Nat

VARIABLES
    levels,     \* the tenants whose settings switch student level on
    default,    \* default[p]: AbstractRepository.defaultInstancekey of process p
    store,      \* store[t]: the instancekey in the store of gRPC call t
    task,       \* task[t]: kind, process, tenant, context, settings held, remaining path
    touched,    \* touched[t]: the databases task t has reached
    beside,     \* beside[t]: the tenants that set the default of its process while t ran
    cached      \* cached[k]: whose settings Redis holds under tenant k

tenantVars == <<levels, default, store, task, touched, beside, cached>>

Keys == Tenants \cup {StartKey}

(* A path lists the awaited operations. "own" sets the key of the task      *)
(* right before the operation (adjacent ones are one step), "left" uses the *)
(* key that is there, "setting" is getSettingAsync and "level" the call of  *)
(* updateUserLevel. An operation marked "maybe" depends on the data.        *)
Repeat == <<"maybe left", "own">>

GradingPath == <<"own", "left", "setting", "left", "own", "left", "level",
                 "maybe own", "maybe left", "maybe setting", "maybe own">>

JobPath == <<"own">> \o GradingPath \o <<"left">>

LevelPath == <<"own", "left", "own", "maybe left", "own", "left">>

DisconnectPath == <<"own">> \o Repeat

RoomPath == <<"own">> \o Repeat \o <<"maybe left">>

InvitePath == RoomPath \o <<"own">> \o Repeat

MessagePath == <<"own", "maybe left">> \o RoomPath \o <<"own">> \o Repeat \o <<"setting">>

UpdatePath == <<"maybe left", "left", "left">>

Paths(kind) ==
    CASE kind = "finish"     -> {GradingPath}
      [] kind = "update"     -> {UpdatePath}
      [] kind = "job"        -> {JobPath, <<"own">>, <<"own", "left">>}
      [] kind = "level"      -> {Tail(LevelPath)}
      [] kind = "disconnect" -> {DisconnectPath}
      [] kind = "invite"     -> {InvitePath}
      [] kind = "message"    -> {MessagePath}

Calls == {"finish", "update"}
Sockets == {"disconnect", "invite", "message"}
Kinds == Calls \cup Sockets \cup {"job", "level"}

Processes == {"service", "gateway"}

Unused == [kind |-> "unused", process |-> "service", tenant |-> NoKey, context |-> Outside,
           settings |-> NoKey, path |-> <<>>]

TenantInit ==
    /\ levels \in SUBSET Tenants
    /\ default = [p \in Processes |-> StartKey]
    /\ store = [t \in Tasks |-> NoKey]
    /\ task = [t \in Tasks |-> Unused]
    /\ touched = [t \in Tasks |-> {}]
    /\ beside = [t \in Tasks |-> {}]
    /\ cached = [k \in Tenants |-> NoKey]

Running(t) == task[t].path # <<>>

ProcessOf(t) == task[t].process

(***************************************************************************)
(* The key in force                                                        *)
(***************************************************************************)
(* Mutant of KeyInForce: the static key of before the per-request store. *)
KeyInForceOfProcess(t) == default[ProcessOf(t)]

KeyInForce(t) ==
    LET c == task[t].context
    IN IF c # Outside /\ store[c] # NoKey THEN store[c] ELSE default[ProcessOf(t)]

(* Mutant of SetKey: the setter writes the default inside a call too. *)
SetKeyEverywhere(t) ==
    /\ default' = [default EXCEPT ![ProcessOf(t)] = task[t].tenant]
    /\ UNCHANGED <<store, beside>>

(* setInstanceKey(ik): writes the store of the call, else the default. *)
SetKey(t) ==
    LET c == task[t].context
    IN IF c # Outside
       THEN /\ store' = [store EXCEPT ![c] = task[t].tenant]
            /\ UNCHANGED <<default, beside>>
       ELSE /\ default' = [default EXCEPT ![ProcessOf(t)] = task[t].tenant]
            /\ beside' = [u \in Tasks |->
                    IF u # t /\ Running(u) /\ ProcessOf(u) = ProcessOf(t)
                    THEN beside[u] \cup {task[t].tenant} ELSE beside[u]]
            /\ UNCHANGED store

Reach(t, k) == touched' = [touched EXCEPT ![t] = @ \cup {k}]

Advance(t) == task' = [task EXCEPT ![t].path = Tail(@)]

(***************************************************************************)
(* Beginning of a task                                                     *)
(***************************************************************************)
NewTask(t, kind, k, c) ==
    \E p \in Paths(kind) :
        task[t] = Unused /\ task' = [task EXCEPT ![t] =
            [kind |-> kind, process |-> IF kind \in Sockets THEN "gateway" ELSE "service",
             tenant |-> k, context |-> c, settings |-> NoKey, path |-> p]]

Fewer(kinds) == Cardinality({u \in Tasks : task[u].kind \in kinds}) < MaxAlike

(* A gRPC call runs in a store of its own, which holds the instancekey of *)
(* the request if it carries one; "update" sets none itself.              *)
Serve(t) ==
    /\ Fewer(Calls)
    /\ \E kind \in Calls, k \in Tenants :
        /\ NewTask(t, kind, k, t)
        /\ store' \in {[store EXCEPT ![t] = k], store}
        /\ kind = "update" => store' # store
    /\ UNCHANGED <<levels, default, touched, beside, cached>>

(* Mutant of WorkerFree: a worker that runs jobs side by side. *)
WorkerFreeAlways == TRUE

(* Bull runs one job of the queue at a time in a process, and the model    *)
(* has one process that would run them.                                    *)
WorkerFree == \A u \in Tasks : task[u].kind = "job" => ~Running(u)

TakeJob(t) ==
    /\ WorkerFree
    /\ \E k \in Tenants : NewTask(t, "job", k, Outside)
    /\ UNCHANGED <<levels, default, store, touched, beside, cached>>

SocketEvent(t) ==
    /\ Fewer(Sockets)
    /\ \E kind \in Sockets, k \in Tenants : NewTask(t, kind, k, Outside)
    /\ UNCHANGED <<levels, default, store, touched, beside, cached>>

(***************************************************************************)
(* Operations of a task                                                    *)
(***************************************************************************)
At(t, ops) == Running(t) /\ Head(task[t].path) \in ops

OwnOp(t) ==
    /\ At(t, {"own", "maybe own"})
    /\ SetKey(t)
    /\ Reach(t, task[t].tenant)
    /\ Advance(t)
    /\ UNCHANGED <<levels, cached>>

LeftOp(t) ==
    /\ At(t, {"left", "maybe left"})
    /\ Reach(t, KeyInForce(t))
    /\ Advance(t)
    /\ UNCHANGED <<levels, default, store, beside, cached>>

Skip(t) ==
    /\ At(t, {"maybe own", "maybe left", "maybe setting"})
    /\ Advance(t)
    /\ UNCHANGED <<levels, default, store, touched, beside, cached>>

(* Settings are kept as long as the task still asks them for student level. *)
Needed(t, k) == IF "level" \in Range(task[t].path) THEN k ELSE NoKey

(* getSettingAsync finds the settings of the tenant in Redis ...           *)
CachedSettings(t) ==
    /\ At(t, {"setting", "maybe setting"})
    /\ cached[task[t].tenant] # NoKey
    /\ task' = [task EXCEPT ![t].settings = Needed(t, cached[task[t].tenant]), ![t].path = Tail(@)]
    /\ UNCHANGED <<levels, default, store, touched, beside, cached>>

(* ... or Redis has none or fails, and it reads the database.              *)
ReadSettings(t) ==
    /\ At(t, {"setting", "maybe setting"})
    /\ Reach(t, KeyInForce(t))
    /\ task' = [task EXCEPT ![t].settings = KeyInForce(t),
                            ![t].path = <<"store setting">> \o Tail(@)]
    /\ UNCHANGED <<levels, default, store, beside, cached>>

(* setex under the key of the tenant; an error is ignored. (Where nothing  *)
(* was cached that is as if the copy is never found again.)                *)
StoreSettings(t) ==
    /\ At(t, {"store setting"})
    /\ \/ cached' = [cached EXCEPT ![task[t].tenant] = task[t].settings]
       \/ cached[task[t].tenant] # NoKey /\ UNCHANGED cached
    /\ task' = [task EXCEPT ![t].settings = Needed(t, @), ![t].path = Tail(@)]
    /\ UNCHANGED <<levels, default, store, touched, beside>>

(* Mutant of StartsLevel: updateUserLevel runs for every tenant. *)
StartsLevelAlways(t) == TRUE

StartsLevel(t) == task[t].settings \in levels

(* updateUserLevel is not awaited: it goes on as a task u of its own, in   *)
(* the context of t, and starts its first operation at once.               *)
StartLevel(t, u) ==
    /\ At(t, {"level"})
    /\ StartsLevel(t)
    /\ task[u] = Unused
    /\ \E p \in Paths("level") :
        task' = [task EXCEPT ![t].path = Tail(@), ![t].settings = NoKey,
            ![u] = [kind |-> "level", process |-> task[t].process, tenant |-> task[t].tenant,
                    context |-> task[t].context, settings |-> NoKey, path |-> p]]
    /\ SetKey(t)
    /\ Reach(u, task[t].tenant)
    /\ UNCHANGED <<levels, cached>>

NoLevel(t) ==
    /\ At(t, {"level"})
    /\ ~StartsLevel(t)
    /\ task' = [task EXCEPT ![t].path = Tail(@), ![t].settings = NoKey]
    /\ UNCHANGED <<levels, default, store, touched, beside, cached>>

(* An operation of a job fails (after it set its key), and the job stores  *)
(* the error with the key that is there. Any other task that fails stops,  *)
(* as each may before any step; the process survives (process-guard.ts).   *)
JobFails(t) ==
    /\ task[t].kind = "job" /\ Len(task[t].path) > 1
    /\ IF At(t, {"own", "maybe own"}) THEN SetKey(t) ELSE UNCHANGED <<default, store, beside>>
    /\ task' = [task EXCEPT ![t].path = <<"left">>, ![t].settings = NoKey]
    /\ UNCHANGED <<levels, touched, cached>>

TaskStep(t) ==
    \/ OwnOp(t) \/ LeftOp(t) \/ Skip(t)
    \/ CachedSettings(t) \/ ReadSettings(t) \/ StoreSettings(t)
    \/ \E u \in Tasks : StartLevel(t, u)
    \/ NoLevel(t) \/ JobFails(t)

TenantNext == \E t \in Tasks : Serve(t) \/ TakeJob(t) \/ SocketEvent(t) \/ TaskStep(t)

TenantSpec == TenantInit /\ [][TenantNext]_tenantVars

(***************************************************************************)
(* Properties                                                              *)
(***************************************************************************)
TenantType ==
    /\ levels \subseteq Tenants
    /\ default \in [Processes -> Keys]
    /\ store \in [Tasks -> Tenants \cup {NoKey}]
    /\ \A t \in Tasks :
        /\ task[t].kind \in Kinds \cup {"unused"} /\ task[t].process \in Processes
        /\ task[t].tenant \in Tenants \cup {NoKey}
        /\ task[t].context \in Tasks \cup {Outside}
        /\ task[t].settings \in Keys \cup {NoKey}
    /\ touched \in [Tasks -> SUBSET Keys]
    /\ beside \in [Tasks -> SUBSET Tenants]
    /\ cached \in [Tenants -> Keys \cup {NoKey}]

(* A gRPC call, and the level update it leaves running, reaches only the   *)
(* database of its own tenant, whatever other calls, the worker and their  *)
(* continuations do to the static key meanwhile (README 95-97,             *)
(* tenant-context.spec.ts).                                                *)
CallsKeepTheirTenant ==
    \A t \in Tasks : task[t].context # Outside => touched[t] \subseteq {task[t].tenant}

(* A worker job or socket handler reaches another database only if a task  *)
(* of that tenant set the static key of the process while it ran, and only *)
(* such a handler leaves another tenant's settings in Redis under the key  *)
(* of its own: no leftover of finished work and no gRPC call ever          *)
(* redirects it.                                                           *)
CopyOf(k, T) == cached[k] \in {k, NoKey} \/ \E t \in T : cached[k] \in beside[t]

OfTenant(k) == {t \in Tasks : task[t].tenant = k /\ task[t].context = Outside}

StraysOnlyToInterleaved ==
    /\ \A t \in Tasks : touched[t] \subseteq {task[t].tenant} \cup beside[t]
    /\ \A k \in Tenants : CopyOf(k, OfTenant(k))

(* As long as no tenant has student level switched on, no call or job of a *)
(* service strays: the un-awaited updateUserLevel is the only thing that   *)
(* lets jobs of two tenants overlap. The settings of another tenant that   *)
(* they may then still find in Redis were left there by a socket handler   *)
(* of the gateway that another one overtook.                               *)
QuietWorkersKeepTenants ==
    levels = {} =>
        /\ \A t \in Tasks : ProcessOf(t) = "service" => touched[t] \subseteq {task[t].tenant}
        /\ \A k \in Tenants : CopyOf(k, {t \in OfTenant(k) : ProcessOf(t) = "gateway"})

(***************************************************************************)
(* The inductive invariant behind the first two properties                 *)
(***************************************************************************)
Operations == {"own", "left", "setting", "level", "maybe own", "maybe left", "maybe setting",
               "store setting"}

TaskRecords == [kind : Kinds \cup {"unused"}, process : Processes, tenant : Tenants \cup {NoKey},
                context : Tasks \cup {Outside}, settings : Keys \cup {NoKey}, path : Seq(Operations)]

(* A task with work to do has a tenant. The context of a task is that of a *)
(* gRPC call of its tenant, and a store with a key belongs to such a call. *)
ContextInv ==
    \A t \in Tasks :
        /\ Running(t) => task[t].tenant \in Tenants
        /\ task[t].kind = "unused" => ~Running(t) /\ touched[t] = {} /\ task[t].context = Outside
        /\ task[t].kind \in Sockets \cup {"job"} => task[t].context = Outside
        /\ task[t].context # Outside =>
            /\ task[task[t].context].context = task[t].context
            /\ task[task[t].context].tenant = task[t].tenant
        /\ store[t] # NoKey => task[t].context = t

(* A task that is not about to set its key finds its own in the store of   *)
(* its call; without a call, the default is its own or was set while it    *)
(* ran.                                                                    *)
KeyInv ==
    \A t \in Tasks : Running(t) /\ Head(task[t].path) # "own" =>
        IF task[t].context # Outside THEN store[task[t].context] = task[t].tenant
        ELSE default[ProcessOf(t)] \in {task[t].tenant} \cup beside[t]

(* Settings that a task is about to cache were read with a key that was in *)
(* force for it, and are cached before its next operation.                 *)
Plain == Operations \ {"store setting"}

ReadFor(t) == {task[t].tenant} \cup (IF task[t].context = Outside THEN beside[t] ELSE {})

CopyInv ==
    \A t \in Tasks : Running(t) =>
        /\ Tail(task[t].path) \in Seq(Plain)
        /\ Head(task[t].path) = "store setting" => task[t].settings \in ReadFor(t)

TenantInv ==
    /\ TenantType
    /\ task \in [Tasks -> TaskRecords]
    /\ ContextInv
    /\ KeyInv
    /\ CopyInv
    /\ CallsKeepTheirTenant
    /\ StraysOnlyToInterleaved

=============================================================================
