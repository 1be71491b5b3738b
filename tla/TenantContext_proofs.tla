------------------------ MODULE TenantContext_proofs ------------------------
(***************************************************************************)
(* Proofs about TenantContext, for any number of tenants and of calls,     *)
(* jobs and socket handlers, interleaved at every await.                   *)
(***************************************************************************)
EXTENDS TenantContext, SequenceTheorems, TLAPS

LEMMA KeysApart == /\ NoKey \notin Tenants /\ NoKey # StartKey /\ Outside \notin Tasks
BY KeysAssumption

LEMMA Prefixed ==
  ASSUME NEW S, NEW a \in S, NEW s \in Seq(S)
  PROVE  /\ <<a>> \o s \in Seq(S) /\ <<a>> \o s # <<>>
         /\ Head(<<a>> \o s) = a
OBVIOUS

(* What is left of a path.                                                 *)
LEMMA PlainSequences ==
  ASSUME NEW p \in Seq(Plain)
  PROVE  /\ p \in Seq(Operations)
         /\ p # <<>> => Head(p) # "store setting" /\ Tail(p) \in Seq(Plain)
<1>1. Plain \subseteq Operations /\ "store setting" \notin Plain
  BY DEF Plain
<1> HIDE DEF Plain
<1>2. p \in Seq(Operations)
  BY <1>1, SeqMonotonic
<1>3. p # <<>> => Head(p) \in Plain /\ Tail(p) \in Seq(Plain)
  BY HeadTailProperties
<1> QED BY <1>1, <1>2, <1>3

(* Settings that are read are stored before what the task does next.       *)
LEMMA Prepended ==
  ASSUME NEW s \in Seq(Plain), NEW a \in Operations
  PROVE  /\ <<a>> \o s \in Seq(Operations) /\ <<a>> \o s # <<>>
         /\ Head(<<a>> \o s) = a /\ Tail(<<a>> \o s) = s
<1>1. s \in Seq(Operations)
  BY PlainSequences
<1>2. PICK p \in Seq(Operations) : p = <<a>> \o s /\ p # <<>> /\ Head(p) = a
  BY <1>1, Prefixed
<1>3. Len(p) = Len(s) + 1 /\ p[1] = a /\ \A i \in 1..Len(s) : p[i + 1] = s[i]
  BY <1>1, <1>2
<1>4. Tail(p) \in Seq(Operations) /\ Len(Tail(p)) = Len(s) /\ \A i \in 1..Len(s) : Tail(p)[i] = s[i]
  BY <1>1, <1>2, <1>3
<1>5. Tail(p) = s
  BY <1>1, <1>4, SeqEqual
<1> QED BY <1>1, <1>2, <1>3, <1>5

(* Tasks begin with a sequence of operations, of which none stores what    *)
(* was read before; what runs outside a call as well as finish sets its    *)
(* key with the first of them.                                             *)
LEMMA PathsAreSequences ==
  ASSUME NEW kind \in Kinds, NEW p \in Paths(kind)
  PROVE  /\ p \in Seq(Plain) /\ p \in Seq(Operations) /\ p # <<>>
         /\ Tail(p) \in Seq(Plain) /\ Head(p) # "store setting"
         /\ kind \in {"finish", "job"} \cup Sockets => Head(p) = "own"
<1> DEFINE Good(s) == s \in Seq(Plain) /\ s # <<>>
           Own(s) == Good(s) /\ Head(s) = "own"
<1>1. Own(GradingPath)
  BY DEF GradingPath, Plain, Operations
<1>2. Repeat \in Seq(Plain)
  BY DEF Repeat, Plain, Operations
<1>3. Own(DisconnectPath)
  BY <1>2, Prefixed DEF DisconnectPath, Plain, Operations
<1>4. ASSUME NEW s \in Seq(Plain), NEW r \in Seq(Plain), Own(s)
      PROVE  Own(s \o r)
  BY <1>4
<1>5. Own(RoomPath)
  <2>1. <<"maybe left">> \in Seq(Plain)
    BY DEF Plain, Operations
  <2> HIDE DEF Own
  <2> QED BY <1>3, <1>4, <2>1 DEF RoomPath, DisconnectPath, Own
<1>6. <<"own">> \o Repeat \in Seq(Plain)
  BY <1>2, Prefixed DEF Plain, Operations
<1>7. Own(InvitePath)
  BY <1>4, <1>5, <1>6, ConcatAssociative DEF InvitePath
<1>8. Own(MessagePath)
  <2>1. /\ <<"own", "maybe left">> \in Seq(Plain)
        /\ Head(<<"own", "maybe left">>) = "own"
        /\ <<"own">> \in Seq(Plain) /\ <<"setting">> \in Seq(Plain)
    BY DEF Plain, Operations
  <2>2. Own(<<"own", "maybe left">> \o RoomPath)
    BY <1>4, <1>5, <2>1
  <2>3. Own(<<"own", "maybe left">> \o RoomPath \o <<"own">>)
    BY <1>4, <2>1, <2>2
  <2>4. Own(<<"own", "maybe left">> \o RoomPath \o <<"own">> \o Repeat)
    BY <1>2, <1>4, <2>3
  <2>5. Own(<<"own", "maybe left">> \o RoomPath \o <<"own">> \o Repeat \o <<"setting">>)
    BY <1>4, <2>1, <2>4
  <2> QED BY <2>5 DEF MessagePath
<1>9. Own(JobPath)
  <2>1. "own" \in Plain /\ <<"left">> \in Seq(Plain)
    BY DEF Plain, Operations
  <2>2. Own(<<"own">> \o GradingPath)
    BY <1>1, <2>1, Prefixed
  <2> QED BY <1>4, <2>1, <2>2 DEF JobPath
<1>10. Good(Tail(LevelPath)) /\ Good(UpdatePath)
  BY DEF LevelPath, UpdatePath, Plain, Operations
<1>11. Own(<<"own">>) /\ Own(<<"own", "left">>)
  BY DEF Plain, Operations
<1>12. Good(p) /\ (kind \in {"finish", "job"} \cup Sockets => Head(p) = "own")
  BY <1>1, <1>3, <1>7, <1>8, <1>9, <1>10, <1>11 DEF Paths, Kinds, Calls, Sockets
<1> QED BY <1>12, PlainSequences

(* A service that has done nothing yet has no key, no context and no work  *)
(* under way.                                                              *)
THEOREM InitTenantInv == TenantInit => TenantInv
<1> SUFFICES ASSUME TenantInit PROVE TenantInv
  OBVIOUS
<1>1. Unused \in TaskRecords /\ \A t \in Tasks : task[t] = Unused /\ ~Running(t)
  BY DEF TenantInit, TaskRecords, Unused, Processes, Keys, Operations, Running
<1>2. TenantType /\ task \in [Tasks -> TaskRecords]
  BY <1>1 DEF TenantInit, TenantType, TaskRecords, Unused, Keys, Processes
<1>3. ContextInv
  BY <1>1, KeysApart DEF TenantInit, ContextInv, Unused, Sockets
<1>4. KeyInv /\ CopyInv
  BY <1>1 DEF KeyInv, CopyInv
<1>5. CallsKeepTheirTenant /\ StraysOnlyToInterleaved
  BY DEF TenantInit, CallsKeepTheirTenant, StraysOnlyToInterleaved, CopyOf
<1> QED BY <1>2, <1>3, <1>4, <1>5 DEF TenantInv

LEMMA ProcessesOf == TenantInv => \A t \in Tasks : ProcessOf(t) \in Processes
BY DEF TenantInv, TaskRecords, ProcessOf

(* A copy in Redis keeps its cause: tasks keep their tenants, and what was *)
(* set beside them stays on record.                                        *)
LEMMA CopiesKeepCause ==
  ASSUME NEW k \in Tenants, cached'[k] = cached[k], CopyOf(k, OfTenant(k)),
         \A u \in Tasks : /\ beside[u] \subseteq beside'[u]
                          /\ task[u].tenant = k => /\ task'[u].tenant = k
                                                   /\ task'[u].context = task[u].context
  PROVE  CopyOf(k, OfTenant(k))'
BY DEF CopyOf, OfTenant

(* The key in force is a key; for a task that has set its key it is its    *)
(* own, or without a call one that was set beside it.                      *)
LEMMA KeyFound ==
  ASSUME TenantInv, NEW t \in Tasks, Running(t)
  PROVE  /\ KeyInForce(t) \in Keys
         /\ Head(task[t].path) # "own" =>
              IF task[t].context # Outside THEN KeyInForce(t) = task[t].tenant
              ELSE KeyInForce(t) \in {task[t].tenant} \cup beside[t]
<1>1. task[t] \in TaskRecords /\ task[t].tenant \in Tenants
  BY DEF TenantInv, ContextInv
<1>2. task[t].context \in Tasks \cup {Outside}
  BY <1>1 DEF TaskRecords
<1>3. CASE task[t].context = Outside
  BY <1>1, <1>3, ProcessesOf DEF KeyInForce, TenantInv, TenantType, KeyInv
<1>4. CASE task[t].context # Outside
  <2>1. store[task[t].context] \in Tenants \cup {NoKey} /\ default[ProcessOf(t)] \in Keys
    BY <1>2, <1>4, ProcessesOf DEF TenantInv, TenantType
  <2>2. Head(task[t].path) # "own" => store[task[t].context] = task[t].tenant
    BY <1>4 DEF TenantInv, KeyInv
  <2> QED BY <1>1, <1>4, <2>1, <2>2, KeysApart DEF KeyInForce, Keys
<1> QED BY <1>3, <1>4

(* A task begins.                                                          *)
LEMMA NewTaskKeepsInv ==
  ASSUME TenantInv, NEW t \in Tasks, NEW kind \in Kinds \ {"level"}, NEW k \in Tenants,
         NEW c \in {t, Outside}, NewTask(t, kind, k, c), kind \in Calls <=> c = t,
         UNCHANGED <<levels, default, touched, beside, cached>>,
         store' = store \/ (c = t /\ store' = [store EXCEPT ![t] = k]),
         kind = "update" => store' # store
  PROVE  TenantInv'
<1>1. PICK p \in Paths(kind) : task[t] = Unused /\ task' = [task EXCEPT ![t] =
            [kind |-> kind, process |-> IF kind \in Sockets THEN "gateway" ELSE "service",
             tenant |-> k, context |-> c, settings |-> NoKey, path |-> p]]
  BY DEF NewTask
<1>2. /\ p \in Seq(Operations) /\ p # <<>>
      /\ Tail(p) \in Seq(Plain) /\ Head(p) # "store setting"
      /\ kind # "update" => Head(p) = "own"
  BY PathsAreSequences DEF Kinds, Calls
<1>3. /\ task \in [Tasks -> TaskRecords] /\ store \in [Tasks -> Tenants \cup {NoKey}]
      /\ touched[t] = {} /\ store[t] = NoKey
  BY <1>1, KeysApart DEF TenantInv, TenantType, ContextInv, Unused
<1>4. task' \in [Tasks -> TaskRecords]
  <2>1. [kind |-> kind, process |-> IF kind \in Sockets THEN "gateway" ELSE "service",
             tenant |-> k, context |-> c, settings |-> NoKey, path |-> p] \in TaskRecords
    BY <1>2 DEF TaskRecords, Processes
  <2> QED BY <1>1, <1>3, <2>1
<1>5. TenantType'
  <2>1. store' \in [Tasks -> Tenants \cup {NoKey}]
    BY <1>3
  <2> QED BY <1>4, <2>1 DEF TenantInv, TenantType, TaskRecords
<1>6. /\ task'[t].tenant = k /\ task'[t].context = c /\ task'[t].kind = kind /\ task'[t].path = p
      /\ \A u \in Tasks : u # t => task'[u] = task[u] /\ store'[u] = store[u]
      /\ store'[t] # NoKey => c = t
      /\ kind = "update" => store'[t] = k
  BY <1>1, <1>3
<1>7. \A u \in Tasks : task[u].context # t
  BY <1>1, KeysApart DEF TenantInv, ContextInv, Unused
<1>8. ContextInv'
  <2>1. ASSUME NEW u \in Tasks, u # t
        PROVE  /\ task'[u] = task[u] /\ store'[u] = store[u] /\ touched' = touched
               /\ task[u].context # Outside =>
                    task[u].context \in Tasks /\ task'[task[u].context] = task[task[u].context]
    BY <1>3, <1>6, <1>7, <2>1 DEF TaskRecords
  <2>2. ASSUME NEW u \in Tasks, u # t
        PROVE  ContextInv!(u)'
    BY <2>1, <2>2 DEF TenantInv, ContextInv, Running
  <2>3. ContextInv!(t)'
    BY <1>3, <1>6, KeysApart DEF Running, Kinds, Calls, Sockets
  <2> QED BY <2>2, <2>3 DEF ContextInv
<1>9. KeyInv'
  <2>1. ASSUME NEW u \in Tasks, u # t, Running(u)', Head(task'[u].path) # "own"
        PROVE  IF task'[u].context # Outside THEN store'[task'[u].context] = task'[u].tenant
               ELSE default'[ProcessOf(u)'] \in {task'[u].tenant} \cup beside'[u]
    <3>1. task'[u] = task[u] /\ Running(u) /\ ProcessOf(u)' = ProcessOf(u)
      BY <1>6, <2>1 DEF Running, ProcessOf
    <3>2. task[u].context # Outside => task[u].context \in Tasks /\ task[u].context # t
      BY <1>3, <1>7 DEF TaskRecords
    <3> QED BY <1>6, <2>1, <3>1, <3>2 DEF TenantInv, KeyInv
  <2>2. Head(p) # "own" => kind = "update"
    BY <1>2
  <2>3. ASSUME Head(task'[t].path) # "own"
        PROVE  task'[t].context = t /\ t # Outside /\ store'[t] = task'[t].tenant
    BY <1>6, <2>2, <2>3, KeysApart DEF Calls
  <2> QED BY <2>1, <2>3 DEF KeyInv
<1>10. CallsKeepTheirTenant'
  BY <1>3, <1>6 DEF TenantInv, CallsKeepTheirTenant
<1>11. StraysOnlyToInterleaved'
  <2>1. \A u \in Tasks : touched'[u] \subseteq {task'[u].tenant} \cup beside'[u]
    BY <1>3, <1>6 DEF TenantInv, StraysOnlyToInterleaved
  <2>2. ASSUME NEW m \in Tenants
        PROVE  CopyOf(m, OfTenant(m))'
    <3>1. \A u \in Tasks : task[u].tenant = m => u # t
      BY <1>1, KeysApart DEF Unused
    <3> QED BY <1>6, <3>1, CopiesKeepCause DEF TenantInv, StraysOnlyToInterleaved
  <2> QED BY <2>1, <2>2 DEF StraysOnlyToInterleaved
<1>12. CopyInv'
  <2>1. ASSUME NEW u \in Tasks, u # t, Running(u)'
        PROVE  /\ Tail(task'[u].path) \in Seq(Plain)
               /\ Head(task'[u].path) = "store setting" => task'[u].settings \in ReadFor(u)'
    BY <1>6, <2>1 DEF TenantInv, CopyInv, Running, ReadFor
  <2> QED BY <1>2, <1>6, <2>1 DEF CopyInv
<1> QED BY <1>4, <1>5, <1>8, <1>9, <1>10, <1>11, <1>12 DEF TenantInv

(* What setting the key does to the keys that are there.                   *)
LEMMA KeySet ==
  ASSUME TenantInv, NEW t \in Tasks, Running(t), SetKey(t)
  PROVE  /\ default' \in [Processes -> Keys]
         /\ store' \in [Tasks -> Tenants \cup {NoKey}]
         /\ beside' \in [Tasks -> SUBSET Tenants]
         /\ \A u \in Tasks : store'[u] # store[u] =>
              u = task[t].context /\ store'[u] = task[t].tenant
         /\ \A u \in Tasks : beside[u] \subseteq beside'[u]
         /\ \A p \in Processes : default'[p] # default[p] => task[t].context = Outside /\ p = ProcessOf(t)
         /\ IF task[t].context # Outside THEN store'[task[t].context] = task[t].tenant
            ELSE /\ default'[ProcessOf(t)] = task[t].tenant
                 /\ \A u \in Tasks \ {t} :
                      Running(u) /\ ProcessOf(u) = ProcessOf(t) => task[t].tenant \in beside'[u]
<1>1. /\ task[t] \in TaskRecords /\ task[t].tenant \in Tenants
      /\ store \in [Tasks -> Tenants \cup {NoKey}]
      /\ beside \in [Tasks -> SUBSET Tenants]
      /\ default \in [Processes -> Keys] /\ ProcessOf(t) \in Processes
  BY ProcessesOf DEF TenantInv, ContextInv, TenantType
<1>2. task[t].context \in Tasks \cup {Outside}
  BY <1>1 DEF TaskRecords
<1>3. CASE task[t].context # Outside
  <2>1. store' = [store EXCEPT ![task[t].context] = task[t].tenant] /\ UNCHANGED <<default, beside>>
    BY <1>3 DEF SetKey
  <2> QED BY <1>1, <1>2, <1>3, <2>1
<1>4. CASE task[t].context = Outside
  <2>1. /\ default' = [default EXCEPT ![ProcessOf(t)] = task[t].tenant] /\ store' = store
        /\ beside' = [u \in Tasks |->
              IF u # t /\ Running(u) /\ ProcessOf(u) = ProcessOf(t)
              THEN beside[u] \cup {task[t].tenant} ELSE beside[u]]
    BY <1>4 DEF SetKey
  <2> QED BY <1>1, <1>4, <2>1 DEF Keys
<1> QED BY <1>3, <1>4

(* Changing the settings or the path of a task changes nothing else of it. *)
LEMMA Changed ==
  ASSUME NEW r \in TaskRecords, NEW s \in Keys \cup {NoKey}, NEW p \in Seq(Operations)
  PROVE  /\ [r EXCEPT !.path = p] \in TaskRecords
         /\ [r EXCEPT !.settings = s, !.path = p] \in TaskRecords
         /\ [r EXCEPT !.path = p, !.settings = s] \in TaskRecords
<1>1. [r EXCEPT !.path = p] \in TaskRecords
  BY DEF TaskRecords
<1>2. [r EXCEPT !.settings = s, !.path = p] \in TaskRecords
  BY DEF TaskRecords
<1>3. [r EXCEPT !.path = p, !.settings = s] \in TaskRecords
  BY DEF TaskRecords
<1> QED BY <1>1, <1>2, <1>3

Proceeds(t) ==
    /\ task' \in [Tasks -> TaskRecords]
    /\ \A u \in Tasks \ {t} : task'[u] = task[u]
    /\ task'[t].kind = task[t].kind /\ task'[t].process = task[t].process
    /\ task'[t].tenant = task[t].tenant /\ task'[t].context = task[t].context

LEMMA ChangeProceeds ==
  ASSUME task \in [Tasks -> TaskRecords], NEW t \in Tasks,
         NEW s \in Keys \cup {NoKey}, NEW p \in Seq(Operations),
         \/ task' = [task EXCEPT ![t].path = p]
         \/ task' = [task EXCEPT ![t].settings = s, ![t].path = p]
         \/ task' = [task EXCEPT ![t].path = p, ![t].settings = s]
  PROVE  Proceeds(t)
<1>1. CASE task' = [task EXCEPT ![t].path = p]
  <2>1. [task[t] EXCEPT !.path = p] \in TaskRecords
    BY Changed
  <2>2. \A u \in Tasks \ {t} : task'[u] = task[u]
    BY <1>1
  <2>3. task' \in [Tasks -> TaskRecords]
    BY <1>1, <2>1
  <2>4. /\ task'[t].kind = task[t].kind /\ task'[t].process = task[t].process
        /\ task'[t].tenant = task[t].tenant /\ task'[t].context = task[t].context
    BY <1>1 DEF TaskRecords
  <2> QED BY <2>2, <2>3, <2>4 DEF Proceeds
<1>2. CASE task' = [task EXCEPT ![t].settings = s, ![t].path = p]
  <2>1. [task[t] EXCEPT !.settings = s, !.path = p] \in TaskRecords
    BY Changed
  <2>2. \A u \in Tasks \ {t} : task'[u] = task[u]
    BY <1>2
  <2>3. task' \in [Tasks -> TaskRecords]
    BY <1>2, <2>1
  <2>4. /\ task'[t].kind = task[t].kind /\ task'[t].process = task[t].process
        /\ task'[t].tenant = task[t].tenant /\ task'[t].context = task[t].context
    BY <1>2 DEF TaskRecords
  <2> QED BY <2>2, <2>3, <2>4 DEF Proceeds
<1>3. CASE task' = [task EXCEPT ![t].path = p, ![t].settings = s]
  <2>1. [task[t] EXCEPT !.path = p, !.settings = s] \in TaskRecords
    BY Changed
  <2>2. \A u \in Tasks \ {t} : task'[u] = task[u]
    BY <1>3
  <2>3. task' \in [Tasks -> TaskRecords]
    BY <1>3, <2>1
  <2>4. /\ task'[t].kind = task[t].kind /\ task'[t].process = task[t].process
        /\ task'[t].tenant = task[t].tenant /\ task'[t].context = task[t].context
    BY <1>3 DEF TaskRecords
  <2> QED BY <2>2, <2>3, <2>4 DEF Proceeds
<1> QED BY <1>1, <1>2, <1>3

(* A task runs one of its operations: it sets its key, or it is past its   *)
(* first operation, and it reaches its own database or that of the key in  *)
(* force.                                                                  *)
LEMMA OpKeepsInv ==
  ASSUME TenantInv, NEW t \in Tasks, Running(t),
         Proceeds(t),
         SetKey(t) \/ (UNCHANGED <<default, store, beside>> /\ Head(task[t].path) # "own"),
         touched' = touched \/ (\E k : Reach(t, k) /\
             (k = task[t].tenant \/ (k = KeyInForce(t) /\ Head(task[t].path) # "own"))),
         UNCHANGED levels,
         cached' = cached \/ (\E k \in ReadFor(t) \cap Keys : cached' = [cached EXCEPT ![task[t].tenant] = k]),
         Running(t)' => /\ Tail(task'[t].path) \in Seq(Plain)
                        /\ Head(task'[t].path) = "store setting" =>
                             task'[t].settings \in ReadFor(t) /\ UNCHANGED beside
  PROVE  TenantInv'
<1>1. /\ task \in [Tasks -> TaskRecords] /\ task[t].tenant \in Tenants
      /\ store \in [Tasks -> Tenants \cup {NoKey}]
      /\ beside \in [Tasks -> SUBSET Tenants]
      /\ touched \in [Tasks -> SUBSET Keys]
      /\ default \in [Processes -> Keys] /\ cached \in [Tenants -> Keys \cup {NoKey}]
      /\ KeyInForce(t) \in Keys
  BY KeyFound DEF TenantInv, ContextInv, TenantType
<1>2. /\ task' \in [Tasks -> TaskRecords]
      /\ \A u \in Tasks : /\ u # t => task'[u] = task[u]
                          /\ task'[u].tenant = task[u].tenant /\ task'[u].context = task[u].context
                          /\ task'[u].kind = task[u].kind
                          /\ task[u].context \in Tasks \cup {Outside}
                          /\ ProcessOf(u)' = ProcessOf(u) /\ ProcessOf(u) \in Processes
  BY <1>1, ProcessesOf DEF TaskRecords, Proceeds, ProcessOf
<1>3. /\ default' \in [Processes -> Keys] /\ store' \in [Tasks -> Tenants \cup {NoKey}]
      /\ beside' \in [Tasks -> SUBSET Tenants]
      /\ \A u \in Tasks : store'[u] # store[u] =>
            u = task[t].context /\ store'[u] = task[t].tenant
      /\ \A u \in Tasks : beside[u] \subseteq beside'[u]
      /\ \A p \in Processes : default'[p] # default[p] => task[t].context = Outside /\ p = ProcessOf(t)
  <2>1. CASE SetKey(t)
    BY <2>1, KeySet
  <2>2. CASE UNCHANGED <<default, store, beside>>
    BY <1>1, <2>2
  <2> QED BY <2>1, <2>2
<1>4. TenantType'
  <2>1. touched' \in [Tasks -> SUBSET Keys]
    <3>1. ASSUME NEW k, Reach(t, k), k \in {task[t].tenant, KeyInForce(t)}
          PROVE  touched' \in [Tasks -> SUBSET Keys]
      <4>1. k \in Keys
        BY <1>1, <3>1 DEF Keys
      <4>2. touched' = [touched EXCEPT ![t] = touched[t] \cup {k}]
        BY <3>1 DEF Reach
      <4> QED BY <1>1, <4>1, <4>2
    <3> QED BY <1>1, <3>1
  <2>2. cached' \in [Tenants -> Keys \cup {NoKey}]
    BY <1>1
  <2> QED BY <1>2, <1>3, <2>1, <2>2 DEF TenantInv, TenantType, TaskRecords
<1>5. ContextInv'
  <2>1. ASSUME NEW u \in Tasks
        PROVE  ContextInv!(u)'
    <3>1. Running(u)' => task'[u].tenant \in Tenants
      BY <1>1, <1>2 DEF Running, TenantInv, ContextInv
    <3>2. task'[u].kind = "unused" =>
            ~Running(u)' /\ touched'[u] = {} /\ task'[u].context = Outside
      <4>1. task[t].kind # "unused"
        BY DEF TenantInv, ContextInv
      <4>2. u # t => touched'[u] = touched[u]
        BY <1>1 DEF Reach
      <4> QED BY <1>2, <4>1, <4>2 DEF TenantInv, ContextInv, Running
    <3>0. ContextInv!(u) /\ ContextInv!(t)
      BY DEF TenantInv, ContextInv
    <3>3. task'[u].context # Outside =>
            /\ task'[task'[u].context].context = task'[u].context
            /\ task'[task'[u].context].tenant = task'[u].tenant
      <4>1. PICK w : w = task[u].context /\ w \in Tasks \cup {Outside}
        BY <1>2
      <4>2. w # Outside => task[w].context = w /\ task[w].tenant = task[u].tenant
        BY <3>0, <4>1
      <4> QED BY <1>2, <4>1, <4>2
    <3>4. store'[u] # NoKey => task'[u].context = u
      <4>1. store[u] # NoKey => task[u].context = u
        BY <3>0
      <4>2. u = task[t].context => task[u].context = u
        BY <3>0, KeysApart
      <4> QED BY <1>2, <1>3, <4>1, <4>2
    <3>5. task'[u].kind \in Sockets \cup {"job"} => task'[u].context = Outside
      BY <1>2, <3>0
    <3> QED BY <3>1, <3>2, <3>3, <3>4, <3>5
  <2> QED BY <2>1 DEF ContextInv
<1>6. KeyInv'
  <2>1. ASSUME NEW u \in Tasks, Running(u)', Head(task'[u].path) # "own"
        PROVE  IF task'[u].context # Outside THEN store'[task'[u].context] = task'[u].tenant
               ELSE default'[ProcessOf(u)'] \in {task'[u].tenant} \cup beside'[u]
    <3>1. CASE SetKey(t)
      <4>1. task[u].context # Outside => store'[task[u].context] = task[u].tenant
        <5>1. CASE u = t
          BY <3>1, <5>1, KeySet
        <5>2. CASE u # t
          <6>1. task[u].context # Outside => store[task[u].context] = task[u].tenant
            BY <1>2, <2>1, <5>2 DEF TenantInv, KeyInv, Running
          <6>2. task[u].context # Outside /\ task[u].context = task[t].context =>
                  task[u].tenant = task[t].tenant
            BY DEF TenantInv, ContextInv
          <6> QED BY <1>2, <1>3, <6>1, <6>2
        <5> QED BY <5>1, <5>2
      <4>2. task[u].context = Outside => default'[ProcessOf(u)] \in {task[u].tenant} \cup beside'[u]
        <5>1. CASE u = t
          BY <3>1, <5>1, KeySet
        <5>2. CASE u # t
          <6>1. task[u].context = Outside => default[ProcessOf(u)] \in {task[u].tenant} \cup beside[u]
            BY <1>2, <2>1, <5>2 DEF TenantInv, KeyInv, Running
          <6>2. ASSUME default'[ProcessOf(u)] # default[ProcessOf(u)]
                PROVE  default'[ProcessOf(u)] \in beside'[u]
            <7>1. task[t].context = Outside /\ ProcessOf(u) = ProcessOf(t) /\ Running(u)
              BY <1>2, <1>3, <2>1, <5>2, <6>2 DEF Running
            <7>2. default'[ProcessOf(t)] = task[t].tenant /\ task[t].tenant \in beside'[u]
              BY <3>1, <5>2, <7>1, KeySet
            <7> QED BY <7>1, <7>2
          <6> QED BY <1>2, <1>3, <6>1, <6>2
        <5> QED BY <5>1, <5>2
      <4> QED BY <1>2, <4>1, <4>2
    <3>2. CASE UNCHANGED <<default, store, beside>> /\ Head(task[t].path) # "own"
      <4>1. Running(u) /\ Head(task[u].path) # "own"
        BY <1>2, <2>1, <3>2 DEF Running
      <4> QED BY <1>2, <3>2, <4>1 DEF TenantInv, KeyInv
    <3> QED BY <3>1, <3>2
  <2> QED BY <2>1 DEF KeyInv
<1>7. touched' # touched => \E k : /\ touched' = [touched EXCEPT ![t] = @ \cup {k}]
                                   /\ task[t].context # Outside => k = task[t].tenant
                                   /\ k \in {task[t].tenant} \cup beside[t]
  BY KeyFound DEF Reach
<1>8. CallsKeepTheirTenant' /\ \A u \in Tasks : touched'[u] \subseteq {task'[u].tenant} \cup beside'[u]
  <2>1. CASE touched' = touched
    BY <1>2, <1>3, <2>1 DEF TenantInv, CallsKeepTheirTenant, StraysOnlyToInterleaved
  <2>2. CASE touched' # touched
    <3>1. PICK k : /\ touched' = [touched EXCEPT ![t] = touched[t] \cup {k}]
                   /\ task[t].context # Outside => k = task[t].tenant
                   /\ k \in {task[t].tenant} \cup beside[t]
      BY <1>7, <2>2
    <3>2. touched'[t] = touched[t] \cup {k} /\ \A u \in Tasks \ {t} : touched'[u] = touched[u]
      BY <1>1, <3>1
    <3>3. ASSUME NEW u \in Tasks
          PROVE  /\ task[u].context # Outside => touched'[u] \subseteq {task[u].tenant}
                 /\ touched'[u] \subseteq {task[u].tenant} \cup beside[u]
      <4>1. /\ task[u].context # Outside => touched[u] \subseteq {task[u].tenant}
            /\ touched[u] \subseteq {task[u].tenant} \cup beside[u]
        BY DEF TenantInv, CallsKeepTheirTenant, StraysOnlyToInterleaved
      <4> QED BY <3>1, <3>2, <4>1
    <3> QED BY <1>2, <1>3, <3>3 DEF CallsKeepTheirTenant
  <2> QED BY <2>1, <2>2
<1>9. ASSUME NEW m \in Tenants
      PROVE  CopyOf(m, OfTenant(m))'
  <2>1. CASE cached'[m] = cached[m]
    BY <1>2, <1>3, <2>1, CopiesKeepCause DEF TenantInv, StraysOnlyToInterleaved
  <2>2. CASE cached'[m] # cached[m]
    <3>1. m = task[t].tenant /\ cached'[m] \in ReadFor(t)
      BY <1>1, <2>2
    <3>2. ReadFor(t) \subseteq ReadFor(t)'
      BY <1>2, <1>3 DEF ReadFor
    <3> QED BY <1>2, <3>1, <3>2 DEF CopyOf, OfTenant, ReadFor
  <2> QED BY <2>1, <2>2
<1>10. CopyInv'
  <2>1. ASSUME NEW u \in Tasks, u # t
        PROVE  ReadFor(u) \subseteq ReadFor(u)' /\ Running(u)' = Running(u) /\ task'[u] = task[u]
    BY <1>2, <1>3, <2>1 DEF ReadFor, Running
  <2>2. Running(t)' => /\ Tail(task'[t].path) \in Seq(Plain)
                       /\ Head(task'[t].path) = "store setting" => task'[t].settings \in ReadFor(t)'
    BY <1>2 DEF ReadFor
  <2> QED BY <2>1, <2>2 DEF TenantInv, CopyInv
<1> QED BY <1>2, <1>4, <1>5, <1>6, <1>8, <1>9, <1>10 DEF TenantInv, StraysOnlyToInterleaved

(* A job or call starts its un-awaited level update.                       *)
LEMMA StartLevelKeepsInv ==
  ASSUME TenantInv, NEW t \in Tasks, NEW u \in Tasks, StartLevel(t, u)
  PROVE  TenantInv'
<1>1. PICK p \in Paths("level") :
        task' = [task EXCEPT ![t].path = Tail(@), ![t].settings = NoKey,
            ![u] = [kind |-> "level", process |-> task[t].process, tenant |-> task[t].tenant,
                    context |-> task[t].context, settings |-> NoKey, path |-> p]]
  BY DEF StartLevel
<1>2. /\ Running(t) /\ Head(task[t].path) = "level" /\ SetKey(t)
      /\ task[u] = Unused /\ u # t /\ ~Running(u)
      /\ touched' = [touched EXCEPT ![u] = @ \cup {task[t].tenant}]
      /\ UNCHANGED <<levels, cached>>
  BY DEF StartLevel, At, Running, Unused, Reach
<1>3. p \in Seq(Operations) /\ p # <<>> /\ Tail(p) \in Seq(Plain) /\ Head(p) # "store setting"
  BY PathsAreSequences DEF Kinds
<1>4. /\ task \in [Tasks -> TaskRecords] /\ task[t].tenant \in Tenants
      /\ task[t].context \in Tasks \cup {Outside} /\ task[t].path \in Seq(Operations)
      /\ task[t].kind # "unused" /\ task[t].path # <<>>
      /\ touched \in [Tasks -> SUBSET Keys] /\ touched[u] = {}
      /\ cached \in [Tenants -> Keys \cup {NoKey}]
  BY <1>2 DEF TenantInv, TenantType, ContextInv, TaskRecords, Running, Unused
<1>5. task' \in [Tasks -> TaskRecords]
  <2>1. [kind |-> "level", process |-> task[t].process, tenant |-> task[t].tenant,
                    context |-> task[t].context, settings |-> NoKey, path |-> p] \in TaskRecords
    BY <1>3, <1>4 DEF TaskRecords, Kinds
  <2>2. [task[t] EXCEPT !.path = Tail(task[t].path), !.settings = NoKey] \in TaskRecords
    <3>1. task[t] \in TaskRecords /\ Tail(task[t].path) \in Seq(Operations) /\ NoKey \in Keys \cup {NoKey}
      BY <1>4
    <3> QED BY <3>1, Changed
  <2> QED BY <1>1, <1>2, <1>4, <2>1, <2>2
<1>6. /\ task'[u].kind = "level" /\ task'[u].tenant = task[t].tenant
      /\ task'[u].context = task[t].context
      /\ task'[t].kind = task[t].kind /\ task'[t].tenant = task[t].tenant
      /\ task'[t].context = task[t].context
      /\ task'[u].process = task[t].process /\ task'[t].process = task[t].process
      /\ task'[u].path = p /\ task'[t].path = Tail(task[t].path)
      /\ \A w \in Tasks \ {t, u} : task'[w] = task[w]
  BY <1>1, <1>2, <1>4 DEF TaskRecords
<1>7. /\ \A w \in Tasks : task[w].context \in Tasks \cup {Outside} /\ task[w].context # u
      /\ store[u] = NoKey
  BY <1>2, <1>4, KeysApart DEF TenantInv, ContextInv, Unused, TaskRecords
<1>8. TenantType'
  <2>1. touched' \in [Tasks -> SUBSET Keys]
    BY <1>2, <1>4 DEF Keys
  <2> QED BY <1>2, <1>5, <2>1, KeySet DEF TenantInv, TenantType, TaskRecords
<1>9. \A w \in Tasks : store'[w] # store[w] => w = task[t].context /\ store'[w] = task[t].tenant
  BY <1>2, KeySet
<1>10. ContextInv'
  <2>1. ASSUME NEW w \in Tasks
        PROVE  /\ w # u => /\ task'[w].kind = task[w].kind /\ task'[w].tenant = task[w].tenant
                           /\ task'[w].context = task[w].context
               /\ w # u /\ Running(w)' => Running(w)
               /\ w # u => touched'[w] = touched[w]
    BY <1>2, <1>4, <1>6 DEF Running
  <2>2. ASSUME NEW w \in Tasks, w # u
        PROVE  ContextInv!(w)'
    <3>1. store'[w] # NoKey => task'[w].context = w
      BY <1>9, <2>1, <2>2, KeysApart DEF TenantInv, ContextInv
    <3>2. task'[w].context # Outside =>
            /\ task'[task'[w].context].context = task'[w].context
            /\ task'[task'[w].context].tenant = task'[w].tenant
      BY <1>7, <2>1, <2>2 DEF TenantInv, ContextInv
    <3> QED BY <2>1, <2>2, <3>1, <3>2 DEF TenantInv, ContextInv
  <2>3. ContextInv!(u)'
    <3>1. task[t].context # Outside =>
            /\ task'[task[t].context].context = task[t].context
            /\ task'[task[t].context].tenant = task[t].tenant
      BY <1>7, <2>1 DEF TenantInv, ContextInv
    <3>2. store'[u] = NoKey
      BY <1>7, <1>9
    <3> QED BY <1>4, <1>6, <3>1, <3>2 DEF Sockets
  <2> QED BY <2>2, <2>3 DEF ContextInv
<1>13. ProcessOf(t)' = ProcessOf(t) /\ ProcessOf(u)' = ProcessOf(t)
  BY <1>6 DEF ProcessOf
<1>11. KeyInv'
  <2>1. ASSUME NEW w \in Tasks, task[w].context # Outside, w # u, Running(w), Head(task[w].path) # "own"
        PROVE  store'[task[w].context] = task[w].tenant
    <3>1. store[task[w].context] = task[w].tenant
      BY <2>1 DEF TenantInv, KeyInv
    <3>2. task[w].context = task[t].context => task[w].tenant = task[t].tenant
      BY <2>1 DEF TenantInv, ContextInv
    <3> QED BY <1>7, <1>9, <2>1, <3>1, <3>2
  <2>2. ASSUME NEW w \in Tasks, task[w].context = Outside, w # u, w # t,
               Running(w), Head(task[w].path) # "own"
        PROVE  default'[ProcessOf(w)] \in {task[w].tenant} \cup beside'[w]
    <3>1. default[ProcessOf(w)] \in {task[w].tenant} \cup beside[w]
      BY <2>2 DEF TenantInv, KeyInv
    <3> QED BY <1>2, <2>2, <3>1, KeySet, ProcessesOf
  <2>3. ASSUME NEW w \in {t, u}
        PROVE  IF task'[w].context # Outside THEN store'[task'[w].context] = task'[w].tenant
               ELSE default'[ProcessOf(w)'] \in {task'[w].tenant} \cup beside'[w]
    BY <1>2, <1>6, <1>13, <2>3, KeySet
  <2>4. ASSUME NEW w \in Tasks \ {t, u}, Running(w)', Head(task'[w].path) # "own"
        PROVE  IF task'[w].context # Outside THEN store'[task'[w].context] = task'[w].tenant
               ELSE default'[ProcessOf(w)'] \in {task'[w].tenant} \cup beside'[w]
    BY <1>6, <2>1, <2>2, <2>4 DEF Running, ProcessOf
  <2> QED BY <2>3, <2>4 DEF KeyInv
<1>12. CallsKeepTheirTenant' /\ \A w \in Tasks : touched'[w] \subseteq {task'[w].tenant} \cup beside'[w]
  <2>1. \A w \in Tasks : /\ touched'[w] \subseteq touched[w] \cup {task'[w].tenant}
                         /\ w # u => touched'[w] = touched[w] /\ task'[w].tenant = task[w].tenant
                                     /\ task'[w].context = task[w].context
                         /\ beside[w] \subseteq beside'[w]
    BY <1>2, <1>4, <1>6, KeySet
  <2>2. touched'[u] = {task'[u].tenant}
    BY <1>2, <1>4, <1>6
  <2> QED BY <2>1, <2>2 DEF TenantInv, CallsKeepTheirTenant, StraysOnlyToInterleaved
<1>14. ASSUME NEW m \in Tenants
       PROVE  CopyOf(m, OfTenant(m))'
  <2>1. task[u].tenant # m
    BY <1>2, KeysApart DEF Unused
  <2> QED BY <1>2, <1>6, <2>1, KeySet, CopiesKeepCause DEF TenantInv, StraysOnlyToInterleaved
<1>15. CopyInv'
  <2>1. ASSUME NEW w \in Tasks \ {t, u}, Running(w)'
        PROVE  /\ Tail(task'[w].path) \in Seq(Plain)
               /\ Head(task'[w].path) = "store setting" => task'[w].settings \in ReadFor(w)'
    BY <1>2, <1>6, <2>1, KeySet DEF TenantInv, CopyInv, Running, ReadFor
  <2>2. Tail(task[t].path) \in Seq(Plain)
    BY <1>2 DEF TenantInv, CopyInv
  <2>3. Running(t)' => Tail(task'[t].path) \in Seq(Plain) /\ Head(task'[t].path) # "store setting"
    BY <1>6, <2>2, PlainSequences DEF Running
  <2> QED BY <1>3, <1>6, <2>1, <2>3 DEF CopyInv
<1> QED BY <1>5, <1>8, <1>10, <1>11, <1>12, <1>14, <1>15 DEF TenantInv, StraysOnlyToInterleaved

(* What an operation changes of the task that runs it, but for the start   *)
(* of a level update.                                                      *)
LEMMA TaskFacts ==
  ASSUME TenantInv, NEW t \in Tasks, Running(t)
  PROVE  /\ task[t] \in TaskRecords /\ task \in [Tasks -> TaskRecords]
         /\ task[t].path \in Seq(Operations) /\ Tail(task[t].path) \in Seq(Operations)
         /\ task[t].settings \in Keys \cup {NoKey} /\ task[t].tenant \in Tenants
         /\ cached \in [Tenants -> Keys \cup {NoKey}]
         /\ KeyInForce(t) \in Keys
         /\ Tail(task[t].path) \in Seq(Plain)
<1>1. /\ task[t] \in TaskRecords /\ task \in [Tasks -> TaskRecords] /\ task[t].tenant \in Tenants
      /\ cached \in [Tenants -> Keys \cup {NoKey}] /\ Tail(task[t].path) \in Seq(Plain)
  BY DEF TenantInv, TenantType, ContextInv, CopyInv
<1>2. /\ task[t].path \in Seq(Operations) /\ task[t].path # <<>>
      /\ task[t].settings \in Keys \cup {NoKey}
  BY <1>1 DEF TaskRecords, Running
<1> QED BY <1>1, <1>2, KeyFound

LEMMA StepProceeds ==
  ASSUME TenantInv, NEW t \in Tasks, Running(t), TaskStep(t), ~\E u \in Tasks : StartLevel(t, u)
  PROVE  Proceeds(t)
<1>1. CASE OwnOp(t) \/ LeftOp(t) \/ Skip(t)
  <2>1. task' = [task EXCEPT ![t].path = Tail(task[t].path)]
    BY TaskFacts, <1>1 DEF OwnOp, LeftOp, Skip, Advance
  <2> QED BY TaskFacts, <2>1, ChangeProceeds
<1>2. CASE CachedSettings(t) \/ StoreSettings(t)
  <2>1. \A k \in Keys \cup {NoKey} : Needed(t, k) \in Keys \cup {NoKey}
    BY DEF Needed
  <2>2. PICK k \in Keys \cup {NoKey} :
          task' = [task EXCEPT ![t].settings = Needed(t, k), ![t].path = Tail(task[t].path)]
    BY TaskFacts, <1>2 DEF CachedSettings, StoreSettings
  <2> QED BY TaskFacts, <2>1, <2>2, ChangeProceeds
<1>3. CASE ReadSettings(t)
  <2>1. <<"store setting">> \o Tail(task[t].path) \in Seq(Operations)
    <3>1. "store setting" \in Operations /\ Tail(task[t].path) \in Seq(Operations)
      BY TaskFacts DEF Operations
    <3> QED BY <3>1, Prefixed
  <2>2. task' = [task EXCEPT ![t].settings = KeyInForce(t),
                             ![t].path = <<"store setting">> \o Tail(task[t].path)]
    BY <1>3 DEF ReadSettings
  <2> QED BY TaskFacts, <2>1, <2>2, ChangeProceeds
<1>4. CASE NoLevel(t)
  BY TaskFacts, <1>4, ChangeProceeds DEF NoLevel
<1>5. CASE JobFails(t)
  <2>1. <<"left">> \in Seq(Operations)
    BY DEF Operations
  <2> QED BY TaskFacts, <1>5, <2>1, ChangeProceeds DEF JobFails
<1> QED BY <1>1, <1>2, <1>3, <1>4, <1>5 DEF TaskStep

LEMMA StepPath ==
  ASSUME TenantInv, NEW t \in Tasks, Running(t), TaskStep(t), ~\E u \in Tasks : StartLevel(t, u)
  PROVE  /\ Tail(task'[t].path) \in Seq(Plain) \/ task'[t].path = <<>>
         /\ Running(t)' /\ Head(task'[t].path) = "store setting" =>
              ReadSettings(t) /\ task'[t].settings = KeyInForce(t)
<1>1. CASE ReadSettings(t)
  <2>1. PICK q \in Seq(Operations) : q = <<"store setting">> \o Tail(task[t].path) /\ Tail(q) = Tail(task[t].path)
    BY TaskFacts, Prepended DEF Operations
  <2>2. task' = [task EXCEPT ![t].settings = KeyInForce(t), ![t].path = q]
    BY <1>1, <2>1 DEF ReadSettings
  <2>3. task'[t].settings = KeyInForce(t) /\ task'[t].path = q
    BY <2>2, TaskFacts DEF TaskRecords
  <2> QED BY <1>1, <2>1, <2>3, TaskFacts
<1>2. CASE ~ReadSettings(t) /\ ~JobFails(t)
  <2>1. task'[t].path = Tail(task[t].path)
    <3>1. PICK r \in TaskRecords, q \in Seq(Operations) :
            r = task[t] /\ q = Tail(task[t].path) /\ r.path \in Seq(Operations)
      BY TaskFacts
    <3>2. \/ task' = [task EXCEPT ![t].path = q]
          \/ \E k : task' = [task EXCEPT ![t].settings = k, ![t].path = q]
          \/ \E k : task' = [task EXCEPT ![t].path = q, ![t].settings = k]
      BY <1>2, <3>1 DEF TaskStep, OwnOp, LeftOp, Skip, CachedSettings, StoreSettings, NoLevel, Advance
    <3>3. CASE task' = [task EXCEPT ![t].path = q]
      BY <3>1, <3>3, TaskFacts DEF TaskRecords
    <3>4. ASSUME NEW k, task' = [task EXCEPT ![t].settings = k, ![t].path = q]
          PROVE  task'[t].path = q
      BY <3>1, <3>4, TaskFacts DEF TaskRecords
    <3>5. ASSUME NEW k, task' = [task EXCEPT ![t].path = q, ![t].settings = k]
          PROVE  task'[t].path = q
      BY <3>1, <3>5, TaskFacts DEF TaskRecords
    <3> QED BY <3>1, <3>2, <3>3, <3>4, <3>5
  <2>2. PICK p \in Seq(Plain) : p = Tail(task[t].path)
    BY TaskFacts
  <2> QED BY <2>1, <2>2, PlainSequences DEF Running
<1>3. CASE JobFails(t)
  <2>1. task'[t].path = <<"left">>
    BY <1>3, TaskFacts DEF JobFails, TaskRecords
  <2>2. PICK p \in Seq(Plain) : p = <<"left">> /\ p # <<>>
    <3>1. <<"left">> \in Seq(Plain)
      BY DEF Plain, Operations
    <3> QED BY <3>1
  <2> QED BY <2>1, <2>2, PlainSequences
<1> QED BY <1>1, <1>2, <1>3

(* No operation of a call, a job, a socket handler or a level update       *)
(* breaks it.                                                              *)
THEOREM StepTenantInv == TenantInv /\ [TenantNext]_tenantVars => TenantInv'
<1> SUFFICES ASSUME TenantInv, TenantNext PROVE TenantInv'
  <2>1. CASE UNCHANGED tenantVars
    BY <2>1 DEF tenantVars, TenantInv, TenantType, ContextInv, KeyInv, CopyInv, Running, ProcessOf,
       ReadFor, CallsKeepTheirTenant, StraysOnlyToInterleaved, CopyOf, OfTenant
  <2> QED BY <2>1
<1>1. PICK t \in Tasks : Serve(t) \/ TakeJob(t) \/ SocketEvent(t) \/ TaskStep(t)
  BY DEF TenantNext
<1>2. CASE Serve(t)
  <2>1. PICK kind \in Calls, k \in Tenants :
          /\ NewTask(t, kind, k, t)
          /\ store' \in {[store EXCEPT ![t] = k], store}
          /\ kind = "update" => store' # store
    BY <1>2 DEF Serve
  <2> QED BY <1>2, <2>1, NewTaskKeepsInv DEF Serve, Calls, Kinds
<1>3. CASE TakeJob(t)
  <2>1. PICK k \in Tenants : NewTask(t, "job", k, Outside)
    BY <1>3 DEF TakeJob
  <2> QED BY <1>3, <2>1, NewTaskKeepsInv, KeysApart DEF TakeJob, Calls, Kinds
<1>4. CASE SocketEvent(t)
  <2>1. PICK kind \in Sockets, k \in Tenants : NewTask(t, kind, k, Outside)
    BY <1>4 DEF SocketEvent
  <2> QED BY <1>4, <2>1, NewTaskKeepsInv, KeysApart DEF SocketEvent, Calls, Sockets, Kinds
<1>5. ASSUME TaskStep(t), ~(\E u \in Tasks : StartLevel(t, u))
      PROVE  TenantInv'
  <2>1. Running(t) /\ UNCHANGED levels
    <3>1. Len(task[t].path) > 1 => Running(t)
      BY DEF Running
    <3> QED BY <1>5, <3>1 DEF TaskStep, OwnOp, LeftOp, Skip, CachedSettings, ReadSettings, StoreSettings,
              NoLevel, JobFails, At
  <2>2. /\ task[t].settings \in Keys \cup {NoKey} /\ task[t].tenant \in Tenants
        /\ KeyInForce(t) \in Keys
    BY <2>1, TaskFacts
  <2>3. Proceeds(t)
    BY <1>5, <2>1, StepProceeds
  <2>4. SetKey(t) \/ (UNCHANGED <<default, store, beside>> /\ Head(task[t].path) # "own")
    BY <1>5, <2>1 DEF TaskStep, OwnOp, LeftOp, Skip, CachedSettings, ReadSettings, StoreSettings, NoLevel,
       JobFails, At
  <2>5. touched' = touched \/ (\E k : Reach(t, k) /\
             (k = task[t].tenant \/ (k = KeyInForce(t) /\ Head(task[t].path) # "own")))
    BY <1>5 DEF TaskStep, OwnOp, LeftOp, Skip, CachedSettings, ReadSettings, StoreSettings, NoLevel,
       JobFails, At
  <2>6. /\ Head(task[t].path) = "store setting" => task[t].settings \in ReadFor(t)
        /\ ReadFor(t) \subseteq Keys
    <3>1. beside[t] \in SUBSET Tenants
      BY DEF TenantInv, TenantType
    <3> QED BY <2>1, <2>2, <3>1 DEF TenantInv, CopyInv, ReadFor, Keys
  <2>7. cached' = cached \/ (\E k \in ReadFor(t) \cap Keys : cached' = [cached EXCEPT ![task[t].tenant] = k])
    BY <1>5, <2>6 DEF TaskStep, OwnOp, LeftOp, Skip, CachedSettings, ReadSettings, StoreSettings, NoLevel,
       JobFails, At
  <2>8. Running(t)' => /\ Tail(task'[t].path) \in Seq(Plain)
                       /\ Head(task'[t].path) = "store setting" =>
                            task'[t].settings \in ReadFor(t) /\ UNCHANGED beside
    <3>1. ReadSettings(t) => KeyInForce(t) \in ReadFor(t) /\ beside' = beside
      BY <2>1, KeyFound DEF ReadFor, ReadSettings, At
    <3> QED BY <1>5, <2>1, <3>1, StepPath DEF Running
  <2> QED BY <2>1, <2>3, <2>4, <2>5, <2>7, <2>8, OpKeepsInv
<1> QED BY <1>1, <1>2, <1>3, <1>4, <1>5, StartLevelKeepsInv

(* The invariant holds in every state: tasks, keys and contexts fit        *)
(* together however calls, jobs, socket handlers and the level updates     *)
(* they leave running interleave.                                          *)
THEOREM TenantInvariant == TenantSpec => []TenantInv
BY InitTenantInv, StepTenantInv, PTL DEF TenantSpec

(* The variables keep their types; the default key is never undefined.     *)
THEOREM TenantTypeCorrect == TenantSpec => []TenantType
<1>1. TenantInv => TenantType
  BY DEF TenantInv
<1> QED BY <1>1, TenantInvariant, PTL

(* A gRPC call, and the level update it leaves running, reaches only the   *)
(* database of its own tenant, whatever else the process does meanwhile    *)
(* (tenant-context.ts).                                                    *)
THEOREM CallsStay == TenantSpec => []CallsKeepTheirTenant
<1>1. TenantInv => CallsKeepTheirTenant
  BY DEF TenantInv
<1> QED BY <1>1, TenantInvariant, PTL

(* Work outside a call reaches another database only if a task of that     *)
(* tenant set the static key while it ran (abstract.repository.ts).        *)
THEOREM StraysHaveACause == TenantSpec => []StraysOnlyToInterleaved
<1>1. TenantInv => StraysOnlyToInterleaved
  BY DEF TenantInv
<1> QED BY <1>1, TenantInvariant, PTL

(***************************************************************************)
(* As long as no tenant has student level switched on                      *)
(***************************************************************************)
Quiet == levels = {}

(* No level update runs, so in a service there are only calls, each in a   *)
(* store of its own, and jobs, one at a time; a job that has set the       *)
(* default finds it as it left it, and what either read is its tenant's.   *)
OneJobInv ==
    /\ \A t \in Tasks :
        /\ ProcessOf(t) = "gateway" => task[t].kind \in Sockets
        /\ ProcessOf(t) = "service" => task[t].kind \in Calls \cup {"job", "unused"}
        /\ task[t].kind \in Calls => task[t].context = t
        /\ task[t].kind = "job" /\ Running(t) /\ Head(task[t].path) # "own" =>
             default["service"] = task[t].tenant
        /\ ProcessOf(t) = "service" /\ Running(t) /\ Head(task[t].path) = "store setting" =>
             task[t].settings = task[t].tenant
    /\ \A t, u \in Tasks :
        task[t].kind = "job" /\ task[u].kind = "job" /\ Running(t) /\ Running(u) => t = u

QuietInv == QuietWorkersKeepTenants /\ (Quiet => OneJobInv)

(* What is in force for a task of a service that has set its key, or whose *)
(* call has, is its own.                                                   *)
LEMMA QuietKey ==
  ASSUME TenantInv, OneJobInv, NEW t \in Tasks, ProcessOf(t) = "service", Running(t),
         Head(task[t].path) # "own"
  PROVE  KeyInForce(t) = task[t].tenant
<1>1. /\ task[t].kind \in Calls => task[t].context = t /\ t # Outside
      /\ task[t].kind = "job" => task[t].context = Outside /\ default["service"] = task[t].tenant
      /\ task[t].kind \in Calls \cup {"job"}
  BY KeysApart DEF OneJobInv, TenantInv, ContextInv
<1>2. CASE task[t].kind = "job"
  BY <1>1, <1>2 DEF KeyInForce
<1>3. CASE task[t].kind \in Calls
  BY <1>1, <1>3, KeyFound
<1> QED BY <1>1, <1>2, <1>3

THEOREM InitQuietInv == TenantInit => QuietInv
<1> SUFFICES ASSUME TenantInit PROVE QuietInv
  OBVIOUS
<1>1. \A t \in Tasks : task[t] = Unused /\ ~Running(t)
  BY DEF TenantInit, Running, Unused
<1>2. QuietWorkersKeepTenants
  BY DEF TenantInit, QuietWorkersKeepTenants, CopyOf
<1>3. OneJobInv
  <2>1. \A t \in Tasks : task[t].kind = "unused" /\ ProcessOf(t) = "service" /\ ~Running(t)
    BY <1>1 DEF ProcessOf, Unused
  <2> QED BY <2>1 DEF OneJobInv, Calls
<1> QED BY <1>2, <1>3 DEF QuietInv

(* Copies that the gateway left keep their cause, as above.                *)
OfGateway(k) == {t \in OfTenant(k) : ProcessOf(t) = "gateway"}

LEMMA QuietCopies ==
  ASSUME QuietInv, Quiet, NEW k \in Tenants
  PROVE  CopyOf(k, OfGateway(k))
BY DEF QuietInv, Quiet, QuietWorkersKeepTenants, OfGateway

LEMMA CopiesKeepGateway ==
  ASSUME NEW k \in Tenants, cached'[k] \in {cached[k], k}, CopyOf(k, OfGateway(k)),
         \A u \in Tasks : /\ beside[u] \subseteq beside'[u]
                          /\ task[u].tenant = k =>
                               /\ task'[u].tenant = k /\ task'[u].context = task[u].context
                               /\ ProcessOf(u)' = ProcessOf(u)
  PROVE  CopyOf(k, OfGateway(k))'
BY DEF CopyOf, OfTenant, OfGateway

(* A task begins.                                                          *)
LEMMA NewTaskKeepsQuiet ==
  ASSUME TenantInv, QuietInv, Quiet, NEW t \in Tasks, NEW kind \in Kinds \ {"level"},
         NEW k \in Tenants, NEW c \in {t, Outside}, NewTask(t, kind, k, c), kind \in Calls <=> c = t,
         kind = "job" => WorkerFree,
         UNCHANGED <<levels, default, touched, beside, cached>>
  PROVE  QuietInv'
<1>1. PICK p \in Paths(kind) : task[t] = Unused /\ task' = [task EXCEPT ![t] =
            [kind |-> kind, process |-> IF kind \in Sockets THEN "gateway" ELSE "service",
             tenant |-> k, context |-> c, settings |-> NoKey, path |-> p]]
  BY DEF NewTask
<1>2. p # <<>> /\ Head(p) # "store setting" /\ (kind = "job" => Head(p) = "own")
  BY PathsAreSequences
<1>3. /\ task'[t].tenant = k /\ task'[t].context = c /\ task'[t].kind = kind /\ task'[t].path = p
      /\ ProcessOf(t)' = IF kind \in Sockets THEN "gateway" ELSE "service"
      /\ \A u \in Tasks \ {t} : task'[u] = task[u] /\ ProcessOf(u)' = ProcessOf(u)
  BY <1>1 DEF TenantInv, ProcessOf
<1>4. touched[t] = {} /\ task[t].tenant = NoKey
  BY <1>1 DEF TenantInv, ContextInv, Unused
<1>5. QuietWorkersKeepTenants'
  <2>1. \A u \in Tasks : ProcessOf(u)' = "service" => touched'[u] \subseteq {task'[u].tenant}
    BY <1>3, <1>4 DEF QuietInv, Quiet, QuietWorkersKeepTenants
  <2>2. ASSUME NEW m \in Tenants
        PROVE  CopyOf(m, OfGateway(m))'
    BY <1>3, <1>4, KeysApart, QuietCopies, CopiesKeepGateway
  <2> QED BY <2>1, <2>2 DEF QuietWorkersKeepTenants, OfGateway
<1>6. ASSUME NEW u \in Tasks
      PROVE  /\ ProcessOf(u)' = "gateway" => task'[u].kind \in Sockets
             /\ ProcessOf(u)' = "service" => task'[u].kind \in Calls \cup {"job", "unused"}
             /\ task'[u].kind \in Calls => task'[u].context = u
             /\ task'[u].kind = "job" /\ Running(u)' /\ Head(task'[u].path) # "own" =>
                  default'["service"] = task'[u].tenant
             /\ ProcessOf(u)' = "service" /\ Running(u)' /\ Head(task'[u].path) = "store setting" =>
                  task'[u].settings = task'[u].tenant
  <2>1. CASE u = t
    BY <1>2, <1>3, <2>1 DEF Kinds
  <2>2. CASE u # t
    <3>1. task'[u] = task[u] /\ ProcessOf(u)' = ProcessOf(u) /\ Running(u)' = Running(u) /\ default' = default
      BY <1>3, <2>2 DEF Running
    <3> QED BY <3>1 DEF QuietInv, OneJobInv
  <2> QED BY <2>1, <2>2
<1>7. ASSUME NEW u \in Tasks, NEW w \in Tasks, task'[u].kind = "job", task'[w].kind = "job",
             Running(u)', Running(w)'
      PROVE  u = w
  <2>1. \A x \in Tasks \ {t} : task'[x].kind = "job" /\ Running(x)' =>
          kind # "job" /\ task[x].kind = "job" /\ Running(x)
    BY <1>3 DEF WorkerFree, Running
  <2>2. task'[t].kind = "job" => kind = "job"
    BY <1>3
  <2> QED BY <1>7, <2>1, <2>2 DEF QuietInv, OneJobInv
<1>8. OneJobInv'
  BY <1>6, <1>7 DEF OneJobInv
<1> QED BY <1>5, <1>8 DEF QuietInv

(* A task runs an operation: a task of a service reaches its own database  *)
(* and caches its own settings; a socket handler may do otherwise, but     *)
(* leaves the default of the service alone.                                *)
LEMMA OpKeepsQuiet ==
  ASSUME TenantInv, StraysOnlyToInterleaved', QuietInv, Quiet, NEW t \in Tasks, Running(t),
         Proceeds(t),
         SetKey(t) \/ (UNCHANGED <<default, beside>> /\ Head(task[t].path) # "own"),
         touched' = touched \/ (\E k : Reach(t, k) /\ (ProcessOf(t) = "service" => k = task[t].tenant)),
         cached' = cached \/ (\E k \in ReadFor(t) : cached' = [cached EXCEPT ![task[t].tenant] = k]
                                /\ (ProcessOf(t) = "service" => k = task[t].tenant)),
         ProcessOf(t) = "service" /\ Running(t)' /\ Head(task'[t].path) = "store setting" =>
             task'[t].settings = task[t].tenant,
         UNCHANGED levels
  PROVE  QuietInv'
<1>1. /\ task[t].kind \in Calls => task[t].context = t /\ t # Outside
      /\ task[t].kind \in Sockets \cup {"job"} => task[t].context = Outside
      /\ ProcessOf(t) = "service" => task[t].kind \in Calls \cup {"job"}
      /\ ProcessOf(t) = "gateway" => task[t].kind \in Sockets
      /\ ProcessOf(t) \in {"service", "gateway"}
      /\ default \in [Processes -> Keys] /\ touched \in [Tasks -> SUBSET Keys]
      /\ cached \in [Tenants -> Keys \cup {NoKey}]
      /\ beside \in [Tasks -> SUBSET Tenants]
  BY KeysApart, ProcessesOf DEF QuietInv, OneJobInv, TenantInv, TenantType, ContextInv, Processes
<1>2. /\ \A u \in Tasks \ {t} : task'[u] = task[u]
      /\ \A u \in Tasks : /\ task'[u].kind = task[u].kind /\ task'[u].tenant = task[u].tenant
                          /\ task'[u].context = task[u].context /\ ProcessOf(u)' = ProcessOf(u)
  BY DEF Proceeds, ProcessOf
<1>3. /\ task[t].kind = "job" => default'["service"] = task[t].tenant
      /\ task[t].kind \in Calls \cup Sockets => default'["service"] = default["service"]
      /\ \A u \in Tasks : beside[u] \subseteq beside'[u]
  <2>0. "service" \in Processes
    BY DEF Processes
  <2>1. CASE SetKey(t)
    <3>1. /\ \A p \in Processes : default'[p] # default[p] => task[t].context = Outside /\ p = ProcessOf(t)
          /\ task[t].context = Outside => default'[ProcessOf(t)] = task[t].tenant
          /\ \A u \in Tasks : beside[u] \subseteq beside'[u]
      BY <2>1, KeySet
    <3>2. /\ task[t].kind = "job" => ProcessOf(t) = "service"
          /\ task[t].kind \in Sockets => ProcessOf(t) = "gateway"
      BY <1>1 DEF Sockets, Calls
    <3> QED BY <1>1, <2>0, <3>1, <3>2
  <2>2. CASE UNCHANGED <<default, beside>> /\ Head(task[t].path) # "own"
    BY <2>2 DEF QuietInv, OneJobInv
  <2> QED BY <2>1, <2>2
<1>4. \A u \in Tasks : ProcessOf(u) = "service" => touched'[u] \subseteq touched[u] \cup {task[u].tenant}
  <2>1. CASE touched' = touched
    BY <2>1
  <2>2. ASSUME NEW k, Reach(t, k), ProcessOf(t) = "service" => k = task[t].tenant
        PROVE  \A u \in Tasks : ProcessOf(u) = "service" => touched'[u] \subseteq touched[u] \cup {task[u].tenant}
    BY <1>1, <2>2 DEF Reach
  <2> QED BY <2>1, <2>2
<1>5. QuietWorkersKeepTenants'
  <2>1. \A u \in Tasks : ProcessOf(u)' = "service" => touched'[u] \subseteq {task'[u].tenant}
    BY <1>2, <1>4 DEF QuietInv, Quiet, QuietWorkersKeepTenants
  <2>2. ASSUME NEW m \in Tenants
        PROVE  CopyOf(m, OfGateway(m))'
    <3>1. CASE cached'[m] \in {cached[m], m}
      BY <1>2, <1>3, <3>1, QuietCopies, CopiesKeepGateway
    <3>2. CASE cached'[m] \notin {cached[m], m}
      <4>1. /\ m = task[t].tenant /\ cached'[m] \in ReadFor(t) /\ ProcessOf(t) = "gateway"
        BY <1>1, <3>2
      <4>2. task[t].context = Outside /\ cached'[m] \in beside'[t]
        BY <1>1, <1>3, <3>2, <4>1 DEF ReadFor
      <4> QED BY <1>2, <4>1, <4>2 DEF CopyOf, OfTenant, OfGateway
    <3> QED BY <3>1, <3>2
  <2> QED BY <2>1, <2>2 DEF QuietWorkersKeepTenants, OfGateway
<1>6. ASSUME NEW u \in Tasks
      PROVE  /\ ProcessOf(u)' = "gateway" => task'[u].kind \in Sockets
             /\ ProcessOf(u)' = "service" => task'[u].kind \in Calls \cup {"job", "unused"}
             /\ task'[u].kind \in Calls => task'[u].context = u
             /\ task'[u].kind = "job" /\ Running(u)' /\ Head(task'[u].path) # "own" =>
                  default'["service"] = task'[u].tenant
             /\ ProcessOf(u)' = "service" /\ Running(u)' /\ Head(task'[u].path) = "store setting" =>
                  task'[u].settings = task'[u].tenant
  <2>1. CASE u = t
    BY <1>1, <1>2, <1>3, <2>1 DEF QuietInv, OneJobInv
  <2>2. CASE u # t
    <3>1. task'[u] = task[u] /\ Running(u)' = Running(u) /\ ProcessOf(u)' = ProcessOf(u)
      BY <1>2, <2>2 DEF Running
    <3>2. task[u].kind = "job" /\ Running(u) => task[t].kind \in Calls \cup Sockets
      BY <1>1, <2>2 DEF QuietInv, OneJobInv
    <3> QED BY <1>3, <3>1, <3>2 DEF QuietInv, OneJobInv
  <2> QED BY <2>1, <2>2
<1>7. ASSUME NEW u \in Tasks, NEW w \in Tasks, task'[u].kind = "job", task'[w].kind = "job",
             Running(u)', Running(w)'
      PROVE  u = w
  <2>1. \A x \in Tasks : task'[x].kind = "job" /\ Running(x)' => task[x].kind = "job" /\ Running(x)
    BY <1>2 DEF Running
  <2> QED BY <1>7, <2>1 DEF QuietInv, OneJobInv
<1>8. OneJobInv'
  BY <1>6, <1>7 DEF OneJobInv
<1> QED BY <1>5, <1>8 DEF QuietInv

(* No operation breaks it.                                                 *)
THEOREM StepQuietInv == TenantInv /\ QuietInv /\ [TenantNext]_tenantVars => QuietInv'
<1> SUFFICES ASSUME TenantInv, QuietInv, [TenantNext]_tenantVars PROVE QuietInv'
  OBVIOUS
<1>0. StraysOnlyToInterleaved'
  BY StepTenantInv DEF TenantInv
<1>1. CASE UNCHANGED tenantVars
  BY <1>1 DEF tenantVars, QuietInv, QuietWorkersKeepTenants, Quiet, OneJobInv, Running, ProcessOf,
     CopyOf, OfTenant
<1>2. CASE TenantNext /\ ~Quiet
  <2>1. UNCHANGED levels
    BY <1>2 DEF TenantNext, Serve, TakeJob, SocketEvent, TaskStep, OwnOp, LeftOp, Skip, CachedSettings,
       ReadSettings, StoreSettings, StartLevel, NoLevel, JobFails
  <2> QED BY <1>2, <2>1 DEF QuietInv, Quiet, QuietWorkersKeepTenants
<1>3. ASSUME Quiet, NEW t \in Tasks, Serve(t) PROVE QuietInv'
  <2>1. PICK kind \in Calls, k \in Tenants : NewTask(t, kind, k, t)
    BY <1>3 DEF Serve
  <2>2. UNCHANGED <<levels, default, touched, beside, cached>>
    BY <1>3 DEF Serve
  <2> QED BY <1>3, <2>1, <2>2, NewTaskKeepsQuiet DEF Calls, Kinds
<1>4. ASSUME Quiet, NEW t \in Tasks, TakeJob(t) PROVE QuietInv'
  <2>1. PICK k \in Tenants : NewTask(t, "job", k, Outside)
    BY <1>4 DEF TakeJob
  <2>2. WorkerFree /\ UNCHANGED <<levels, default, touched, beside, cached>>
    BY <1>4 DEF TakeJob
  <2> QED BY <1>4, <2>1, <2>2, NewTaskKeepsQuiet, KeysApart DEF Calls, Kinds
<1>5. ASSUME Quiet, NEW t \in Tasks, SocketEvent(t) PROVE QuietInv'
  <2>1. PICK kind \in Sockets, k \in Tenants : NewTask(t, kind, k, Outside)
    BY <1>5 DEF SocketEvent
  <2>2. UNCHANGED <<levels, default, touched, beside, cached>>
    BY <1>5 DEF SocketEvent
  <2> QED BY <1>5, <2>1, <2>2, NewTaskKeepsQuiet, KeysApart DEF Calls, Sockets, Kinds
<1>6. ASSUME Quiet, NEW t \in Tasks, TaskStep(t) PROVE QuietInv'
  <2>1. ~\E u \in Tasks : StartLevel(t, u)
    BY <1>6 DEF StartLevel, StartsLevel, Quiet
  <2>2. Running(t) /\ UNCHANGED levels
    <3>1. Len(task[t].path) > 1 => Running(t)
      BY DEF Running
    <3> QED BY <1>6, <2>1, <3>1 DEF TaskStep, OwnOp, LeftOp, Skip, CachedSettings, ReadSettings,
              StoreSettings, NoLevel, JobFails, At
  <2>3. Head(task[t].path) # "own" /\ ProcessOf(t) = "service" => KeyInForce(t) = task[t].tenant
    BY <1>6, <2>2, QuietKey DEF QuietInv
  <2>4. Proceeds(t)
    BY <1>6, <2>1, <2>2, StepProceeds
  <2>5. SetKey(t) \/ (UNCHANGED <<default, beside>> /\ Head(task[t].path) # "own")
    BY <1>6, <2>1, <2>2 DEF TaskStep, OwnOp, LeftOp, Skip, CachedSettings, ReadSettings, StoreSettings,
       NoLevel, JobFails, At
  <2>6. touched' = touched \/ (\E k : Reach(t, k) /\ (ProcessOf(t) = "service" => k = task[t].tenant))
    BY <1>6, <2>1, <2>3 DEF TaskStep, OwnOp, LeftOp, Skip, CachedSettings, ReadSettings, StoreSettings,
       NoLevel, JobFails, At
  <2>7. cached' = cached \/ (\E k \in ReadFor(t) : cached' = [cached EXCEPT ![task[t].tenant] = k]
                               /\ (ProcessOf(t) = "service" => k = task[t].tenant))
    <3>1. Head(task[t].path) = "store setting" =>
            /\ task[t].settings \in ReadFor(t)
            /\ ProcessOf(t) = "service" => task[t].settings = task[t].tenant
      BY <1>6, <2>2 DEF TenantInv, CopyInv, QuietInv, OneJobInv
    <3> QED BY <1>6, <2>1, <3>1 DEF TaskStep, OwnOp, LeftOp, Skip, CachedSettings, ReadSettings,
              StoreSettings, NoLevel, JobFails, At
  <2>8. ProcessOf(t) = "service" /\ Running(t)' /\ Head(task'[t].path) = "store setting" =>
          task'[t].settings = task[t].tenant
    BY <1>6, <2>1, <2>2, <2>3, StepPath DEF ReadSettings, At
  <2> QED BY <1>0, <1>6, <2>2, <2>4, <2>5, <2>6, <2>7, <2>8, OpKeepsQuiet
<1> QED BY <1>1, <1>2, <1>3, <1>4, <1>5, <1>6 DEF TenantNext

(* As long as no tenant has student level switched on, no call and no job  *)
(* of a service reaches another tenant's database, and settings cached     *)
(* under a tenant that are not its own were left by a socket handler that  *)
(* another one overtook (abstract.repository.ts, redisCaching.service.ts). *)
THEOREM QuietWorkersStay == TenantSpec => []QuietWorkersKeepTenants
<1>1. QuietInv => QuietWorkersKeepTenants
  BY DEF QuietInv
<1> QED BY <1>1, InitQuietInv, StepQuietInv, TenantInvariant, PTL DEF TenantSpec
=============================================================================
