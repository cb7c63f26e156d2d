------------------------------ MODULE SmpCalls ------------------------------
(***************************************************************************)
(* Function calls between host CPUs (core/vmm_smp.c).  A thread of each    *)
(* host CPU calls functions on others; the call is put in the sync or the  *)
(* async fifo of the target and an interrupt is triggered there.  The      *)
(* interrupt runs the sync calls; the async calls are left to a thread of  *)
(* the target.  The fifos are those of Fifo, at their limit; a call is its *)
(* number.                                                                 *)
(***************************************************************************)
EXTENDS Fifo, Integers, FiniteSets, FiniteSetsExt

CONSTANTS Cpus,         \* number of host CPUs
          Online,       \* those that are online
          Caller,       \* those with a thread that calls
          FifoSize,     \* SMP_IPI_MAX_SYNC_PER_CPU, SMP_IPI_MAX_ASYNC_PER_CPU
          Tries,        \* SMP_IPI_WAIT_TRY_COUNT
          Dest,         \* the sets of host CPUs that calls are for
          MaxCalls      \* bound: the number of calls

Cpu == 0 .. Cpus - 1

ASSUME SmpAssumption ==
    /\ Cpus \in Nat /\ Online \subseteq Cpu /\ Caller \subseteq Online
    /\ FifoSize \in Nat \ {0} /\ Tries \in Nat \ {0}
    /\ Dest \subseteq SUBSET Cpu /\ MaxCalls \in Nat

Kind == {"sync", "async"}
NoCall == 0

VARIABLES calls,        \* the number of calls so far
          call,         \* the call each thread makes
          fifo,         \* ictl.sync_fifo and ictl.async_fifo of each host CPU
          ipi,          \* an interrupt is pending
          handler,      \* stage of vmm_smp_ipi_exec()
          worker,       \* stage of smp_ipi_main()
          current,      \* the call each of the two executes
          async_avail,  \* the count of that completion
          panicked,
          submitted, ran, \* history: calls put in each fifo, calls that returned
          returned      \* history: the last call that returned VMM_OK to its caller
vars == <<calls, call, fifo, ipi, handler, worker, current, async_avail,
          panicked, submitted, ran, returned>>
history == <<submitted, ran, returned>>

Idle == [stage |-> "idle", kind |-> "sync", id |-> NoCall, todo |-> {}, sent |-> {}, trig |-> {},
         wait |-> FALSE, try |-> 0]
Init ==
    /\ calls = 0
    /\ call = [s \in Caller |-> Idle]
    /\ fifo = [c \in Cpu |-> [k \in Kind |-> fifo_alloc(FifoSize, NoCall)]]
    /\ ipi = [c \in Cpu |-> FALSE]
    /\ handler = [c \in Cpu |-> "off"]
    /\ worker = [c \in Cpu |-> "wait"]
    /\ current = [c \in Cpu |-> [k \in Kind |-> NoCall]]
    /\ async_avail = [c \in Cpu |-> 0]
    /\ panicked = FALSE
    /\ submitted = [c \in Cpu |-> [k \in Kind |-> << >>]]
    /\ ran = [c \in Cpu |-> [k \in Kind |-> << >>]]
    /\ returned = [s \in Caller |-> [id |-> NoCall, targets |-> {}]]

-----------------------------------------------------------------------------
(* Threads of a host CPU do not run while its interrupt handler does. *)
Free(c) == handler[c] = "off" /\ ~panicked

(* vmm_smp_ipi_sync_call and vmm_smp_ipi_async_call; without a timeout the *)
(* first does not wait                                                     *)
Call(s, kind, dest, wait) ==
    /\ Free(s) /\ call[s].stage = "idle" /\ calls < MaxCalls
    /\ wait => kind = "sync"
    /\ calls' = calls + 1
    /\ call' = [call EXCEPT ![s] = [Idle EXCEPT !.stage = "submit", !.kind = kind,
                   !.id = calls + 1, !.todo = dest, !.wait = wait, !.try = Tries]]
    /\ UNCHANGED <<fifo, ipi, handler, worker, current, async_avail, panicked, history>>

(* for_each_cpu: the next target *)
Target(s) == Min(call[s].todo)
Submits(s) == Free(s) /\ call[s].stage = "submit" /\ call[s].todo # {}
Done(s) == [call EXCEPT ![s].todo = @ \ {Target(s)}, ![s].stage = "submit", ![s].try = Tries]

(* The caller itself runs the function at once, an offline target never. *)
SubmitSkip(s) ==
    /\ Submits(s) /\ (Target(s) = s \/ Target(s) \notin Online)
    /\ call' = Done(s)
    /\ UNCHANGED <<calls, fifo, ipi, handler, worker, current, async_avail, panicked, history>>

Remote(s) == Submits(s) /\ Target(s) # s /\ Target(s) \in Online

(* smp_ipi_sync_submit and smp_ipi_async_submit: with the fifo full, an    *)
(* interrupt and another try after a delay; with no try left, the panic,   *)
(* also when the last try went well                                        *)
(* mutant: a full fifo is overwritten *)
EnqueueOver(s) ==
    LET c == Target(s)  k == call[s].kind IN
    /\ Remote(s)
    /\ fifo' = [fifo EXCEPT ![c][k] = fifo_enqueue(@, call[s].id, TRUE)]
    /\ submitted' = [submitted EXCEPT ![c][k] = Append(@, call[s].id)]
    /\ call' = [call EXCEPT ![s].stage = "trigger"]
    /\ panicked' = (call[s].try = 0)
    /\ UNCHANGED <<calls, ipi, handler, worker, current, async_avail, ran, returned>>
SubmitEnqueue(s) ==
    LET c == Target(s)  k == call[s].kind IN
    /\ Remote(s) /\ ~fifo_isfull(fifo[c][k])
    /\ fifo' = [fifo EXCEPT ![c][k] = fifo_enqueue(@, call[s].id, FALSE)]
    /\ submitted' = [submitted EXCEPT ![c][k] = Append(@, call[s].id)]
    /\ call' = [call EXCEPT ![s].stage = "trigger"]
    /\ panicked' = (call[s].try = 0)
    /\ UNCHANGED <<calls, ipi, handler, worker, current, async_avail, ran, returned>>
SubmitFull(s) ==
    /\ Remote(s) /\ fifo_isfull(fifo[Target(s)][call[s].kind])
    /\ IF call[s].try = 0
       THEN panicked' = TRUE /\ UNCHANGED <<call, ipi>>
       ELSE /\ ipi' = [ipi EXCEPT ![Target(s)] = TRUE]
            /\ call' = [call EXCEPT ![s].try = @ - 1]
            /\ UNCHANGED panicked
    /\ UNCHANGED <<calls, fifo, handler, worker, current, async_avail, history>>
(* mutant: a target in its handler is not triggered *)
TriggerIdle(s) ==
    /\ Free(s) /\ call[s].stage = "trigger"
    /\ ipi' = [ipi EXCEPT ![Target(s)] = @ \/ handler[Target(s)] = "off"]
    /\ call' = [Done(s) EXCEPT ![s].sent = @ \cup {Target(s)},
                                ![s].trig = @ \cup {Target(s)}]
    /\ UNCHANGED <<calls, fifo, handler, worker, current, async_avail, panicked, history>>
SubmitTrigger(s) ==
    /\ Free(s) /\ call[s].stage = "trigger"
    /\ ipi' = [ipi EXCEPT ![Target(s)] = TRUE]
    /\ call' = [Done(s) EXCEPT ![s].sent = @ \cup {Target(s)},
                                ![s].trig = @ \cup {Target(s)}]
    /\ UNCHANGED <<calls, fifo, handler, worker, current, async_avail, panicked, history>>

(* The wait of a synchronous call: until the fifo of every target has been *)
(* seen empty, or the time is over (VMM_ETIMEDOUT)                         *)
Finish(s, waited) ==
    /\ call' = [call EXCEPT ![s] = Idle]
    /\ returned' = [returned EXCEPT ![s] =
                        IF waited THEN [id |-> call[s].id, targets |-> call[s].sent] ELSE @]
    /\ UNCHANGED <<calls, fifo, ipi, handler, worker, current, async_avail, panicked, submitted, ran>>
Waits(s) == call[s].wait /\ call[s].sent # {}
SubmitDone(s) ==
    /\ Free(s) /\ call[s].stage = "submit" /\ call[s].todo = {}
    /\ IF Waits(s)
       THEN /\ call' = [call EXCEPT ![s].stage = "wait"]
            /\ UNCHANGED <<calls, fifo, ipi, handler, worker, current, async_avail, panicked, history>>
       ELSE Finish(s, FALSE)
(* mutant: the wait ends when one target is done *)
WaitLookAny(s, c) ==
    /\ Free(s) /\ call[s].stage = "wait" /\ c \in call[s].trig
    /\ fifo_isempty(fifo[c]["sync"])
    /\ call' = [call EXCEPT ![s].trig = {}]
    /\ UNCHANGED <<calls, fifo, ipi, handler, worker, current, async_avail, panicked, history>>
WaitLook(s, c) ==
    /\ Free(s) /\ call[s].stage = "wait" /\ c \in call[s].trig
    /\ fifo_isempty(fifo[c]["sync"])
    /\ call' = [call EXCEPT ![s].trig = @ \ {c}]
    /\ UNCHANGED <<calls, fifo, ipi, handler, worker, current, async_avail, panicked, history>>
WaitEnd(s) == Free(s) /\ call[s].stage = "wait" /\ Finish(s, call[s].trig = {})

-----------------------------------------------------------------------------
(* vmm_smp_ipi_exec in the interrupt of a host CPU *)
Interrupt(c) ==
    /\ Free(c) /\ ipi[c]
    /\ ipi' = [ipi EXCEPT ![c] = FALSE]
    /\ handler' = [handler EXCEPT ![c] = "sync"]
    /\ UNCHANGED <<calls, call, fifo, worker, current, async_avail, panicked, history>>

(* One step of the loop that empties a fifo: a call returns, or the next   *)
(* one is taken                                                            *)
Serve(c, k) ==
    \/ /\ current[c][k] # NoCall
       /\ ran' = [ran EXCEPT ![c][k] = Append(@, current[c][k])]
       /\ current' = [current EXCEPT ![c][k] = NoCall]
       /\ UNCHANGED fifo
    \/ /\ current[c][k] = NoCall /\ ~fifo_isempty(fifo[c][k])
       /\ current' = [current EXCEPT ![c][k] = fifo_front(fifo[c][k])]
       /\ fifo' = [fifo EXCEPT ![c][k] = fifo_dequeue(@)]
       /\ UNCHANGED ran
Served(c, k) == current[c][k] = NoCall /\ fifo_isempty(fifo[c][k])

HandlerServe(c) ==
    /\ handler[c] = "sync" /\ ~panicked /\ Serve(c, "sync")
    /\ UNCHANGED <<calls, call, ipi, handler, worker, async_avail, panicked, submitted, returned>>
HandlerServed(c) ==
    /\ handler[c] = "sync" /\ ~panicked /\ Served(c, "sync")
    /\ handler' = [handler EXCEPT ![c] = "signal"]
    /\ UNCHANGED <<calls, call, fifo, ipi, worker, current, async_avail, panicked, history>>
HandlerSignal(c) ==
    /\ handler[c] = "signal" /\ ~panicked
    /\ async_avail' = [async_avail EXCEPT ![c] = IF fifo_isempty(fifo[c]["async"]) THEN @ ELSE @ + 1]
    /\ handler' = [handler EXCEPT ![c] = "off"]
    /\ UNCHANGED <<calls, call, fifo, ipi, worker, current, panicked, history>>

(* smp_ipi_main *)
WorkerWake(c) ==
    /\ Free(c) /\ worker[c] = "wait" /\ async_avail[c] > 0
    /\ async_avail' = [async_avail EXCEPT ![c] = @ - 1]
    /\ worker' = [worker EXCEPT ![c] = "run"]
    /\ UNCHANGED <<calls, call, fifo, ipi, handler, current, panicked, history>>
WorkerServe(c) ==
    /\ Free(c) /\ worker[c] = "run" /\ Serve(c, "async")
    /\ UNCHANGED <<calls, call, ipi, handler, worker, async_avail, panicked, submitted, returned>>
WorkerServed(c) ==
    /\ Free(c) /\ worker[c] = "run" /\ Served(c, "async")
    /\ worker' = [worker EXCEPT ![c] = "wait"]
    /\ UNCHANGED <<calls, call, fifo, ipi, handler, current, async_avail, panicked, history>>

Submit(s) == SubmitSkip(s) \/ SubmitEnqueue(s) \/ SubmitFull(s) \/ SubmitTrigger(s) \/ SubmitDone(s)
Wait(s) == WaitEnd(s) \/ \E c \in Cpu : WaitLook(s, c)
Handler(c) == HandlerServe(c) \/ HandlerServed(c) \/ HandlerSignal(c)
Worker(c) == WorkerWake(c) \/ WorkerServe(c) \/ WorkerServed(c)

Next ==
    \/ \E s \in Caller :
         \/ \E kind \in Kind, dest \in Dest, wait \in BOOLEAN : Call(s, kind, dest, wait)
         \/ Submit(s) \/ Wait(s)
    \/ \E c \in Online : Interrupt(c) \/ Handler(c) \/ Worker(c)

(* Interrupts are taken, their handler runs to its end, and threads that   *)
(* are ready run, though not while interrupts keep coming.                 *)
Fairness ==
    /\ \A s \in Caller : WF_vars(Submit(s) \/ Wait(s))
    /\ \A c \in Online : WF_vars(Interrupt(c)) /\ WF_vars(Handler(c)) /\ WF_vars(Worker(c))

Spec == Init /\ [][Next]_vars /\ Fairness

-----------------------------------------------------------------------------
CallState ==
    [stage : {"idle", "submit", "trigger", "wait"}, kind : Kind, id : 0 .. MaxCalls, todo : SUBSET Cpu,
     sent : SUBSET Online, trig : SUBSET Online, wait : BOOLEAN, try : 0 .. Tries]
TypeOK ==
    /\ calls \in 0 .. MaxCalls
    /\ call \in [Caller -> CallState]
    /\ fifo \in [Cpu -> [Kind -> Fifos(FifoSize, 0 .. MaxCalls)]]
    /\ current \in [Cpu -> [Kind -> 0 .. MaxCalls]]
    /\ ipi \in [Cpu -> BOOLEAN] /\ panicked \in BOOLEAN
    /\ handler \in [Cpu -> {"off", "sync", "signal"}] /\ worker \in [Cpu -> {"wait", "run"}]
    /\ async_avail \in [Cpu -> Nat]
    /\ submitted \in [Cpu -> [Kind -> Seq(1 .. MaxCalls)]] /\ ran \in [Cpu -> [Kind -> Seq(1 .. MaxCalls)]]
    /\ returned \in [Caller -> [id : 0 .. MaxCalls, targets : SUBSET Online]]

(* The call that is taken and has not returned *)
InHand(id) == IF id = NoCall THEN << >> ELSE <<id>>

(* Every target runs the calls put in its fifos once and in the order they *)
(* were put there, whatever the number of callers and of interrupts: the   *)
(* ring buffer loses, repeats and reorders none.                           *)
Ordered ==
    \A c \in Cpu, k \in Kind :
        submitted[c][k] = ran[c][k] \o InHand(current[c][k]) \o Contents(fifo[c][k])
RunInOrder == TypeOK /\ Ordered

(* No call stays in a fifo with nobody on the way to it, although pending  *)
(* interrupts are not counted and an interrupt may come before the call it *)
(* is for: its submitter is about to trigger, an interrupt is pending or   *)
(* the handler will still look, or the async thread is or will be woken.   *)
Attended(c, k) ==
    \/ ipi[c] \/ \E s \in Caller : call[s].stage = "trigger" /\ Target(s) = c
    \/ handler[c] = "sync" \/ (k = "async" /\ handler[c] = "signal")
    \/ k = "async" /\ (async_avail[c] > 0 \/ worker[c] = "run")
NoCallStranded ==
    \A c \in Online, k \in Kind :
        ~fifo_isempty(fifo[c][k]) /\ ~panicked => Attended(c, k)

(* A target has taken a synchronous call: executes it or has executed it. *)
Among(id, list) == \E i \in DOMAIN list : list[i] = id
Taken(c, id) ==
    current[c]["sync"] = id \/ Among(id, ran[c]["sync"])

(* What the threads that call go by: until it waits, a thread has marked   *)
(* every host CPU it put its call on; the call is among those put there,   *)
(* and the marks that are gone are of host CPUs that have taken it.        *)
CallTracked(s) ==
    LET q == call[s] IN
    /\ q.stage # "idle" => q.id # NoCall
    /\ q.stage = "wait" => q.wait
    /\ q.wait => q.kind = "sync"
    /\ q.stage # "wait" => q.trig = q.sent
    /\ \A c \in q.sent \cup (IF q.stage = "trigger" THEN {Target(s)} ELSE {}) :
         c \in Online \ {s} /\ Among(q.id, submitted[c][q.kind])
    /\ \A c \in q.sent \ q.trig : Taken(c, q.id)

(* When a synchronous call with a timeout returns VMM_OK, every target has *)
(* taken the call: it has returned or, since the wait looks at the fifo    *)
(* and not at the call, is the one the target executes.  The marks the     *)
(* wait goes by are right from the first target on.                        *)
ReturnTracked(s) ==
    \A c \in returned[s].targets : returned[s].id # NoCall /\ Taken(c, returned[s].id)
ReturnedTaken == \A s \in Caller : CallTracked(s) /\ ReturnTracked(s)

(* Every call that was put in a fifo is executed in the end. *)
CallsServed ==
    \A c \in Online, k \in Kind : []<>(panicked \/ Served(c, k))
=============================================================================
