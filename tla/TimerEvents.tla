---------------------------- MODULE TimerEvents -----------------------------
(***************************************************************************)
(* Timer events (core/vmm_timer.c) of all host CPUs and the clock chips    *)
(* that drive them (core/vmm_clockchip.c).  Every host CPU has a list of   *)
(* events sorted by expiry; its clock chip is programmed for the first.    *)
(* The interrupt handler looks at the list under its lock and drops the    *)
(* lock to stop an expired event and to call its handler, so other host    *)
(* CPUs start and stop events in between.  A host CPU starts and stops     *)
(* events at two levels: from threads, which its handler interrupts, and   *)
(* from the handlers of events.  tlc.curr and tlc.next_event are only      *)
(* written and left out.                                                   *)
(***************************************************************************)
EXTENDS List, Integers, FiniteSets, FiniteSetsExt

CONSTANTS Cpu, Event,
          Duration,           \* the durations events are started with
          MinDelta, MaxDelta, \* the shortest and the longest time of a chip
          MaxTime,            \* bound: no event expires later
          MaxStarts           \* bound: how often events are started

ASSUME TimerAssumption ==
    /\ Duration \subseteq Nat /\ MaxTime \in Nat /\ MaxStarts \in Nat
    /\ MinDelta \in Nat /\ MaxDelta \in Nat /\ MinDelta <= MaxDelta
    /\ Cpu # {} /\ IsFiniteSet(Cpu)
    /\ "none" \notin Event     \* None

Level == {"thread", "irq"}
Never == -1
None == "none"

VARIABLES now,                \* vmm_timer_timestamp(), the same on all host CPUs
          mode,               \* of the clock chip; "oneshot" when tlc.started
          chip,               \* when the clock chip interrupts, Never if it does not
          event_list,         \* tlc.event_list
          stage,              \* of timer_clockchip_event_handler()
          seen,               \* the expired event it works on, and a history: if
                              \* that was started again meanwhile
          op,                 \* a started event whose lock is not taken yet
          expiry_tstamp, active_state, active_hcpu,
          begun,              \* bound: starts of events so far
          credit              \* history: starts less handler calls of an event
hostVars == <<now, mode>>
eventVars == <<event_list, expiry_tstamp, active_state, active_hcpu>>
vars == <<hostVars, chip, stage, seen, op, eventVars, begun, credit>>

NoOp == [event |-> None]
NoSight == [event |-> None, again |-> FALSE]
Op == {NoOp} \cup [event : Event, expiry : 0 .. MaxTime]

Init ==
    /\ now = 0
    /\ mode = [c \in Cpu |-> "unused"]
    /\ chip = [c \in Cpu |-> Never]
    /\ event_list = [c \in Cpu |-> << >>]
    /\ stage = [c \in Cpu |-> "off"]
    /\ seen = [c \in Cpu |-> NoSight]
    /\ op = [c \in Cpu |-> [l \in Level |-> NoOp]]
    /\ expiry_tstamp = [e \in Event |-> 0]
    /\ active_state = [e \in Event |-> FALSE]
    /\ active_hcpu \in [Event -> {CHOOSE c \in Cpu : TRUE}]
    /\ begun = 0
    /\ credit = [e \in Event |-> 0]

-----------------------------------------------------------------------------
(* vmm_clockchip_program_event: when the chip interrupts *)
Programmed(expires) == now + Max({MinDelta, Min({MaxDelta, expires - now})})

(* mutant: an event that expired before it could be programmed is skipped *)
SkipExpired(c, inprocess, list, expiry) ==
    IF mode[c] # "oneshot" \/ inprocess \/ list = << >> \/ expiry[Head(list)] < now
    THEN chip[c]
    ELSE Programmed(Max({now, expiry[Head(list)]}))
(* __timer_schedule_next_event: the time the chip is left with *)
ScheduleNext(c, inprocess, list, expiry) ==
    IF mode[c] # "oneshot" \/ inprocess \/ list = << >>
    THEN chip[c]
    ELSE Programmed(Max({now, expiry[Head(list)]}))

(* mutant: the new event goes to the front *)
InsertFirst(list, e, expiry) == <<e>> \o list
(* An event is linked before the first one that expires later. *)
Insert(list, e, expiry) == AddSorted(list, e, expiry)

(* __timer_event_stop: the lists without an event *)
Stopped(e) ==
    [c \in Cpu |-> IF active_state[e] /\ active_hcpu[e] = c
                   THEN Unlink(event_list[c], e)
                   ELSE event_list[c]]

(* mutant: the event stays in the list *)
StopKeepsActive(e) == UNCHANGED eventVars
StopEvent(e) ==
    /\ event_list' = Stopped(e)
    /\ active_state' = [active_state EXCEPT ![e] = FALSE]
    /\ expiry_tstamp' = [expiry_tstamp EXCEPT ![e] = IF active_state[e] THEN 0 ELSE @]
    /\ UNCHANGED active_hcpu

(* Threads run when the handler of their host CPU does not. *)
Executes(c, l) == stage[c] = IF l = "thread" THEN "off" ELSE "callback"

(* vmm_timer_event_start2 (and _start, _restart) reads the time, and then  *)
(* waits for the lock of the event                                         *)
Start(c, l, e, duration) ==
    /\ Executes(c, l) /\ op[c][l] = NoOp
    /\ begun < MaxStarts /\ now + duration <= MaxTime
    /\ begun' = begun + 1
    /\ op' = [op EXCEPT ![c][l] = [event |-> e, expiry |-> now + duration]]
    /\ UNCHANGED <<hostVars, chip, stage, seen, eventVars, credit>>
StartLocked(c, l) ==
    LET e == op[c][l].event IN
    /\ Executes(c, l) /\ op[c][l] # NoOp
    /\ op' = [op EXCEPT ![c][l] = NoOp]
    /\ expiry_tstamp' = [expiry_tstamp EXCEPT ![e] = op[c][l].expiry]
    /\ active_state' = [active_state EXCEPT ![e] = TRUE]
    /\ active_hcpu' = [active_hcpu EXCEPT ![e] = c]
    /\ event_list' = [Stopped(e) EXCEPT ![c] = Insert(@, e, expiry_tstamp')]
    /\ chip' = [chip EXCEPT ![c] = ScheduleNext(c, stage[c] # "off", event_list'[c], expiry_tstamp')]
    /\ seen' = [d \in Cpu |-> [seen[d] EXCEPT !.again = @ \/ seen[d].event = e]]
    /\ credit' = [credit EXCEPT ![e] = @ + 1]
    /\ UNCHANGED <<hostVars, stage, begun>>

(* vmm_timer_event_stop *)
Stop(c, l, e) ==
    /\ Executes(c, l) /\ op[c][l] = NoOp
    /\ StopEvent(e)
    /\ UNCHANGED <<hostVars, chip, stage, seen, op, begun, credit>>

-----------------------------------------------------------------------------
(* timer_clockchip_event_handler: the interrupt, a look at the first event *)
(* under the lock of the list, the stop of the event with that lock        *)
(* dropped and the call of its handler, until no expired event is first.   *)
Interrupt(c) ==
    /\ stage[c] = "off" /\ chip[c] # Never /\ chip[c] <= now
    /\ chip' = [chip EXCEPT ![c] = Never]
    /\ stage' = [stage EXCEPT ![c] = "look"]
    /\ UNCHANGED <<hostVars, seen, op, eventVars, begun, credit>>

(* mutant: the first event is taken to have expired *)
ExpiredAny(c) == event_list[c] # << >>
Expired(c) == event_list[c] # << >> /\ expiry_tstamp[Head(event_list[c])] <= now

HandlerLook(c) ==
    /\ stage[c] = "look" /\ Expired(c)
    /\ seen' = [seen EXCEPT ![c] = [event |-> Head(event_list[c]), again |-> FALSE]]
    /\ stage' = [stage EXCEPT ![c] = "stop"]
    /\ UNCHANGED <<hostVars, chip, op, eventVars, begun, credit>>
HandlerStop(c) ==
    /\ stage[c] = "stop"
    /\ StopEvent(seen[c].event)
    /\ credit' = [credit EXCEPT ![seen[c].event] = @ - 1]
    /\ seen' = [seen EXCEPT ![c] = NoSight]
    /\ stage' = [stage EXCEPT ![c] = "callback"]
    /\ UNCHANGED <<hostVars, chip, op, begun>>
HandlerReturn(c) ==
    /\ stage[c] = "callback" /\ op[c]["irq"] = NoOp
    /\ stage' = [stage EXCEPT ![c] = "look"]
    /\ UNCHANGED <<hostVars, chip, seen, op, eventVars, begun, credit>>
(* mutant: the next event is not programmed *)
ExitUnarmed(c) ==
    /\ stage[c] = "look" /\ ~Expired(c)
    /\ stage' = [stage EXCEPT ![c] = "off"]
    /\ UNCHANGED <<hostVars, chip, seen, op, eventVars, begun, credit>>
HandlerExit(c) ==
    /\ stage[c] = "look" /\ ~Expired(c)
    /\ stage' = [stage EXCEPT ![c] = "off"]
    /\ chip' = [chip EXCEPT ![c] = ScheduleNext(c, FALSE, event_list[c], expiry_tstamp)]
    /\ UNCHANGED <<hostVars, seen, op, eventVars, begun, credit>>

-----------------------------------------------------------------------------
(* vmm_timer_start, once at boot, and vmm_timer_stop at shutdown *)
TimerStart(c) ==
    /\ stage[c] = "off" /\ mode[c] = "unused"
    /\ mode' = [mode EXCEPT ![c] = "oneshot"]
    /\ chip' = [chip EXCEPT ![c] = Programmed(now + MinDelta)]
    /\ UNCHANGED <<now, stage, seen, op, eventVars, begun, credit>>
TimerStop(c) ==
    /\ stage[c] = "off" /\ mode[c] = "oneshot"
    /\ mode' = [mode EXCEPT ![c] = "shutdown"]
    /\ chip' = [chip EXCEPT ![c] = Never]
    /\ UNCHANGED <<now, stage, seen, op, eventVars, begun, credit>>

Tick ==
    /\ now < MaxTime \/ \E c \in Cpu : now < chip[c]
    /\ now' = now + 1
    /\ UNCHANGED <<mode, chip, stage, seen, op, eventVars, begun, credit>>

Handler(c) ==
    HandlerLook(c) \/ HandlerStop(c) \/ HandlerReturn(c) \/ HandlerExit(c)
Operate(c, l) ==
    \/ \E e \in Event, duration \in Duration : Start(c, l, e, duration)
    \/ StartLocked(c, l)
    \/ \E e \in Event : Stop(c, l, e)

Next ==
    \/ \E c \in Cpu :
         \/ \E l \in Level : Operate(c, l)
         \/ Interrupt(c) \/ Handler(c) \/ TimerStart(c) \/ TimerStop(c)
    \/ Tick

(* Time goes on, an interrupt of the clock chip is taken, and its handler, *)
(* which threads cannot stop, runs to its end.                             *)
Fairness ==
    /\ WF_vars(Tick)
    /\ \A c \in Cpu : /\ WF_vars(Interrupt(c)) /\ WF_vars(Handler(c))
                      /\ WF_vars(StartLocked(c, "irq"))

Spec == Init /\ [][Next]_vars /\ Fairness

-----------------------------------------------------------------------------
TypeOK ==
    /\ now \in Nat
    /\ mode \in [Cpu -> {"unused", "oneshot", "shutdown"}]
    /\ chip \in [Cpu -> Nat \cup {Never}]
    /\ event_list \in [Cpu -> Seq(Event)]
    /\ stage \in [Cpu -> {"off", "look", "stop", "callback"}]
    /\ seen \in [Cpu -> [event : Event \cup {None}, again : BOOLEAN]]
    /\ op \in [Cpu -> [Level -> Op]]
    /\ expiry_tstamp \in [Event -> 0 .. MaxTime]
    /\ active_state \in [Event -> BOOLEAN] /\ active_hcpu \in [Event -> Cpu]
    /\ begun \in 0 .. MaxStarts /\ credit \in [Event -> 0 .. MaxStarts]

(* The list of a host CPU links every event that is active there, once,    *)
(* and is sorted by expiry, however events move between host CPUs.         *)
ListsAgree ==
    TypeOK /\ \A c \in Cpu :
        LET list == event_list[c] IN
        /\ Once(list) /\ Linked(list) = {e \in Event : active_state[e] /\ active_hcpu[e] = c}
        /\ \A i, j \in DOMAIN list : i < j => expiry_tstamp[list[i]] <= expiry_tstamp[list[j]]

(* A host CPU with active events that is not in its handler has its clock  *)
(* chip programmed, no later than its first event needs: no expiry waits   *)
(* for an unrelated interrupt (__timer_schedule_next_event gives up while  *)
(* events are processed and relies on the end of the handler).             *)
FirstArmed ==
    \A c \in Cpu :
        mode[c] = "oneshot" /\ stage[c] = "off" /\ event_list[c] # << >>
        => chip[c] # Never /\ chip[c] <= Max({now, expiry_tstamp[Head(event_list[c])]}) + MinDelta

(* The handler of an event is called at most once for each start of it,    *)
(* also when two host CPUs find it expired at the same time.               *)
OncePerStart ==
    \A e \in Event :
        Cardinality({c \in Cpu : stage[c] = "stop" /\ seen[c].event = e}) <= credit[e]

(* The handler says "Stop expired active event" and has dropped the lock   *)
(* of the list: it takes away an event that has not expired only if that   *)
(* was started again since the look.                                       *)
StopsExpired ==
    \A c \in Cpu :
        LET e == seen[c].event IN
        stage[c] = "stop" /\ active_state[e] /\ ~seen[c].again
        => expiry_tstamp[e] <= now /\ active_hcpu[e] = c

(* An active event of a host CPU with a running timer is not forgotten:    *)
(* in time its handler is called, or it is stopped, or it is started on a  *)
(* host CPU whose timer does not run.                                      *)
EventHandled ==
    \A e \in Event :
        active_state[e] /\ mode[active_hcpu[e]] = "oneshot"
        ~> ~active_state[e] \/ mode[active_hcpu[e]] # "oneshot"
=============================================================================
