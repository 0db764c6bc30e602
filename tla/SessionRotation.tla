--------------------------- MODULE SessionRotation ---------------------------
(***************************************************************************)
(* The life of the recording sessions of a session daemon: the client      *)
(* thread runs commands (SessionCommands), the timer thread turns timer    *)
(* signals into jobs (timer.c), the rotation thread runs the jobs and      *)
(* handles the consumed size notifications (rotation-thread.c, rotate.c).  *)
(*                                                                         *)
(* A thread that holds the session list lock is alone in changing the      *)
(* sessions, but for the references the timer thread takes, which commute  *)
(* with everything it does.  So what it does is one step, except where it  *)
(* stops a timer and waits for the timer thread (timer_stop).              *)
(*                                                                         *)
(* The sessions all have the same name: one is created once the last one   *)
(* is destroyed, though not necessarily released.                          *)
(***************************************************************************)
EXTENDS SessionCommands, Integers, Sequences, Functions

CONSTANTS
    MaxSessions,            \* sessions created (bound)
    PipeSize,               \* bytes the wake-up pipe of the job queue holds
    MaxNotifications        \* notifications waiting in the channel (bound)

ASSUME RotationAssumption ==
    /\ MaxSessions \in Nat \ {0}
    /\ PipeSize \in Nat \ {0, 1}
    /\ MaxNotifications \in Nat

Sessions == 1 .. MaxSessions

\* The timers of a session, the signals they send, the jobs those become.
CHECK_PENDING_ROTATION == "check"
SCHEDULED_ROTATION == "scheduled"
Timers == {CHECK_PENDING_ROTATION, SCHEDULED_ROTATION} \X Sessions

VARIABLES
    session,        \* the sessions
    armed,          \* the timers that may still expire
    signals,        \* the timer signals that are pending
    handling,       \* the one the timer thread is handling, or none
    list,           \* queue->list, the jobs
    event_pipe,     \* bytes in the queue's pipe
    client,         \* the command that stops a timer: <<command, session>>
    rotation,       \* what the rotation thread does, and its job
    stopping,       \* where the thread that stops a timer is; "qs" from the
                    \* QS signal being sent until timer_signal.qs_done is set
    notifications,  \* consumed size notifications to the rotation thread
    aborted         \* why the daemon died

timers == <<armed, signals, handling>>
queue == <<list, event_pipe>>
threads == <<client, rotation, stopping>>
vars == <<session, timers, queue, threads, notifications, aborted>>

Idle == <<>>

Init ==
    /\ session = [s \in Sessions |-> NewSession]
    /\ armed = {} /\ signals = {} /\ handling = {}
    /\ list = <<>> /\ event_pipe = 0
    /\ client = Idle /\ rotation = [pc |-> "poll", job |-> Idle]
    /\ stopping = "no"
    /\ notifications = <<>> /\ aborted = {}

\* The session that session_find_by_name finds.
Live == {s \in Sessions : session[s].status = "live"}

ListLockFree == client = Idle /\ rotation.pc # "stop"

\* The session is now "se"; the timers it has just enabled are armed.
Becomes(s, se) ==
    /\ session' = [session EXCEPT ![s] = se]
    /\ armed' = armed
        \cup {t \in {<<CHECK_PENDING_ROTATION, s>>} :
                se.check_timer /\ ~session[s].check_timer}
        \cup {t \in {<<SCHEDULED_ROTATION, s>>} :
                se.schedule_timer /\ ~session[s].schedule_timer}
    /\ UNCHANGED <<signals, handling>>

\* An assertion, or the first access through a null pointer.
Asserts(condition, why) == aborted' = IF condition THEN aborted ELSE aborted \cup {why}

-----------------------------------------------------------------------------
\* timer_stop.  The thread that holds the list lock deletes the timer, waits
\* until no signal of that kind is pending, sends the QS signal and waits for
\* the timer thread to have handled it.

\* A signal that the deleted timer has already sent may be lost with it.
timer_delete(t) ==
    /\ armed' = armed \ {t}
    /\ stopping' = "drain"
    /\ signals' \in {signals, signals \ {t}}
    /\ UNCHANGED handling

StoppedTimer == IF client # Idle THEN SCHEDULED_ROTATION ELSE CHECK_PENDING_ROTATION

\* Mutant: the thread does not wait for the handler that is running.
DrainOnly ==
    /\ stopping = "drain"
    /\ \A t \in signals : t[1] # StoppedTimer
    /\ stopping' = "done"
    /\ UNCHANGED <<session, timers, queue, client, rotation, notifications, aborted>>

timer_signal_thread_qs ==
    /\ stopping = "drain"
    /\ \A t \in signals : t[1] # StoppedTimer
    /\ stopping' = "qs"
    /\ UNCHANGED <<session, timers, queue, client, rotation, notifications, aborted>>

-----------------------------------------------------------------------------
\* The timer thread, and the timers.

\* The check timer is one-shot.  A timer has at most one signal pending.
TimerExpires(t) ==
    /\ t \in armed
    /\ signals' = signals \cup {t}
    /\ armed' = IF t[1] = CHECK_PENDING_ROTATION THEN armed \ {t} ELSE armed
    /\ UNCHANGED <<session, handling, queue, threads, notifications, aborted>>

\* sigwaitinfo returns the pending signal of lowest number: QS, check, scheduled.
sigwaitinfo(t) ==
    /\ handling = {}
    /\ stopping # "qs"
    /\ t \in signals
    /\ t[1] = SCHEDULED_ROTATION => \A u \in signals : u[1] = SCHEDULED_ROTATION
    /\ signals' = signals \ {t}
    /\ handling' = {t}
    /\ UNCHANGED <<session, armed, queue, threads, notifications, aborted>>

HandleQuiescentState ==
    /\ handling = {}
    /\ stopping = "qs"
    /\ stopping' = "done"
    /\ UNCHANGED <<session, timers, queue, client, rotation, notifications, aborted>>

timer_job_exists(t) == t \in Range(list)

\* Mutant: the job does not take a reference.
EnqueueNoReference(t) ==
    /\ handling = {t}
    /\ handling' = {}
    /\ IF timer_job_exists(t) THEN UNCHANGED <<session, queue>>
       ELSE /\ list' = Append(list, t)
            /\ event_pipe' = IF event_pipe = PipeSize THEN event_pipe ELSE event_pipe + 1
            /\ UNCHANGED session
    /\ UNCHANGED <<armed, signals, threads, notifications, aborted>>

\* The write to a full pipe fails, which is ignored.
rotation_thread_enqueue_job(t) ==
    /\ handling = {t}
    /\ handling' = {}
    /\ IF timer_job_exists(t) THEN UNCHANGED <<session, queue>>
       ELSE /\ session' = [session EXCEPT ![t[2]] = session_get(@)]
            /\ list' = Append(list, t)
            /\ event_pipe' = IF event_pipe = PipeSize THEN event_pipe ELSE event_pipe + 1
    /\ UNCHANGED <<armed, signals, threads, notifications, aborted>>

-----------------------------------------------------------------------------
\* The client thread.  It finds the session by name and holds a reference to
\* it during the command.

Command(s) == ListLockFree /\ s \in Live

\* The list's reference; the one of the creating command is put.
session_create(s) ==
    /\ ListLockFree
    /\ Live = {}
    /\ session[s].status = "unborn"
    /\ \A r \in Sessions : r < s => session[r].status # "unborn"
    /\ session' = [session EXCEPT ![s].status = "live", ![s].ref = 1]
    /\ UNCHANGED <<timers, queue, threads, notifications, aborted>>

Runs(s, outcomes) ==
    /\ Command(s)
    /\ \E o \in outcomes : Becomes(s, o.session)
    /\ UNCHANGED <<queue, threads, notifications, aborted>>

Start(s) == ~session[s].active /\ Runs(s, cmd_start_trace(session[s]))

Stop(s) == session[s].active /\ Runs(s, {Outcome("ok", cmd_stop_trace(session[s]))})

Rotate(s) == Runs(s, Within(cmd_rotate_session(session[s], MOVE_TO_COMPLETED)))

Clear(s) == Runs(s, cmd_clear_session(session[s]))

\* cmd_rotation_set_schedule, periodic: the timer runs while the session is
\* active, and goes on when it is stopped.
ActivatePeriod(s) ==
    /\ ~session[s].rotate_timer_period
    /\ LET set == [session[s] EXCEPT !.rotate_timer_period = TRUE]
       IN  Runs(s, {Outcome("ok",
                IF set.active THEN timer_session_rotation_schedule_timer_start(set)
                ELSE set)})

DeactivatePeriod(s) ==
    /\ Command(s)
    /\ session[s].rotate_timer_period
    /\ LET set == [session[s] EXCEPT !.rotate_timer_period = FALSE]
       IN  IF set.schedule_timer
           THEN /\ session' = [session EXCEPT ![s] = session_get(set)]
                /\ client' = <<"set_schedule", s>>
                /\ timer_delete(<<SCHEDULED_ROTATION, s>>)
           ELSE /\ session' = [session EXCEPT ![s] = set]
                /\ UNCHANGED <<timers, client, stopping>>
    /\ UNCHANGED <<queue, rotation, notifications, aborted>>

\* The timer's reference and the command's are put.
timer_session_rotation_schedule_timer_stop(se) ==
    session_put([se EXCEPT !.schedule_timer = FALSE])

DeactivatePeriodEnd(s) ==
    /\ client = <<"set_schedule", s>>
    /\ stopping = "done"
    /\ session' = [session EXCEPT ![s] =
            session_put(timer_session_rotation_schedule_timer_stop(@))]
    /\ client' = Idle /\ stopping' = "no"
    /\ UNCHANGED <<timers, queue, rotation, notifications, aborted>>

\* cmd_rotation_set_schedule, size.
ActivateSize(s) ==
    /\ Command(s)
    /\ ~session[s].rotate_size
    /\ Asserts(session[s].rotate_trigger = None, "subscribed")
    /\ session' = [session EXCEPT ![s].rotate_size = TRUE,
                                  ![s].rotate_trigger = RotateSize]
    /\ UNCHANGED <<timers, queue, threads, notifications>>

unsubscribe_session_consumed_size_rotation(se) == [se EXCEPT !.rotate_trigger = None]

DeactivateSize(s) ==
    /\ Command(s)
    /\ session[s].rotate_size
    /\ Asserts(session[s].rotate_trigger # None, "unsubscribe")
    /\ session' = [session EXCEPT ![s] =
            [unsubscribe_session_consumed_size_rotation(@) EXCEPT !.rotate_size = FALSE]]
    /\ UNCHANGED <<timers, queue, threads, notifications>>

-----------------------------------------------------------------------------
\* Destroying a session.

\* The end of cmd_destroy_session and of the command: the last rotation, then
\* the references of the list and of the command are put.
LastRotation(se) ==
    IF se.current_trace_chunk = None THEN {Outcome("ok", se)}
    ELSE cmd_rotate_session(se, IF se.rotated THEN MOVE_TO_COMPLETED ELSE NO_OPERATION)

Destroyed(s, se, held) ==
    \E o \in LastRotation(unsubscribe_session_consumed_size_rotation(
                            [se EXCEPT !.rotate_size = FALSE])) :
        LET listed == [o.session EXCEPT !.status = "destroyed"]
            gone == IF held THEN session_put(session_put(listed)) ELSE session_put(listed)
        IN  /\ Becomes(s, gone)
            /\ aborted' = aborted
                \cup {why \in {"unsubscribe"} : se.rotate_size /\ se.rotate_trigger = None}
                \cup {why \in {"released"} : gone.status = "freed"
                                             /\ gone.chunk_being_archived # None}

cmd_destroy_session(s) ==
    /\ Command(s)
    /\ LET stopped == cmd_stop_trace(session[s])
       IN  IF stopped.schedule_timer
           THEN /\ session' = [session EXCEPT ![s] = session_get(stopped)]
                /\ client' = <<"destroy", s>>
                /\ timer_delete(<<SCHEDULED_ROTATION, s>>)
                /\ UNCHANGED aborted
           ELSE /\ Destroyed(s, stopped, FALSE)
                /\ UNCHANGED <<client, stopping>>
    /\ UNCHANGED <<queue, rotation, notifications>>

DestroyEnd(s) ==
    /\ client = <<"destroy", s>>
    /\ stopping = "done"
    /\ Destroyed(s, timer_session_rotation_schedule_timer_stop(session[s]), TRUE)
    /\ client' = Idle /\ stopping' = "no"
    /\ UNCHANGED <<queue, rotation, notifications>>

-----------------------------------------------------------------------------
\* The rotation thread.

RotationAt(from, to) == rotation.pc = from /\ rotation' = [rotation EXCEPT !.pc = to]

PollQueue ==
    /\ event_pipe > 0
    /\ RotationAt("poll", "jobs")
    /\ UNCHANGED <<session, timers, queue, client, stopping, notifications, aborted>>

\* handle_job_queue takes the queue's lock only to pop a job.
PopJob ==
    /\ rotation.pc = "jobs"
    /\ list # <<>>
    /\ rotation' = [pc |-> "lock", job |-> Head(list)]
    /\ list' = Tail(list)
    /\ UNCHANGED <<session, timers, event_pipe, client, stopping, notifications, aborted>>

\* One byte is read for each time the queue was found empty.
QueueEmpty ==
    /\ rotation.pc = "jobs"
    /\ list = <<>>
    /\ rotation' = [rotation EXCEPT !.pc = "read"]
    /\ UNCHANGED <<session, timers, queue, client, stopping, notifications, aborted>>

ReadPipe ==
    /\ RotationAt("read", IF event_pipe = 0 THEN "dead" ELSE "poll")
    /\ event_pipe' = IF event_pipe = 0 THEN 0 ELSE event_pipe - 1
    /\ UNCHANGED <<session, timers, list, client, stopping, notifications, aborted>>

\* The job's reference is put.
JobDone(s, se) ==
    LET put == session_put(se)
    IN  /\ Becomes(s, put)
        /\ rotation' = [pc |-> "jobs", job |-> Idle]
        /\ Asserts(put.status # "freed" \/ put.chunk_being_archived = None, "released")

launch_session_rotation(s) ==
    /\ rotation = [pc |-> "lock", job |-> <<SCHEDULED_ROTATION, s>>]
    /\ ListLockFree
    /\ \E o \in cmd_rotate_session(session[s], MOVE_TO_COMPLETED) : JobDone(s, o.session)
    /\ UNCHANGED <<queue, client, stopping, notifications>>

check_session_rotation_pending(s) ==
    /\ rotation = [pc |-> "lock", job |-> <<CHECK_PENDING_ROTATION, s>>]
    /\ ListLockFree
    /\ IF session[s].chunk_being_archived = None
       THEN /\ JobDone(s, session[s])
            /\ UNCHANGED stopping
       ELSE /\ Asserts(session[s].check_timer, "check_timer")
            /\ rotation' = [rotation EXCEPT !.pc = "stop"]
            /\ timer_delete(<<CHECK_PENDING_ROTATION, s>>)
            /\ UNCHANGED session
    /\ UNCHANGED <<queue, client, notifications>>

\* Mutant: the timer's reference is not put.
StopKeepsReference(se) == [se EXCEPT !.check_timer = FALSE]

timer_session_rotation_pending_check_stop(se) ==
    session_put([se EXCEPT !.check_timer = FALSE])

\* Mutant: the chunk is not looked up.
CompletedAtOnce(se) == {session_reset_rotation_state(se, "completed")}

\* Mutant: the one-shot timer is not armed again.
CheckedOnce(se) ==
    {IF se.chunk_being_archived \in se.on_consumers THEN se
     ELSE session_reset_rotation_state(se, "completed")}

\* What the consumers say of the chunk, and what it makes of the rotation.
check_session_rotation_pending_on_consumers(se) ==
    {IF se.chunk_being_archived \in se.on_consumers
     THEN timer_session_rotation_pending_check_start(se)
     ELSE session_reset_rotation_state(se, "completed")}
    \cup {session_reset_rotation_state(se, "error") : f \in Faults \cap {"check"}}

CheckEnd(s) ==
    /\ rotation = [pc |-> "stop", job |-> <<CHECK_PENDING_ROTATION, s>>]
    /\ stopping = "done"
    /\ \E se \in check_session_rotation_pending_on_consumers(
                    timer_session_rotation_pending_check_stop(session[s])) :
            /\ session' = [session EXCEPT ![s] = session_put(se)]
            /\ armed' = armed \cup {t \in {<<CHECK_PENDING_ROTATION, s>>} : se.check_timer}
            /\ Asserts(se.ref # 1 \/ se.chunk_being_archived = None, "released")
    /\ rotation' = [pc |-> "jobs", job |-> Idle]
    /\ stopping' = "no"
    /\ UNCHANGED <<signals, handling, queue, client, notifications>>

\* The session is found by name, which a later session may have.  The trigger
\* of a session without a size schedule is null.
Harmless == {"ok", "rotation_pending", "rotation_multiple_after_stop",
             "rotation_after_stop_clear", "bound"}

handle_condition ==
    /\ rotation.pc = "poll"
    /\ ListLockFree
    /\ notifications # <<>>
    /\ notifications' = Tail(notifications)
    /\ LET n == Head(notifications) IN
       \/ /\ \A s \in Live : session[s].rotate_trigger \notin {None, n.threshold}
          /\ UNCHANGED <<session, timers, rotation, aborted>>
       \/ \E s \in Live :
            /\ session[s].rotate_trigger = None
            /\ Asserts(FALSE, "comparison")
            /\ UNCHANGED <<session, timers, rotation>>
       \/ \E s \in Live :
            /\ session[s].rotate_trigger = n.threshold
            /\ \E o \in cmd_rotate_session(
                        unsubscribe_session_consumed_size_rotation(session[s]),
                        MOVE_TO_COMPLETED) :
                IF o.ret \in Harmless
                THEN /\ Becomes(s, [o.session EXCEPT
                                !.rotate_trigger = n.consumed + RotateSize])
                     /\ UNCHANGED rotation
                ELSE /\ Becomes(s, o.session)
                     /\ rotation' = [rotation EXCEPT !.pc = "dead"]
            /\ UNCHANGED aborted
    /\ UNCHANGED <<queue, client, stopping>>

-----------------------------------------------------------------------------
\* The consumer daemons and the notification thread (external).

\* The last user of the closed chunk releases it, and its close command runs.
ConsumerReleasesChunk(s) ==
    /\ session[s].chunk_being_archived \in session[s].on_consumers
    /\ session' = [session EXCEPT ![s].on_consumers =
                        @ \ {session[s].chunk_being_archived}]
    /\ UNCHANGED <<timers, queue, threads, notifications, aborted>>

\* A notification is sent when the consumed size passes the threshold.
Consumes(s) ==
    /\ session[s].status \in {"live", "destroyed"}
    /\ session[s].has_been_started
    /\ session[s].consumed < MaxConsumed
    /\ Len(notifications) < MaxNotifications
    /\ session' = [session EXCEPT ![s].consumed = @ + 1]
    /\ notifications' =
        IF session[s].rotate_trigger = session[s].consumed + 1
        THEN Append(notifications, [threshold |-> session[s].rotate_trigger,
                                    consumed |-> session[s].consumed + 1])
        ELSE notifications
    /\ UNCHANGED <<timers, queue, threads, aborted>>

-----------------------------------------------------------------------------
HandleSignal == \E t \in Timers : sigwaitinfo(t) \/ rotation_thread_enqueue_job(t)

Client(s) ==
    \/ session_create(s) \/ Start(s) \/ Stop(s) \/ Rotate(s) \/ Clear(s)
    \/ ActivatePeriod(s) \/ DeactivatePeriod(s)
    \/ ActivateSize(s) \/ DeactivateSize(s)
    \/ cmd_destroy_session(s)

ClientEnd(s) == DeactivatePeriodEnd(s) \/ DestroyEnd(s)

RunJob(s) == launch_session_rotation(s) \/ check_session_rotation_pending(s)

\* What the rotation thread does without waiting for the list lock.
JobQueue == PollQueue \/ PopJob \/ QueueEmpty \/ ReadPipe \/ \E s \in Sessions : CheckEnd(s)

\* Nothing happens once the daemon has died.
Next ==
    /\ aborted = {}
    /\ \/ timer_signal_thread_qs
       \/ HandleQuiescentState
       \/ HandleSignal
       \/ JobQueue
       \/ handle_condition
       \/ \E t \in Timers : TimerExpires(t)
       \/ \E s \in Sessions : \/ Client(s) \/ ClientEnd(s) \/ RunJob(s)
                              \/ Consumes(s) \/ ConsumerReleasesChunk(s)

Spec == Init /\ [][Next]_vars

\* Threads go on, timers expire, and a consumer daemon is done with a closed
\* chunk in the end.  Commands that go on forever do not keep the rotation
\* thread from the list lock, nor the timer thread from a signal that is
\* pending whenever it has handled their QS.
Fairness ==
    /\ WF_vars(aborted = {} /\ timer_signal_thread_qs)
    /\ WF_vars(aborted = {} /\ HandleQuiescentState)
    /\ SF_vars(aborted = {} /\ HandleSignal)
    /\ WF_vars(aborted = {} /\ JobQueue)
    /\ \A t \in Timers : WF_vars(aborted = {} /\ TimerExpires(t))
    /\ \A s \in Sessions : /\ WF_vars(aborted = {} /\ ClientEnd(s))
                          /\ SF_vars(aborted = {} /\ RunJob(s))
                          /\ WF_vars(aborted = {} /\ ConsumerReleasesChunk(s))

FairSpec == Spec /\ Fairness

-----------------------------------------------------------------------------
TypeOK ==
    /\ session \in [Sessions -> ltt_session]
    /\ armed \subseteq Timers
    /\ signals \subseteq Timers
    /\ handling \subseteq Timers /\ Cardinality(handling) <= 1
    /\ list \in Seq(Timers)
    /\ event_pipe \in 0 .. PipeSize
    /\ client = Idle \/ client \in {"set_schedule", "destroy"} \X Sessions
    /\ rotation \in [pc: {"poll", "jobs", "lock", "stop", "read", "dead"},
                     job: Timers \cup {Idle}]
    /\ stopping \in {"no", "drain", "qs", "done"}
    /\ \A i \in DOMAIN notifications :
            notifications[i] \in [threshold: 1 .. MaxConsumed, consumed: 1 .. MaxConsumed]
    /\ aborted \subseteq {"comparison", "unsubscribe", "subscribed", "check_timer", "released"}

\* Who holds a reference to the session: the list, its timers, the jobs, the
\* rotation thread for its job, and the command that is running.
References(s) ==
    LET Count(b) == IF b THEN 1 ELSE 0
    IN  Count(session[s].status = "live")
        + Count(session[s].check_timer) + Count(session[s].schedule_timer)
        + Cardinality({t \in Range(list) : t[2] = s})
        + Count(rotation.job # Idle /\ rotation.job[2] = s)
        + Count(client # Idle /\ client[2] = s)

\* Every reference to a session is held by something that will put it, so that
\* a destroyed session is not leaked; and whatever may still reach the session
\* (a timer, a pending signal, the handler that is running) belongs to a timer
\* that holds one, so that it is not used once it is freed
\* (timer.c, rotation_thread_enqueue_job).
ReferencesAreExact ==
    \A s \in Sessions :
        /\ session[s].ref = References(s)
        /\ \A t \in armed \cup signals \cup handling :
                t[2] = s => IF t[1] = CHECK_PENDING_ROTATION
                            THEN session[s].check_timer ELSE session[s].schedule_timer

\* The assertions of the commands and of the rotation thread hold: the check
\* timer is enabled whenever a check has a chunk to look for, a session is not
\* released with a chunk being archived, and it has at most one trigger.
\* There are two exceptions.  handle_condition compares a notification with the
\* trigger of a session that has no size schedule, which is null
\* (rotation-thread.c:712).  And a size rotation that fails ends the rotation
\* thread with the trigger removed and the size still set: the command that
\* unsets the size, or destroys the session, does not find the trigger it
\* asserts (rotate.c:149).
AssertionsHold ==
    /\ aborted \subseteq {"comparison", "unsubscribe"}
    /\ "comparison" \in aborted => \E s \in Live : ~session[s].rotate_size
    /\ "unsubscribe" \in aborted => rotation.pc = "dead"

\* A rotation that a client is told is completed has left the consumer daemons,
\* and from then on the client is told so until a later rotation makes the
\* answer "expired", or "error" if it could not be launched; never again that
\* it is ongoing or unknown (cmd_rotate_get_info).
CompletedRotationsStand ==
    [][\A s \in Sessions, c \in Chunks :
        /\ /\ cmd_rotate_get_info(session[s], c) = "ongoing"
           /\ cmd_rotate_get_info(session'[s], c) = "completed"
           => c \notin session[s].on_consumers
        /\ /\ cmd_rotate_get_info(session[s], c) = "completed"
           /\ session'[s].status # "freed"
           => cmd_rotate_get_info(session'[s], c) \in {"completed", "expired", "error"}]_vars

\* The daemon is dead, or its rotation thread has given up.
Down == aborted # {} \/ rotation.pc = "dead"

\* A rotation ends: the one-shot timer is armed again after every check that
\* finds the chunk on a consumer (check_session_rotation_pending).
RotationEnds ==
    \A s \in Sessions : session[s].rotation_state = "ongoing"
                            ~> session[s].rotation_state # "ongoing" \/ Down

\* A destroyed session is released, which is when the client is answered and
\* what the daemon waits for to exit (session_list_wait_empty).
DestroyedIsReleased ==
    \A s \in Sessions : session[s].status = "destroyed"
                            ~> session[s].status = "freed" \/ Down

\* A reply to a clear that waits for the end of a rotation waits for the one
\* that deletes the chunk that was current when the command was received
\* (cmd_clear_session, session_reset_rotation_state).
ClearWaitsForItsRotation ==
    \A s \in Sessions, c \in Chunks :
        c \in session[s].clear_notifiers =>
            /\ session[s].chunk_being_archived = c
            /\ session[s].close_command = DELETE

=============================================================================
