----------------------- MODULE SessionRotationProofs -----------------------
(***************************************************************************)
(* Proofs about SessionRotation, for any number of sessions and chunks and *)
(* any faults: the references to a session are exact, the assertions of    *)
(* the session daemon hold, and a client that is told that a rotation is   *)
(* completed is told the truth from then on.                               *)
(***************************************************************************)
EXTENDS SessionRotation, FiniteSetTheorems, TLAPS

Count(b) == IF b THEN 1 ELSE 0

\* The fields of a session, which EXCEPT keeps.
Fields ==
    {"status", "ref", "active", "tracing", "has_been_started", "rotated",
     "rotated_after_last_stop", "cleared_after_last_stop",
     "current_trace_chunk", "chunk_being_archived", "most_recent_chunk_id",
     "last_archived_chunk_id", "rotation_state", "check_timer",
     "schedule_timer", "rotate_timer_period", "rotate_size",
     "rotate_trigger", "consumed", "on_consumers", "close_command",
     "clear_notifiers"}

\* A session that exists.
Usable(se) == se.status \notin {"unborn", "freed"}

\* What is known of a session by itself: the check timer is enabled exactly
\* while a chunk is being archived, and a rotation is ongoing then; a session
\* with a trigger has a size schedule.
SessionInv(se) ==
    /\ se = [f \in Fields |-> se[f]]
    /\ se.ref \in Nat
    /\ se.consumed \in Nat
    /\ se.check_timer \in BOOLEAN /\ se.schedule_timer \in BOOLEAN
    /\ se.rotate_timer_period \in BOOLEAN /\ se.rotate_size \in BOOLEAN
    /\ se.check_timer <=> se.chunk_being_archived # None
    /\ se.check_timer => se.rotation_state = "ongoing"
    /\ se.rotate_trigger # None => se.rotate_size
    /\ ~Usable(se) => se.ref = 0

\* The references a session's own fields stand for, and those held elsewhere.
Own(se) == Count(se.status = "live") + Count(se.check_timer) + Count(se.schedule_timer)

Queued(q, s) == Count(<<CHECK_PENDING_ROTATION, s>> \in Range(q))
                + Count(<<SCHEDULED_ROTATION, s>> \in Range(q))

HeldByJob(r, s) == Count(r.job # Idle /\ r.job[2] = s)
HeldByClient(c, s) == Count(c # Idle /\ c[2] = s)

Enabled(se, kind) ==
    IF kind = CHECK_PENDING_ROTATION THEN se.check_timer ELSE se.schedule_timer

SessionsInv ==
    /\ session = [s \in Sessions |-> session[s]]
    /\ \A s \in Sessions : SessionInv(session[s])

RefInv ==
    \A s \in Sessions :
        session[s].ref = Own(session[s]) + Queued(list, s)
                         + HeldByJob(rotation, s) + HeldByClient(client, s)

\* A period is set as long as its timer runs, but while that is being stopped.
PeriodInv ==
    \A s \in Sessions :
        session[s].schedule_timer =>
            session[s].rotate_timer_period \/ client = <<"set_schedule", s>>

TimerInv ==
    /\ armed \cup signals \cup handling \subseteq Timers
    /\ \A t \in armed \cup signals \cup handling : Enabled(session[t[2]], t[1])

\* A job is in the queue at most once.
QueueInv ==
    /\ list \in Seq(Timers)
    /\ \A i, j \in 1 .. Len(list) : list[i] = list[j] => i = j

\* The client and the rotation thread do not both stop a timer.
ThreadInv ==
    /\ client = Idle \/ client \in {"set_schedule", "destroy"} \X Sessions
    /\ rotation = [pc |-> rotation.pc, job |-> rotation.job]
    /\ rotation.pc \in {"poll", "jobs", "lock", "stop", "read", "dead"}
    /\ IF rotation.pc \in {"lock", "stop"} THEN rotation.job \in Timers ELSE rotation.job = Idle
    /\ rotation.pc = "stop" => rotation.job[1] = CHECK_PENDING_ROTATION /\ client = Idle
    /\ stopping \in {"no", "drain", "qs", "done"}
    /\ stopping = "no" <=> ListLockFree

\* The timer that is being stopped.
Stopped == IF client # Idle THEN <<SCHEDULED_ROTATION, client[2]>> ELSE rotation.job

\* The timer that is being stopped is enabled until it is, has no more expiry,
\* then no signal, and then no handler; the command's session is in the list.
StopInv ==
    stopping # "no" =>
        /\ client # Idle => session[client[2]].status = "live"
        /\ Enabled(session[Stopped[2]], Stopped[1])
        /\ Stopped \notin armed
        /\ stopping \in {"qs", "done"} => Stopped \notin signals
        /\ stopping = "done" => Stopped \notin handling

NotificationInv == notifications \in Seq([threshold: Nat \ {0}, consumed: Nat])

\* The assertions that may fail are those of the exceptions of AssertionsHold.
AbortInv == aborted \subseteq {"comparison", "unsubscribe"}

IInv ==
    /\ SessionsInv /\ RefInv /\ PeriodInv /\ TimerInv /\ QueueInv
    /\ ThreadInv /\ StopInv /\ NotificationInv /\ AbortInv

-----------------------------------------------------------------------------
(* What a command does to a session. *)

\* The references change with the timers that the session has enabled, no
\* timer is disabled, one is enabled only for a period, and the size schedule
\* stays.
GrowsButTrigger(a, b) ==
    /\ b.status = a.status
    /\ b.ref + Own(a) = a.ref + Own(b)
    /\ a.check_timer => b.check_timer
    /\ a.schedule_timer => b.schedule_timer
    /\ b.schedule_timer => a.schedule_timer \/ b.rotate_timer_period
    /\ a.rotate_timer_period => b.rotate_timer_period
    /\ b.rotate_size = a.rotate_size

Grows(a, b) == GrowsButTrigger(a, b) /\ b.rotate_trigger = a.rotate_trigger

\* The fields the invariant is about are the same, but for rotation_state.
AlikeButState(a, b) ==
    /\ b = [f \in Fields |-> b[f]]
    /\ b.status = a.status /\ b.ref = a.ref
    /\ b.check_timer = a.check_timer /\ b.schedule_timer = a.schedule_timer
    /\ b.chunk_being_archived = a.chunk_being_archived
    /\ b.rotate_timer_period = a.rotate_timer_period
    /\ b.rotate_size = a.rotate_size /\ b.rotate_trigger = a.rotate_trigger
    /\ b.consumed = a.consumed

Alike(a, b) == AlikeButState(a, b) /\ b.rotation_state = a.rotation_state

LEMMA OwnIsNat ==
    ASSUME NEW se
    PROVE  Own(se) \in Nat
  BY DEF Own, Count

LEMMA AlikeGrows ==
    ASSUME NEW a, NEW b, SessionInv(a), AlikeButState(a, b),
           Alike(a, b) \/ ~a.check_timer
    PROVE  SessionInv(b) /\ Grows(a, b)
<1>1. SessionInv(b)
  BY DEF Usable, SessionInv, Alike, AlikeButState
<1>2. Own(a) = Own(b)
  BY DEF Usable, Own, AlikeButState
<1> QED
  BY <1>1, <1>2, OwnIsNat DEF Usable, Grows, GrowsButTrigger, AlikeButState, SessionInv

LEMMA GrowsButTriggerTransitive ==
    ASSUME NEW a, NEW b, NEW c, SessionInv(a), SessionInv(b), SessionInv(c),
           GrowsButTrigger(a, b), GrowsButTrigger(b, c)
    PROVE  GrowsButTrigger(a, c)
  BY OwnIsNat DEF Usable, GrowsButTrigger, SessionInv

LEMMA GrowsTransitive ==
    ASSUME NEW a, NEW b, NEW c, SessionInv(a), SessionInv(b), SessionInv(c),
           Grows(a, b), Grows(b, c)
    PROVE  Grows(a, c)
  BY GrowsButTriggerTransitive DEF Grows

\* The operators of a rotation, until it has begun or when it fails.
LEMMA RotationAlike ==
    ASSUME NEW a, NEW b, NEW new, NEW command, NEW result, NEW after, NEW state,
           a.chunk_being_archived = None, AlikeButState(a, b)
    PROVE  /\ AlikeButState(a, session_set_trace_chunk(b, new))
           /\ AlikeButState(a, session_close_trace_chunk(b, command))
           /\ AlikeButState(a, session_reset_rotation_state(b, result))
           /\ AlikeButState(a, [b EXCEPT !.close_command = command])
           /\ AlikeButState(a, [b EXCEPT !.current_trace_chunk = None])
           /\ AlikeButState(a, [b EXCEPT !.rotated_after_last_stop = after])
           /\ AlikeButState(a, [b EXCEPT !.rotation_state = state])
<1>1. /\ AlikeButState(a, [b EXCEPT !.close_command = command])
      /\ AlikeButState(a, [b EXCEPT !.current_trace_chunk = None])
      /\ AlikeButState(a, [b EXCEPT !.rotated_after_last_stop = after])
      /\ AlikeButState(a, [b EXCEPT !.rotation_state = state])
  BY SMTT(30) DEF Usable, AlikeButState, Fields
<1>2. AlikeButState(a, session_set_trace_chunk(b, new))
  BY Zenon DEF Usable, AlikeButState, Fields, session_set_trace_chunk
<1>3. AlikeButState(a, session_close_trace_chunk(b, command))
  BY Zenon DEF Usable, AlikeButState, Fields, session_close_trace_chunk
<1>4. AlikeButState(a, session_reset_rotation_state(b, result))
  BY DEF Usable, AlikeButState, Fields, session_reset_rotation_state
<1> QED
  BY SMTT(30), <1>1, <1>2, <1>3, <1>4

LEMMA RotatedGrows ==
    ASSUME NEW se, NEW command, NEW fault,
           SessionInv(se), se.rotation_state # "ongoing", Usable(se)
    PROVE  LET o == Rotated(se, command, fault)
           IN  SessionInv(o.session) /\ Grows(se, o.session)
<1> DEFINE old == se.current_trace_chunk
           new == IF se.active THEN session_create_new_trace_chunk(se) ELSE None
           set == [session_set_trace_chunk(se, new) EXCEPT
                    !.rotated_after_last_stop = @ \/ ~se.active]
           closed == [session_close_trace_chunk(set, command) EXCEPT
                        !.rotation_state = "ongoing"]
           failed(after) == [session_reset_rotation_state(after, "error") EXCEPT
                                !.close_command = NotClosed]
           begun == [timer_session_rotation_pending_check_start(closed) EXCEPT
                        !.chunk_being_archived = old]
           o == Rotated(se, command, fault)
<1>1. ~se.check_timer /\ se.chunk_being_archived = None
  BY DEF Usable, SessionInv
<1>2. AlikeButState(se, se)
  BY DEF Usable, AlikeButState, SessionInv
<1>3. AlikeButState(se, set)
  BY Zenon, <1>1, <1>2, RotationAlike
<1>4. AlikeButState(se, closed) /\ closed.rotation_state = "ongoing"
  <2>1. AlikeButState(se, session_close_trace_chunk(set, command))
    BY Zenon, <1>1, <1>3, RotationAlike
  <2> QED
    BY Zenon, <1>1, <2>1, RotationAlike DEF Usable, AlikeButState, Fields
<1>5. ASSUME NEW after, AlikeButState(se, after)
      PROVE  AlikeButState(se, failed(after))
  BY Zenon, <1>1, <1>5, RotationAlike
<1>6. AlikeButState(se, [se EXCEPT !.current_trace_chunk = None])
  BY Zenon, <1>1, <1>2, RotationAlike
<1>7. closed = [f \in Fields |-> closed[f]] /\ closed.ref \in Nat /\ old = se.current_trace_chunk
  BY Zenon, <1>4 DEF Usable, AlikeButState, SessionInv
<1>b. \/ o = Outcome("error", failed(se))
      \/ o = Outcome("error", failed([se EXCEPT !.current_trace_chunk = None]))
      \/ o = Outcome("error", failed(IF old = None THEN set ELSE closed))
      \/ o = Outcome("ok", set)
      \/ old # None /\ o = Outcome("ok", begun)
  BY DEF Rotated
<1> HIDE DEF old, new, set, closed, o
<1>8. ASSUME old # None
      PROVE  SessionInv(begun) /\ Grows(se, begun)
  <2>1. /\ begun = [f \in Fields |-> begun[f]]
        /\ begun.status = closed.status /\ begun.ref = closed.ref + 1
        /\ begun.check_timer = TRUE /\ begun.schedule_timer = closed.schedule_timer
        /\ begun.chunk_being_archived = old
        /\ begun.rotation_state = "ongoing"
        /\ begun.rotate_timer_period = closed.rotate_timer_period
        /\ begun.rotate_size = closed.rotate_size
        /\ begun.rotate_trigger = closed.rotate_trigger
        /\ begun.consumed = closed.consumed
    BY Zenon, <1>4, <1>7 DEF Fields, timer_session_rotation_pending_check_start, session_get
  <2>a. /\ begun.status = se.status /\ begun.ref = se.ref + 1
        /\ begun.schedule_timer = se.schedule_timer
        /\ begun.rotate_timer_period = se.rotate_timer_period
        /\ begun.rotate_size = se.rotate_size
        /\ begun.rotate_trigger = se.rotate_trigger
        /\ begun.consumed = se.consumed
    BY <1>4, <2>1 DEF Usable, AlikeButState
  <2> HIDE DEF begun
  <2>2. SessionInv(begun)
    <3>1. begun.ref \in Nat /\ begun.consumed \in Nat
      BY <2>a DEF Usable, SessionInv
    <3>2. /\ begun.check_timer \in BOOLEAN /\ begun.schedule_timer \in BOOLEAN
          /\ begun.rotate_timer_period \in BOOLEAN /\ begun.rotate_size \in BOOLEAN
          /\ begun.rotate_trigger # None => begun.rotate_size
      BY Zenon, <2>1, <2>a DEF Usable, SessionInv
    <3> QED
      BY <1>8, <2>1, <2>a, <3>1, <3>2 DEF Usable, SessionInv
  <2>3. Own(begun) = Own(se) + 1
    BY <1>1, <2>1, <2>a DEF Own, Count
  <2>4. Grows(se, begun)
    <3>1. begun.ref + Own(se) = se.ref + Own(begun)
      BY <2>a, <2>3, OwnIsNat DEF Usable, SessionInv
    <3> QED
      BY <2>1, <2>a, <3>1 DEF Usable, Grows, GrowsButTrigger
  <2> QED
    BY <2>2, <2>4
<1> HIDE DEF begun, failed
<1>9. \E b : /\ o.session = b
            /\ \/ AlikeButState(se, b)
               \/ old # None /\ b = begun
  <2>1. \/ o.session = failed(se)
        \/ o.session = failed([se EXCEPT !.current_trace_chunk = None])
        \/ o.session = failed(set)
        \/ o.session = failed(closed)
        \/ o.session = set
        \/ old # None /\ o.session = begun
    BY <1>b DEF Outcome
  <2> QED
    BY <1>2, <1>3, <1>4, <1>5, <1>6, <2>1
<1> QED
  BY <1>1, <1>8, <1>9, AlikeGrows DEF o

LEMMA RotateGrows ==
    ASSUME NEW se, NEW command, SessionInv(se), Usable(se),
           NEW o \in cmd_rotate_session(se, command)
    PROVE  SessionInv(o.session) /\ Grows(se, o.session)
<1>1. CASE RotationRefusal(se) # "ok"
  <2>1. o = Outcome(RotationRefusal(se), se)
    BY <1>1 DEF cmd_rotate_session
  <2>2. o.session = se /\ Alike(se, se)
    BY <2>1 DEF Usable, Outcome, Alike, AlikeButState, SessionInv
  <2> QED
    BY <2>2, AlikeGrows DEF Usable, Alike
<1>2. CASE RotationRefusal(se) = "ok"
  <2>1. se.rotation_state # "ongoing"
    BY <1>2 DEF RotationRefusal
  <2>2. PICK fault : o = Rotated(se, command, fault)
    BY <1>2 DEF cmd_rotate_session
  <2> QED
    BY <2>1, <2>2, RotatedGrows
<1> QED
  BY <1>1, <1>2

LEMMA ScheduleGrows ==
    ASSUME NEW se, SessionInv(se), Usable(se),
           ~se.schedule_timer, se.rotate_timer_period
    PROVE  LET b == timer_session_rotation_schedule_timer_start(se)
           IN  SessionInv(b) /\ Grows(se, b)
<1> DEFINE b == timer_session_rotation_schedule_timer_start(se)
<1>1. /\ b = [f \in Fields |-> b[f]]
      /\ b.status = se.status /\ b.ref = se.ref + 1
      /\ b.check_timer = se.check_timer /\ b.schedule_timer = TRUE
      /\ b.chunk_being_archived = se.chunk_being_archived
      /\ b.rotation_state = se.rotation_state
      /\ b.rotate_timer_period = se.rotate_timer_period
      /\ b.rotate_size = se.rotate_size /\ b.rotate_trigger = se.rotate_trigger
      /\ b.consumed = se.consumed
  BY Zenon DEF Usable, SessionInv, Fields, timer_session_rotation_schedule_timer_start, session_get
<1> HIDE DEF b
<1>2. SessionInv(b)
  <2>1. b.ref \in Nat /\ b.consumed \in Nat
    BY <1>1 DEF Usable, SessionInv
  <2>2. /\ b.check_timer \in BOOLEAN /\ b.schedule_timer \in BOOLEAN
        /\ b.rotate_timer_period \in BOOLEAN /\ b.rotate_size \in BOOLEAN
        /\ b.check_timer <=> b.chunk_being_archived # None
        /\ b.check_timer => b.rotation_state = "ongoing"
        /\ b.rotate_trigger # None => b.rotate_size
    BY Zenon, <1>1 DEF Usable, SessionInv
  <2> QED
    BY <1>1, <2>1, <2>2 DEF Usable, SessionInv
<1>3. Own(b) = Own(se) + 1
  BY <1>1 DEF Own, Count
<1>4. b.ref + Own(se) = se.ref + Own(b)
  BY <1>1, <1>3, OwnIsNat DEF Usable, SessionInv
<1>5. Grows(se, b)
  BY Zenon, <1>1, <1>4 DEF Usable, Grows, GrowsButTrigger
<1> QED
  BY <1>2, <1>5 DEF b

LEMMA StartGrows ==
    ASSUME NEW se, SessionInv(se), Usable(se),
           NEW o \in cmd_start_trace(se)
    PROVE  SessionInv(o.session) /\ Grows(se, o.session)
<1> DEFINE starting == [se EXCEPT !.active = TRUE,
                                  !.rotated_after_last_stop = FALSE,
                                  !.cleared_after_last_stop = FALSE]
           chunked == IF se.current_trace_chunk # None
                      THEN {Outcome("ok", starting)}
                      ELSE IF ~se.has_been_started THEN FirstChunk(starting)
                      ELSE cmd_rotate_session(starting, NO_OPERATION)
           started(st) == [st EXCEPT !.tracing = TRUE, !.has_been_started = TRUE]
           scheduled(st) ==
                IF st.rotate_timer_period /\ ~st.schedule_timer
                THEN timer_session_rotation_schedule_timer_start(st) ELSE st
           refused(st) == [st EXCEPT
                !.active = FALSE,
                !.rotated_after_last_stop = se.rotated_after_last_stop,
                !.cleared_after_last_stop = se.cleared_after_last_stop]
<1>1. Alike(se, starting) /\ Alike(se, se)
  BY Zenon DEF Usable, SessionInv, Alike, AlikeButState, Fields
<1>2. SessionInv(starting) /\ Grows(se, starting) /\ Usable(starting)
  BY Zenon, <1>1, AlikeGrows DEF Usable, Alike, AlikeButState
<1>3. ASSUME NEW p \in chunked
      PROVE  SessionInv(p.session) /\ Grows(se, p.session)
  <2>1. CASE se.current_trace_chunk # None
    BY <1>2, <1>3, <2>1 DEF Outcome
  <2>2. CASE se.current_trace_chunk = None /\ ~se.has_been_started
    <3>1. \/ p.session = starting
          \/ p.session = session_set_trace_chunk(starting,
                            session_create_new_trace_chunk(starting))
      BY <1>3, <2>2 DEF FirstChunk, Outcome
    <3> HIDE DEF starting
    <3>2. Alike(starting, session_set_trace_chunk(starting,
                            session_create_new_trace_chunk(starting)))
      BY Zenon, <1>1 DEF Alike, AlikeButState, Fields, session_set_trace_chunk
    <3>3. SessionInv(p.session) /\ Grows(starting, p.session)
      <4>1. Alike(starting, p.session)
        BY <1>2, <3>1, <3>2 DEF Usable, SessionInv, Alike, AlikeButState
      <4> QED
        BY <1>2, <4>1, AlikeGrows DEF Usable, Alike
    <3> QED
      BY <1>2, <3>3, GrowsTransitive
  <2>3. CASE se.current_trace_chunk = None /\ se.has_been_started
    <3>1. p \in cmd_rotate_session(starting, NO_OPERATION)
      BY <1>3, <2>3
    <3> HIDE DEF starting
    <3>2. SessionInv(p.session) /\ Grows(starting, p.session)
      BY <1>2, <3>1, RotateGrows
    <3> QED
      BY <1>2, <3>2, GrowsTransitive
  <2> QED
    BY <2>1, <2>2, <2>3
<1>4. \/ o.session = se
      \/ \E p \in chunked : \/ o.session = scheduled(started(p.session))
                            \/ o.session = refused(p.session)
  <2> DEFINE Finish(p) == IF p.ret = "ok" THEN Outcome("ok", scheduled(started(p.session)))
                          ELSE Outcome(p.ret, refused(p.session))
  <2>1. \/ o = Outcome("trace_already_started", se)
        \/ o = Outcome("rotation_pending", se)
        \/ o \in {Finish(p) : p \in Within(chunked)}
    BY Zenon DEF cmd_start_trace
  <2> HIDE DEF chunked, starting, started, scheduled, refused
  <2> QED
    BY <2>1 DEF Outcome, Within
<1> HIDE DEF starting, chunked
<1>5. ASSUME NEW st, SessionInv(st), Grows(se, st)
      PROVE  /\ SessionInv(scheduled(started(st))) /\ Grows(se, scheduled(started(st)))
             /\ SessionInv(refused(st)) /\ Grows(se, refused(st))
  <2>1. Alike(st, started(st)) /\ Alike(st, refused(st))
    BY Zenon, <1>5 DEF Usable, SessionInv, Alike, AlikeButState, Fields
  <2>2. SessionInv(refused(st)) /\ Grows(st, refused(st))
    BY Zenon, <1>5, <2>1, AlikeGrows DEF Usable, Alike
  <2>3. SessionInv(started(st)) /\ Grows(st, started(st))
    BY Zenon, <1>5, <2>1, AlikeGrows DEF Usable, Alike
  <2>7. Usable(started(st))
    BY <1>5, <2>3 DEF Usable, Grows, GrowsButTrigger
  <2>4. Grows(se, started(st)) /\ Grows(se, refused(st))
    BY <1>5, <2>2, <2>3, GrowsTransitive
  <2> HIDE DEF started, refused
  <2>5. CASE started(st).rotate_timer_period /\ ~started(st).schedule_timer
    <3>1. LET b == timer_session_rotation_schedule_timer_start(started(st))
          IN  SessionInv(b) /\ Grows(started(st), b)
      BY <2>3, <2>5, <2>7, ScheduleGrows
    <3> QED
      BY <1>5, <2>2, <2>3, <2>4, <2>5, <3>1, GrowsTransitive
  <2>6. CASE ~(started(st).rotate_timer_period /\ ~started(st).schedule_timer)
    <3>1. scheduled(started(st)) = started(st)
      BY <2>6
    <3> QED
      BY <2>2, <2>3, <2>4, <3>1
  <2> QED
    BY <2>5, <2>6
<1> HIDE DEF started, scheduled, refused
<1>6. SessionInv(se) /\ Grows(se, se)
  BY <1>1, AlikeGrows DEF Usable, Alike
<1> QED
  BY <1>3, <1>4, <1>5, <1>6

LEMMA ClearGrows ==
    ASSUME NEW se, SessionInv(se), Usable(se),
           NEW o \in cmd_clear_session(se)
    PROVE  SessionInv(o.session) /\ Grows(se, o.session)
<1> DEFINE cleared == [se EXCEPT !.tracing = FALSE,
                                 !.clear_notifiers = @ \cup {se.current_trace_chunk}]
           resumed(st) == [st EXCEPT
                !.cleared_after_last_stop = @ \/ ~se.active,
                !.tracing = se.active]
<1>1. Alike(se, cleared) /\ Alike(se, se)
  BY Zenon DEF Usable, SessionInv, Alike, AlikeButState, Fields
<1>2. SessionInv(cleared) /\ Grows(se, cleared) /\ Grows(se, se)
  BY Zenon, <1>1, AlikeGrows DEF Usable, Alike
<1>3. Usable(cleared)
  BY <1>2 DEF Usable, Grows, GrowsButTrigger
<1>4. \/ o.session = se
      \/ \E p \in cmd_rotate_session(cleared, DELETE) :
            o.session = p.session \/ o.session = resumed(p.session)
  <2> DEFINE Finish(p) == IF p.ret # "ok" THEN p ELSE Outcome("ok", resumed(p.session))
  <2>1. \/ o = Outcome("ok", se)
        \/ o \in {Finish(p) : p \in Within(cmd_rotate_session(cleared, DELETE))}
    BY Zenon DEF cmd_clear_session
  <2> HIDE DEF cleared, resumed
  <2> QED
    BY <2>1 DEF Outcome, Within
<1> HIDE DEF cleared
<1>5. ASSUME NEW p \in cmd_rotate_session(cleared, DELETE)
      PROVE  /\ SessionInv(p.session) /\ Grows(se, p.session)
             /\ SessionInv(resumed(p.session)) /\ Grows(se, resumed(p.session))
  <2>1. SessionInv(p.session) /\ Grows(cleared, p.session)
    BY <1>2, <1>3, RotateGrows
  <2>2. Grows(se, p.session)
    BY <1>2, <2>1, GrowsTransitive
  <2>3. Alike(p.session, resumed(p.session))
    BY Zenon, <2>1 DEF Usable, SessionInv, Alike, AlikeButState, Fields
  <2> HIDE DEF resumed
  <2>4. SessionInv(resumed(p.session)) /\ Grows(p.session, resumed(p.session))
    BY <2>1, <2>3, AlikeGrows DEF Usable, Alike
  <2> QED
    BY <2>1, <2>2, <2>4, GrowsTransitive
<1> QED
  BY Zenon, <1>2, <1>4, <1>5

\* Putting one of the references to a session that has n held elsewhere.  The
\* last one is put when no timer is enabled, so no chunk is being archived.
LEMMA PutKeeps ==
    ASSUME NEW se, NEW n \in Nat, SessionInv(se), se.ref = 1 + Own(se) + n
    PROVE  LET put == session_put(se)
           IN  /\ SessionInv(put)
               /\ put.ref = Own(put) + n
               /\ put.check_timer = se.check_timer
               /\ put.schedule_timer = se.schedule_timer
               /\ put.status = "freed" => put.chunk_being_archived = None
               /\ se.schedule_timer => put.rotate_timer_period = se.rotate_timer_period
               /\ Own(se) + n > 0 => put = [se EXCEPT !.ref = @ - 1]
<1> DEFINE put == session_put(se)
<1>1. CASE Own(se) + n > 0
  <2>1. put = [se EXCEPT !.ref = @ - 1]
    BY <1>1, OwnIsNat DEF session_put
  <2>2. /\ put = [f \in Fields |-> put[f]]
        /\ put.status = se.status /\ put.ref = se.ref - 1
        /\ put.check_timer = se.check_timer /\ put.schedule_timer = se.schedule_timer
        /\ put.chunk_being_archived = se.chunk_being_archived
        /\ put.rotation_state = se.rotation_state
        /\ put.rotate_timer_period = se.rotate_timer_period
        /\ put.rotate_size = se.rotate_size /\ put.rotate_trigger = se.rotate_trigger
        /\ put.consumed = se.consumed
    BY <2>1 DEF SessionInv, Fields
  <2> HIDE DEF put
  <2>3. Usable(se) /\ put.ref \in Nat /\ put.ref = Own(se) + n
    BY <1>1, <2>2, OwnIsNat DEF SessionInv
  <2>4. SessionInv(put)
    BY <2>2, <2>3 DEF SessionInv, Usable
  <2>5. Own(put) = Own(se)
    BY <2>2 DEF Own
  <2> QED
    BY <2>1, <2>2, <2>3, <2>4, <2>5 DEF Usable, put
<1>2. CASE Own(se) + n = 0
  <2>1. /\ n = 0 /\ se.ref = 1
        /\ ~se.check_timer /\ ~se.schedule_timer /\ se.status # "live"
    BY <1>2 DEF Own, Count
  <2>2. put = [NewSession EXCEPT !.status = "freed",
                            !.chunk_being_archived = se.chunk_being_archived]
    BY <2>1 DEF session_put
  <2>3. se.chunk_being_archived = None
    BY <2>1 DEF SessionInv
  <2>4. /\ put = [f \in Fields |-> put[f]]
        /\ put.status = "freed" /\ put.ref = 0 /\ put.consumed = 0
        /\ put.check_timer = FALSE /\ put.schedule_timer = FALSE
        /\ put.chunk_being_archived = None
        /\ put.rotate_timer_period = FALSE
        /\ put.rotate_size = FALSE /\ put.rotate_trigger = None
    BY Zenon, <2>2, <2>3 DEF NewSession, Fields
  <2> HIDE DEF put
  <2>5. SessionInv(put)
    <3>1. /\ put.check_timer \in BOOLEAN /\ put.schedule_timer \in BOOLEAN
          /\ put.rotate_timer_period \in BOOLEAN /\ put.rotate_size \in BOOLEAN
          /\ ~put.check_timer
      BY Zenon, <2>4
    <3> QED
      BY <2>4, <3>1 DEF SessionInv
  <2>6. Own(put) = 0
    BY <2>4 DEF Own, Count
  <2>7. se.check_timer = FALSE /\ se.schedule_timer = FALSE
    BY <2>1 DEF SessionInv
  <2> QED
    <3>1. put.ref = Own(put) + n
      BY <2>1, <2>4, <2>6
    <3>2. ~(Own(se) + n > 0)
      BY <1>2
    <3>3. put.check_timer = se.check_timer /\ put.schedule_timer = se.schedule_timer
      BY Zenon, <2>4, <2>7
    <3>4. put.chunk_being_archived = None
      BY <2>4
    <3> QED
      BY <2>1, <2>5, <3>1, <3>2, <3>3, <3>4 DEF put
<1> QED
  BY <1>1, <1>2, OwnIsNat

-----------------------------------------------------------------------------
(* What a step does to the references and to the timers. *)

Held(s) == Queued(list, s) + HeldByJob(rotation, s) + HeldByClient(client, s)

LEMMA HeldIsNat == \A s : Held(s) \in Nat
  BY DEF Held, Queued, HeldByJob, HeldByClient, Count

LEMMA HeldIsNatNext == \A s : Held(s)' \in Nat
  BY DEF Held, Queued, HeldByJob, HeldByClient, Count

LEMMA RefInvHeld == RefInv <=> \A s \in Sessions : session[s].ref = Own(session[s]) + Held(s)
  BY DEF RefInv, Held, Own, Queued, HeldByJob, HeldByClient, Count

LEMMA RefInvHeldNext ==
    RefInv' <=> \A s \in Sessions : session'[s].ref = Own(session'[s]) + Held(s)'
  BY DEF RefInv, Held, Own, Queued, HeldByJob, HeldByClient, Count

\* One session changes, with the references held to it elsewhere.
LEMMA ChangeOne ==
    ASSUME SessionsInv, RefInv, NEW s \in Sessions, NEW se,
           session' = [session EXCEPT ![s] = se], SessionInv(se),
           se.ref = Own(se) + Held(s)',
           \A r \in Sessions \ {s} : Held(r)' = Held(r)
    PROVE  /\ SessionsInv' /\ RefInv'
           /\ session'[s] = se
           /\ \A r \in Sessions \ {s} : session'[r] = session[r]
<1>1. /\ session'[s] = se
      /\ \A r \in Sessions \ {s} : session'[r] = session[r]
      /\ session' = [r \in Sessions |-> session'[r]]
  BY DEF SessionsInv
<1>2. SessionsInv'
  BY <1>1 DEF SessionsInv
<1>3. RefInv'
  BY <1>1, RefInvHeld, RefInvHeldNext
<1> QED
  BY <1>1, <1>2, <1>3

\* No session changes.
LEMMA ChangeNone ==
    ASSUME SessionsInv, RefInv, UNCHANGED session,
           \A r \in Sessions : Held(r)' = Held(r)
    PROVE  SessionsInv' /\ RefInv'
<1>1. RefInv'
  BY RefInvHeld, RefInvHeldNext
<1> QED
  BY <1>1 DEF SessionsInv

\* A session that has a reference is usable.
LEMMA HeldIsUsable ==
    ASSUME SessionsInv, RefInv, NEW s \in Sessions,
           Own(session[s]) + Held(s) > 0
    PROVE  Usable(session[s])
  BY RefInvHeld DEF SessionsInv, SessionInv

LEMMA OwnIsUsable ==
    ASSUME NEW se, se.status = "live" \/ se.check_timer \/ se.schedule_timer
    PROVE  Own(se) > 0
  BY DEF Own, Count

\* The timers that a session enables are armed.
LEMMA BecomesTimers ==
    ASSUME SessionsInv, TimerInv, NEW s \in Sessions, NEW se, SessionInv(se), Becomes(s, se),
           session[s].check_timer => se.check_timer,
           session[s].schedule_timer => se.schedule_timer
    PROVE  TimerInv'
<1>1. /\ session'[s] = se
      /\ \A r \in Sessions \ {s} : session'[r] = session[r]
  BY DEF Becomes, SessionsInv
<1>2. ASSUME NEW t \in (armed \cup signals \cup handling)'
      PROVE  t \in Timers /\ Enabled(session'[t[2]], t[1])
  <2>1. CASE t \in armed \cup signals \cup handling
    <3>1. t \in Timers /\ t[2] \in Sessions /\ Enabled(session[t[2]], t[1])
      BY <2>1 DEF TimerInv, Timers
    <3>2. CASE t[2] = s
      BY <1>1, <3>1, <3>2 DEF Enabled
    <3>3. CASE t[2] # s
      BY <1>1, <3>1, <3>3
    <3> QED
      BY <3>2, <3>3
  <2>2. CASE t \notin armed \cup signals \cup handling
    <3>1. \/ t = <<CHECK_PENDING_ROTATION, s>> /\ se.check_timer
          \/ t = <<SCHEDULED_ROTATION, s>> /\ se.schedule_timer
      BY <1>2, <2>2 DEF Becomes
    <3> QED
      BY <1>1, <3>1 DEF Enabled, Timers, CHECK_PENDING_ROTATION, SCHEDULED_ROTATION
  <2> QED
    BY <2>1, <2>2
<1> QED
  BY <1>2 DEF TimerInv

\* A command that goes on or fails, and the rest of the daemon.
LEMMA GrowKeeps ==
    ASSUME IInv, ListLockFree, NEW s \in Sessions, NEW se,
           SessionInv(se), GrowsButTrigger(session[s], se), Becomes(s, se),
           UNCHANGED <<list, client, rotation.job>>
    PROVE  SessionsInv' /\ RefInv' /\ PeriodInv' /\ TimerInv' /\ QueueInv'
<1>1. \A r \in Sessions : Held(r)' = Held(r)
  BY DEF Held, Queued, HeldByJob, HeldByClient
<1>2. se.ref = Own(se) + Held(s)'
  <2>1. session[s].ref = Own(session[s]) + Held(s)
    BY RefInvHeld DEF IInv
  <2> QED
    BY <1>1, <2>1, OwnIsNat, HeldIsNat DEF GrowsButTrigger, SessionInv
<1>3. /\ SessionsInv' /\ RefInv' /\ session'[s] = se
      /\ \A r \in Sessions \ {s} : session'[r] = session[r]
  BY Zenon, <1>1, <1>2, ChangeOne DEF IInv, Becomes
<1>4. TimerInv'
  BY BecomesTimers DEF IInv, GrowsButTrigger
<1>5. PeriodInv'
  <2>1. client = Idle /\ \A r \in Sessions : client # <<"set_schedule", r>>
    BY DEF ListLockFree, Idle
  <2>2. \A r \in Sessions : session[r].schedule_timer => session[r].rotate_timer_period
    BY <2>1 DEF IInv, PeriodInv
  <2> QED
    BY <1>3, <2>2 DEF PeriodInv, GrowsButTrigger
<1> QED
  BY <1>3, <1>4, <1>5 DEF IInv, QueueInv

\* The commands that do not stop a timer.
LEMMA RunsKeeps ==
    ASSUME IInv, NEW s \in Sessions, NEW outcomes, Runs(s, outcomes),
           \A o \in outcomes : SessionInv(o.session) /\ Grows(session[s], o.session)
    PROVE  IInv'
<1>1. PICK o \in outcomes : Becomes(s, o.session)
  BY DEF Runs
<1>2. UNCHANGED <<queue, threads, notifications, aborted>> /\ ListLockFree
  BY DEF Runs, Command
<1>3. SessionsInv' /\ RefInv' /\ PeriodInv' /\ TimerInv' /\ QueueInv'
  BY <1>1, <1>2, GrowKeeps DEF queue, threads, Grows
<1>4. stopping = "no"
  BY <1>2 DEF IInv, ThreadInv
<1> QED
  BY <1>2, <1>3, <1>4
  DEF IInv, ThreadInv, StopInv, NotificationInv, AbortInv, threads, ListLockFree

LEMMA ClientKeeps ==
    ASSUME IInv, NEW s \in Sessions,
           Start(s) \/ Stop(s) \/ Rotate(s) \/ Clear(s) \/ ActivatePeriod(s)
    PROVE  IInv'
<1>1. SessionInv(session[s])
  BY DEF IInv, SessionsInv
<1>2. Usable(session[s]) /\ client = Idle
  BY DEF Start, Stop, Rotate, Clear, ActivatePeriod, Runs, Command, Live, Usable, ListLockFree
<1>3. CASE Start(s)
  BY <1>1, <1>2, <1>3, StartGrows, RunsKeeps DEF Start
<1>4. CASE Stop(s)
  <2> DEFINE se == cmd_stop_trace(session[s])
  <2>1. Alike(session[s], se)
    BY Zenon, <1>1 DEF cmd_stop_trace, SessionInv, Alike, AlikeButState, Fields
  <2>2. SessionInv(se) /\ Grows(session[s], se)
    BY <1>1, <2>1, AlikeGrows DEF Alike
  <2>3. \A o \in {Outcome("ok", se)} : o.session = se
    BY DEF Outcome
  <2>4. Runs(s, {Outcome("ok", se)})
    BY <1>4 DEF Stop
  <2> HIDE DEF se
  <2> QED
    BY <2>2, <2>3, <2>4, RunsKeeps
<1>5. CASE Rotate(s)
  <2>1. \A o \in Within(cmd_rotate_session(session[s], MOVE_TO_COMPLETED)) :
            SessionInv(o.session) /\ Grows(session[s], o.session)
    BY <1>1, <1>2, RotateGrows DEF Within
  <2> QED
    BY <1>5, <2>1, RunsKeeps DEF Rotate
<1>6. CASE Clear(s)
  BY <1>1, <1>2, <1>6, ClearGrows, RunsKeeps DEF Clear
<1>7. CASE ActivatePeriod(s)
  <2> DEFINE set == [session[s] EXCEPT !.rotate_timer_period = TRUE]
             se == IF set.active THEN timer_session_rotation_schedule_timer_start(set)
                   ELSE set
  <2>1. ~session[s].schedule_timer
    <3>1. client # <<"set_schedule", s>>
      BY <1>2 DEF Idle
    <3> QED
      BY <1>7, <3>1 DEF ActivatePeriod, IInv, PeriodInv
  <2>2. /\ set = [f \in Fields |-> set[f]]
        /\ set.status = session[s].status /\ set.ref = session[s].ref
        /\ set.check_timer = session[s].check_timer
        /\ set.schedule_timer = session[s].schedule_timer
        /\ set.chunk_being_archived = session[s].chunk_being_archived
        /\ set.rotation_state = session[s].rotation_state
        /\ set.rotate_timer_period = TRUE
        /\ set.rotate_size = session[s].rotate_size
        /\ set.rotate_trigger = session[s].rotate_trigger
        /\ set.consumed = session[s].consumed
    BY Zenon, <1>1 DEF SessionInv, Fields
  <2> HIDE DEF set
  <2>3. SessionInv(set) /\ Own(set) = Own(session[s]) /\ Usable(set)
    <3>1. Usable(set) <=> Usable(session[s])
      BY <2>2 DEF Usable
    <3>2. set.rotate_timer_period \in BOOLEAN
      BY Zenon, <2>2
    <3>3. SessionInv(set)
      BY <1>1, <2>2, <3>1, <3>2 DEF SessionInv
    <3> QED
      BY <1>2, <2>2, <3>1, <3>3 DEF Own
  <2>4. Grows(session[s], set)
    <3>1. set.ref + Own(session[s]) = session[s].ref + Own(set)
      BY <2>2, <2>3
    <3> QED
      BY <2>1, <2>2, <3>1 DEF Grows, GrowsButTrigger
  <2>5. SessionInv(se) /\ Grows(session[s], se)
    <3>1. CASE set.active
      <4>1. SessionInv(se) /\ Grows(set, se)
        BY <2>1, <2>2, <2>3, <3>1, ScheduleGrows
      <4> QED
        BY <1>1, <2>3, <2>4, <4>1, GrowsTransitive
    <3>2. CASE ~set.active
      BY <2>3, <2>4, <3>2
    <3> QED
      BY <3>1, <3>2
  <2>6. Runs(s, {Outcome("ok", se)})
    BY <1>7 DEF ActivatePeriod, set
  <2>7. \A o \in {Outcome("ok", se)} : o.session = se
    BY DEF Outcome
  <2> HIDE DEF se
  <2> QED
    BY <2>5, <2>6, <2>7, RunsKeeps
<1> QED
  BY <1>3, <1>4, <1>5, <1>6, <1>7

-----------------------------------------------------------------------------
(* The timers, the timer thread and the job queue. *)

\* The kind and the session of the timer that is being stopped.
LEMMA StoppedTimerIs ==
    ASSUME IInv, stopping # "no"
    PROVE  Stopped \in Timers /\ Stopped[1] = StoppedTimer
  BY DEF IInv, ThreadInv, ListLockFree, Stopped, StoppedTimer, Timers, Idle,
         CHECK_PENDING_ROTATION, SCHEDULED_ROTATION

\* Steps of the timers and of the thread that waits for the timer thread.
LEMMA TimerKeeps ==
    ASSUME IInv,
           \/ timer_signal_thread_qs \/ HandleQuiescentState
           \/ \E t \in Timers : TimerExpires(t) \/ sigwaitinfo(t)
    PROVE  IInv'
<1>1. UNCHANGED <<session, queue, client, rotation, notifications, aborted>>
  BY DEF timer_signal_thread_qs, HandleQuiescentState, TimerExpires, sigwaitinfo, threads
<1>2. SessionsInv' /\ RefInv'
  <2>1. \A r \in Sessions : Held(r)' = Held(r)
    BY <1>1 DEF Held, Queued, HeldByJob, HeldByClient, queue
  <2> QED
    BY <1>1, <2>1, ChangeNone DEF IInv
<1>3. (armed \cup signals \cup handling)' \subseteq armed \cup signals \cup handling
  BY DEF timer_signal_thread_qs, HandleQuiescentState, TimerExpires, sigwaitinfo, timers
<1>4. TimerInv'
  BY <1>1, <1>3 DEF IInv, TimerInv
<1>5. /\ stopping' \in {"no", "drain", "qs", "done"}
      /\ stopping' = "no" <=> stopping = "no"
  BY DEF timer_signal_thread_qs, HandleQuiescentState, TimerExpires, sigwaitinfo, threads,
         IInv, ThreadInv
<1>6. ThreadInv'
  BY <1>1, <1>5 DEF IInv, ThreadInv, ListLockFree
<1>7. StopInv'
  <2> SUFFICES ASSUME stopping # "no"
               PROVE  /\ Stopped \notin armed'
                      /\ stopping' \in {"qs", "done"} => Stopped \notin signals'
                      /\ stopping' = "done" => Stopped \notin handling'
    BY <1>1, <1>5 DEF IInv, StopInv, Stopped
  <2>1. /\ Stopped \notin armed
        /\ stopping \in {"qs", "done"} => Stopped \notin signals
        /\ stopping = "done" => Stopped \notin handling
        /\ Stopped[1] = StoppedTimer
    BY StoppedTimerIs DEF IInv, StopInv
  <2>2. CASE timer_signal_thread_qs
    BY <2>1, <2>2 DEF timer_signal_thread_qs, timers
  <2>3. CASE HandleQuiescentState
    BY <2>1, <2>3 DEF HandleQuiescentState, timers
  <2>4. ASSUME NEW t \in Timers, TimerExpires(t)
        PROVE  /\ Stopped \notin armed'
               /\ stopping' \in {"qs", "done"} => Stopped \notin signals'
               /\ stopping' = "done" => Stopped \notin handling'
    BY <2>1, <2>4 DEF TimerExpires, threads
  <2>5. ASSUME NEW t \in Timers, sigwaitinfo(t)
        PROVE  /\ Stopped \notin armed'
               /\ stopping' \in {"qs", "done"} => Stopped \notin signals'
               /\ stopping' = "done" => Stopped \notin handling'
    BY <2>1, <2>5 DEF sigwaitinfo, threads
  <2> QED
    BY <2>2, <2>3, <2>4, <2>5
<1> QED
  BY <1>1, <1>2, <1>4, <1>6, <1>7
  DEF IInv, PeriodInv, QueueInv, NotificationInv, AbortInv, queue

\* The jobs of the other sessions are the same.
LEMMA AppendRange ==
    ASSUME NEW S, NEW q \in Seq(S), NEW e \in S
    PROVE  Range(Append(q, e)) = Range(q) \cup {e}
<1>1. /\ Len(Append(q, e)) = Len(q) + 1
      /\ \A i \in 1 .. Len(q) : Append(q, e)[i] = q[i]
      /\ Append(q, e)[Len(q) + 1] = e
      /\ DOMAIN q = 1 .. Len(q) /\ DOMAIN Append(q, e) = 1 .. Len(q) + 1
      /\ Len(q) \in Nat
  OBVIOUS
<1> QED
  BY <1>1 DEF Range

LEMMA TailRange ==
    ASSUME NEW S, NEW q \in Seq(S), q # <<>>,
           \A i, j \in 1 .. Len(q) : q[i] = q[j] => i = j
    PROVE  /\ Range(Tail(q)) = Range(q) \ {Head(q)} /\ Head(q) \in Range(q) /\ Head(q) \in S
           /\ Tail(q) \in Seq(S)
           /\ \A i, j \in 1 .. Len(Tail(q)) : Tail(q)[i] = Tail(q)[j] => i = j
<1>1. /\ Tail(q) \in Seq(S) /\ Len(Tail(q)) = Len(q) - 1 /\ Len(q) \in Nat /\ Len(q) > 0
      /\ \A i \in 1 .. Len(q) - 1 : Tail(q)[i] = q[i + 1]
      /\ Head(q) = q[1] /\ q[1] \in S
      /\ DOMAIN q = 1 .. Len(q) /\ DOMAIN Tail(q) = 1 .. Len(q) - 1
  OBVIOUS
<1>2. \A i \in 2 .. Len(q) : i - 1 \in 1 .. Len(q) - 1 /\ q[i] = Tail(q)[i - 1]
  BY <1>1
<1>3. Range(Tail(q)) = Range(q) \ {Head(q)}
  <2>1. ASSUME NEW i \in 1 .. Len(q) - 1
        PROVE  Tail(q)[i] \in Range(q) \ {q[1]}
    BY <1>1 DEF Range
  <2>2. ASSUME NEW i \in 1 .. Len(q), q[i] # q[1]
        PROVE  q[i] \in Range(Tail(q))
    <3>1. i \in 2 .. Len(q)
      BY <1>1, <2>2
    <3> QED
      BY Zenon, <1>1, <1>2, <3>1 DEF Range
  <2> QED
    BY <1>1, <2>1, <2>2 DEF Range
<1> QED
  BY <1>1, <1>3 DEF Range

\* A job takes a reference to a session that its timer keeps alive.
LEMMA EnqueueKeeps ==
    ASSUME IInv, NEW t \in Timers, rotation_thread_enqueue_job(t)
    PROVE  IInv'
<1>1. /\ handling = {t} /\ handling' = {}
      /\ UNCHANGED <<armed, signals, threads, notifications, aborted>>
  BY DEF rotation_thread_enqueue_job
<1>2. t[2] \in Sessions /\ Enabled(session[t[2]], t[1]) /\ t = <<t[1], t[2]>>
  BY <1>1 DEF IInv, TimerInv, Timers
<1>3. CASE timer_job_exists(t)
  <2>1. UNCHANGED <<session, queue>>
    BY <1>3 DEF rotation_thread_enqueue_job
  <2>2. \A r \in Sessions : Held(r)' = Held(r)
    BY <1>1, <2>1 DEF Held, Queued, HeldByJob, HeldByClient, queue, threads
  <2>3. SessionsInv' /\ RefInv'
    BY <2>1, <2>2, ChangeNone DEF IInv
  <2>4. TimerInv' /\ StopInv' /\ ThreadInv'
    BY <1>1, <2>1 DEF IInv, TimerInv, StopInv, ThreadInv, Stopped, ListLockFree, threads
  <2> QED
    BY <1>1, <2>1, <2>3, <2>4
    DEF IInv, PeriodInv, QueueInv, NotificationInv, AbortInv, queue, threads
<1>4. CASE ~timer_job_exists(t)
  <2> DEFINE s == t[2]
             se == session_get(session[s])
  <2>1. session' = [session EXCEPT ![s] = se] /\ list' = Append(list, t)
    BY <1>4 DEF rotation_thread_enqueue_job
  <2>2. list \in Seq(Timers) /\ Range(list') = Range(list) \cup {t} /\ t \notin Range(list)
    BY <1>4, <2>1, AppendRange DEF IInv, QueueInv, timer_job_exists
  <2>3. QueueInv'
    <3>1. /\ Len(list') = Len(list) + 1 /\ list' \in Seq(Timers) /\ Len(list) \in Nat
          /\ \A i \in 1 .. Len(list) : list'[i] = list[i]
          /\ list'[Len(list) + 1] = t
      BY <2>1, <2>2
    <3>2. \A i \in 1 .. Len(list) : list[i] # t
      BY <2>2 DEF Range
    <3> QED
      BY <3>1, <3>2 DEF IInv, QueueInv
  <2>4. Queued(list', s) = Queued(list, s) + 1
    BY <1>2, <2>2 DEF Queued, Count, Timers, CHECK_PENDING_ROTATION, SCHEDULED_ROTATION
  <2>5. \A r \in Sessions \ {s} : Queued(list', r) = Queued(list, r)
    BY <1>2, <2>2 DEF Queued
  <2>6. /\ Held(s)' = Held(s) + 1
        /\ \A r \in Sessions \ {s} : Held(r)' = Held(r)
    <3>1. UNCHANGED <<rotation, client>>
      BY <1>1 DEF threads
    <3>2. /\ \A r : HeldByJob(rotation, r) \in Nat /\ HeldByClient(client, r) \in Nat
          /\ \A r : Queued(list, r) \in Nat
      BY DEF HeldByJob, HeldByClient, Queued, Count
    <3> QED
      BY <2>4, <2>5, <3>1, <3>2 DEF Held
  <2>7. Usable(session[s]) /\ SessionInv(session[s]) /\ session[s].ref = Own(session[s]) + Held(s)
    <3>1. Own(session[s]) > 0
      BY SMTT(30), <1>2, OwnIsUsable DEF Enabled
    <3> QED
      BY <1>2, <3>1, HeldIsUsable, HeldIsNat, OwnIsNat, RefInvHeld DEF IInv, SessionsInv
  <2>8. /\ se = [f \in Fields |-> se[f]]
        /\ se.status = session[s].status /\ se.ref = session[s].ref + 1
        /\ se.check_timer = session[s].check_timer
        /\ se.schedule_timer = session[s].schedule_timer
        /\ se.chunk_being_archived = session[s].chunk_being_archived
        /\ se.rotation_state = session[s].rotation_state
        /\ se.rotate_timer_period = session[s].rotate_timer_period
        /\ se.rotate_size = session[s].rotate_size
        /\ se.rotate_trigger = session[s].rotate_trigger
        /\ se.consumed = session[s].consumed
    BY <2>7 DEF SessionInv, Fields, session_get
  <2> HIDE DEF se
  <2>9. SessionInv(se)
    <3>1. se.ref \in Nat
      BY <2>7, <2>8 DEF SessionInv
    <3>2. ~Usable(se) => se.ref = 0
      BY <2>7, <2>8 DEF Usable
    <3> QED
      BY Zenon, <2>7, <2>8, <3>1, <3>2 DEF SessionInv
  <2>10. se.ref = Own(se) + Held(s)'
    <3>1. Own(se) = Own(session[s])
      BY <2>8 DEF Own
    <3> QED
      BY <2>6, <2>7, <2>8, <3>1, OwnIsNat, HeldIsNat
  <2>11. /\ SessionsInv' /\ RefInv' /\ session'[s] = se
         /\ \A r \in Sessions \ {s} : session'[r] = session[r]
    BY Zenon, <1>2, <2>1, <2>6, <2>9, <2>10, ChangeOne DEF IInv
  <2>12. \A r \in Sessions :
            /\ session'[r].check_timer = session[r].check_timer
            /\ session'[r].schedule_timer = session[r].schedule_timer
            /\ session'[r].rotate_timer_period = session[r].rotate_timer_period
            /\ session'[r].status = session[r].status
    BY <2>8, <2>11
  <2>13. TimerInv'
    <3>1. \A u \in armed \cup signals \cup handling : u[2] \in Sessions
      BY DEF IInv, TimerInv, Timers
    <3> QED
      BY <1>1, <2>12, <3>1 DEF IInv, TimerInv, Enabled
  <2>14. StopInv' /\ ThreadInv'
    <3>1. ThreadInv'
      BY <1>1 DEF IInv, ThreadInv, ListLockFree, threads
    <3>2. stopping # "no" => Stopped[2] \in Sessions
      BY StoppedTimerIs DEF Timers
    <3>3. client # Idle => client[2] \in Sessions
      BY DEF IInv, ThreadInv
    <3> QED
      BY <1>1, <2>12, <3>1, <3>2, <3>3 DEF IInv, StopInv, Stopped, Enabled, threads
  <2>15. PeriodInv'
    BY <1>1, <2>12 DEF IInv, PeriodInv, threads
  <2> QED
    BY <1>1, <2>3, <2>11, <2>13, <2>14, <2>15 DEF IInv, NotificationInv, AbortInv
<1> QED
  BY <1>3, <1>4

\* The rotation thread takes the reference of the job over from the queue.
LEMMA QueueKeeps ==
    ASSUME IInv, PollQueue \/ PopJob \/ QueueEmpty \/ ReadPipe
    PROVE  IInv'
<1>1. UNCHANGED <<session, timers, client, stopping, notifications, aborted>>
  BY DEF PollQueue, PopJob, QueueEmpty, ReadPipe, RotationAt
<1>2. /\ rotation.pc \in {"poll", "jobs", "read"} /\ rotation.job = Idle
      /\ rotation'.pc \in {"poll", "jobs", "lock", "read", "dead"}
      /\ rotation' = [pc |-> rotation'.pc, job |-> rotation'.job]
  BY DEF PollQueue, PopJob, QueueEmpty, ReadPipe, RotationAt, IInv, ThreadInv
<1>3. CASE PopJob
  <2>1. /\ rotation' = [pc |-> "lock", job |-> Head(list)] /\ list' = Tail(list)
        /\ list # <<>>
    BY <1>3 DEF PopJob
  <2>2. /\ Range(list') = Range(list) \ {Head(list)} /\ Head(list) \in Range(list)
        /\ Head(list) \in Timers /\ QueueInv'
    BY <2>1, TailRange DEF IInv, QueueInv
  <2>3. \A r \in Sessions : Held(r)' = Held(r)
    <3> SUFFICES ASSUME NEW r \in Sessions
                 PROVE  Held(r)' = Held(r)
      OBVIOUS
    <3>1. HeldByClient(client, r)' = HeldByClient(client, r) /\ HeldByClient(client, r) \in Nat
      BY <1>1 DEF HeldByClient, Count
    <3>2. Queued(list', r) + HeldByJob(rotation', r) = Queued(list, r) + HeldByJob(rotation, r)
      <4>1. CASE Head(list)[2] = r
        <5>1. HeldByJob(rotation', r) = 1 /\ HeldByJob(rotation, r) = 0
          BY <1>2, <2>1, <2>2, <4>1 DEF HeldByJob, Count, Idle, Timers
        <5>2. Queued(list, r) = Queued(list', r) + 1
          BY <2>2, <4>1 DEF Queued, Count, Timers, CHECK_PENDING_ROTATION, SCHEDULED_ROTATION
        <5> QED
          BY <5>1, <5>2 DEF Queued, Count
      <4>2. CASE Head(list)[2] # r
        <5>1. HeldByJob(rotation', r) = 0 /\ HeldByJob(rotation, r) = 0
          BY <1>2, <2>1, <4>2 DEF HeldByJob, Count
        <5>2. Queued(list, r) = Queued(list', r)
          BY <2>2, <4>2 DEF Queued
        <5> QED
          BY <5>1, <5>2
      <4> QED
        BY <4>1, <4>2
    <3> QED
      BY <3>1, <3>2 DEF Held, Queued, HeldByJob, Count
  <2>4. SessionsInv' /\ RefInv'
    BY <1>1, <2>3, ChangeNone DEF IInv
  <2>5. ThreadInv' /\ StopInv'
    BY <1>1, <1>2, <2>1, <2>2
    DEF IInv, ThreadInv, StopInv, Stopped, ListLockFree, timers
  <2> QED
    BY <1>1, <2>2, <2>4, <2>5
    DEF IInv, PeriodInv, TimerInv, NotificationInv, AbortInv, timers
<1>4. CASE PollQueue \/ QueueEmpty \/ ReadPipe
  <2>1. rotation'.pc \in {"poll", "jobs", "read", "dead"} /\ rotation'.job = Idle /\ list' = list
    BY <1>2, <1>4 DEF PollQueue, QueueEmpty, ReadPipe, RotationAt, queue
  <2>2. \A r \in Sessions : Held(r)' = Held(r)
    BY <1>1, <1>2, <2>1 DEF Held, Queued, HeldByJob, HeldByClient
  <2>3. SessionsInv' /\ RefInv'
    BY <1>1, <2>2, ChangeNone DEF IInv
  <2>4. ThreadInv' /\ StopInv'
    BY <1>1, <1>2, <2>1
    DEF IInv, ThreadInv, StopInv, Stopped, ListLockFree, timers
  <2> QED
    BY <1>1, <2>1, <2>3, <2>4
    DEF IInv, PeriodInv, QueueInv, TimerInv, NotificationInv, AbortInv, timers
<1> QED
  BY <1>3, <1>4

-----------------------------------------------------------------------------
(* The steps that leave the timers alone. *)

\* A session changes; its timers, the jobs and the threads do not.
LEMMA PlainKeeps ==
    ASSUME IInv, NEW s \in Sessions, NEW se,
           session' = [session EXCEPT ![s] = se], SessionInv(se),
           se.ref + Own(session[s]) = session[s].ref + Own(se),
           se.status = session[s].status \/ client = Idle,
           se.check_timer = session[s].check_timer,
           se.schedule_timer = session[s].schedule_timer,
           se.schedule_timer => se.rotate_timer_period \/ client = <<"set_schedule", s>>,
           UNCHANGED <<timers, queue, threads>>
    PROVE  /\ SessionsInv' /\ RefInv' /\ PeriodInv' /\ TimerInv'
           /\ QueueInv' /\ ThreadInv' /\ StopInv'
<1>1. \A r \in Sessions : Held(r)' = Held(r)
  BY DEF Held, Queued, HeldByJob, HeldByClient, queue, threads
<1>2. se.ref = Own(se) + Held(s)'
  <2>1. session[s].ref = Own(session[s]) + Held(s)
    BY RefInvHeld DEF IInv
  <2> QED
    BY <1>1, <2>1, OwnIsNat, HeldIsNat DEF SessionInv
<1>3. /\ SessionsInv' /\ RefInv' /\ session'[s] = se
      /\ \A r \in Sessions \ {s} : session'[r] = session[r]
  BY Zenon, <1>1, <1>2, ChangeOne DEF IInv
<1>4. \A r \in Sessions :
            /\ session'[r].check_timer = session[r].check_timer
            /\ session'[r].schedule_timer = session[r].schedule_timer
  BY <1>3
<1>5. TimerInv'
  <2>1. \A u \in armed \cup signals \cup handling : u[2] \in Sessions
    BY DEF IInv, TimerInv, Timers
  <2> QED
    BY <1>4, <2>1 DEF IInv, TimerInv, Enabled, timers
<1>6. StopInv' /\ ThreadInv'
  <2>1. stopping # "no" => Stopped[2] \in Sessions
    BY StoppedTimerIs DEF Timers
  <2>2. client # Idle => client[2] \in Sessions /\ session'[client[2]].status = session[client[2]].status
    BY SMTT(30), <1>3 DEF IInv, ThreadInv
  <2> QED
    BY <1>4, <2>1, <2>2 DEF IInv, StopInv, ThreadInv, ListLockFree, Stopped, Enabled, threads, timers
<1>7. PeriodInv'
  BY <1>3 DEF IInv, PeriodInv, threads
<1> QED
  BY <1>3, <1>5, <1>6, <1>7 DEF IInv, QueueInv, queue

LEMMA CreateKeeps ==
    ASSUME IInv, NEW s \in Sessions, session_create(s)
    PROVE  IInv'
<1> DEFINE se == [session[s] EXCEPT !.status = "live", !.ref = 1]
<1>1. SessionInv(session[s]) /\ session[s].status = "unborn"
  BY DEF session_create, IInv, SessionsInv
<1>2. session[s].ref = 0 /\ Own(session[s]) = 0
  BY <1>1, RefInvHeld, HeldIsNat, OwnIsNat DEF SessionInv, Usable, IInv
<1>3. ~session[s].check_timer /\ ~session[s].schedule_timer
  BY <1>2, OwnIsUsable
<1>4. /\ se = [f \in Fields |-> se[f]]
      /\ se.status = "live" /\ se.ref = 1
      /\ se.check_timer = session[s].check_timer
      /\ se.schedule_timer = session[s].schedule_timer
      /\ se.chunk_being_archived = session[s].chunk_being_archived
      /\ se.rotation_state = session[s].rotation_state
      /\ se.rotate_timer_period = session[s].rotate_timer_period
      /\ se.rotate_size = session[s].rotate_size
      /\ se.rotate_trigger = session[s].rotate_trigger
      /\ se.consumed = session[s].consumed
  BY Zenon, <1>1 DEF SessionInv, Fields
<1>5. session' = [session EXCEPT ![s] = se]
  BY Zenon DEF session_create, IInv, SessionsInv
<1> HIDE DEF se
<1>6. SessionInv(se)
  <2>1. se.ref \in Nat /\ Usable(se)
    BY <1>4 DEF Usable
  <2> QED
    BY <1>1, <1>4, <2>1 DEF SessionInv
<1>7. Own(se) = 1
  BY <1>3, <1>4 DEF Own, Count
<1>8. se.ref + Own(session[s]) = session[s].ref + Own(se)
  BY <1>2, <1>4, <1>7
<1>9. ~se.schedule_timer
  BY <1>3, <1>4
<1>10. UNCHANGED <<timers, queue, threads, notifications, aborted>> /\ client = Idle
  BY DEF session_create, ListLockFree
<1>11. /\ SessionsInv' /\ RefInv' /\ PeriodInv' /\ TimerInv'
       /\ QueueInv' /\ ThreadInv' /\ StopInv'
  BY <1>4, <1>5, <1>6, <1>8, <1>9, <1>10, PlainKeeps
<1> QED
  BY <1>10, <1>11 DEF IInv, NotificationInv, AbortInv

\* The fields that the size schedule and the consumer daemons change.
LEMMA SizeKeeps ==
    ASSUME IInv, NEW s \in Sessions,
           \/ ActivateSize(s) \/ DeactivateSize(s)
           \/ Consumes(s) \/ ConsumerReleasesChunk(s)
    PROVE  IInv'
<1> DEFINE old == session[s]
           se == session'[s]
<1>1. SessionInv(old)
  BY DEF IInv, SessionsInv
<1>2. UNCHANGED <<timers, queue, threads>>
  BY DEF ActivateSize, DeactivateSize, Consumes, ConsumerReleasesChunk
<1>3. session' = [session EXCEPT ![s] = se]
  BY DEF IInv, SessionsInv, ActivateSize, DeactivateSize, Consumes, ConsumerReleasesChunk
<1>4. /\ se = [f \in Fields |-> se[f]]
      /\ se.status = old.status /\ se.ref = old.ref
      /\ se.check_timer = old.check_timer
      /\ se.schedule_timer = old.schedule_timer
      /\ se.chunk_being_archived = old.chunk_being_archived
      /\ se.rotation_state = old.rotation_state
      /\ se.rotate_timer_period = old.rotate_timer_period
      /\ \/ se.rotate_size = old.rotate_size /\ se.rotate_trigger = old.rotate_trigger
         \/ se.rotate_size = TRUE
         \/ se.rotate_size = FALSE /\ se.rotate_trigger = None
      /\ se.consumed \in {old.consumed, old.consumed + 1}
  <2>1. CASE ActivateSize(s)
    <3>1. se = [old EXCEPT !.rotate_size = TRUE, !.rotate_trigger = RotateSize]
      BY <2>1 DEF ActivateSize, IInv, SessionsInv
    <3> QED
      BY Zenon, <1>1, <3>1 DEF SessionInv, Fields
  <2>2. CASE DeactivateSize(s)
    <3>1. se = [[old EXCEPT !.rotate_trigger = None] EXCEPT !.rotate_size = FALSE]
      BY <2>2 DEF DeactivateSize, IInv, SessionsInv, unsubscribe_session_consumed_size_rotation
    <3> QED
      BY Zenon, <1>1, <3>1 DEF SessionInv, Fields
  <2>3. CASE Consumes(s)
    <3>1. se = [old EXCEPT !.consumed = old.consumed + 1]
      BY <2>3 DEF Consumes, IInv, SessionsInv
    <3> QED
      BY <1>1, <3>1 DEF SessionInv, Fields
  <2>4. CASE ConsumerReleasesChunk(s)
    <3>1. se = [old EXCEPT !.on_consumers = @ \ {old.chunk_being_archived}]
      BY <2>4 DEF ConsumerReleasesChunk, IInv, SessionsInv
    <3> QED
      BY <1>1, <3>1 DEF SessionInv, Fields
  <2> QED
    BY Zenon, <2>1, <2>2, <2>3, <2>4
<1>5. old.schedule_timer => old.rotate_timer_period \/ client = <<"set_schedule", s>>
  BY DEF IInv, PeriodInv
<1>6. NotificationInv'
  <2>1. CASE UNCHANGED notifications
    BY <2>1 DEF IInv, NotificationInv
  <2>2. CASE Consumes(s) /\ old.rotate_trigger = old.consumed + 1
    <3>1. old.consumed + 1 \in Nat \ {0}
      BY <1>1 DEF SessionInv
    <3>2. [threshold |-> old.rotate_trigger, consumed |-> old.consumed + 1]
            \in [threshold: Nat \ {0}, consumed: Nat]
      BY <2>2, <3>1
    <3>3. notifications' = Append(notifications,
                [threshold |-> old.rotate_trigger, consumed |-> old.consumed + 1])
      BY <2>2 DEF Consumes
    <3> HIDE DEF old
    <3> QED
      BY <3>2, <3>3 DEF IInv, NotificationInv
  <2> QED
    BY <2>1, <2>2 DEF ActivateSize, DeactivateSize, Consumes, ConsumerReleasesChunk
<1>7. AbortInv'
  <2>1. ActivateSize(s) => old.rotate_trigger = None
    BY <1>1 DEF ActivateSize, SessionInv
  <2> QED
    BY Zenon, <2>1 DEF IInv, AbortInv, ActivateSize, DeactivateSize, Consumes,
                ConsumerReleasesChunk, Asserts
<1> HIDE DEF old, se
<1>8. SessionInv(se)
  <2>1. se.consumed \in Nat
    BY <1>1, <1>4 DEF SessionInv
  <2>2. se.rotate_size \in BOOLEAN /\ (se.rotate_trigger # None => se.rotate_size)
    BY Zenon, <1>1, <1>4 DEF SessionInv
  <2>3. Usable(se) <=> Usable(old)
    BY <1>4 DEF Usable
  <2> QED
    BY <1>1, <1>4, <2>1, <2>2, <2>3 DEF SessionInv
<1>9. se.ref + Own(old) = old.ref + Own(se)
  BY <1>4 DEF Own
<1>10. /\ SessionsInv' /\ RefInv' /\ PeriodInv' /\ TimerInv'
       /\ QueueInv' /\ ThreadInv' /\ StopInv'
  <2>1. /\ se.ref + Own(session[s]) = session[s].ref + Own(se)
        /\ se.status = session[s].status
        /\ se.check_timer = session[s].check_timer
        /\ se.schedule_timer = session[s].schedule_timer
        /\ se.schedule_timer => se.rotate_timer_period \/ client = <<"set_schedule", s>>
    BY <1>4, <1>5, <1>9 DEF old
  <2> QED
    BY Zenon, <1>2, <1>3, <1>8, <2>1, PlainKeeps
<1> QED
  BY <1>6, <1>7, <1>10 DEF IInv

-----------------------------------------------------------------------------
(* The commands that stop the schedule timer. *)

\* The command takes a reference and deletes the timer.
LEMMA StopBegins ==
    ASSUME IInv, ListLockFree, NEW s \in Sessions, NEW se,
           NEW command \in {"set_schedule", "destroy"},
           SessionInv(se), se.ref = session[s].ref + 1, se.schedule_timer,
           se.status = session[s].status, se.status = "live",
           se.check_timer = session[s].check_timer,
           se.schedule_timer = session[s].schedule_timer,
           se.rotate_timer_period \/ command = "set_schedule",
           session' = [session EXCEPT ![s] = se], client' = <<command, s>>,
           timer_delete(<<SCHEDULED_ROTATION, s>>), UNCHANGED <<queue, rotation>>
    PROVE  /\ SessionsInv' /\ RefInv' /\ PeriodInv' /\ TimerInv'
           /\ QueueInv' /\ ThreadInv' /\ StopInv'
<1>1. /\ Held(s)' = Held(s) + 1
      /\ \A r \in Sessions \ {s} : Held(r)' = Held(r)
  <2>1. \A r : HeldByClient(client, r) = 0
    BY DEF ListLockFree, HeldByClient, Count
  <2>2. HeldByClient(client', s) = 1 /\ \A r \in Sessions \ {s} : HeldByClient(client', r) = 0
    BY DEF HeldByClient, Count, Idle
  <2>3. \A r : /\ Queued(list', r) = Queued(list, r) /\ Queued(list, r) \in Nat
               /\ HeldByJob(rotation', r) = HeldByJob(rotation, r)
               /\ HeldByJob(rotation, r) \in Nat
    BY DEF Queued, HeldByJob, Count, queue
  <2> QED
    BY <2>1, <2>2, <2>3 DEF Held
<1>2. se.ref = Own(se) + Held(s)'
  <2>1. session[s].ref = Own(session[s]) + Held(s)
    BY RefInvHeld DEF IInv
  <2>2. Own(se) = Own(session[s])
    BY Zenon DEF Own
  <2> QED
    BY <1>1, <2>1, <2>2, OwnIsNat, HeldIsNat
<1>3. /\ SessionsInv' /\ RefInv' /\ session'[s] = se
      /\ \A r \in Sessions \ {s} : session'[r] = session[r]
  BY Zenon, <1>1, <1>2, ChangeOne DEF IInv
<1>4. \A r \in Sessions :
            /\ session'[r].check_timer = session[r].check_timer
            /\ session'[r].schedule_timer = session[r].schedule_timer
  BY <1>3
<1>5. TimerInv'
  <2>1. \A u \in armed \cup signals \cup handling : u[2] \in Sessions
    BY DEF IInv, TimerInv, Timers
  <2>2. (armed \cup signals \cup handling)' \subseteq armed \cup signals \cup handling
    BY DEF timer_delete
  <2> QED
    BY <1>4, <2>1, <2>2 DEF IInv, TimerInv, Enabled
<1>6. ThreadInv'
  BY DEF IInv, ThreadInv, ListLockFree, Idle, timer_delete
<1>7. StopInv'
  <2>1. Stopped' = <<SCHEDULED_ROTATION, s>>
    BY DEF Stopped, Idle
  <2> QED
    BY <1>3, <2>1 DEF StopInv, Enabled, timer_delete, CHECK_PENDING_ROTATION, SCHEDULED_ROTATION
<1>8. PeriodInv'
  <2>1. \A r \in Sessions : client # <<"set_schedule", r>>
    BY DEF ListLockFree, Idle
  <2> QED
    BY <1>3, <2>1 DEF IInv, PeriodInv
<1> QED
  BY <1>3, <1>5, <1>6, <1>7, <1>8 DEF IInv, QueueInv, queue

\* The timer is stopped: no expiry, signal or handler of it is left.
LEMMA StopEnds ==
    ASSUME IInv, NEW s \in Sessions, NEW se, NEW command,
           client = <<command, s>>, stopping = "done",
           SessionInv(se), 1 + se.ref = Own(se) + Held(s), Becomes(s, se),
           session[s].check_timer => se.check_timer,
           se.schedule_timer => se.rotate_timer_period,
           client' = Idle, stopping' = "no", UNCHANGED <<queue, rotation>>
    PROVE  /\ SessionsInv' /\ RefInv' /\ PeriodInv' /\ TimerInv'
           /\ QueueInv' /\ ThreadInv' /\ StopInv'
<1>1. /\ Held(s) = Held(s)' + 1
      /\ \A r \in Sessions \ {s} : Held(r)' = Held(r)
  <2>1. \A r : HeldByClient(client', r) = 0
    BY DEF HeldByClient, Count
  <2>2. HeldByClient(client, s) = 1 /\ \A r \in Sessions \ {s} : HeldByClient(client, r) = 0
    BY DEF HeldByClient, Count, Idle
  <2>3. \A r : /\ Queued(list', r) = Queued(list, r) /\ Queued(list, r) \in Nat
               /\ HeldByJob(rotation', r) = HeldByJob(rotation, r)
               /\ HeldByJob(rotation, r) \in Nat
    BY DEF Queued, HeldByJob, Count, queue
  <2> QED
    BY <2>1, <2>2, <2>3 DEF Held
<1>2. se.ref = Own(se) + Held(s)'
  BY <1>1, OwnIsNat, HeldIsNatNext DEF SessionInv
<1>3. /\ SessionsInv' /\ RefInv' /\ session'[s] = se
      /\ \A r \in Sessions \ {s} : session'[r] = session[r]
  BY Zenon, <1>1, <1>2, ChangeOne DEF IInv, Becomes
<1>4. Stopped = <<SCHEDULED_ROTATION, s>> /\ Stopped \notin armed \cup signals \cup handling
  BY SMTT(30) DEF Stopped, Idle, IInv, StopInv
<1>5. TimerInv'
  <2>1. ASSUME NEW t \in (armed \cup signals \cup handling)'
        PROVE  t \in Timers /\ Enabled(session'[t[2]], t[1])
    <3>1. CASE t \in armed \cup signals \cup handling
      <4>1. t \in Timers /\ t[2] \in Sessions /\ Enabled(session[t[2]], t[1])
        BY SMTT(30), <3>1 DEF IInv, TimerInv, Timers
      <4>2. CASE t[2] = s
        <5>1. t[1] = CHECK_PENDING_ROTATION
          BY <1>4, <3>1, <4>1, <4>2 DEF Timers
        <5> QED
          BY <1>3, <4>1, <4>2, <5>1 DEF Enabled
      <4>3. CASE t[2] # s
        BY <1>3, <4>1, <4>3
      <4> QED
        BY <4>2, <4>3
    <3>2. CASE t \notin armed \cup signals \cup handling
      <4>1. \/ t = <<CHECK_PENDING_ROTATION, s>> /\ se.check_timer
            \/ t = <<SCHEDULED_ROTATION, s>> /\ se.schedule_timer
        BY <2>1, <3>2 DEF Becomes
      <4> QED
        BY <1>3, <4>1 DEF Enabled, Timers, CHECK_PENDING_ROTATION, SCHEDULED_ROTATION
    <3> QED
      BY <3>1, <3>2
  <2> QED
    BY <2>1 DEF TimerInv
<1>6. ThreadInv'
  BY DEF IInv, ThreadInv, ListLockFree, Idle
<1>7. PeriodInv'
  <2>1. \A r \in Sessions \ {s} : client # <<"set_schedule", r>>
    OBVIOUS
  <2> QED
    BY <1>3, <2>1 DEF IInv, PeriodInv
<1> QED
  BY <1>3, <1>5, <1>6, <1>7 DEF IInv, QueueInv, StopInv, queue

\* The timer's reference is put; the command's keeps the session.
LEMMA UnscheduleKeeps ==
    ASSUME NEW se, NEW n \in Nat, n > 0, SessionInv(se), se.schedule_timer,
           se.ref = Own(se) + n
    PROVE  LET b == timer_session_rotation_schedule_timer_stop(se)
           IN  /\ SessionInv(b) /\ b.ref = Own(b) + n
               /\ b.check_timer = se.check_timer /\ ~b.schedule_timer
               /\ b.status = se.status
<1> DEFINE a == [se EXCEPT !.schedule_timer = FALSE]
           b == session_put(a)
<1>1. /\ a = [f \in Fields |-> a[f]]
      /\ a.status = se.status /\ a.ref = se.ref
      /\ a.check_timer = se.check_timer
      /\ a.schedule_timer = FALSE
      /\ a.chunk_being_archived = se.chunk_being_archived
      /\ a.rotation_state = se.rotation_state
      /\ a.rotate_timer_period = se.rotate_timer_period
      /\ a.rotate_size = se.rotate_size
      /\ a.rotate_trigger = se.rotate_trigger
      /\ a.consumed = se.consumed
  BY Zenon DEF SessionInv, Fields
<1> HIDE DEF a
<1>2. SessionInv(a)
  <2>1. a.schedule_timer \in BOOLEAN /\ (Usable(a) <=> Usable(se))
    BY Zenon, <1>1 DEF Usable
  <2> QED
    BY <1>1, <2>1 DEF SessionInv
<1>3. Own(se) = Own(a) + 1
  BY <1>1 DEF Own, Count
<1>4. a.ref = 1 + Own(a) + n /\ Own(a) + n > 0
  BY <1>1, <1>3, OwnIsNat
<1>5. /\ SessionInv(b) /\ b.ref = Own(b) + n
      /\ b.check_timer = a.check_timer /\ b.schedule_timer = a.schedule_timer
      /\ b = [a EXCEPT !.ref = @ - 1]
  BY <1>2, <1>4, PutKeeps
<1>6. b.status = a.status
  BY <1>1, <1>5 DEF Fields
<1> HIDE DEF b
<1>7. b = timer_session_rotation_schedule_timer_stop(se)
  BY DEF a, b, timer_session_rotation_schedule_timer_stop
<1> QED
  BY Zenon, <1>1, <1>5, <1>6, <1>7

LEMMA DeactivateKeeps ==
    ASSUME IInv, NEW s \in Sessions, DeactivatePeriod(s)
    PROVE  IInv'
<1> DEFINE old == session[s]
           set == [old EXCEPT !.rotate_timer_period = FALSE]
           got == session_get(set)
<1>1. SessionInv(old) /\ old.status = "live" /\ ListLockFree
  BY DEF DeactivatePeriod, Command, Live, IInv, SessionsInv
<1>2. /\ set = [f \in Fields |-> set[f]]
      /\ set.status = old.status /\ set.ref = old.ref
      /\ set.check_timer = old.check_timer
      /\ set.schedule_timer = old.schedule_timer
      /\ set.chunk_being_archived = old.chunk_being_archived
      /\ set.rotation_state = old.rotation_state
      /\ set.rotate_timer_period = FALSE
      /\ set.rotate_size = old.rotate_size
      /\ set.rotate_trigger = old.rotate_trigger
      /\ set.consumed = old.consumed
  BY Zenon, <1>1 DEF SessionInv, Fields
<1>3. /\ UNCHANGED <<queue, rotation, notifications, aborted>>
      /\ IF set.schedule_timer
         THEN /\ session' = [session EXCEPT ![s] = got]
              /\ client' = <<"set_schedule", s>>
              /\ timer_delete(<<SCHEDULED_ROTATION, s>>)
         ELSE /\ session' = [session EXCEPT ![s] = set]
              /\ UNCHANGED <<timers, client, stopping>>
  BY DEF DeactivatePeriod
<1> HIDE DEF set
<1>4. SessionInv(set) /\ Own(set) = Own(old)
  <2>1. set.rotate_timer_period \in BOOLEAN /\ (Usable(set) <=> Usable(old))
    BY Zenon, <1>2 DEF Usable
  <2> QED
    BY <1>1, <1>2, <2>1 DEF SessionInv, Own
<1>5. /\ got = [f \in Fields |-> got[f]]
      /\ got.status = set.status /\ got.ref = set.ref + 1
      /\ got.check_timer = set.check_timer
      /\ got.schedule_timer = set.schedule_timer
      /\ got.chunk_being_archived = set.chunk_being_archived
      /\ got.rotation_state = set.rotation_state
      /\ got.rotate_timer_period = set.rotate_timer_period
      /\ got.rotate_size = set.rotate_size
      /\ got.rotate_trigger = set.rotate_trigger
      /\ got.consumed = set.consumed
  BY <1>2 DEF Fields, session_get
<1> HIDE DEF got
<1>6. SessionInv(got)
  <2>1. Usable(got) /\ got.ref \in Nat
    BY <1>1, <1>2, <1>5 DEF SessionInv, Usable
  <2> QED
    BY <1>4, <1>5, <2>1 DEF SessionInv
<1>7. /\ SessionsInv' /\ RefInv' /\ PeriodInv' /\ TimerInv'
      /\ QueueInv' /\ ThreadInv' /\ StopInv'
  <2>1. CASE set.schedule_timer
    <3>1. /\ got.ref = session[s].ref + 1 /\ got.schedule_timer
          /\ got.status = session[s].status /\ got.status = "live"
          /\ got.check_timer = session[s].check_timer
          /\ got.schedule_timer = session[s].schedule_timer
      BY Zenon, <1>1, <1>2, <1>5, <2>1
    <3> QED
      BY <1>1, <1>3, <1>6, <2>1, <3>1, StopBegins
  <2>2. CASE ~set.schedule_timer
    <3>1. set.ref + Own(session[s]) = session[s].ref + Own(set)
      BY <1>2, <1>4
    <3>2. UNCHANGED <<timers, queue, threads>>
      BY <1>3, <2>2 DEF threads
    <3> QED
      BY <1>2, <1>3, <1>4, <2>2, <3>1, <3>2, PlainKeeps
  <2> QED
    BY <2>1, <2>2
<1> QED
  BY <1>3, <1>7 DEF IInv, NotificationInv, AbortInv

\* The command still holds the session when the timer's reference is put.
LEMMA StoppedSession ==
    ASSUME IInv, NEW s \in Sessions, NEW command, client = <<command, s>>
    PROVE  /\ SessionInv(session[s]) /\ session[s].schedule_timer
           /\ session[s].status = "live"
           /\ session[s].ref = Own(session[s]) + Held(s)
           /\ Held(s) \in Nat /\ Held(s) > 0
<1>1. stopping # "no" /\ Stopped = <<SCHEDULED_ROTATION, s>>
  BY DEF IInv, ThreadInv, ListLockFree, Idle, Stopped
<1>2. session[s].schedule_timer /\ session[s].status = "live"
  BY <1>1 DEF IInv, StopInv, Enabled, Idle, SCHEDULED_ROTATION, CHECK_PENDING_ROTATION
<1>3. HeldByClient(client, s) = 1
  BY DEF HeldByClient, Count, Idle
<1>4. Held(s) \in Nat /\ Held(s) > 0
  BY <1>3, HeldIsNat DEF Held, Queued, HeldByJob, Count
<1> QED
  BY <1>2, <1>4, RefInvHeld DEF IInv, SessionsInv

LEMMA DeactivateEndKeeps ==
    ASSUME IInv, NEW s \in Sessions, DeactivatePeriodEnd(s)
    PROVE  IInv'
<1> DEFINE old == session[s]
           b == timer_session_rotation_schedule_timer_stop(old)
           put == session_put(b)
<1>1. /\ client = <<"set_schedule", s>> /\ stopping = "done"
      /\ session' = [session EXCEPT ![s] = put]
      /\ client' = Idle /\ stopping' = "no"
      /\ UNCHANGED <<timers, queue, rotation, notifications, aborted>>
  BY DEF DeactivatePeriodEnd, IInv, SessionsInv
<1>2. /\ SessionInv(old) /\ old.schedule_timer /\ old.ref = Own(old) + Held(s)
      /\ Held(s) \in Nat /\ Held(s) > 0
  BY <1>1, StoppedSession
<1>3. /\ SessionInv(b) /\ b.ref = Own(b) + Held(s)
      /\ b.check_timer = old.check_timer /\ ~b.schedule_timer
  BY <1>2, UnscheduleKeeps
<1> HIDE DEF b
<1>4. PICK n \in Nat : Held(s) = n + 1
  <2>1. Held(s) - 1 \in Nat /\ Held(s) = (Held(s) - 1) + 1
    BY <1>2
  <2> QED
    BY <2>1
<1>5. b.ref = 1 + Own(b) + n
  BY <1>3, <1>4, OwnIsNat
<1>6. /\ SessionInv(put) /\ put.ref = Own(put) + n
      /\ put.check_timer = b.check_timer /\ put.schedule_timer = b.schedule_timer
  BY <1>3, <1>5, PutKeeps
<1> HIDE DEF put
<1>7. 1 + put.ref = Own(put) + Held(s)
  BY <1>4, <1>6, OwnIsNat
<1>8. Becomes(s, put)
  <2>1. put.check_timer = session[s].check_timer /\ ~put.schedule_timer
    BY <1>3, <1>6
  <2> QED
    BY <1>1, <2>1 DEF Becomes, timers
<1>9. /\ SessionsInv' /\ RefInv' /\ PeriodInv' /\ TimerInv'
      /\ QueueInv' /\ ThreadInv' /\ StopInv'
  <2>1. session[s].check_timer => put.check_timer
    BY <1>3, <1>6
  <2>2. put.schedule_timer => put.rotate_timer_period
    BY <1>3, <1>6
  <2> QED
    BY <1>1, <1>6, <1>7, <1>8, <2>1, <2>2, StopEnds
<1> QED
  BY <1>1, <1>9 DEF IInv, NotificationInv, AbortInv

LEMMA LastRotationGrows ==
    ASSUME NEW u, SessionInv(u), Usable(u), NEW o \in LastRotation(u)
    PROVE  SessionInv(o.session) /\ Grows(u, o.session)
<1>1. CASE u.current_trace_chunk = None
  <2>1. o.session = u
    BY <1>1 DEF LastRotation, Outcome
  <2>2. Alike(u, u)
    BY DEF Alike, AlikeButState, SessionInv
  <2> QED
    BY <2>1, <2>2, AlikeGrows DEF Alike
<1>2. CASE u.current_trace_chunk # None
  <2>1. PICK c : o \in cmd_rotate_session(u, c)
    BY <1>2 DEF LastRotation
  <2> QED
    BY <2>1, RotateGrows
<1> QED
  BY <1>1, <1>2

\* The last rotation, then the list's reference is put.
LEMMA DestroyedSession ==
    ASSUME NEW se, NEW n \in Nat,
           SessionInv(se), se.status = "live", ~se.schedule_timer,
           se.ref = Own(se) + n,
           NEW o \in LastRotation(unsubscribe_session_consumed_size_rotation(
                                    [se EXCEPT !.rotate_size = FALSE]))
    PROVE  LET gone == session_put([o.session EXCEPT !.status = "destroyed"])
           IN  /\ SessionInv(gone) /\ gone.ref = Own(gone) + n
               /\ se.check_timer => gone.check_timer
               /\ gone.schedule_timer => gone.rotate_timer_period
               /\ gone.status = "freed" => gone.chunk_being_archived = None
<1> DEFINE u == unsubscribe_session_consumed_size_rotation([se EXCEPT !.rotate_size = FALSE])
           b == o.session
           listed == [b EXCEPT !.status = "destroyed"]
           once == session_put(listed)
<1>1. /\ u = [f \in Fields |-> u[f]]
      /\ u.status = se.status /\ u.ref = se.ref
      /\ u.check_timer = se.check_timer
      /\ u.schedule_timer = se.schedule_timer
      /\ u.chunk_being_archived = se.chunk_being_archived
      /\ u.rotation_state = se.rotation_state
      /\ u.rotate_timer_period = se.rotate_timer_period
      /\ u.rotate_size = FALSE
      /\ u.rotate_trigger = None
      /\ u.consumed = se.consumed
  BY Zenon DEF SessionInv, Fields, unsubscribe_session_consumed_size_rotation
<1>2. o \in LastRotation(u)
  OBVIOUS
<1> HIDE DEF u
<1>3. SessionInv(u) /\ Own(u) = Own(se) /\ Usable(u)
  <2>1. u.rotate_size \in BOOLEAN /\ Usable(u)
    BY Zenon, <1>1 DEF Usable
  <2> QED
    BY <1>1, <2>1 DEF SessionInv, Own
<1>4. SessionInv(b) /\ Grows(u, b)
  BY Zenon, <1>2, <1>3, LastRotationGrows
<1> HIDE DEF b
<1>5. /\ b.status = "live" /\ b.ref = Own(b) + n
      /\ se.check_timer => b.check_timer
      /\ b.schedule_timer => b.rotate_timer_period
  <2>1. b.status = "live"
    BY <1>1, <1>4 DEF Grows, GrowsButTrigger
  <2>2. b.ref + Own(se) = se.ref + Own(b)
    BY <1>1, <1>3, <1>4 DEF Grows, GrowsButTrigger
  <2>3. b.ref = Own(b) + n
    BY <1>4, <2>2, OwnIsNat DEF SessionInv
  <2>4. /\ se.check_timer => b.check_timer
        /\ b.schedule_timer => b.rotate_timer_period
    BY <1>1, <1>4 DEF Grows, GrowsButTrigger
  <2> QED
    BY <2>1, <2>3, <2>4
<1>6. /\ listed = [f \in Fields |-> listed[f]]
      /\ listed.status = "destroyed" /\ listed.ref = b.ref
      /\ listed.check_timer = b.check_timer
      /\ listed.schedule_timer = b.schedule_timer
      /\ listed.chunk_being_archived = b.chunk_being_archived
      /\ listed.rotation_state = b.rotation_state
      /\ listed.rotate_timer_period = b.rotate_timer_period
      /\ listed.rotate_size = b.rotate_size
      /\ listed.rotate_trigger = b.rotate_trigger
      /\ listed.consumed = b.consumed
  BY <1>4 DEF SessionInv, Fields
<1> HIDE DEF listed
<1>7. SessionInv(listed) /\ Own(b) = Own(listed) + 1
  <2>1. Usable(listed)
    BY <1>6 DEF Usable
  <2>2. Own(b) = Own(listed) + 1
    BY <1>5, <1>6 DEF Own, Count
  <2> QED
    BY <1>4, <1>6, <2>1, <2>2 DEF SessionInv
<1>8. listed.ref = 1 + Own(listed) + n
  BY <1>5, <1>6, <1>7, OwnIsNat
<1>9. /\ SessionInv(once) /\ once.ref = Own(once) + n
      /\ once.check_timer = listed.check_timer
      /\ once.schedule_timer = listed.schedule_timer
      /\ once.status = "freed" => once.chunk_being_archived = None
      /\ listed.schedule_timer => once.rotate_timer_period = listed.rotate_timer_period
  BY <1>7, <1>8, PutKeeps
<1> HIDE DEF once
<1>10. /\ se.check_timer => once.check_timer
       /\ once.schedule_timer => once.rotate_timer_period
  BY <1>5, <1>6, <1>9
<1> QED
  BY <1>9, <1>10 DEF once, listed, b

\* A thread that does not stop a timer changes a session and the references
\* to it; no timer is disabled.
LEMMA BecomesKeeps ==
    ASSUME IInv, ListLockFree, NEW s \in Sessions, NEW se,
           SessionInv(se), Becomes(s, se), se.ref = Own(se) + Held(s)',
           \A r \in Sessions \ {s} : Held(r)' = Held(r),
           session[s].check_timer => se.check_timer,
           session[s].schedule_timer => se.schedule_timer,
           se.schedule_timer => se.rotate_timer_period
    PROVE  SessionsInv' /\ RefInv' /\ PeriodInv' /\ TimerInv'
<1>1. /\ SessionsInv' /\ RefInv' /\ session'[s] = se
      /\ \A r \in Sessions \ {s} : session'[r] = session[r]
  BY Zenon, ChangeOne DEF IInv, Becomes
<1>2. TimerInv'
  BY BecomesTimers DEF IInv
<1>3. PeriodInv'
  <2>1. \A r \in Sessions : client # <<"set_schedule", r>>
    BY DEF ListLockFree, Idle
  <2> QED
    BY <1>1, <2>1 DEF IInv, PeriodInv
<1> QED
  BY <1>1, <1>2, <1>3

LEMMA DestroyKeeps ==
    ASSUME IInv, NEW s \in Sessions, cmd_destroy_session(s)
    PROVE  IInv'
<1> DEFINE old == session[s]
           stopped == cmd_stop_trace(old)
           got == session_get(stopped)
<1>1. SessionInv(old) /\ old.status = "live" /\ ListLockFree
  BY DEF cmd_destroy_session, Command, Live, IInv, SessionsInv
<1>2. Alike(old, stopped)
  BY Zenon, <1>1 DEF SessionInv, cmd_stop_trace, Alike, AlikeButState, Fields
<1>3. /\ UNCHANGED <<queue, rotation, notifications>>
      /\ IF stopped.schedule_timer
         THEN /\ session' = [session EXCEPT ![s] = got]
              /\ client' = <<"destroy", s>>
              /\ timer_delete(<<SCHEDULED_ROTATION, s>>)
              /\ UNCHANGED aborted
         ELSE /\ Destroyed(s, stopped, FALSE)
              /\ UNCHANGED <<client, stopping>>
  BY Zenon DEF cmd_destroy_session
<1> HIDE DEF stopped
<1>4. SessionInv(stopped)
  BY <1>1, <1>2, AlikeGrows DEF Alike
<1>5. CASE stopped.schedule_timer
  <2>1. /\ got = [f \in Fields |-> got[f]]
        /\ got.status = stopped.status /\ got.ref = stopped.ref + 1
        /\ got.check_timer = stopped.check_timer
        /\ got.schedule_timer = stopped.schedule_timer
        /\ got.chunk_being_archived = stopped.chunk_being_archived
        /\ got.rotation_state = stopped.rotation_state
        /\ got.rotate_timer_period = stopped.rotate_timer_period
        /\ got.rotate_size = stopped.rotate_size
        /\ got.rotate_trigger = stopped.rotate_trigger
        /\ got.consumed = stopped.consumed
    BY <1>4 DEF SessionInv, Fields, session_get
  <2> HIDE DEF got
  <2>2. /\ got.status = old.status /\ got.status = "live" /\ got.ref = old.ref + 1
        /\ got.check_timer = old.check_timer
        /\ got.schedule_timer = old.schedule_timer
        /\ got.rotate_timer_period = old.rotate_timer_period
    BY <1>1, <1>2, <2>1 DEF Alike, AlikeButState
  <2>3. SessionInv(got)
    <3>1. Usable(got) /\ got.ref \in Nat
      BY <1>1, <2>2 DEF SessionInv, Usable
    <3> QED
      BY <1>4, <2>1, <3>1 DEF SessionInv
  <2>4. got.schedule_timer /\ got.rotate_timer_period
    <3>1. client # <<"set_schedule", s>> /\ got.schedule_timer
      BY Zenon, <1>1, <1>5, <2>1 DEF ListLockFree, Idle
    <3> QED
      BY Zenon, <2>2, <3>1 DEF IInv, PeriodInv
  <2>5. /\ SessionsInv' /\ RefInv' /\ PeriodInv' /\ TimerInv'
        /\ QueueInv' /\ ThreadInv' /\ StopInv'
    BY Zenon, <1>1, <1>3, <1>5, <2>2, <2>3, <2>4, StopBegins
  <2> QED
    BY Zenon, <1>3, <1>5, <2>5 DEF IInv, NotificationInv, AbortInv
<1>6. CASE ~stopped.schedule_timer
  <2>1. \A r \in Sessions : Held(r)' = Held(r)
    BY <1>3, <1>6 DEF Held, Queued, HeldByJob, HeldByClient, queue
  <2>2. stopped.ref = Own(stopped) + Held(s) /\ stopped.status = "live"
    <3>1. Own(stopped) = Own(old) /\ stopped.ref = old.ref /\ stopped.status = old.status
      BY <1>2 DEF Own, Alike, AlikeButState
    <3> QED
      BY <1>1, <3>1, RefInvHeld DEF IInv
  <2>3. PICK o \in LastRotation(unsubscribe_session_consumed_size_rotation(
                            [stopped EXCEPT !.rotate_size = FALSE])) :
            LET listed == [o.session EXCEPT !.status = "destroyed"]
                gone == session_put(listed)
            IN  /\ Becomes(s, gone)
                /\ aborted' = aborted
                    \cup {why \in {"unsubscribe"} :
                            stopped.rotate_size /\ stopped.rotate_trigger = None}
                    \cup {why \in {"released"} : gone.status = "freed"
                                                 /\ gone.chunk_being_archived # None}
    BY Zenon, <1>3, <1>6 DEF Destroyed
  <2> DEFINE gone == session_put([o.session EXCEPT !.status = "destroyed"])
  <2>4. /\ SessionInv(gone) /\ gone.ref = Own(gone) + Held(s)
        /\ stopped.check_timer => gone.check_timer
        /\ gone.schedule_timer => gone.rotate_timer_period
        /\ gone.status = "freed" => gone.chunk_being_archived = None
    BY <1>4, <1>6, <2>2, HeldIsNat, DestroyedSession
  <2>5. /\ Becomes(s, gone)
        /\ aborted' = aborted
            \cup {why \in {"unsubscribe"} : stopped.rotate_size /\ stopped.rotate_trigger = None}
            \cup {why \in {"released"} : gone.status = "freed"
                                         /\ gone.chunk_being_archived # None}
    BY <2>3
  <2> HIDE DEF gone
  <2>6. SessionsInv' /\ RefInv' /\ PeriodInv' /\ TimerInv'
    <3>1. /\ old.check_timer = stopped.check_timer
          /\ old.schedule_timer = stopped.schedule_timer
      BY <1>2 DEF Alike, AlikeButState
    <3>2. gone.ref = Own(gone) + Held(s)'
      BY <2>1, <2>4
    <3>3. session[s].check_timer => gone.check_timer
      BY <2>4, <3>1
    <3>4. ~session[s].schedule_timer
      BY <1>6, <3>1
    <3> QED
      BY <1>1, <2>1, <2>4, <2>5, <3>2, <3>3, <3>4, BecomesKeeps
  <2>7. QueueInv' /\ ThreadInv' /\ StopInv' /\ NotificationInv'
    BY <1>1, <1>3, <1>6
    DEF IInv, QueueInv, ThreadInv, StopInv, NotificationInv, ListLockFree, queue
  <2>8. AbortInv'
    BY <2>4, <2>5 DEF IInv, AbortInv
  <2> QED
    BY <2>6, <2>7, <2>8 DEF IInv
<1> QED
  BY <1>5, <1>6

LEMMA DestroyEndKeeps ==
    ASSUME IInv, NEW s \in Sessions, DestroyEnd(s)
    PROVE  IInv'
<1> DEFINE old == session[s]
           b == timer_session_rotation_schedule_timer_stop(old)
<1>1. /\ client = <<"destroy", s>> /\ stopping = "done"
      /\ Destroyed(s, b, TRUE)
      /\ client' = Idle /\ stopping' = "no"
      /\ UNCHANGED <<queue, rotation, notifications>>
  BY Zenon DEF DestroyEnd
<1>2. /\ SessionInv(old) /\ old.schedule_timer /\ old.ref = Own(old) + Held(s)
      /\ old.status = "live" /\ Held(s) \in Nat /\ Held(s) > 0
  BY SMTT(30), <1>1, StoppedSession
<1>3. /\ SessionInv(b) /\ b.ref = Own(b) + Held(s) /\ b.status = "live"
      /\ b.check_timer = old.check_timer /\ ~b.schedule_timer
  BY <1>2, UnscheduleKeeps
<1> HIDE DEF b
<1>4. PICK n \in Nat : Held(s) = n + 1
  <2>1. Held(s) - 1 \in Nat /\ Held(s) = (Held(s) - 1) + 1
    BY <1>2
  <2> QED
    BY <2>1
<1>6. PICK o \in LastRotation(unsubscribe_session_consumed_size_rotation(
                            [b EXCEPT !.rotate_size = FALSE])) :
            LET listed == [o.session EXCEPT !.status = "destroyed"]
                gone == session_put(session_put(listed))
            IN  /\ Becomes(s, gone)
                /\ aborted' = aborted
                    \cup {why \in {"unsubscribe"} : b.rotate_size /\ b.rotate_trigger = None}
                    \cup {why \in {"released"} : gone.status = "freed"
                                                 /\ gone.chunk_being_archived # None}
  BY Zenon, <1>1 DEF Destroyed
<1> DEFINE put == session_put([o.session EXCEPT !.status = "destroyed"])
           gone == session_put(put)
<1>5. /\ SessionInv(put) /\ put.ref = Own(put) + Held(s)
      /\ b.check_timer => put.check_timer
      /\ put.schedule_timer => put.rotate_timer_period
  BY <1>2, <1>3, DestroyedSession
<1>7. /\ SessionInv(gone) /\ gone.ref = Own(gone) + n
      /\ b.check_timer => gone.check_timer
      /\ gone.schedule_timer => gone.rotate_timer_period
      /\ gone.status = "freed" => gone.chunk_being_archived = None
  <2> HIDE DEF put
  <2>1. put.ref = 1 + Own(put) + n
    BY <1>4, <1>5, OwnIsNat
  <2>2. /\ SessionInv(gone) /\ gone.ref = Own(gone) + n
        /\ gone.check_timer = put.check_timer
        /\ gone.schedule_timer = put.schedule_timer
        /\ gone.status = "freed" => gone.chunk_being_archived = None
        /\ put.schedule_timer => gone.rotate_timer_period = put.rotate_timer_period
    BY <1>5, <2>1, PutKeeps
  <2> HIDE DEF gone
  <2> QED
    BY <1>5, <2>2
<1>8. /\ Becomes(s, gone)
      /\ aborted' = aborted
            \cup {why \in {"unsubscribe"} : b.rotate_size /\ b.rotate_trigger = None}
            \cup {why \in {"released"} : gone.status = "freed"
                                         /\ gone.chunk_being_archived # None}
  BY <1>6
<1> HIDE DEF gone
<1>9. 1 + gone.ref = Own(gone) + Held(s)
  BY <1>4, <1>7, OwnIsNat
<1>10. /\ SessionsInv' /\ RefInv' /\ PeriodInv' /\ TimerInv'
       /\ QueueInv' /\ ThreadInv' /\ StopInv'
  <2>1. session[s].check_timer => gone.check_timer
    BY <1>3, <1>7
  <2> QED
    BY <1>1, <1>7, <1>8, <1>9, <2>1, StopEnds
<1>11. AbortInv'
  BY <1>7, <1>8 DEF IInv, AbortInv
<1> QED
  BY <1>1, <1>10, <1>11 DEF IInv, NotificationInv

-----------------------------------------------------------------------------
(* The rotation thread. *)

\* The thread that has taken a job holds its session.
LEMMA JobSession ==
    ASSUME IInv, NEW s \in Sessions, NEW kind, rotation.job = <<kind, s>>
    PROVE  /\ SessionInv(session[s]) /\ Usable(session[s])
           /\ session[s].ref = Own(session[s]) + Held(s)
           /\ Held(s) \in Nat /\ Held(s) > 0
<1>1. HeldByJob(rotation, s) = 1
  BY DEF HeldByJob, Count, Idle
<1>2. Held(s) \in Nat /\ Held(s) > 0
  BY <1>1, HeldIsNat DEF Held, Queued, HeldByClient, Count
<1>3. Usable(session[s])
  BY <1>2, HeldIsUsable, OwnIsNat DEF IInv
<1> QED
  BY <1>2, <1>3, RefInvHeld DEF IInv, SessionsInv

\* It puts that reference when the job is done.
LEMMA JobReleased ==
    ASSUME IInv, NEW s \in Sessions, NEW kind, rotation.job = <<kind, s>>,
           rotation' = [pc |-> "jobs", job |-> Idle], UNCHANGED <<queue, client>>
    PROVE  /\ Held(s) = Held(s)' + 1
           /\ \A r \in Sessions \ {s} : Held(r)' = Held(r)
<1>1. \A r : HeldByJob(rotation', r) = 0
  BY DEF HeldByJob, Count
<1>2. HeldByJob(rotation, s) = 1 /\ \A r \in Sessions \ {s} : HeldByJob(rotation, r) = 0
  BY DEF HeldByJob, Count, Idle
<1>3. \A r : /\ Queued(list', r) = Queued(list, r) /\ Queued(list, r) \in Nat
             /\ HeldByClient(client', r) = HeldByClient(client, r)
             /\ HeldByClient(client, r) \in Nat
  BY DEF Queued, HeldByClient, Count, queue
<1> QED
  BY <1>1, <1>2, <1>3 DEF Held

LEMMA JobDoneKeeps ==
    ASSUME IInv, ListLockFree, NEW s \in Sessions, NEW kind, NEW se,
           rotation = [pc |-> "lock", job |-> <<kind, s>>],
           SessionInv(se), Grows(session[s], se), JobDone(s, se),
           UNCHANGED <<queue, client, stopping, notifications>>
    PROVE  IInv'
<1> DEFINE put == session_put(se)
<1>1. /\ Becomes(s, put) /\ rotation' = [pc |-> "jobs", job |-> Idle]
      /\ Asserts(put.status # "freed" \/ put.chunk_being_archived = None, "released")
  BY DEF JobDone
<1>2. /\ Held(s) = Held(s)' + 1
      /\ \A r \in Sessions \ {s} : Held(r)' = Held(r)
  BY <1>1, JobReleased
<1>3. Held(s)' \in Nat
  BY HeldIsNatNext
<1>4. se.ref = 1 + Own(se) + Held(s)'
  <2>1. session[s].ref = Own(session[s]) + Held(s)
    BY RefInvHeld DEF IInv
  <2> QED
    BY <1>2, <1>3, <2>1, OwnIsNat DEF Grows, GrowsButTrigger, SessionInv
<1>5. /\ SessionInv(put) /\ put.ref = Own(put) + Held(s)'
      /\ put.check_timer = se.check_timer /\ put.schedule_timer = se.schedule_timer
      /\ put.status = "freed" => put.chunk_being_archived = None
      /\ se.schedule_timer => put.rotate_timer_period = se.rotate_timer_period
  BY SMTT(30), <1>3, <1>4, PutKeeps
<1> HIDE DEF put
<1>6. /\ session[s].check_timer => put.check_timer
      /\ session[s].schedule_timer => put.schedule_timer
      /\ put.schedule_timer => put.rotate_timer_period
  <2>1. session[s].schedule_timer => session[s].rotate_timer_period
    <3>1. client # <<"set_schedule", s>>
      BY DEF ListLockFree, Idle
    <3> QED
      BY <3>1 DEF IInv, PeriodInv
  <2> QED
    BY <1>5, <2>1 DEF Grows, GrowsButTrigger
<1>7. SessionsInv' /\ RefInv' /\ PeriodInv' /\ TimerInv'
  BY <1>1, <1>2, <1>5, <1>6, BecomesKeeps
<1>8. QueueInv' /\ ThreadInv' /\ StopInv' /\ NotificationInv'
  BY Zenon, <1>1 DEF IInv, QueueInv, ThreadInv, StopInv, NotificationInv, ListLockFree, queue
<1>9. AbortInv'
  BY <1>1, <1>5 DEF IInv, AbortInv, Asserts
<1> QED
  BY <1>7, <1>8, <1>9 DEF IInv

LEMMA LaunchKeeps ==
    ASSUME IInv, NEW s \in Sessions, launch_session_rotation(s)
    PROVE  IInv'
<1>1. /\ rotation = [pc |-> "lock", job |-> <<SCHEDULED_ROTATION, s>>] /\ ListLockFree
      /\ UNCHANGED <<queue, client, stopping, notifications>>
  BY DEF launch_session_rotation
<1>2. PICK o \in cmd_rotate_session(session[s], MOVE_TO_COMPLETED) : JobDone(s, o.session)
  BY SMTT(30) DEF launch_session_rotation
<1>3. SessionInv(session[s]) /\ Usable(session[s])
  BY <1>1, JobSession
<1>4. SessionInv(o.session) /\ Grows(session[s], o.session)
  BY <1>3, RotateGrows
<1> QED
  BY Zenon, <1>1, <1>2, <1>4, JobDoneKeeps

\* A check of a chunk being archived stops the check timer, which is enabled.
LEMMA CheckKeeps ==
    ASSUME IInv, NEW s \in Sessions, check_session_rotation_pending(s)
    PROVE  IInv'
<1>1. /\ rotation = [pc |-> "lock", job |-> <<CHECK_PENDING_ROTATION, s>>] /\ ListLockFree
      /\ UNCHANGED <<queue, client, notifications>>
  BY DEF check_session_rotation_pending
<1>2. SessionInv(session[s])
  BY DEF IInv, SessionsInv
<1>3. CASE session[s].chunk_being_archived = None
  <2>1. Alike(session[s], session[s])
    BY <1>2 DEF SessionInv, Alike, AlikeButState
  <2>2. Grows(session[s], session[s])
    BY <1>2, <2>1, AlikeGrows DEF Alike
  <2>3. JobDone(s, session[s]) /\ UNCHANGED stopping
    BY <1>3 DEF check_session_rotation_pending
  <2> QED
    BY SMTT(30), <1>1, <1>2, <2>2, <2>3, JobDoneKeeps
<1>4. CASE session[s].chunk_being_archived # None
  <2>1. /\ Asserts(session[s].check_timer, "check_timer")
        /\ rotation' = [rotation EXCEPT !.pc = "stop"]
        /\ timer_delete(<<CHECK_PENDING_ROTATION, s>>)
        /\ UNCHANGED session
    BY <1>4 DEF check_session_rotation_pending
  <2>2. rotation' = [pc |-> "stop", job |-> <<CHECK_PENDING_ROTATION, s>>]
    BY <1>1, <2>1
  <2>3. \A r \in Sessions : Held(r)' = Held(r)
    BY <1>1, <2>2 DEF Held, Queued, HeldByJob, HeldByClient, queue
  <2>4. SessionsInv' /\ RefInv'
    BY SMTT(30), <2>1, <2>3, ChangeNone DEF IInv
  <2>5. session[s].check_timer
    BY <1>2, <1>4 DEF SessionInv
  <2>6. TimerInv'
    <3>1. (armed \cup signals \cup handling)' \subseteq armed \cup signals \cup handling
      BY <2>1 DEF timer_delete
    <3> QED
      BY <2>1, <3>1 DEF IInv, TimerInv
  <2>7. ThreadInv'
    <3>1. <<CHECK_PENDING_ROTATION, s>> \in Timers
      BY DEF Timers
    <3> QED
      BY <1>1, <2>1, <2>2, <3>1 DEF ThreadInv, ListLockFree, timer_delete
  <2>8. StopInv'
    <3>1. Stopped' = <<CHECK_PENDING_ROTATION, s>> /\ client' = Idle
      BY <1>1, <2>2 DEF Stopped, ListLockFree
    <3> QED
      BY <2>1, <2>5, <3>1 DEF StopInv, Enabled, timer_delete
  <2>9. AbortInv'
    BY <2>1, <2>5 DEF IInv, AbortInv, Asserts
  <2> QED
    BY <1>1, <2>1, <2>4, <2>6, <2>7, <2>8, <2>9
    DEF IInv, PeriodInv, QueueInv, NotificationInv, queue
<1> QED
  BY <1>3, <1>4

\* The check timer's reference is put while the job still holds the session;
\* then the timer is started again, or the rotation ends with its chunk.
LEMMA CheckedSession ==
    ASSUME NEW se, NEW n \in Nat, n > 0, SessionInv(se), se.check_timer, Usable(se),
           se.ref = Own(se) + n,
           NEW b \in check_session_rotation_pending_on_consumers(
                        timer_session_rotation_pending_check_stop(se))
    PROVE  /\ SessionInv(b) /\ b.ref = Own(b) + n
           /\ b.schedule_timer = se.schedule_timer
           /\ b.rotate_timer_period = se.rotate_timer_period
           /\ b.rotate_size = se.rotate_size /\ b.rotate_trigger = se.rotate_trigger
<1> DEFINE a == [se EXCEPT !.check_timer = FALSE]
           p == session_put(a)
<1>1. /\ a = [f \in Fields |-> a[f]]
      /\ a.status = se.status /\ a.ref = se.ref
      /\ a.check_timer = FALSE
      /\ a.schedule_timer = se.schedule_timer
      /\ a.chunk_being_archived = se.chunk_being_archived
      /\ a.rotation_state = se.rotation_state
      /\ a.rotate_timer_period = se.rotate_timer_period
      /\ a.rotate_size = se.rotate_size
      /\ a.rotate_trigger = se.rotate_trigger
      /\ a.consumed = se.consumed
  BY Zenon DEF SessionInv, Fields
<1>2. p = timer_session_rotation_pending_check_stop(se)
  BY DEF timer_session_rotation_pending_check_stop
<1> HIDE DEF a
<1>3. Own(se) = Own(a) + 1 /\ Own(a) \in Nat
  BY <1>1, OwnIsNat DEF Own, Count
<1>4. a.ref > 1 /\ a.ref \in Nat
  BY <1>1, <1>3 DEF SessionInv
<1>5. p = [a EXCEPT !.ref = @ - 1]
  BY <1>4 DEF session_put
<1>6. /\ p = [f \in Fields |-> p[f]]
      /\ p.status = a.status /\ p.ref = a.ref - 1
      /\ p.check_timer = a.check_timer
      /\ p.schedule_timer = a.schedule_timer
      /\ p.chunk_being_archived = a.chunk_being_archived
      /\ p.rotation_state = a.rotation_state
      /\ p.rotate_timer_period = a.rotate_timer_period
      /\ p.rotate_size = a.rotate_size
      /\ p.rotate_trigger = a.rotate_trigger
      /\ p.consumed = a.consumed
  BY <1>1, <1>5 DEF Fields
<1> HIDE DEF p
<1>7. /\ p.status = se.status /\ p.ref + 1 = se.ref /\ p.ref \in Nat
      /\ p.schedule_timer = se.schedule_timer
      /\ p.chunk_being_archived = se.chunk_being_archived
      /\ p.rotation_state = se.rotation_state
      /\ p.rotate_timer_period = se.rotate_timer_period
      /\ p.rotate_size = se.rotate_size
      /\ p.rotate_trigger = se.rotate_trigger
      /\ p.consumed = se.consumed
  <2>1. p.ref + 1 = se.ref /\ p.ref \in Nat
    BY <1>1, <1>4, <1>6
  <2> QED
    BY <1>1, <1>6, <2>1
<1>8. se.chunk_being_archived # None
  BY DEF SessionInv
<1>9. \/ b = timer_session_rotation_pending_check_start(p)
      \/ \E result : b = session_reset_rotation_state(p, result)
  BY <1>2 DEF check_session_rotation_pending_on_consumers
<1>10. CASE b = timer_session_rotation_pending_check_start(p)
  <2>1. /\ b = [f \in Fields |-> b[f]]
        /\ b.status = p.status /\ b.ref = p.ref + 1
        /\ b.check_timer = TRUE
        /\ b.schedule_timer = p.schedule_timer
        /\ b.chunk_being_archived = p.chunk_being_archived
        /\ b.rotation_state = p.rotation_state
        /\ b.rotate_timer_period = p.rotate_timer_period
        /\ b.rotate_size = p.rotate_size
        /\ b.rotate_trigger = p.rotate_trigger
        /\ b.consumed = p.consumed
    BY Zenon, <1>6, <1>10 DEF timer_session_rotation_pending_check_start, session_get, Fields
  <2>2. se.check_timer = TRUE
    BY DEF SessionInv
  <2>3. Alike(se, b)
    BY Zenon, <1>7, <2>1, <2>2 DEF Alike, AlikeButState
  <2>4. SessionInv(b)
    BY <2>3, AlikeGrows DEF Alike
  <2>5. Own(b) = Own(se) /\ b.ref = se.ref
    BY Zenon, <2>3 DEF Own, Alike, AlikeButState
  <2> QED
    BY <2>3, <2>4, <2>5 DEF Alike, AlikeButState
<1>11. CASE \E result : b = session_reset_rotation_state(p, result)
  <2>1. PICK result : b = session_reset_rotation_state(p, result)
    BY <1>11
  <2>2. /\ b = [f \in Fields |-> b[f]]
        /\ b.status = p.status /\ b.ref = p.ref
        /\ b.check_timer = p.check_timer
        /\ b.schedule_timer = p.schedule_timer
        /\ b.chunk_being_archived = None
        /\ b.rotate_timer_period = p.rotate_timer_period
        /\ b.rotate_size = p.rotate_size
        /\ b.rotate_trigger = p.rotate_trigger
        /\ b.consumed = p.consumed
    BY Zenon, <1>6, <1>7, <1>8, <2>1 DEF session_reset_rotation_state, Fields
  <2>3. b.check_timer = FALSE /\ b.check_timer \in BOOLEAN
    BY Zenon, <1>1, <1>6, <2>2
  <2>4. SessionInv(b)
    <3>1. Usable(b)
      BY <1>7, <2>2 DEF Usable
    <3> QED
      BY <1>7, <2>2, <2>3, <3>1 DEF SessionInv
  <2>5. Own(b) = Own(a)
    BY <1>6, <2>2 DEF Own
  <2>6. b.ref = Own(b) + n
    BY <1>3, <1>7, <2>2, <2>5
  <2> QED
    BY <1>7, <2>2, <2>4, <2>6
<1> QED
  BY <1>9, <1>10, <1>11

LEMMA CheckEndKeeps ==
    ASSUME IInv, NEW s \in Sessions, CheckEnd(s)
    PROVE  IInv'
<1>1. /\ rotation = [pc |-> "stop", job |-> <<CHECK_PENDING_ROTATION, s>>]
      /\ stopping = "done"
      /\ rotation' = [pc |-> "jobs", job |-> Idle] /\ stopping' = "no"
      /\ UNCHANGED <<signals, handling, queue, client, notifications>>
  BY DEF CheckEnd
<1>2. PICK se \in check_session_rotation_pending_on_consumers(
                    timer_session_rotation_pending_check_stop(session[s])) :
            /\ session' = [session EXCEPT ![s] = session_put(se)]
            /\ armed' = armed \cup {t \in {<<CHECK_PENDING_ROTATION, s>>} : se.check_timer}
            /\ Asserts(se.ref # 1 \/ se.chunk_being_archived = None, "released")
  BY Zenon DEF CheckEnd
<1> DEFINE put == session_put(se)
<1>3. client = Idle /\ Stopped = <<CHECK_PENDING_ROTATION, s>>
  BY <1>1 DEF IInv, ThreadInv, Stopped
<1>4. session[s].check_timer /\ Stopped \notin armed \cup signals \cup handling
  BY Zenon, <1>1, <1>3 DEF IInv, StopInv, Enabled
<1>5. /\ SessionInv(session[s]) /\ Usable(session[s])
      /\ session[s].ref = Own(session[s]) + Held(s)
      /\ Held(s) \in Nat /\ Held(s) > 0
  BY SMTT(30), <1>1, JobSession
<1>6. /\ SessionInv(se) /\ se.ref = Own(se) + Held(s)
      /\ se.schedule_timer = session[s].schedule_timer
      /\ se.rotate_timer_period = session[s].rotate_timer_period
  BY <1>4, <1>5, CheckedSession
<1>7. /\ Held(s) = Held(s)' + 1 /\ Held(s)' \in Nat
      /\ \A r \in Sessions \ {s} : Held(r)' = Held(r)
  BY SMTT(30), <1>1, JobReleased, HeldIsNatNext
<1>8. se.ref = 1 + Own(se) + Held(s)'
  BY <1>6, <1>7, OwnIsNat
<1>9. /\ SessionInv(put) /\ put.ref = Own(put) + Held(s)'
      /\ put.check_timer = se.check_timer /\ put.schedule_timer = se.schedule_timer
      /\ se.schedule_timer => put.rotate_timer_period = se.rotate_timer_period
  BY <1>6, <1>7, <1>8, PutKeeps
<1>10. session' = [session EXCEPT ![s] = put]
  BY SMTT(30), <1>2
<1> HIDE DEF put
<1>11. /\ SessionsInv' /\ RefInv' /\ session'[s] = put
       /\ \A r \in Sessions \ {s} : session'[r] = session[r]
  BY Zenon, <1>7, <1>9, <1>10, ChangeOne DEF IInv
<1>12. TimerInv'
  <2>1. ASSUME NEW t \in (armed \cup signals \cup handling)'
        PROVE  t \in Timers /\ Enabled(session'[t[2]], t[1])
    <3>1. CASE t \in armed \cup signals \cup handling
      <4>1. t \in Timers /\ t[2] \in Sessions /\ Enabled(session[t[2]], t[1])
        BY SMTT(30), <3>1 DEF IInv, TimerInv, Timers
      <4>2. CASE t[2] = s
        <5>1. t[1] # CHECK_PENDING_ROTATION
          BY SMTT(30), <1>3, <1>4, <3>1, <4>1, <4>2 DEF Timers
        <5> QED
          BY <1>6, <1>9, <1>11, <4>1, <4>2, <5>1 DEF Enabled
      <4>3. CASE t[2] # s
        BY <1>11, <4>1, <4>3
      <4> QED
        BY <4>2, <4>3
    <3>2. CASE t \notin armed \cup signals \cup handling
      <4>1. t = <<CHECK_PENDING_ROTATION, s>> /\ se.check_timer
        BY <1>1, <1>2, <2>1, <3>2
      <4> QED
        BY Zenon, <1>9, <1>11, <4>1 DEF Enabled, Timers
    <3> QED
      BY <3>1, <3>2
  <2> QED
    BY SMTT(30), <2>1 DEF TimerInv
<1>13. PeriodInv'
  <2>1. \A r \in Sessions : client # <<"set_schedule", r>>
    BY <1>3 DEF Idle
  <2>2. put.schedule_timer => put.rotate_timer_period
    BY Zenon, <1>6, <1>9, <2>1 DEF IInv, PeriodInv
  <2> QED
    BY <1>11, <2>1, <2>2 DEF IInv, PeriodInv
<1>14. QueueInv' /\ ThreadInv' /\ StopInv' /\ NotificationInv'
  BY Zenon, <1>1, <1>3 DEF IInv, QueueInv, ThreadInv, StopInv, NotificationInv, ListLockFree, queue
<1>15. AbortInv'
  <2>1. se.ref = 1 => ~se.check_timer
    <3>1. se.ref = 1 => Own(se) = 0
      BY <1>5, <1>6, OwnIsNat
    <3> QED
      BY SMTT(30), <3>1, OwnIsUsable
  <2>2. se.ref # 1 \/ se.chunk_being_archived = None
    BY <1>6, <2>1 DEF SessionInv
  <2> QED
    BY <1>2, <2>2 DEF IInv, AbortInv, Asserts
<1> QED
  BY <1>11, <1>12, <1>13, <1>14, <1>15 DEF IInv

\* A rotation of a session whose trigger is removed, and set again.
LEMMA ConditionGrows ==
    ASSUME NEW se, SessionInv(se), Usable(se), se.rotate_trigger # None,
           NEW o \in cmd_rotate_session(unsubscribe_session_consumed_size_rotation(se),
                                        MOVE_TO_COMPLETED),
           NEW threshold
    PROVE  LET b == [o.session EXCEPT !.rotate_trigger = threshold]
           IN  /\ SessionInv(o.session) /\ GrowsButTrigger(se, o.session)
               /\ SessionInv(b) /\ GrowsButTrigger(se, b)
<1> DEFINE u == unsubscribe_session_consumed_size_rotation(se)
           c == o.session
           b == [c EXCEPT !.rotate_trigger = threshold]
<1>1. /\ u = [f \in Fields |-> u[f]]
      /\ u.status = se.status /\ u.ref = se.ref
      /\ u.check_timer = se.check_timer
      /\ u.schedule_timer = se.schedule_timer
      /\ u.chunk_being_archived = se.chunk_being_archived
      /\ u.rotation_state = se.rotation_state
      /\ u.rotate_timer_period = se.rotate_timer_period
      /\ u.rotate_size = se.rotate_size
      /\ u.rotate_trigger = None
      /\ u.consumed = se.consumed
  BY DEF SessionInv, Fields, unsubscribe_session_consumed_size_rotation
<1>2. o \in cmd_rotate_session(u, MOVE_TO_COMPLETED)
  OBVIOUS
<1> HIDE DEF u
<1>3. SessionInv(u) /\ Usable(u) /\ GrowsButTrigger(se, u)
  <2>1. Usable(u)
    BY <1>1 DEF Usable
  <2>2. SessionInv(u)
    BY <1>1, <2>1 DEF SessionInv
  <2>3. Own(u) = Own(se)
    BY <1>1 DEF Own
  <2> QED
    BY <1>1, <2>1, <2>2, <2>3 DEF GrowsButTrigger
<1>4. SessionInv(c) /\ GrowsButTrigger(u, c)
  BY <1>2, <1>3, RotateGrows DEF Grows
<1> HIDE DEF c
<1>5. GrowsButTrigger(se, c)
  BY <1>3, <1>4, GrowsButTriggerTransitive
<1>6. /\ b = [f \in Fields |-> b[f]]
      /\ b.status = c.status /\ b.ref = c.ref
      /\ b.check_timer = c.check_timer
      /\ b.schedule_timer = c.schedule_timer
      /\ b.chunk_being_archived = c.chunk_being_archived
      /\ b.rotation_state = c.rotation_state
      /\ b.rotate_timer_period = c.rotate_timer_period
      /\ b.rotate_size = c.rotate_size
      /\ b.consumed = c.consumed
  BY <1>4 DEF SessionInv, Fields
<1> HIDE DEF b
<1>7. c.rotate_size
  BY <1>5 DEF SessionInv, GrowsButTrigger
<1>8. SessionInv(b)
  <2>1. Usable(b) <=> Usable(c)
    BY <1>6 DEF Usable
  <2>2. b.rotate_size
    BY Zenon, <1>6, <1>7
  <2> QED
    BY <1>4, <1>6, <2>1, <2>2 DEF SessionInv
<1>9. GrowsButTrigger(c, b)
  <2>1. Own(b) = Own(c)
    BY <1>6 DEF Own
  <2> QED
    BY <1>6, <2>1 DEF GrowsButTrigger
<1>10. GrowsButTrigger(se, b)
  BY <1>4, <1>5, <1>8, <1>9, GrowsButTriggerTransitive
<1> QED
  BY <1>4, <1>5, <1>8, <1>10 DEF b, c

LEMMA ConditionKeeps ==
    ASSUME IInv, handle_condition
    PROVE  IInv'
<1> DEFINE n == Head(notifications)
<1>1. /\ rotation.pc = "poll" /\ ListLockFree /\ notifications # <<>>
      /\ notifications' = Tail(notifications) /\ UNCHANGED <<queue, client, stopping>>
  BY DEF handle_condition
<1>2. n \in [threshold: Nat \ {0}, consumed: Nat] /\ NotificationInv'
  <2> DEFINE Notification == [threshold: Nat \ {0}, consumed: Nat]
  <2>1. notifications \in Seq(Notification)
    BY DEF IInv, NotificationInv
  <2> HIDE DEF Notification
  <2>2. n \in Notification /\ Tail(notifications) \in Seq(Notification)
    BY <1>1, <2>1
  <2> QED
    BY <1>1, <2>2 DEF NotificationInv, Notification
<1>3. stopping = "no" /\ rotation.job = Idle
      /\ rotation = [pc |-> rotation.pc, job |-> rotation.job]
  BY SMTT(30), <1>1 DEF IInv, ThreadInv
<1>4. CASE UNCHANGED <<session, timers, rotation>> /\ aborted' \in {aborted, aborted \cup {"comparison"}}
  <2>1. \A r \in Sessions : Held(r)' = Held(r)
    BY <1>1, <1>4 DEF Held, Queued, HeldByJob, HeldByClient, queue
  <2>2. SessionsInv' /\ RefInv'
    BY <1>4, <2>1, ChangeNone DEF IInv
  <2> QED
    BY SMTT(30), <1>1, <1>2, <1>3, <1>4, <2>2
    DEF IInv, PeriodInv, TimerInv, QueueInv, ThreadInv, StopInv, AbortInv, ListLockFree,
        timers, queue
<1>5. ASSUME NEW s \in Live, session[s].rotate_trigger = n.threshold,
             NEW o \in cmd_rotate_session(
                        unsubscribe_session_consumed_size_rotation(session[s]),
                        MOVE_TO_COMPLETED),
             \/ /\ Becomes(s, [o.session EXCEPT !.rotate_trigger = n.consumed + RotateSize])
                /\ UNCHANGED rotation
             \/ /\ Becomes(s, o.session)
                /\ rotation' = [rotation EXCEPT !.pc = "dead"],
             UNCHANGED aborted
      PROVE  IInv'
  <2> DEFINE threshold == n.consumed + RotateSize
             b == [o.session EXCEPT !.rotate_trigger = threshold]
  <2>1. /\ s \in Sessions /\ SessionInv(session[s]) /\ Usable(session[s])
        /\ session[s].rotate_trigger # None
    BY <1>2, <1>5 DEF Live, IInv, SessionsInv, Usable, None
  <2> HIDE DEF threshold
  <2>2. /\ SessionInv(o.session) /\ GrowsButTrigger(session[s], o.session)
        /\ SessionInv(b) /\ GrowsButTrigger(session[s], b)
    BY <2>1, ConditionGrows
  <2>3. PICK se : SessionInv(se) /\ GrowsButTrigger(session[s], se) /\ Becomes(s, se)
    BY <1>5, <2>2 DEF threshold
  <2>4. /\ rotation'.job = rotation.job /\ rotation'.pc \in {"poll", "dead"}
        /\ rotation' = [pc |-> rotation'.pc, job |-> rotation'.job]
    BY <1>1, <1>3, <1>5
  <2>5. SessionsInv' /\ RefInv' /\ PeriodInv' /\ TimerInv' /\ QueueInv'
    BY <1>1, <2>1, <2>3, <2>4, GrowKeeps DEF queue
  <2>6. ThreadInv' /\ StopInv'
    BY <1>1, <1>3, <2>4 DEF IInv, ThreadInv, StopInv, ListLockFree
  <2> QED
    BY <1>2, <1>5, <2>5, <2>6 DEF IInv, AbortInv
<1> QED
  BY Zenon, <1>4, <1>5 DEF handle_condition, Asserts

-----------------------------------------------------------------------------
(* The invariant, and what follows from it. *)

LEMMA InitHolds ==
    ASSUME Init
    PROVE  IInv
<1>1. /\ NewSession = [f \in Fields |-> NewSession[f]]
      /\ NewSession.ref = 0 /\ NewSession.status = "unborn"
      /\ NewSession.check_timer = FALSE /\ NewSession.schedule_timer = FALSE
      /\ NewSession.chunk_being_archived = None
      /\ NewSession.rotate_timer_period = FALSE /\ NewSession.rotate_size = FALSE
      /\ NewSession.rotate_trigger = None /\ NewSession.consumed = 0
  BY Zenon DEF NewSession, Fields
<1>2. SessionInv(NewSession)
  <2>1. /\ NewSession.check_timer \in BOOLEAN /\ NewSession.schedule_timer \in BOOLEAN
        /\ NewSession.rotate_timer_period \in BOOLEAN /\ NewSession.rotate_size \in BOOLEAN
        /\ ~NewSession.check_timer
    BY Zenon, <1>1
  <2> QED
    BY <1>1, <2>1 DEF SessionInv
<1>3. Own(NewSession) = 0
  BY <1>1 DEF Own, Count
<1>4. SessionsInv
  BY <1>2 DEF Init, SessionsInv
<1>5. RefInv
  <2>1. \A s : Held(s) = 0
    <3>1. Range(list) = {}
      BY DEF Init, Range
    <3> QED
      BY <3>1 DEF Init, Held, Queued, HeldByJob, HeldByClient, Count
  <2> QED
    BY <1>1, <1>3, <2>1, RefInvHeld DEF Init
<1>6. PeriodInv /\ TimerInv
  BY <1>1 DEF Init, PeriodInv, TimerInv
<1>7. QueueInv /\ NotificationInv
  BY DEF Init, QueueInv, NotificationInv
<1>8. ThreadInv /\ StopInv /\ AbortInv
  BY DEF Init, ThreadInv, StopInv, AbortInv, ListLockFree
<1> QED
  BY <1>4, <1>5, <1>6, <1>7, <1>8 DEF IInv

LEMMA StepKeeps ==
    ASSUME IInv, [Next]_vars
    PROVE  IInv'
<1>1. CASE timer_signal_thread_qs \/ HandleQuiescentState
  BY <1>1, TimerKeeps
<1>2. ASSUME NEW t \in Timers, sigwaitinfo(t) \/ TimerExpires(t)
      PROVE  IInv'
  BY <1>2, TimerKeeps
<1>3. ASSUME NEW t \in Timers, rotation_thread_enqueue_job(t)
      PROVE  IInv'
  BY <1>3, EnqueueKeeps
<1>4. CASE PollQueue \/ PopJob \/ QueueEmpty \/ ReadPipe
  BY <1>4, QueueKeeps
<1>5. CASE handle_condition
  BY <1>5, ConditionKeeps
<1>6. ASSUME NEW s \in Sessions,
             CheckEnd(s) \/ Client(s) \/ ClientEnd(s) \/ RunJob(s)
             \/ Consumes(s) \/ ConsumerReleasesChunk(s)
      PROVE  IInv'
  BY SMTT(30), <1>6, CreateKeeps, ClientKeeps, DeactivateKeeps, SizeKeeps, DestroyKeeps,
     DeactivateEndKeeps, DestroyEndKeeps, LaunchKeeps, CheckKeeps, CheckEndKeeps
  DEF Client, ClientEnd, RunJob
<1>7. CASE UNCHANGED vars
  <2>1. /\ UNCHANGED <<session, list, client, rotation, stopping, notifications, aborted>>
        /\ UNCHANGED <<armed, signals, handling>>
    BY SMTT(30), <1>7 DEF vars, timers, queue, threads
  <2>2. \A r \in Sessions : Held(r)' = Held(r)
    BY <2>1 DEF Held, Queued, HeldByJob, HeldByClient
  <2>3. SessionsInv' /\ RefInv'
    BY <2>1, <2>2, ChangeNone DEF IInv
  <2> QED
    BY <2>1, <2>3 DEF IInv, PeriodInv, TimerInv, QueueInv, ThreadInv, StopInv, Stopped,
                      ListLockFree, NotificationInv, AbortInv
<1> QED
  BY <1>1, <1>2, <1>3, <1>4, <1>5, <1>6, <1>7 DEF Next, HandleSignal, JobQueue

LEMMA Invariant == Spec => []IInv
  BY InitHolds, StepKeeps, PTL DEF Spec

\* A session has a job of each kind at most.
LEMMA JobsOfSession ==
    ASSUME NEW q \in Seq(Timers), NEW s \in Sessions
    PROVE  Cardinality({t \in Range(q) : t[2] = s}) = Queued(q, s)
<1> DEFINE a == <<CHECK_PENDING_ROTATION, s>>
           b == <<SCHEDULED_ROTATION, s>>
           jobs == {t \in Range(q) : t[2] = s}
<1>1. a # b /\ a[2] = s /\ b[2] = s
  BY DEF CHECK_PENDING_ROTATION, SCHEDULED_ROTATION
<1>2. Range(q) \subseteq Timers
  BY DEF Range
<1>3. \A t \in jobs : t = a \/ t = b
  BY <1>2 DEF Timers
<1>4. /\ Cardinality({}) = 0 /\ Cardinality({a}) = 1 /\ Cardinality({b}) = 1
      /\ Cardinality({a, b}) = 2
  <2>1. /\ IsFiniteSet({}) /\ Cardinality({}) = 0
        /\ IsFiniteSet({a}) /\ Cardinality({a}) = 1 /\ Cardinality({b}) = 1
    BY Zenon, FS_EmptySet, FS_Singleton
  <2>2. b \notin {a} /\ {a, b} = {a} \cup {b}
    BY <1>1
  <2>3. Cardinality({a} \cup {b}) = Cardinality({a}) + 1
    BY Zenon, <2>1, <2>2, FS_AddElement
  <2> HIDE DEF a, b
  <2>4. Cardinality({a, b}) = Cardinality({a}) + 1
    BY Zenon, <2>2, <2>3
  <2> QED
    BY <2>1, <2>4
<1>5. jobs = IF a \in Range(q) THEN IF b \in Range(q) THEN {a, b} ELSE {a}
             ELSE IF b \in Range(q) THEN {b} ELSE {}
  BY <1>1, <1>3
<1>6. Queued(q, s) = Count(a \in Range(q)) + Count(b \in Range(q))
  BY DEF Queued
<1> HIDE DEF a, b, jobs
<1>7. Cardinality(jobs) = Queued(q, s)
  BY <1>4, <1>5, <1>6 DEF Count
<1> QED
  BY <1>7 DEF jobs

\* Every reference to a session is accounted for, and whatever may still reach
\* a session belongs to a timer that holds one, whatever the number of
\* sessions, chunks and jobs and whichever operations fail (session_get and
\* session_put in timer.c, rotation-thread.c and cmd.c).
THEOREM ReferencesExact == Spec => []ReferencesAreExact
<1>1. IInv => ReferencesAreExact
  <2> SUFFICES ASSUME IInv, NEW s \in Sessions
               PROVE  /\ session[s].ref = References(s)
                      /\ \A t \in armed \cup signals \cup handling :
                            t[2] = s => IF t[1] = CHECK_PENDING_ROTATION
                                        THEN session[s].check_timer
                                        ELSE session[s].schedule_timer
    BY DEF ReferencesAreExact
  <2>1. References(s) = Own(session[s]) + Queued(list, s)
                        + HeldByJob(rotation, s) + HeldByClient(client, s)
    <3>1. Cardinality({t \in Range(list) : t[2] = s}) = Queued(list, s)
      BY SMTT(30), JobsOfSession DEF IInv, QueueInv
    <3> QED
      BY <3>1 DEF References, Own, HeldByJob, HeldByClient, Count
  <2>2. session[s].ref = References(s)
    BY <2>1 DEF IInv, RefInv
  <2> QED
    BY <2>2 DEF IInv, TimerInv, Enabled
<1> QED
  BY <1>1, Invariant, PTL

-----------------------------------------------------------------------------
(* The chunks of a session. *)

\* The chunk being archived and the last one archived are older than the
\* current one, which is the most recent; a rotation is ongoing exactly while
\* a chunk is being archived, and is completed only if one has been.
ChunkInv(se) ==
    /\ se.current_trace_chunk \in Nat /\ se.chunk_being_archived \in Nat
    /\ se.most_recent_chunk_id \in Nat /\ se.last_archived_chunk_id \in Nat
    /\ se.last_archived_chunk_id <= se.most_recent_chunk_id
    /\ se.chunk_being_archived <= se.most_recent_chunk_id
    /\ se.current_trace_chunk # None =>
            /\ se.current_trace_chunk = se.most_recent_chunk_id
            /\ se.last_archived_chunk_id < se.current_trace_chunk
            /\ se.chunk_being_archived < se.current_trace_chunk
    /\ se.rotation_state = "ongoing" <=> se.chunk_being_archived # None
    /\ se.rotation_state = "completed" => se.last_archived_chunk_id # None

SessionChunks(se) ==
    IF se.status = "freed" THEN se.rotation_state = "no_rotation" ELSE ChunkInv(se)

ChunksInv == \A s \in Sessions : SessionChunks(session[s])

Whole(se) == se = [f \in Fields |-> se[f]]

\* The fields the invariant is about are the same.
SameChunks(a, b) ==
    /\ Whole(b)
    /\ b.current_trace_chunk = a.current_trace_chunk
    /\ b.chunk_being_archived = a.chunk_being_archived
    /\ b.most_recent_chunk_id = a.most_recent_chunk_id
    /\ b.last_archived_chunk_id = a.last_archived_chunk_id
    /\ b.rotation_state = a.rotation_state

\* What anything but the end of a rotation does: a rotation that is ongoing
\* goes on, one that begins is that of the current chunk, and none completes.
Advances(a, b) ==
    /\ Whole(b) /\ ChunkInv(b)
    /\ b.last_archived_chunk_id = a.last_archived_chunk_id
    /\ a.chunk_being_archived # None => b.chunk_being_archived = a.chunk_being_archived
    /\ a.chunk_being_archived = None /\ b.chunk_being_archived # None
        => b.chunk_being_archived = a.current_trace_chunk
    /\ b.rotation_state \in {a.rotation_state, "ongoing", "error"}

\* The same, or the session is released.
Kept(a, b) ==
    /\ Whole(b)
    /\ \/ b.status = "freed" /\ b.rotation_state = "no_rotation"
       \/ a.status # "freed" /\ b.status # "freed" /\ Advances(a, b)

\* What a client is told of a chunk before and after a step.
Stands(a, b, c) ==
    /\ /\ cmd_rotate_get_info(a, c) = "ongoing"
       /\ cmd_rotate_get_info(b, c) = "completed"
       => c \notin a.on_consumers
    /\ /\ cmd_rotate_get_info(a, c) = "completed"
       /\ b.status # "freed"
       => cmd_rotate_get_info(b, c) \in {"completed", "expired", "error"}

LEMMA AdvancesItself ==
    ASSUME NEW a, Whole(a), ChunkInv(a)
    PROVE  Advances(a, a)
  BY DEF Advances

LEMMA SameAdvances ==
    ASSUME NEW a, NEW b, NEW c, Advances(a, b), SameChunks(b, c)
    PROVE  Advances(a, c)
  BY DEF Advances, SameChunks, ChunkInv

LEMMA AdvancesAfterSame ==
    ASSUME NEW a, NEW b, NEW c, SameChunks(a, b), Advances(b, c)
    PROVE  Advances(a, c)
  BY DEF Advances, SameChunks

LEMMA KeptStands ==
    ASSUME NEW a, NEW b, NEW c, SessionChunks(a), Kept(a, b)
    PROVE  SessionChunks(b) /\ Stands(a, b, c)
<1>1. CASE b.status = "freed" /\ b.rotation_state = "no_rotation"
  BY <1>1 DEF SessionChunks, Stands, cmd_rotate_get_info
<1>2. CASE a.status # "freed" /\ b.status # "freed" /\ Advances(a, b)
  <2>1. ChunkInv(a) /\ ChunkInv(b)
    BY <1>2 DEF SessionChunks, Advances
  <2>2. ASSUME cmd_rotate_get_info(a, c) = "ongoing"
        PROVE  cmd_rotate_get_info(b, c) # "completed"
    <3>1. a.chunk_being_archived # None /\ a.chunk_being_archived = c
      BY <2>1, <2>2 DEF cmd_rotate_get_info, ChunkInv
    <3> QED
      BY <1>2, <3>1 DEF cmd_rotate_get_info, Advances
  <2>3. ASSUME cmd_rotate_get_info(a, c) = "completed"
        PROVE  cmd_rotate_get_info(b, c) \in {"completed", "expired", "error"}
    <3>1. /\ a.chunk_being_archived = None /\ a.rotation_state = "completed"
          /\ a.last_archived_chunk_id \in {None, c}
      BY <2>3 DEF cmd_rotate_get_info
    <3>2. a.last_archived_chunk_id = c /\ c # None
      BY <2>1, <3>1 DEF ChunkInv
    <3>3. CASE b.chunk_being_archived # None
      <4>1. b.chunk_being_archived = a.current_trace_chunk
        BY <1>2, <3>1, <3>3 DEF Advances
      <4>2. b.chunk_being_archived # c
        BY <2>1, <3>2, <3>3, <4>1 DEF ChunkInv
      <4> QED
        BY <3>3, <4>2 DEF cmd_rotate_get_info
    <3>4. CASE b.chunk_being_archived = None
      <4>1. b.last_archived_chunk_id = c /\ b.rotation_state \in {"completed", "error"}
        BY <1>2, <2>1, <3>1, <3>2, <3>4 DEF Advances, ChunkInv
      <4> QED
        BY <3>4, <4>1 DEF cmd_rotate_get_info
    <3> QED
      BY <3>3, <3>4
  <2> QED
    BY <1>2, <2>1, <2>2, <2>3 DEF SessionChunks, Stands
<1> QED
  BY <1>1, <1>2 DEF Kept

LEMMA PutKept ==
    ASSUME NEW a, NEW b, Kept(a, b)
    PROVE  Kept(a, session_put(b))
<1> DEFINE put == session_put(b)
<1>1. CASE b.ref > 1
  <2>1. put = [b EXCEPT !.ref = @ - 1]
    BY <1>1 DEF session_put
  <2>2. Whole(b)
    BY DEF Kept
  <2>3. SameChunks(b, put) /\ put.status = b.status
    BY Zenon, <2>1, <2>2 DEF SameChunks, Whole, Fields
  <2> HIDE DEF put
  <2>4. Advances(a, b) => Advances(a, put)
    BY <2>3, SameAdvances
  <2>5. Whole(put) /\ put.rotation_state = b.rotation_state
    BY <2>3 DEF SameChunks
  <2>6. Kept(a, put)
    BY <2>3, <2>4, <2>5 DEF Kept
  <2> QED
    BY <2>6 DEF put
<1>2. CASE ~(b.ref > 1)
  <2>1. put = [NewSession EXCEPT !.status = "freed",
                            !.chunk_being_archived = b.chunk_being_archived]
    BY <1>2 DEF session_put
  <2>2. Whole(put) /\ put.status = "freed" /\ put.rotation_state = "no_rotation"
    BY Zenon, <2>1 DEF Whole, Fields, NewSession
  <2> QED
    BY <2>2 DEF Kept
<1> QED
  BY <1>1, <1>2

LEMMA RotatedAdvances ==
    ASSUME NEW se, NEW command, NEW fault,
           Whole(se), ChunkInv(se), se.rotation_state # "ongoing"
    PROVE  Advances(se, Rotated(se, command, fault).session)
<1> DEFINE old == se.current_trace_chunk
           new == IF se.active THEN session_create_new_trace_chunk(se) ELSE None
           set == [session_set_trace_chunk(se, new) EXCEPT
                    !.rotated_after_last_stop = @ \/ ~se.active]
           closed == [session_close_trace_chunk(set, command) EXCEPT
                        !.rotation_state = "ongoing"]
           failed(after) == [session_reset_rotation_state(after, "error") EXCEPT
                                !.close_command = NotClosed]
           begun == [timer_session_rotation_pending_check_start(closed) EXCEPT
                        !.chunk_being_archived = old]
           none == [se EXCEPT !.current_trace_chunk = None]
           o == Rotated(se, command, fault)
<1>1. se.chunk_being_archived = None
  BY DEF ChunkInv
<1>2. new = None \/ new = se.most_recent_chunk_id + 1
  BY DEF session_create_new_trace_chunk
<1>3. \/ o.session \in {failed(se), failed(none), failed(set), failed(closed), set}
      \/ old # None /\ o.session = begun
  <2>1. \/ o = Outcome("error", failed(se))
        \/ o = Outcome("error", failed(none))
        \/ o = Outcome("error", failed(IF old = None THEN set ELSE closed))
        \/ o = Outcome("ok", set)
        \/ old # None /\ o = Outcome("ok", begun)
    BY DEF Rotated
  <2> HIDE DEF old, new, set, closed, o, failed, none, begun
  <2> QED
    BY <2>1 DEF Outcome
<1> HIDE DEF new, o
<1>4. /\ Whole(none) /\ none.current_trace_chunk = None
      /\ none.chunk_being_archived = None
      /\ none.most_recent_chunk_id = se.most_recent_chunk_id
      /\ none.last_archived_chunk_id = se.last_archived_chunk_id
  BY Zenon, <1>1 DEF Whole, Fields
<1>5. /\ Whole(set) /\ set.current_trace_chunk = new
      /\ set.chunk_being_archived = None
      /\ set.most_recent_chunk_id = IF new = None THEN se.most_recent_chunk_id ELSE new
      /\ set.last_archived_chunk_id = se.last_archived_chunk_id
      /\ set.rotation_state = se.rotation_state
  <2>1. CASE new = None
    BY Zenon, <1>1, <2>1 DEF Whole, Fields, session_set_trace_chunk
  <2>2. CASE new # None
    BY Zenon, <1>1, <2>2 DEF Whole, Fields, session_set_trace_chunk
  <2> QED
    BY <2>1, <2>2
<1> HIDE DEF none, set
<1>6. /\ Whole(closed) /\ closed.current_trace_chunk = set.current_trace_chunk
      /\ closed.chunk_being_archived = set.chunk_being_archived
      /\ closed.most_recent_chunk_id = set.most_recent_chunk_id
      /\ closed.last_archived_chunk_id = set.last_archived_chunk_id
      /\ closed.rotation_state = "ongoing"
  BY Zenon, <1>5 DEF Whole, Fields, session_close_trace_chunk
<1> HIDE DEF closed
<1>7. /\ Whole(begun) /\ begun.current_trace_chunk = closed.current_trace_chunk
      /\ begun.chunk_being_archived = old
      /\ begun.most_recent_chunk_id = closed.most_recent_chunk_id
      /\ begun.last_archived_chunk_id = closed.last_archived_chunk_id
      /\ begun.rotation_state = "ongoing"
  BY Zenon, <1>6 DEF Whole, Fields, timer_session_rotation_pending_check_start, session_get
<1> HIDE DEF begun
<1>8. ASSUME NEW after, Whole(after), after.chunk_being_archived = None,
             after.current_trace_chunk \in Nat, after.most_recent_chunk_id \in Nat,
             after.last_archived_chunk_id = se.last_archived_chunk_id,
             after.last_archived_chunk_id <= after.most_recent_chunk_id,
             after.current_trace_chunk # None =>
                /\ after.current_trace_chunk = after.most_recent_chunk_id
                /\ after.last_archived_chunk_id < after.current_trace_chunk
      PROVE  Advances(se, failed(after))
  <2> DEFINE b == failed(after)
  <2>1. /\ Whole(b) /\ b.current_trace_chunk = after.current_trace_chunk
        /\ b.chunk_being_archived = None
        /\ b.most_recent_chunk_id = after.most_recent_chunk_id
        /\ b.last_archived_chunk_id = after.last_archived_chunk_id
        /\ b.rotation_state = "error"
    BY Zenon, <1>8 DEF Whole, Fields, session_reset_rotation_state
  <2> HIDE DEF b
  <2>2. ChunkInv(b)
    BY <1>8, <2>1 DEF ChunkInv, None
  <2>3. Advances(se, b)
    BY <1>1, <1>8, <2>1, <2>2 DEF Advances
  <2> QED
    BY <2>3 DEF b
<1> HIDE DEF failed
<1>9. /\ Advances(se, failed(se)) /\ Advances(se, failed(none))
      /\ Advances(se, failed(set)) /\ Advances(se, failed(closed))
  <2>1. Advances(se, failed(se))
    BY <1>1, <1>8 DEF ChunkInv
  <2>2. Advances(se, failed(none))
    BY <1>4, <1>8 DEF ChunkInv, None
  <2>3. Advances(se, failed(set))
    BY <1>2, <1>5, <1>8 DEF ChunkInv, None
  <2>4. Advances(se, failed(closed))
    BY <1>2, <1>5, <1>6, <1>8 DEF ChunkInv, None
  <2> QED
    BY <2>1, <2>2, <2>3, <2>4
<1>10. Advances(se, set)
  <2>1. ChunkInv(set)
    BY <1>2, <1>5 DEF ChunkInv, None
  <2> QED
    BY <1>1, <1>5, <2>1 DEF Advances
<1>11. ASSUME old # None
       PROVE  Advances(se, begun)
  <2>1. ChunkInv(begun)
    BY <1>2, <1>5, <1>6, <1>7, <1>11 DEF ChunkInv, None, old
  <2> QED
    BY <1>1, <1>5, <1>6, <1>7, <2>1 DEF Advances, old
<1> QED
  BY <1>3, <1>9, <1>10, <1>11 DEF o

LEMMA RotateAdvances ==
    ASSUME NEW se, NEW command, Whole(se), ChunkInv(se),
           NEW o \in cmd_rotate_session(se, command)
    PROVE  Advances(se, o.session)
<1>1. CASE RotationRefusal(se) # "ok"
  <2>1. o.session = se
    BY <1>1 DEF cmd_rotate_session, Outcome
  <2> QED
    BY <2>1, AdvancesItself
<1>2. CASE RotationRefusal(se) = "ok"
  <2>1. se.rotation_state # "ongoing"
    BY <1>2 DEF RotationRefusal
  <2>2. PICK fault : o = Rotated(se, command, fault)
    BY <1>2 DEF cmd_rotate_session
  <2> QED
    BY <2>1, <2>2, RotatedAdvances
<1> QED
  BY <1>1, <1>2

LEMMA StartAdvances ==
    ASSUME NEW se, Whole(se), ChunkInv(se), NEW o \in cmd_start_trace(se)
    PROVE  Advances(se, o.session)
<1> DEFINE starting == [se EXCEPT !.active = TRUE,
                                  !.rotated_after_last_stop = FALSE,
                                  !.cleared_after_last_stop = FALSE]
           chunked == IF se.current_trace_chunk # None
                      THEN {Outcome("ok", starting)}
                      ELSE IF ~se.has_been_started THEN FirstChunk(starting)
                      ELSE cmd_rotate_session(starting, NO_OPERATION)
           started(st) == [st EXCEPT !.tracing = TRUE, !.has_been_started = TRUE]
           scheduled(st) ==
                IF st.rotate_timer_period /\ ~st.schedule_timer
                THEN timer_session_rotation_schedule_timer_start(st) ELSE st
           refused(st) == [st EXCEPT
                !.active = FALSE,
                !.rotated_after_last_stop = se.rotated_after_last_stop,
                !.cleared_after_last_stop = se.cleared_after_last_stop]
<1>1. SameChunks(se, starting)
  BY Zenon DEF SameChunks, Whole, Fields
<1>2. \/ o.session = se
      \/ \E p \in chunked : \/ o.session = scheduled(started(p.session))
                            \/ o.session = refused(p.session)
  <2> DEFINE Finish(p) == IF p.ret = "ok" THEN Outcome("ok", scheduled(started(p.session)))
                          ELSE Outcome(p.ret, refused(p.session))
  <2>1. \/ o = Outcome("trace_already_started", se)
        \/ o = Outcome("rotation_pending", se)
        \/ o \in {Finish(p) : p \in Within(chunked)}
    BY Zenon DEF cmd_start_trace
  <2> HIDE DEF chunked, starting, started, scheduled, refused
  <2> QED
    BY <2>1 DEF Outcome, Within
<1>3. Advances(se, starting)
  BY Zenon, <1>1, AdvancesItself, SameAdvances
<1>4. Whole(starting) /\ ChunkInv(starting)
  BY Zenon, <1>3 DEF Advances
<1>5. starting.current_trace_chunk = se.current_trace_chunk
  BY Zenon, <1>1 DEF SameChunks
<1> HIDE DEF starting
<1>6. ASSUME NEW p \in chunked
      PROVE  Advances(se, p.session)
  <2>1. CASE se.current_trace_chunk # None
    BY <1>3, <1>6, <2>1 DEF Outcome
  <2>2. CASE se.current_trace_chunk = None /\ ~se.has_been_started
    <3> DEFINE new == session_create_new_trace_chunk(starting)
               set == session_set_trace_chunk(starting, new)
    <3>1. p.session \in {starting, set}
      BY <1>6, <2>2 DEF FirstChunk, Outcome
    <3>2. new = starting.most_recent_chunk_id + 1 /\ new # None
      BY <1>4 DEF session_create_new_trace_chunk, ChunkInv, None
    <3> HIDE DEF new
    <3>3. /\ Whole(set) /\ set.current_trace_chunk = new
          /\ set.chunk_being_archived = starting.chunk_being_archived
          /\ set.most_recent_chunk_id = new
          /\ set.last_archived_chunk_id = starting.last_archived_chunk_id
          /\ set.rotation_state = starting.rotation_state
      BY Zenon, <1>4, <3>2 DEF Whole, Fields, session_set_trace_chunk
    <3> HIDE DEF set
    <3>4. ChunkInv(set)
      BY <1>4, <3>2, <3>3 DEF ChunkInv
    <3>5. Advances(starting, set)
      BY <3>3, <3>4 DEF Advances
    <3> QED
      BY Zenon, <1>1, <1>3, <3>1, <3>5, AdvancesAfterSame DEF starting
  <2>3. CASE se.current_trace_chunk = None /\ se.has_been_started
    <3>1. p \in cmd_rotate_session(starting, NO_OPERATION)
      BY <1>6, <2>3
    <3>2. Advances(starting, p.session)
      BY <1>4, <3>1, RotateAdvances
    <3> QED
      BY Zenon, <1>1, <3>2, AdvancesAfterSame
  <2> QED
    BY <2>1, <2>2, <2>3
<1> HIDE DEF chunked
<1>7. ASSUME NEW st, Advances(se, st)
      PROVE  Advances(se, scheduled(started(st))) /\ Advances(se, refused(st))
  <2>1. Whole(st)
    BY <1>7 DEF Advances
  <2>2. SameChunks(st, refused(st)) /\ SameChunks(st, started(st))
    BY Zenon, <2>1 DEF SameChunks, Whole, Fields
  <2>3. Advances(se, refused(st)) /\ Advances(se, started(st)) /\ Whole(started(st))
    BY Zenon, <1>7, <2>2, SameAdvances DEF SameChunks
  <2> HIDE DEF started
  <2>4. SameChunks(started(st), timer_session_rotation_schedule_timer_start(started(st)))
    BY Zenon, <2>3 DEF SameChunks, Whole, Fields, session_get,
                       timer_session_rotation_schedule_timer_start
  <2> QED
    BY Zenon, <2>3, <2>4, SameAdvances
<1> HIDE DEF scheduled, started, refused
<1> QED
  BY Zenon, <1>2, <1>6, <1>7, AdvancesItself

LEMMA ClearAdvances ==
    ASSUME NEW se, Whole(se), ChunkInv(se), NEW o \in cmd_clear_session(se)
    PROVE  Advances(se, o.session)
<1> DEFINE cleared == [se EXCEPT !.tracing = FALSE,
                                 !.clear_notifiers = @ \cup {se.current_trace_chunk}]
           resumed(st) == [st EXCEPT
                !.cleared_after_last_stop = @ \/ ~se.active,
                !.tracing = se.active]
<1>1. SameChunks(se, cleared)
  BY Zenon DEF SameChunks, Whole, Fields
<1>2. \/ o.session = se
      \/ \E p \in cmd_rotate_session(cleared, DELETE) :
            o.session = p.session \/ o.session = resumed(p.session)
  <2> DEFINE Finish(p) == IF p.ret # "ok" THEN p ELSE Outcome("ok", resumed(p.session))
  <2>1. \/ o = Outcome("ok", se)
        \/ o \in {Finish(p) : p \in Within(cmd_rotate_session(cleared, DELETE))}
    BY Zenon DEF cmd_clear_session
  <2> HIDE DEF cleared, resumed
  <2> QED
    BY <2>1 DEF Outcome, Within
<1> HIDE DEF cleared
<1>3. Whole(cleared) /\ ChunkInv(cleared)
  BY Zenon, <1>1, AdvancesItself, SameAdvances DEF Advances
<1>4. ASSUME NEW p \in cmd_rotate_session(cleared, DELETE)
      PROVE  Advances(se, p.session) /\ Advances(se, resumed(p.session))
  <2>1. Advances(se, p.session)
    BY Zenon, <1>1, <1>3, RotateAdvances, AdvancesAfterSame
  <2>2. Whole(p.session)
    BY Zenon, <2>1 DEF Advances
  <2>3. SameChunks(p.session, resumed(p.session))
    BY Zenon, <2>2 DEF SameChunks, Whole, Fields
  <2> QED
    BY Zenon, <2>1, <2>3, SameAdvances
<1> HIDE DEF resumed
<1> QED
  BY Zenon, <1>2, <1>4, AdvancesItself
\* A step of the daemon, for every session.
ChunksStand ==
    \A s \in Sessions : /\ SessionChunks(session'[s])
                        /\ \A c \in Chunks : Stands(session[s], session'[s], c)

LEMMA KeptItself ==
    ASSUME NEW a, Whole(a), SessionChunks(a)
    PROVE  Kept(a, a)
  BY AdvancesItself DEF Kept, SessionChunks

LEMMA SessionWhole ==
    ASSUME SessionsInv, ChunksInv, NEW s \in Sessions
    PROVE  /\ Whole(session[s]) /\ SessionChunks(session[s])
           /\ session[s].status # "freed" => ChunkInv(session[s])
  BY Zenon DEF SessionsInv, SessionInv, ChunksInv, SessionChunks, Whole

LEMMA NoneStands ==
    ASSUME SessionsInv, ChunksInv, UNCHANGED session
    PROVE  ChunksStand
<1> SUFFICES ASSUME NEW s \in Sessions
             PROVE  /\ SessionChunks(session[s])
                    /\ \A c \in Chunks : Stands(session[s], session[s], c)
  BY Zenon DEF ChunksStand
<1> QED
  BY Zenon, SessionWhole, KeptItself, KeptStands

LEMMA OneStands ==
    ASSUME SessionsInv, ChunksInv, NEW r \in Sessions, NEW x, Kept(session[r], x),
           session' = [session EXCEPT ![r] = x]
    PROVE  ChunksStand
<1> SUFFICES ASSUME NEW s \in Sessions
             PROVE  /\ SessionChunks(session'[s])
                    /\ \A c \in Chunks : Stands(session[s], session'[s], c)
  BY Zenon DEF ChunksStand
<1>1. session'[s] = IF s = r THEN x ELSE session[s]
  BY DEF SessionsInv
<1>2. Kept(session[s], session'[s])
  BY Zenon, <1>1, SessionWhole, KeptItself
<1> QED
  BY Zenon, <1>2, SessionWhole, KeptStands

\* A session that changes but for its chunks, or in them by a command.
LEMMA SameStands ==
    ASSUME SessionsInv, ChunksInv, NEW r \in Sessions, NEW x,
           session[r].status # "freed", x.status # "freed", SameChunks(session[r], x),
           session' = [session EXCEPT ![r] = x]
    PROVE  ChunksStand
<1>1. Advances(session[r], x)
  BY Zenon, SessionWhole, AdvancesItself, SameAdvances
<1>2. Kept(session[r], x)
  BY Zenon, <1>1 DEF Kept, Advances
<1> QED
  BY Zenon, <1>2, OneStands

LEMMA AdvanceStands ==
    ASSUME SessionsInv, ChunksInv, NEW r \in Sessions, NEW x, Usable(session[r]),
           Advances(session[r], x), Grows(session[r], x),
           session' = [session EXCEPT ![r] = x]
    PROVE  ChunksStand
<1>1. session[r].status # "freed" /\ x.status # "freed"
  BY DEF Usable, Grows, GrowsButTrigger
<1>2. Kept(session[r], x)
  BY Zenon, <1>1 DEF Kept, Advances
<1> QED
  BY Zenon, <1>2, OneStands

LEMMA EnqueueStands ==
    ASSUME IInv, ChunksInv, NEW t \in Timers, rotation_thread_enqueue_job(t)
    PROVE  ChunksStand
<1> DEFINE s == t[2]
           b == session_get(session[s])
<1>0. SessionsInv
  BY DEF IInv
<1>1. s \in Sessions
  BY DEF Timers
<1>2. CASE UNCHANGED session
  BY Zenon, <1>0, <1>2, NoneStands
<1>3. CASE session' = [session EXCEPT ![s] = b]
  <2>1. session[s].status # "freed"
    <3>1. Enabled(session[s], t[1]) /\ SessionInv(session[s])
      BY <1>0, <1>1 DEF IInv, TimerInv, rotation_thread_enqueue_job, SessionsInv
    <3>2. session[s].check_timer \/ session[s].schedule_timer
      BY <3>1 DEF Enabled
    <3>a. Own(session[s]) > 0
      BY Zenon, <3>2, OwnIsUsable
    <3>b. Own(session[s]) + Held(s) > 0
      BY <3>a, OwnIsNat, HeldIsNat
    <3>3. Usable(session[s])
      BY Zenon, <1>1, <3>b, HeldIsUsable DEF IInv
    <3> QED
      BY Zenon, <3>3 DEF Usable
  <2>2. Whole(session[s])
    BY Zenon, <1>0, <1>1, SessionWhole
  <2> HIDE DEF s
  <2>3. SameChunks(session[s], b) /\ b.status = session[s].status
    BY Zenon, <2>2 DEF SameChunks, Whole, Fields, session_get
  <2> HIDE DEF b
  <2> QED
    BY Zenon, <1>0, <1>1, <1>3, <2>1, <2>3, SameStands
<1> QED
  BY <1>2, <1>3 DEF rotation_thread_enqueue_job

LEMMA CommandSession ==
    ASSUME IInv, ChunksInv, NEW s \in Sessions, Command(s)
    PROVE  /\ SessionsInv /\ SessionInv(session[s])
           /\ session[s].status = "live" /\ Usable(session[s])
           /\ Whole(session[s]) /\ ChunkInv(session[s])
<1>1. SessionsInv /\ SessionInv(session[s]) /\ session[s].status = "live"
  BY DEF IInv, SessionsInv, Command, Live
<1> QED
  BY <1>1, SessionWhole DEF Usable

LEMMA RunsStands ==
    ASSUME IInv, ChunksInv, NEW s \in Sessions, NEW outcomes, Runs(s, outcomes),
           \A o \in outcomes : Advances(session[s], o.session) /\ Grows(session[s], o.session)
    PROVE  ChunksStand
<1>1. PICK o \in outcomes : session' = [session EXCEPT ![s] = o.session]
  BY Zenon DEF Runs, Becomes
<1>2. Command(s)
  BY Zenon DEF Runs
<1> QED
  BY Zenon, <1>1, <1>2, CommandSession, AdvanceStands

LEMMA ClientStands ==
    ASSUME IInv, ChunksInv, NEW s \in Sessions,
           Start(s) \/ Stop(s) \/ Rotate(s) \/ Clear(s) \/ ActivatePeriod(s)
    PROVE  ChunksStand
<1>0. Command(s)
  BY Zenon DEF Start, Stop, Rotate, Clear, ActivatePeriod, Runs
<1> DEFINE se == session[s]
<1>1. SessionInv(se) /\ Usable(se) /\ Whole(se) /\ ChunkInv(se)
  BY Zenon, <1>0, CommandSession
<1> HIDE DEF se
<1>2. CASE Start(s)
  <2>1. Runs(s, cmd_start_trace(se))
    BY Zenon, <1>2 DEF Start, se
  <2>2. \A o \in cmd_start_trace(se) : Advances(se, o.session) /\ Grows(se, o.session)
    BY Zenon, <1>1, StartAdvances, StartGrows
  <2> QED
    BY Zenon, <2>1, <2>2, RunsStands DEF se
<1>3. CASE Clear(s)
  <2>1. Runs(s, cmd_clear_session(se))
    BY Zenon, <1>3 DEF Clear, se
  <2>2. \A o \in cmd_clear_session(se) : Advances(se, o.session) /\ Grows(se, o.session)
    BY Zenon, <1>1, ClearAdvances, ClearGrows
  <2> QED
    BY Zenon, <2>1, <2>2, RunsStands DEF se
<1>4. CASE Rotate(s)
  <2> DEFINE outcomes == Within(cmd_rotate_session(se, MOVE_TO_COMPLETED))
  <2>1. Runs(s, outcomes)
    BY Zenon, <1>4 DEF Rotate, se
  <2>2. ASSUME NEW o \in outcomes
        PROVE  Advances(se, o.session) /\ Grows(se, o.session)
    <3>1. o \in cmd_rotate_session(se, MOVE_TO_COMPLETED)
      BY DEF Within
    <3> QED
      BY Zenon, <1>1, <3>1, RotateAdvances, RotateGrows
  <2> HIDE DEF outcomes
  <2> QED
    BY Zenon, <2>1, <2>2, RunsStands DEF se
<1>5. CASE Stop(s)
  <2> DEFINE b == cmd_stop_trace(se)
  <2>1. session' = [session EXCEPT ![s] = b]
    <3>1. Runs(s, {Outcome("ok", b)})
      BY Zenon, <1>5 DEF Stop, se
    <3> HIDE DEF b
    <3>2. \E o \in {Outcome("ok", b)} : session' = [session EXCEPT ![s] = o.session]
      BY Zenon, <3>1 DEF Runs, Becomes
    <3>3. Outcome("ok", b).session = b
      BY DEF Outcome
    <3> QED
      BY Zenon, <3>2, <3>3
  <2>2. SameChunks(se, b) /\ b.status = se.status
    BY Zenon, <1>1 DEF SameChunks, Whole, Fields, cmd_stop_trace
  <2> HIDE DEF b
  <2> QED
    BY Zenon, <1>0, <2>1, <2>2, CommandSession, SameStands DEF se, Usable
<1>6. CASE ActivatePeriod(s)
  <2> DEFINE set == [se EXCEPT !.rotate_timer_period = TRUE]
             b == IF set.active THEN timer_session_rotation_schedule_timer_start(set)
                  ELSE set
  <2>1. session' = [session EXCEPT ![s] = b]
    <3>1. Runs(s, {Outcome("ok", b)})
      BY Zenon, <1>6 DEF ActivatePeriod, se
    <3> HIDE DEF b
    <3>2. \E o \in {Outcome("ok", b)} : session' = [session EXCEPT ![s] = o.session]
      BY Zenon, <3>1 DEF Runs, Becomes
    <3>3. Outcome("ok", b).session = b
      BY DEF Outcome
    <3> QED
      BY Zenon, <3>2, <3>3
  <2>2. SameChunks(se, set) /\ set.status = se.status
    BY Zenon, <1>1 DEF SameChunks, Whole, Fields
  <2>3. Whole(set)
    BY Zenon, <2>2 DEF SameChunks
  <2> HIDE DEF set
  <2>4. SameChunks(se, b) /\ b.status = se.status
    <3> DEFINE c == timer_session_rotation_schedule_timer_start(set)
    <3>1. SameChunks(set, c) /\ c.status = set.status
      BY Zenon, <2>3 DEF SameChunks, Whole, Fields, session_get,
                         timer_session_rotation_schedule_timer_start
    <3> HIDE DEF c
    <3>2. SameChunks(se, c) /\ c.status = se.status
      BY Zenon, <2>2, <3>1 DEF SameChunks
    <3> QED
      BY Zenon, <2>2, <3>2 DEF c
  <2> HIDE DEF b
  <2> QED
    BY Zenon, <1>0, <2>1, <2>4, CommandSession, SameStands DEF se, Usable
<1> QED
  BY Zenon, <1>2, <1>3, <1>4, <1>5, <1>6
\* What the other commands and the consumer daemons change of a session.
LEMMA OthersStand ==
    ASSUME IInv, ChunksInv, NEW s \in Sessions,
           \/ session_create(s) \/ DeactivatePeriod(s)
           \/ ActivateSize(s) \/ DeactivateSize(s)
           \/ Consumes(s) \/ ConsumerReleasesChunk(s)
    PROVE  ChunksStand
<1> DEFINE old == session[s]
<1>0. SessionsInv /\ session = [r \in Sessions |-> session[r]]
  BY DEF IInv, SessionsInv
<1>1. Whole(old)
  BY Zenon, <1>0, SessionWhole
<1>2. CASE session_create(s)
  <2> DEFINE b == [old EXCEPT !.status = "live", !.ref = 1]
  <2>1. session' = [session EXCEPT ![s] = b] /\ old.status = "unborn"
    BY Zenon, <1>0, <1>2 DEF session_create
  <2>2. SameChunks(old, b) /\ b.status = "live"
    BY Zenon, <1>1 DEF SameChunks, Whole, Fields
  <2> HIDE DEF b
  <2> QED
    BY <1>0, <2>1, <2>2, SameStands
<1>3. CASE DeactivatePeriod(s)
  <2> DEFINE set == [old EXCEPT !.rotate_timer_period = FALSE]
             got == session_get(set)
  <2>1. /\ old.status = "live"
        /\ session' = [session EXCEPT ![s] = got] \/ session' = [session EXCEPT ![s] = set]
    BY Zenon, <1>3 DEF DeactivatePeriod, Command, Live
  <2>2. SameChunks(old, set) /\ set.status = old.status
    BY Zenon, <1>1 DEF SameChunks, Whole, Fields
  <2>3. SameChunks(old, got) /\ got.status = old.status
    BY Zenon, <1>1 DEF SameChunks, Whole, Fields, session_get
  <2> HIDE DEF set, got
  <2> QED
    BY <1>0, <2>1, <2>2, <2>3, SameStands
<1>4. CASE ActivateSize(s)
  <2> DEFINE b == [old EXCEPT !.rotate_size = TRUE, !.rotate_trigger = RotateSize]
  <2>1. session' = [session EXCEPT ![s] = b] /\ old.status = "live"
    BY Zenon, <1>0, <1>4 DEF ActivateSize, Command, Live
  <2>2. SameChunks(old, b) /\ b.status = old.status
    BY Zenon, <1>1 DEF SameChunks, Whole, Fields
  <2> HIDE DEF b
  <2> QED
    BY <1>0, <2>1, <2>2, SameStands
<1>5. CASE DeactivateSize(s)
  <2> DEFINE b == [unsubscribe_session_consumed_size_rotation(old)
                        EXCEPT !.rotate_size = FALSE]
  <2>1. session' = [session EXCEPT ![s] = b] /\ old.status = "live"
    BY Zenon, <1>0, <1>5 DEF DeactivateSize, Command, Live
  <2>2. SameChunks(old, b) /\ b.status = old.status
    BY Zenon, <1>1 DEF SameChunks, Whole, Fields,
                       unsubscribe_session_consumed_size_rotation
  <2> HIDE DEF b
  <2> QED
    BY <1>0, <2>1, <2>2, SameStands
<1>6. CASE Consumes(s)
  <2> DEFINE b == [old EXCEPT !.consumed = @ + 1]
  <2>1. session' = [session EXCEPT ![s] = b] /\ old.status \in {"live", "destroyed"}
    BY Zenon, <1>0, <1>6 DEF Consumes
  <2>2. SameChunks(old, b) /\ b.status = old.status
    BY Zenon, <1>1 DEF SameChunks, Whole, Fields
  <2> HIDE DEF b
  <2> QED
    BY <1>0, <2>1, <2>2, SameStands
<1>7. CASE ConsumerReleasesChunk(s)
  <2> DEFINE b == [old EXCEPT !.on_consumers = @ \ {old.chunk_being_archived}]
  <2>1. session' = [session EXCEPT ![s] = b]
    BY Zenon, <1>0, <1>7 DEF ConsumerReleasesChunk
  <2>2. SameChunks(old, b) /\ b.status = old.status
    BY Zenon, <1>1 DEF SameChunks, Whole, Fields
  <2>3. Kept(old, old)
    BY Zenon, <1>0, SessionWhole, KeptItself
  <2> HIDE DEF b
  <2>4. Kept(old, b)
    BY Zenon, <2>2, <2>3, SameAdvances DEF Kept, SameChunks
  <2> QED
    BY Zenon, <1>0, <2>1, <2>4, OneStands
<1> QED
  BY Zenon, <1>2, <1>3, <1>4, <1>5, <1>6, <1>7

\* The period timer is stopped: its reference is not the last one.
LEMMA StopScheduleSame ==
    ASSUME NEW se, Whole(se), se.ref > 1
    PROVE  LET b == timer_session_rotation_schedule_timer_stop(se)
           IN  SameChunks(se, b) /\ b.status = se.status
<1> DEFINE a == [se EXCEPT !.schedule_timer = FALSE]
           b == timer_session_rotation_schedule_timer_stop(se)
<1>1. SameChunks(se, a) /\ a.status = se.status /\ a.ref = se.ref /\ Whole(a)
  BY Zenon DEF SameChunks, Whole, Fields
<1>2. b = session_put(a)
  BY DEF timer_session_rotation_schedule_timer_stop
<1> HIDE DEF a, b
<1>3. b = [a EXCEPT !.ref = @ - 1]
  BY <1>1, <1>2 DEF session_put
<1>4. SameChunks(a, b) /\ b.status = a.status
  BY Zenon, <1>1, <1>3 DEF SameChunks, Whole, Fields
<1>5. SameChunks(se, b) /\ b.status = se.status
  BY Zenon, <1>1, <1>4 DEF SameChunks
<1> QED
  BY <1>5 DEF b

\* Whom the command that stops that timer leaves with.
LEMMA StoppedChunks ==
    ASSUME IInv, ChunksInv, NEW s \in Sessions, NEW command, client = <<command, s>>
    PROVE  /\ SessionsInv /\ Whole(session[s]) /\ ChunkInv(session[s])
           /\ session[s].status = "live" /\ session[s].ref > 1
<1>1. /\ SessionInv(session[s]) /\ session[s].schedule_timer
      /\ session[s].status = "live"
      /\ session[s].ref = Own(session[s]) + Held(s)
      /\ Held(s) \in Nat /\ Held(s) > 0
  BY StoppedSession
<1>2. session[s].ref > 1
  BY <1>1 DEF Own, Count
<1>3. SessionsInv
  BY DEF IInv
<1> QED
  BY <1>1, <1>2, <1>3, SessionWhole

LEMMA DeactivateEndStands ==
    ASSUME IInv, ChunksInv, NEW s \in Sessions, DeactivatePeriodEnd(s)
    PROVE  ChunksStand
<1> DEFINE old == session[s]
           b == timer_session_rotation_schedule_timer_stop(old)
<1>1. /\ SessionsInv /\ Whole(old) /\ ChunkInv(old)
      /\ old.status = "live" /\ old.ref > 1
  BY StoppedChunks DEF DeactivatePeriodEnd
<1>2. SameChunks(old, b) /\ b.status = "live"
  BY <1>1, StopScheduleSame
<1>3. session' = [session EXCEPT ![s] = session_put(b)]
  BY Zenon DEF DeactivatePeriodEnd
<1> HIDE DEF b
<1>4. Advances(old, b)
  BY Zenon, <1>1, <1>2, AdvancesItself, SameAdvances
<1>5. Kept(old, b)
  BY <1>1, <1>2, <1>4 DEF Kept, Advances
<1>6. Kept(old, session_put(b))
  BY Zenon, <1>5, PutKept
<1> QED
  BY Zenon, <1>1, <1>3, <1>6, OneStands

LEMMA DestroyedKept ==
    ASSUME NEW a, NEW se, Whole(a), ChunkInv(a), a.status # "freed", SameChunks(a, se),
           NEW o \in LastRotation(unsubscribe_session_consumed_size_rotation(
                                    [se EXCEPT !.rotate_size = FALSE]))
    PROVE  LET gone == session_put([o.session EXCEPT !.status = "destroyed"])
           IN  Kept(a, gone) /\ Kept(a, session_put(gone))
<1> DEFINE u == unsubscribe_session_consumed_size_rotation([se EXCEPT !.rotate_size = FALSE])
           b == o.session
           listed == [b EXCEPT !.status = "destroyed"]
<1>1. Whole(se)
  BY DEF SameChunks
<1>2. SameChunks(se, u)
  BY Zenon, <1>1 DEF SameChunks, Whole, Fields, unsubscribe_session_consumed_size_rotation
<1>3. o \in LastRotation(u)
  OBVIOUS
<1> HIDE DEF u
<1>4. SameChunks(a, u)
  BY Zenon, <1>2 DEF SameChunks
<1>5. Advances(a, u)
  BY Zenon, <1>4, AdvancesItself, SameAdvances
<1>6. Advances(a, b)
  <2>1. CASE u.current_trace_chunk = None
    <3>1. b = u
      BY <1>3, <2>1 DEF LastRotation, Outcome
    <3> QED
      BY Zenon, <1>5, <3>1
  <2>2. CASE u.current_trace_chunk # None
    <3>1. PICK c : o \in cmd_rotate_session(u, c)
      BY <1>3, <2>2 DEF LastRotation
    <3>2. Advances(u, b)
      BY Zenon, <1>5, <3>1, RotateAdvances DEF Advances
    <3> QED
      BY Zenon, <1>4, <3>2, AdvancesAfterSame
  <2> QED
    BY Zenon, <2>1, <2>2
<1> HIDE DEF b
<1>7. Whole(b)
  BY Zenon, <1>6 DEF Advances
<1>8. SameChunks(b, listed) /\ listed.status = "destroyed" /\ Whole(listed)
  BY Zenon, <1>7 DEF SameChunks, Whole, Fields
<1> HIDE DEF listed
<1>9. Advances(a, listed)
  BY Zenon, <1>6, <1>8, SameAdvances
<1>10. Kept(a, listed)
  BY <1>8, <1>9 DEF Kept
<1>11. Kept(a, session_put(listed)) /\ Kept(a, session_put(session_put(listed)))
  BY Zenon, <1>10, PutKept
<1> QED
  BY Zenon, <1>11 DEF listed, b
LEMMA DestroyStands ==
    ASSUME IInv, ChunksInv, NEW s \in Sessions, cmd_destroy_session(s) \/ DestroyEnd(s)
    PROVE  ChunksStand
<1> DEFINE old == session[s]
<1>1. CASE cmd_destroy_session(s)
  <2> DEFINE stopped == cmd_stop_trace(old)
             got == session_get(stopped)
  <2>1. SessionsInv /\ Whole(old) /\ ChunkInv(old) /\ old.status = "live"
    BY Zenon, <1>1, CommandSession DEF cmd_destroy_session
  <2>2. SameChunks(old, stopped)
    BY Zenon, <2>1 DEF SameChunks, Whole, Fields, cmd_stop_trace
  <2>3. SameChunks(old, got) /\ got.status = old.status
    BY Zenon, <2>1 DEF SameChunks, Whole, Fields, cmd_stop_trace, session_get
  <2>4. session' = [session EXCEPT ![s] = got] \/ Destroyed(s, stopped, FALSE)
    BY Zenon, <1>1 DEF cmd_destroy_session
  <2> HIDE DEF stopped, got
  <2>5. CASE session' = [session EXCEPT ![s] = got]
    BY Zenon, <2>1, <2>3, <2>5, SameStands
  <2>6. CASE Destroyed(s, stopped, FALSE)
    <3>1. PICK o \in LastRotation(unsubscribe_session_consumed_size_rotation(
                            [stopped EXCEPT !.rotate_size = FALSE])) :
              session' = [session EXCEPT
                    ![s] = session_put([o.session EXCEPT !.status = "destroyed"])]
      BY Zenon, <2>6 DEF Destroyed, Becomes
    <3> DEFINE gone == session_put([o.session EXCEPT !.status = "destroyed"])
    <3>2. Kept(old, gone)
      BY <2>1, <2>2, DestroyedKept
    <3>3. session' = [session EXCEPT ![s] = gone]
      BY <3>1
    <3> HIDE DEF gone
    <3> QED
      BY Zenon, <2>1, <3>2, <3>3, OneStands
  <2> QED
    BY Zenon, <2>4, <2>5, <2>6
<1>2. CASE DestroyEnd(s)
  <2> DEFINE b == timer_session_rotation_schedule_timer_stop(old)
  <2>1. /\ SessionsInv /\ Whole(old) /\ ChunkInv(old)
        /\ old.status = "live" /\ old.ref > 1
    BY <1>2, StoppedChunks DEF DestroyEnd
  <2>2. SameChunks(old, b)
    BY <2>1, StopScheduleSame
  <2>3. Destroyed(s, b, TRUE)
    BY Zenon, <1>2 DEF DestroyEnd
  <2> HIDE DEF b
  <2>4. PICK o \in LastRotation(unsubscribe_session_consumed_size_rotation(
                            [b EXCEPT !.rotate_size = FALSE])) :
            session' = [session EXCEPT
                ![s] = session_put(session_put([o.session EXCEPT !.status = "destroyed"]))]
    BY Zenon, <2>3 DEF Destroyed, Becomes
  <2> DEFINE gone == session_put(session_put([o.session EXCEPT !.status = "destroyed"]))
  <2>5. Kept(old, gone)
    BY <2>1, <2>2, DestroyedKept
  <2>6. session' = [session EXCEPT ![s] = gone]
    BY <2>4
  <2> HIDE DEF gone
  <2> QED
    BY Zenon, <2>1, <2>5, <2>6, OneStands
<1> QED
  BY Zenon, <1>1, <1>2

LEMMA JobStands ==
    ASSUME IInv, ChunksInv, NEW s \in Sessions,
           launch_session_rotation(s) \/ check_session_rotation_pending(s)
    PROVE  ChunksStand
<1> DEFINE old == session[s]
<1>1. SessionsInv /\ SessionInv(old) /\ Usable(old)
  <2>1. PICK kind : rotation.job = <<kind, s>>
    BY DEF launch_session_rotation, check_session_rotation_pending
  <2> QED
    BY <2>1, JobSession DEF IInv
<1>2. Whole(old) /\ ChunkInv(old)
  BY <1>1, SessionWhole DEF Usable
<1>3. ASSUME NEW se, Advances(old, se), se.status = old.status,
             session' = [session EXCEPT ![s] = session_put(se)]
      PROVE  ChunksStand
  <2>1. Kept(old, se)
    BY <1>1, <1>3 DEF Kept, Advances, Usable
  <2>2. Kept(old, session_put(se))
    BY Zenon, <2>1, PutKept
  <2> QED
    BY Zenon, <1>1, <1>3, <2>2, OneStands
<1>4. CASE launch_session_rotation(s)
  <2>1. PICK o \in cmd_rotate_session(old, MOVE_TO_COMPLETED) :
            session' = [session EXCEPT ![s] = session_put(o.session)]
    BY Zenon, <1>4 DEF launch_session_rotation, JobDone, Becomes
  <2>2. Advances(old, o.session) /\ Grows(old, o.session)
    BY Zenon, <1>1, <1>2, RotateAdvances, RotateGrows
  <2>3. o.session.status = old.status
    BY Zenon, <2>2 DEF Grows, GrowsButTrigger
  <2> QED
    BY Zenon, <1>3, <2>1, <2>2, <2>3
<1>5. CASE check_session_rotation_pending(s)
  <2>1. session' = [session EXCEPT ![s] = session_put(old)] \/ UNCHANGED session
    BY Zenon, <1>5 DEF check_session_rotation_pending, JobDone, Becomes
  <2>2. Advances(old, old)
    BY Zenon, <1>2, AdvancesItself
  <2> QED
    BY Zenon, <1>1, <1>3, <2>1, <2>2, NoneStands
<1> QED
  BY Zenon, <1>4, <1>5

\* The end of a check: the rotation goes on, or the chunk being archived is the
\* last archived, and the rotation is completed only if no consumer has it.
LEMMA CheckedChunks ==
    ASSUME NEW se, Whole(se), ChunkInv(se), se.chunk_being_archived # None, se.ref > 1,
           NEW b \in check_session_rotation_pending_on_consumers(
                        timer_session_rotation_pending_check_stop(se))
    PROVE  /\ Whole(b) /\ ChunkInv(b) /\ b.status = se.status
           /\ b.rotation_state = "completed" =>
                se.chunk_being_archived \notin se.on_consumers
<1> DEFINE a == [se EXCEPT !.check_timer = FALSE]
           p == session_put(a)
<1>1. /\ SameChunks(se, a) /\ Whole(a) /\ a.status = se.status /\ a.ref = se.ref
      /\ a.on_consumers = se.on_consumers
  BY Zenon DEF SameChunks, Whole, Fields
<1>2. p = timer_session_rotation_pending_check_stop(se)
  BY DEF timer_session_rotation_pending_check_stop
<1> HIDE DEF a
<1>3. p = [a EXCEPT !.ref = @ - 1]
  BY <1>1 DEF session_put
<1>4. SameChunks(a, p) /\ p.status = a.status /\ p.on_consumers = a.on_consumers
  BY Zenon, <1>1, <1>3 DEF SameChunks, Whole, Fields
<1> HIDE DEF p
<1>5. /\ SameChunks(se, p) /\ Whole(p) /\ p.status = se.status
      /\ p.on_consumers = se.on_consumers
      /\ p.chunk_being_archived = se.chunk_being_archived
  BY Zenon, <1>1, <1>4 DEF SameChunks
<1>6. ChunkInv(p) /\ p.rotation_state = "ongoing"
  <2>1. ChunkInv(p)
    BY Zenon, <1>5, AdvancesItself, SameAdvances DEF Advances
  <2> QED
    BY Zenon, <1>5, <2>1 DEF ChunkInv
<1>7. \/ b = timer_session_rotation_pending_check_start(p)
      \/ /\ p.chunk_being_archived \notin p.on_consumers
         /\ b = session_reset_rotation_state(p, "completed")
      \/ b = session_reset_rotation_state(p, "error")
  BY <1>2 DEF check_session_rotation_pending_on_consumers
<1>8. CASE b = timer_session_rotation_pending_check_start(p)
  <2>1. SameChunks(p, b) /\ b.status = p.status
    BY Zenon, <1>5, <1>8 DEF SameChunks, Whole, Fields, session_get,
                             timer_session_rotation_pending_check_start
  <2>2. ChunkInv(b) /\ Whole(b)
    BY Zenon, <1>5, <1>6, <2>1, AdvancesItself, SameAdvances DEF Advances
  <2>3. b.rotation_state # "completed"
    BY <1>6, <2>1 DEF SameChunks
  <2> QED
    BY Zenon, <1>5, <2>1, <2>2, <2>3
<1>9. ASSUME NEW result \in {"completed", "error"},
             b = session_reset_rotation_state(p, result)
      PROVE  Whole(b) /\ ChunkInv(b) /\ b.status = se.status /\ b.rotation_state = result
  <2>1. /\ Whole(b) /\ b.status = p.status
        /\ b.current_trace_chunk = p.current_trace_chunk
        /\ b.chunk_being_archived = None
        /\ b.most_recent_chunk_id = p.most_recent_chunk_id
        /\ b.last_archived_chunk_id = p.chunk_being_archived
        /\ b.rotation_state = result
    BY Zenon, <1>5, <1>9 DEF Whole, Fields, session_reset_rotation_state
  <2>2. ChunkInv(b)
    BY <1>5, <1>6, <2>1 DEF ChunkInv, None
  <2> QED
    BY Zenon, <1>5, <2>1, <2>2
<1> QED
  BY <1>5, <1>7, <1>8, <1>9
LEMMA CheckEndStands ==
    ASSUME IInv, ChunksInv, NEW s \in Sessions, CheckEnd(s)
    PROVE  ChunksStand
<1> DEFINE old == session[s]
<1>1. PICK se \in check_session_rotation_pending_on_consumers(
                    timer_session_rotation_pending_check_stop(old)) :
            session' = [session EXCEPT ![s] = session_put(se)]
  BY Zenon DEF CheckEnd
<1>2. /\ rotation = [pc |-> "stop", job |-> <<CHECK_PENDING_ROTATION, s>>]
      /\ stopping = "done" /\ SessionsInv
  BY Zenon DEF CheckEnd, IInv
<1>3. old.check_timer
  <2>1. client = Idle /\ Stopped = <<CHECK_PENDING_ROTATION, s>>
    BY <1>2 DEF IInv, ThreadInv, Stopped
  <2> QED
    BY Zenon, <1>2, <2>1 DEF IInv, StopInv, Enabled
<1>4. /\ SessionInv(old) /\ Usable(old) /\ old.ref = Own(old) + Held(s)
      /\ Held(s) \in Nat /\ Held(s) > 0
  BY SMTT(30), <1>2, JobSession
<1>5. old.ref > 1 /\ old.chunk_being_archived # None /\ old.status # "freed"
  BY <1>3, <1>4 DEF Own, Count, SessionInv, Usable
<1>6. Whole(old) /\ ChunkInv(old)
  BY Zenon, <1>2, <1>5, SessionWhole
<1> DEFINE put == session_put(se)
<1>7. /\ Whole(se) /\ ChunkInv(se) /\ se.status = old.status
      /\ se.rotation_state = "completed" => old.chunk_being_archived \notin old.on_consumers
  BY Zenon, <1>5, <1>6, CheckedChunks
<1>8. Kept(se, put)
  <2>1. Kept(se, se)
    BY Zenon, <1>5, <1>7, AdvancesItself DEF Kept
  <2> QED
    BY Zenon, <2>1, PutKept
<1>9. session' = [session EXCEPT ![s] = put]
  BY <1>1
<1>10. put.status # "freed" => put.rotation_state = se.rotation_state
  <2>1. CASE se.ref > 1
    <3>1. put = [se EXCEPT !.ref = @ - 1]
      BY <2>1 DEF session_put
    <3> QED
      BY Zenon, <1>7, <3>1 DEF Whole, Fields
  <2>2. CASE ~(se.ref > 1)
    <3>1. put.status = "freed"
      BY <2>2 DEF session_put, NewSession
    <3> QED
      BY Zenon, <3>1
  <2> QED
    BY Zenon, <2>1, <2>2
<1> HIDE DEF put
<1>11. SessionChunks(put)
  BY Zenon, <1>8 DEF Kept, Advances, SessionChunks
<1>12. ASSUME NEW c
       PROVE  Stands(old, put, c)
  <2>1. cmd_rotate_get_info(old, c) # "completed"
    BY <1>5 DEF cmd_rotate_get_info
  <2>2. ASSUME cmd_rotate_get_info(old, c) = "ongoing",
               cmd_rotate_get_info(put, c) = "completed"
        PROVE  c \notin old.on_consumers
    <3>1. c = old.chunk_being_archived
      BY <1>5, <2>2 DEF cmd_rotate_get_info
    <3>2. put.rotation_state = "completed"
      BY <2>2 DEF cmd_rotate_get_info
    <3>3. se.rotation_state = "completed"
      BY <1>10, <1>11, <3>2 DEF SessionChunks
    <3> QED
      BY Zenon, <1>7, <3>1, <3>3
  <2> QED
    BY Zenon, <2>1, <2>2 DEF Stands
<1> SUFFICES ASSUME NEW r \in Sessions
             PROVE  /\ SessionChunks(session'[r])
                    /\ \A c \in Chunks : Stands(session[r], session'[r], c)
  BY Zenon DEF ChunksStand
<1>13. session'[r] = IF r = s THEN put ELSE session[r]
  BY <1>2, <1>9 DEF SessionsInv
<1>14. CASE r = s
  BY Zenon, <1>11, <1>12, <1>13, <1>14
<1>15. CASE r # s
  <2>1. Kept(session[r], session'[r]) /\ SessionChunks(session[r])
    BY Zenon, <1>2, <1>13, <1>15, SessionWhole, KeptItself
  <2> QED
    BY Zenon, <2>1, KeptStands
<1> QED
  BY Zenon, <1>14, <1>15

LEMMA ConditionStands ==
    ASSUME IInv, ChunksInv, handle_condition
    PROVE  ChunksStand
<1>0. SessionsInv
  BY DEF IInv
<1>1. CASE UNCHANGED session
  BY Zenon, <1>0, <1>1, NoneStands
<1>2. ASSUME NEW s \in Live, session[s].rotate_trigger = Head(notifications).threshold,
             NEW o \in cmd_rotate_session(
                    unsubscribe_session_consumed_size_rotation(session[s]), MOVE_TO_COMPLETED),
             \/ session' = [session EXCEPT ![s] = [o.session EXCEPT
                    !.rotate_trigger = Head(notifications).consumed + RotateSize]]
             \/ session' = [session EXCEPT ![s] = o.session]
      PROVE  ChunksStand
  <2> DEFINE old == session[s]
             u == unsubscribe_session_consumed_size_rotation(old)
             b == o.session
             c == [b EXCEPT !.rotate_trigger = Head(notifications).consumed + RotateSize]
  <2>1. s \in Sessions /\ old.status = "live"
    BY Zenon, <1>2 DEF Live
  <2>2. Whole(old) /\ ChunkInv(old)
    BY <1>0, <2>1, SessionWhole
  <2>3. SameChunks(old, u) /\ u.status = old.status
    BY Zenon, <2>2 DEF SameChunks, Whole, Fields, unsubscribe_session_consumed_size_rotation
  <2>4. o \in cmd_rotate_session(u, MOVE_TO_COMPLETED)
    OBVIOUS
  <2> HIDE DEF u
  <2>5. Advances(old, b)
    <3>1. Whole(u) /\ ChunkInv(u)
      BY Zenon, <2>2, <2>3, AdvancesItself, SameAdvances DEF Advances
    <3> QED
      BY Zenon, <2>3, <2>4, <3>1, RotateAdvances, AdvancesAfterSame
  <2>6. b.status = old.status
    <3>1. SessionInv(old) /\ Usable(old)
      BY <1>0, <2>1 DEF SessionsInv, Usable
    <3>2. old.rotate_trigger # None
      <4> DEFINE Notification == [threshold: Nat \ {0}, consumed: Nat]
      <4>1. notifications # <<>> /\ notifications \in Seq(Notification)
        BY Zenon DEF handle_condition, IInv, NotificationInv
      <4> HIDE DEF Notification
      <4>2. Head(notifications) \in Notification
        BY <4>1
      <4> QED
        BY <1>2, <4>2 DEF None, Notification
    <3>3. GrowsButTrigger(old, b)
      BY Zenon, <2>4, <3>1, <3>2, ConditionGrows DEF u
    <3> QED
      BY Zenon, <3>3 DEF GrowsButTrigger
  <2>7. Whole(b)
    BY Zenon, <2>5 DEF Advances
  <2> HIDE DEF b
  <2>8. SameChunks(b, c) /\ c.status = b.status /\ Whole(c)
    BY Zenon, <2>7 DEF SameChunks, Whole, Fields
  <2>9. session' = [session EXCEPT ![s] = c] \/ session' = [session EXCEPT ![s] = b]
    BY Zenon, <1>2 DEF b
  <2> HIDE DEF c
  <2>10. Advances(old, c)
    BY Zenon, <2>5, <2>8, SameAdvances
  <2>11. Kept(old, b) /\ Kept(old, c)
    BY <2>1, <2>5, <2>6, <2>7, <2>8, <2>10 DEF Kept
  <2> QED
    BY Zenon, <1>0, <2>1, <2>9, <2>11, OneStands
<1> QED
  BY Zenon, <1>1, <1>2 DEF handle_condition, Becomes

LEMMA StepStands ==
    ASSUME IInv, ChunksInv, [Next]_vars
    PROVE  ChunksStand
<1>0. SessionsInv
  BY DEF IInv
<1>1. CASE timer_signal_thread_qs \/ HandleQuiescentState \/ PollQueue \/ PopJob
           \/ QueueEmpty \/ ReadPipe \/ UNCHANGED vars
  <2>1. UNCHANGED session
    BY Zenon, <1>1 DEF timer_signal_thread_qs, HandleQuiescentState, PollQueue, PopJob,
                       QueueEmpty, ReadPipe, vars
  <2> QED
    BY Zenon, <1>0, <2>1, NoneStands
<1>2. ASSUME NEW t \in Timers, sigwaitinfo(t) \/ TimerExpires(t)
      PROVE  ChunksStand
  <2>1. UNCHANGED session
    BY Zenon, <1>2 DEF sigwaitinfo, TimerExpires
  <2> QED
    BY Zenon, <1>0, <2>1, NoneStands
<1>3. ASSUME NEW t \in Timers, rotation_thread_enqueue_job(t)
      PROVE  ChunksStand
  BY Zenon, <1>3, EnqueueStands
<1>4. CASE handle_condition
  BY Zenon, <1>4, ConditionStands
<1>5. ASSUME NEW s \in Sessions,
             CheckEnd(s) \/ Client(s) \/ ClientEnd(s) \/ RunJob(s)
             \/ Consumes(s) \/ ConsumerReleasesChunk(s)
      PROVE  ChunksStand
  BY Zenon, <1>5, ClientStands, OthersStand, DeactivateEndStands, DestroyStands,
     JobStands, CheckEndStands DEF Client, ClientEnd, RunJob
<1> QED
  BY Zenon, <1>1, <1>2, <1>3, <1>4, <1>5 DEF Next, HandleSignal, JobQueue

\* A rotation that a client is told is completed has left the consumer daemons,
\* and the client is told so until a later rotation, whatever the number of
\* sessions and chunks and whichever operations fail (cmd_rotate_get_info,
\* cmd_rotate_session, check_session_rotation_pending).
THEOREM CompletedRotations == Spec => CompletedRotationsStand
<1>1. Init => ChunksInv
  <2> SUFFICES ASSUME Init, NEW s \in Sessions
               PROVE  SessionChunks(session[s])
    BY DEF ChunksInv
  <2>1. session[s] = NewSession
    BY DEF Init
  <2>2. /\ NewSession.status = "unborn" /\ NewSession.rotation_state = "no_rotation"
        /\ NewSession.current_trace_chunk = None /\ NewSession.chunk_being_archived = None
        /\ NewSession.most_recent_chunk_id = None /\ NewSession.last_archived_chunk_id = None
    BY Zenon DEF NewSession
  <2>3. ChunkInv(NewSession)
    BY <2>2 DEF ChunkInv, None
  <2> QED
    BY Zenon, <2>1, <2>2, <2>3 DEF SessionChunks
<1>2. IInv /\ ChunksInv /\ [Next]_vars => ChunksInv'
  <2> SUFFICES ASSUME IInv, ChunksInv, [Next]_vars
               PROVE  ChunksInv'
    OBVIOUS
  <2>1. ChunksStand
    BY Zenon, StepStands
  <2> QED
    BY Zenon, <2>1 DEF ChunksStand, ChunksInv, SessionChunks, ChunkInv
<1>3. IInv /\ ChunksInv /\ [Next]_vars =>
        \A s \in Sessions, c \in Chunks : Stands(session[s], session'[s], c)
  BY Zenon, StepStands DEF ChunksStand
<1>4. IInv /\ ChunksInv /\ [Next]_vars =>
        \A s \in Sessions, c \in Chunks :
            /\ /\ cmd_rotate_get_info(session[s], c) = "ongoing"
               /\ cmd_rotate_get_info(session'[s], c) = "completed"
               => c \notin session[s].on_consumers
            /\ /\ cmd_rotate_get_info(session[s], c) = "completed"
               /\ session'[s].status # "freed"
               => cmd_rotate_get_info(session'[s], c) \in {"completed", "expired", "error"}
  BY Zenon, <1>3 DEF Stands
<1> QED
  BY <1>1, <1>2, <1>4, Invariant, PTL DEF Spec, CompletedRotationsStand

-----------------------------------------------------------------------------
(* The triggers of the size schedules. *)

\* A session with a size schedule has a trigger, unless the rotation thread
\* has ended after a size rotation that failed.
Triggered(se) == se.rotate_size => se.rotate_trigger # None

TriggersInv == rotation.pc # "dead" => \A s \in Sessions : Triggered(session[s])

SameTrigger(a, b) ==
    /\ Whole(b)
    /\ b.rotate_size = a.rotate_size /\ b.rotate_trigger = a.rotate_trigger

\* What a step does to the triggers, and to the rotation thread.
TriggersStand ==
    rotation'.pc # "dead" =>
        /\ rotation.pc # "dead"
        /\ \A s \in Sessions : Triggered(session[s]) => Triggered(session'[s])

LEMMA NoneTriggered ==
    ASSUME UNCHANGED session, rotation'.pc # "dead" => rotation.pc # "dead"
    PROVE  TriggersStand
  BY Zenon DEF TriggersStand

LEMMA OneTriggered ==
    ASSUME SessionsInv, NEW r \in Sessions, NEW x, Triggered(session[r]) => Triggered(x),
           session' = [session EXCEPT ![r] = x],
           rotation'.pc # "dead" => rotation.pc # "dead"
    PROVE  TriggersStand
<1>1. \A s \in Sessions : session'[s] = IF s = r THEN x ELSE session[s]
  BY DEF SessionsInv
<1> QED
  BY Zenon, <1>1 DEF TriggersStand

LEMMA SessionIsWhole ==
    ASSUME IInv, NEW s \in Sessions
    PROVE  SessionsInv /\ SessionInv(session[s]) /\ Whole(session[s])
  BY DEF IInv, SessionsInv, SessionInv, Whole

LEMMA PutTriggered ==
    ASSUME NEW a, Whole(a), Triggered(a)
    PROVE  Whole(session_put(a)) /\ Triggered(session_put(a))
<1> DEFINE put == session_put(a)
<1>1. CASE a.ref > 1
  <2>1. put = [a EXCEPT !.ref = @ - 1]
    BY <1>1 DEF session_put
  <2>2. SameTrigger(a, put)
    BY Zenon, <2>1 DEF SameTrigger, Whole, Fields
  <2> QED
    BY Zenon, <2>2 DEF SameTrigger, Triggered
<1>2. CASE ~(a.ref > 1)
  <2>1. put = [NewSession EXCEPT !.status = "freed",
                            !.chunk_being_archived = a.chunk_being_archived]
    BY <1>2 DEF session_put
  <2>2. Whole(put) /\ put.rotate_size = FALSE
    BY Zenon, <2>1 DEF Whole, Fields, NewSession
  <2> QED
    BY Zenon, <2>2 DEF Triggered
<1> QED
  BY <1>1, <1>2

LEMMA EnqueueTriggered ==
    ASSUME IInv, NEW t \in Timers, rotation_thread_enqueue_job(t)
    PROVE  TriggersStand
<1> DEFINE s == t[2]
           b == session_get(session[s])
<1>1. s \in Sessions
  BY DEF Timers
<1>2. SessionsInv /\ Whole(session[s])
  BY Zenon, <1>1, SessionIsWhole
<1>3. rotation' = rotation
  BY DEF rotation_thread_enqueue_job, threads
<1>4. CASE UNCHANGED session
  BY Zenon, <1>3, <1>4, NoneTriggered
<1>5. CASE session' = [session EXCEPT ![s] = b]
  <2> HIDE DEF s
  <2>1. SameTrigger(session[s], b)
    BY Zenon, <1>2 DEF SameTrigger, Whole, Fields, session_get
  <2> HIDE DEF b
  <2>2. Triggered(session[s]) => Triggered(b)
    BY Zenon, <2>1 DEF SameTrigger, Triggered
  <2> QED
    BY Zenon, <1>1, <1>2, <1>3, <1>5, <2>2, OneTriggered
<1> QED
  BY <1>4, <1>5 DEF rotation_thread_enqueue_job

LEMMA RunsTriggered ==
    ASSUME IInv, NEW s \in Sessions, NEW outcomes, Runs(s, outcomes),
           \A o \in outcomes : Grows(session[s], o.session)
    PROVE  TriggersStand
<1>1. PICK o \in outcomes : session' = [session EXCEPT ![s] = o.session]
  BY Zenon DEF Runs, Becomes
<1>2. rotation' = rotation
  BY DEF Runs, threads
<1>3. Triggered(session[s]) => Triggered(o.session)
  BY Zenon DEF Grows, GrowsButTrigger, Triggered
<1> QED
  BY Zenon, <1>1, <1>2, <1>3, SessionIsWhole, OneTriggered

LEMMA ClientTriggered ==
    ASSUME IInv, NEW s \in Sessions,
           Start(s) \/ Stop(s) \/ Rotate(s) \/ Clear(s) \/ ActivatePeriod(s)
    PROVE  TriggersStand
<1> DEFINE se == session[s]
<1>1. SessionsInv /\ SessionInv(se) /\ Whole(se)
  BY Zenon, SessionIsWhole
<1>2. Usable(se)
  BY DEF Start, Stop, Rotate, Clear, ActivatePeriod, Runs, Command, Live, Usable
<1> HIDE DEF se
<1>3. CASE Start(s)
  <2>1. Runs(s, cmd_start_trace(se))
    BY Zenon, <1>3 DEF Start, se
  <2> QED
    BY Zenon, <1>1, <1>2, <2>1, StartGrows, RunsTriggered DEF se
<1>4. CASE Clear(s)
  <2>1. Runs(s, cmd_clear_session(se))
    BY Zenon, <1>4 DEF Clear, se
  <2> QED
    BY Zenon, <1>1, <1>2, <2>1, ClearGrows, RunsTriggered DEF se
<1>5. CASE Rotate(s)
  <2> DEFINE outcomes == Within(cmd_rotate_session(se, MOVE_TO_COMPLETED))
  <2>1. Runs(s, outcomes)
    BY Zenon, <1>5 DEF Rotate, se
  <2>2. \A o \in outcomes : o \in cmd_rotate_session(se, MOVE_TO_COMPLETED)
    BY DEF Within
  <2> HIDE DEF outcomes
  <2> QED
    BY Zenon, <1>1, <1>2, <2>1, <2>2, RotateGrows, RunsTriggered DEF se
<1>6. ASSUME NEW b, Runs(s, {Outcome("ok", b)}), SameTrigger(se, b)
      PROVE  TriggersStand
  <2>1. \E o \in {Outcome("ok", b)} : session' = [session EXCEPT ![s] = o.session]
    BY Zenon, <1>6 DEF Runs, Becomes
  <2>2. Outcome("ok", b).session = b
    BY DEF Outcome
  <2>3. session' = [session EXCEPT ![s] = b]
    BY Zenon, <2>1, <2>2
  <2>4. rotation' = rotation
    BY <1>6 DEF Runs, threads
  <2>5. Triggered(se) => Triggered(b)
    BY Zenon, <1>6 DEF SameTrigger, Triggered
  <2> QED
    BY Zenon, <1>1, <2>3, <2>4, <2>5, OneTriggered DEF se
<1>7. CASE Stop(s)
  <2>1. Runs(s, {Outcome("ok", cmd_stop_trace(se))})
    BY Zenon, <1>7 DEF Stop, se
  <2>2. SameTrigger(se, cmd_stop_trace(se))
    BY Zenon, <1>1 DEF SameTrigger, Whole, Fields, cmd_stop_trace
  <2> QED
    BY Zenon, <1>6, <2>1, <2>2
<1>8. CASE ActivatePeriod(s)
  <2> DEFINE set == [se EXCEPT !.rotate_timer_period = TRUE]
             timed == timer_session_rotation_schedule_timer_start(set)
  <2>1. Runs(s, {Outcome("ok", IF set.active THEN timed ELSE set)})
    BY Zenon, <1>8 DEF ActivatePeriod, se
  <2>2. SameTrigger(se, set)
    BY Zenon, <1>1 DEF SameTrigger, Whole, Fields
  <2>3. SameTrigger(se, timed)
    BY Zenon, <1>1 DEF SameTrigger, Whole, Fields, session_get,
                       timer_session_rotation_schedule_timer_start
  <2> HIDE DEF set, timed
  <2>4. SameTrigger(se, IF set.active THEN timed ELSE set)
    BY Zenon, <2>2, <2>3
  <2> QED
    BY Zenon, <1>6, <2>1, <2>4
<1> QED
  BY Zenon, <1>3, <1>4, <1>5, <1>7, <1>8

LEMMA OthersTriggered ==
    ASSUME IInv, NEW s \in Sessions,
           \/ session_create(s) \/ DeactivatePeriod(s) \/ DeactivatePeriodEnd(s)
           \/ ActivateSize(s) \/ DeactivateSize(s)
           \/ Consumes(s) \/ ConsumerReleasesChunk(s)
    PROVE  TriggersStand
<1> DEFINE old == session[s]
<1>0. SessionsInv /\ Whole(old) /\ session = [r \in Sessions |-> session[r]]
  BY SessionIsWhole DEF SessionsInv
<1>1. rotation' = rotation
  BY DEF session_create, DeactivatePeriod, DeactivatePeriodEnd, ActivateSize, DeactivateSize,
         Consumes, ConsumerReleasesChunk, threads
<1>2. ASSUME NEW b, SameTrigger(old, b) \/ Triggered(b), session' = [session EXCEPT ![s] = b]
      PROVE  TriggersStand
  <2>1. Triggered(old) => Triggered(b)
    BY Zenon, <1>2 DEF SameTrigger, Triggered
  <2> QED
    BY Zenon, <1>0, <1>1, <1>2, <2>1, OneTriggered
<1>3. CASE session_create(s)
  <2> DEFINE b == [old EXCEPT !.status = "live", !.ref = 1]
  <2>1. session' = [session EXCEPT ![s] = b]
    BY Zenon, <1>0, <1>3 DEF session_create
  <2>2. SameTrigger(old, b)
    BY Zenon, <1>0 DEF SameTrigger, Whole, Fields
  <2> QED
    BY Zenon, <1>2, <2>1, <2>2
<1>4. CASE DeactivatePeriod(s)
  <2> DEFINE set == [old EXCEPT !.rotate_timer_period = FALSE]
             got == session_get(set)
  <2>1. session' = [session EXCEPT ![s] = got] \/ session' = [session EXCEPT ![s] = set]
    BY Zenon, <1>4 DEF DeactivatePeriod
  <2>2. SameTrigger(old, set)
    BY Zenon, <1>0 DEF SameTrigger, Whole, Fields
  <2>3. SameTrigger(old, got)
    BY Zenon, <1>0 DEF SameTrigger, Whole, Fields, session_get
  <2> QED
    BY Zenon, <1>2, <2>1, <2>2, <2>3
<1>5. CASE DeactivatePeriodEnd(s)
  <2> DEFINE a == [old EXCEPT !.schedule_timer = FALSE]
             b == session_put(session_put(a))
  <2>1. session' = [session EXCEPT ![s] = b]
    BY Zenon, <1>0, <1>5 DEF DeactivatePeriodEnd, timer_session_rotation_schedule_timer_stop
  <2>2. SameTrigger(old, a)
    BY Zenon, <1>0 DEF SameTrigger, Whole, Fields
  <2> HIDE DEF a
  <2>3. Triggered(old) => Triggered(b)
    BY Zenon, <2>2, PutTriggered DEF SameTrigger, Triggered
  <2> QED
    BY Zenon, <1>0, <1>1, <2>1, <2>3, OneTriggered
<1>6. CASE ActivateSize(s)
  <2> DEFINE b == [old EXCEPT !.rotate_size = TRUE, !.rotate_trigger = RotateSize]
  <2>1. session' = [session EXCEPT ![s] = b]
    BY Zenon, <1>0, <1>6 DEF ActivateSize
  <2>2. b.rotate_trigger = RotateSize
    BY Zenon, <1>0 DEF Whole, Fields
  <2>3. RotateSize # None
    BY DEF RotateSize, None
  <2> QED
    BY Zenon, <1>2, <2>1, <2>2, <2>3 DEF Triggered
<1>7. CASE DeactivateSize(s)
  <2> DEFINE b == [unsubscribe_session_consumed_size_rotation(old)
                        EXCEPT !.rotate_size = FALSE]
  <2>1. session' = [session EXCEPT ![s] = b]
    BY Zenon, <1>0, <1>7 DEF DeactivateSize
  <2>2. b.rotate_size = FALSE
    BY Zenon, <1>0 DEF Whole, Fields, unsubscribe_session_consumed_size_rotation
  <2> QED
    BY Zenon, <1>2, <2>1, <2>2 DEF Triggered
<1>8. CASE Consumes(s)
  <2> DEFINE b == [old EXCEPT !.consumed = @ + 1]
  <2>1. session' = [session EXCEPT ![s] = b]
    BY Zenon, <1>0, <1>8 DEF Consumes
  <2>2. SameTrigger(old, b)
    BY Zenon, <1>0 DEF SameTrigger, Whole, Fields
  <2> QED
    BY Zenon, <1>2, <2>1, <2>2
<1>9. CASE ConsumerReleasesChunk(s)
  <2> DEFINE b == [old EXCEPT !.on_consumers = @ \ {old.chunk_being_archived}]
  <2>1. session' = [session EXCEPT ![s] = b]
    BY Zenon, <1>0, <1>9 DEF ConsumerReleasesChunk
  <2>2. SameTrigger(old, b)
    BY Zenon, <1>0 DEF SameTrigger, Whole, Fields
  <2> QED
    BY Zenon, <1>2, <2>1, <2>2
<1> QED
  BY Zenon, <1>3, <1>4, <1>5, <1>6, <1>7, <1>8, <1>9

\* A session that is destroyed has no size schedule any more.
LEMMA DestroyedTriggered ==
    ASSUME IInv, NEW s \in Sessions, NEW se, NEW held \in BOOLEAN,
           SessionInv(se), Usable(se), Destroyed(s, se, held), rotation' = rotation
    PROVE  /\ TriggersStand
           /\ "comparison" \in aborted' => "comparison" \in aborted
           /\ "unsubscribe" \in aborted' => "unsubscribe" \in aborted \/ ~Triggered(se)
<1> DEFINE u == unsubscribe_session_consumed_size_rotation([se EXCEPT !.rotate_size = FALSE])
           Listed(o) == [o.session EXCEPT !.status = "destroyed"]
           Gone(o) == IF held THEN session_put(session_put(Listed(o)))
                      ELSE session_put(Listed(o))
<1>1. PICK o \in LastRotation(u) :
            /\ session' = [session EXCEPT ![s] = Gone(o)]
            /\ aborted' = aborted
                \cup {why \in {"unsubscribe"} : se.rotate_size /\ se.rotate_trigger = None}
                \cup {why \in {"released"} : Gone(o).status = "freed"
                                             /\ Gone(o).chunk_being_archived # None}
  BY Zenon DEF Destroyed, Becomes
<1> DEFINE b == o.session
           listed == [b EXCEPT !.status = "destroyed"]
           gone == IF held THEN session_put(session_put(listed)) ELSE session_put(listed)
<1>2. session' = [session EXCEPT ![s] = gone]
  BY Zenon, <1>1
<1>3. /\ "comparison" \in aborted' => "comparison" \in aborted
      /\ "unsubscribe" \in aborted' => "unsubscribe" \in aborted \/ ~Triggered(se)
  <2> HIDE DEF Gone, u
  <2> QED
    BY <1>1 DEF Triggered
<1> HIDE DEF Gone, Listed
<1>4. /\ u = [f \in Fields |-> u[f]]
      /\ u.status = se.status /\ u.ref = se.ref
      /\ u.check_timer = se.check_timer
      /\ u.schedule_timer = se.schedule_timer
      /\ u.chunk_being_archived = se.chunk_being_archived
      /\ u.rotation_state = se.rotation_state
      /\ u.rotate_timer_period = se.rotate_timer_period
      /\ u.rotate_size = FALSE
      /\ u.rotate_trigger = None
      /\ u.consumed = se.consumed
  BY Zenon DEF SessionInv, Fields, unsubscribe_session_consumed_size_rotation
<1> HIDE DEF u
<1>5. SessionInv(u) /\ Usable(u)
  <2>1. u.rotate_size \in BOOLEAN /\ Usable(u)
    BY Zenon, <1>4 DEF Usable
  <2> QED
    BY <1>4, <2>1 DEF SessionInv
<1>6. SessionInv(b) /\ Grows(u, b)
  BY Zenon, <1>5, LastRotationGrows
<1> HIDE DEF b
<1>7. Whole(b) /\ b.rotate_size = FALSE
  BY Zenon, <1>4, <1>6 DEF SessionInv, Whole, Grows, GrowsButTrigger
<1>8. Whole(listed) /\ Triggered(listed)
  BY Zenon, <1>7 DEF Whole, Fields, Triggered
<1> HIDE DEF listed
<1>9. Triggered(gone)
  BY Zenon, <1>8, PutTriggered
<1> HIDE DEF gone
<1>10. TriggersStand
  BY Zenon, <1>2, <1>9, SessionIsWhole, OneTriggered
<1> QED
  BY Zenon, <1>3, <1>10

LEMMA DestroyTriggered ==
    ASSUME IInv, NEW s \in Sessions, cmd_destroy_session(s) \/ DestroyEnd(s)
    PROVE  /\ TriggersStand /\ rotation' = rotation
           /\ "comparison" \in aborted' => "comparison" \in aborted
           /\ "unsubscribe" \in aborted' => "unsubscribe" \in aborted \/ ~Triggered(session[s])
<1> DEFINE old == session[s]
<1>1. SessionsInv /\ SessionInv(old) /\ Whole(old)
  BY Zenon, SessionIsWhole
<1>2. rotation' = rotation
  BY Zenon DEF cmd_destroy_session, DestroyEnd
<1>3. CASE cmd_destroy_session(s)
  <2> DEFINE stopped == cmd_stop_trace(old)
             got == session_get(stopped)
  <2>1. old.status = "live"
    BY Zenon, <1>3 DEF cmd_destroy_session, Command, Live
  <2>2. Alike(old, stopped)
    BY Zenon, <1>1 DEF SessionInv, cmd_stop_trace, Alike, AlikeButState, Fields
  <2>3. SameTrigger(old, stopped)
    BY Zenon, <2>2 DEF Alike, AlikeButState, SameTrigger, Whole
  <2>4. \/ session' = [session EXCEPT ![s] = got] /\ aborted' = aborted
        \/ Destroyed(s, stopped, FALSE)
    BY Zenon, <1>3 DEF cmd_destroy_session
  <2> HIDE DEF stopped
  <2>5. SessionInv(stopped) /\ Usable(stopped)
    <3>1. SessionInv(stopped)
      BY <1>1, <2>2, AlikeGrows DEF Alike
    <3> QED
      BY <2>1, <2>2, <3>1 DEF Alike, AlikeButState, Usable
  <2>6. Triggered(old) => Triggered(stopped)
    BY Zenon, <2>3 DEF SameTrigger, Triggered
  <2>7. CASE session' = [session EXCEPT ![s] = got] /\ aborted' = aborted
    <3>1. SameTrigger(stopped, got)
      BY Zenon, <2>3 DEF SameTrigger, Whole, Fields, session_get
    <3> HIDE DEF got
    <3>2. Triggered(old) => Triggered(got)
      BY Zenon, <2>6, <3>1 DEF SameTrigger, Triggered
    <3>3. TriggersStand
      BY Zenon, <1>1, <1>2, <2>7, <3>2, OneTriggered
    <3> QED
      BY Zenon, <1>2, <2>7, <3>3
  <2>8. CASE Destroyed(s, stopped, FALSE)
    BY Zenon, <1>2, <2>5, <2>6, <2>8, DestroyedTriggered
  <2> QED
    BY Zenon, <2>4, <2>7, <2>8
<1>4. CASE DestroyEnd(s)
  <2> DEFINE a == [old EXCEPT !.schedule_timer = FALSE]
             b == session_put(a)
  <2>1. /\ old.schedule_timer /\ old.status = "live" /\ old.ref = Own(old) + Held(s)
        /\ Held(s) \in Nat /\ Held(s) > 0
    BY Zenon, <1>4, StoppedSession DEF DestroyEnd
  <2>2. b = timer_session_rotation_schedule_timer_stop(old)
    BY Zenon DEF timer_session_rotation_schedule_timer_stop
  <2>3. SessionInv(b) /\ b.status = "live"
    BY <1>1, <2>1, <2>2, UnscheduleKeeps
  <2>4. SameTrigger(old, a)
    BY Zenon, <1>1 DEF SameTrigger, Whole, Fields
  <2> HIDE DEF a
  <2>5. Triggered(old) => Triggered(b)
    BY Zenon, <2>4, PutTriggered DEF SameTrigger, Triggered
  <2> HIDE DEF b
  <2>6. Destroyed(s, b, TRUE) /\ Usable(b)
    BY Zenon, <1>4, <2>2, <2>3 DEF DestroyEnd, Usable
  <2> QED
    BY Zenon, <1>2, <2>3, <2>5, <2>6, DestroyedTriggered
<1> QED
  BY Zenon, <1>3, <1>4

LEMMA JobTriggered ==
    ASSUME IInv, NEW s \in Sessions,
           launch_session_rotation(s) \/ check_session_rotation_pending(s)
    PROVE  TriggersStand
<1> DEFINE old == session[s]
<1>1. SessionsInv /\ SessionInv(old) /\ Usable(old)
  <2>1. PICK kind : rotation.job = <<kind, s>>
    BY DEF launch_session_rotation, check_session_rotation_pending
  <2> QED
    BY <2>1, JobSession DEF IInv
<1>2. rotation.pc = "lock"
  BY DEF launch_session_rotation, check_session_rotation_pending
<1>3. ASSUME NEW se, Whole(se), Triggered(old) => Triggered(se),
             session' = [session EXCEPT ![s] = session_put(se)]
      PROVE  TriggersStand
  <2>1. Triggered(old) => Triggered(session_put(se))
    BY Zenon, <1>3, PutTriggered
  <2> QED
    BY Zenon, <1>1, <1>2, <1>3, <2>1, OneTriggered
<1>4. CASE launch_session_rotation(s)
  <2>1. PICK o \in cmd_rotate_session(old, MOVE_TO_COMPLETED) :
            session' = [session EXCEPT ![s] = session_put(o.session)]
    BY Zenon, <1>4 DEF launch_session_rotation, JobDone, Becomes
  <2>2. SessionInv(o.session) /\ Grows(old, o.session)
    BY Zenon, <1>1, RotateGrows
  <2>3. Whole(o.session) /\ (Triggered(old) => Triggered(o.session))
    BY Zenon, <2>2 DEF SessionInv, Whole, Grows, GrowsButTrigger, Triggered
  <2> QED
    BY Zenon, <1>3, <2>1, <2>3
<1>5. CASE check_session_rotation_pending(s)
  <2>1. session' = [session EXCEPT ![s] = session_put(old)] \/ UNCHANGED session
    BY Zenon, <1>5 DEF check_session_rotation_pending, JobDone, Becomes
  <2>2. Whole(old)
    BY Zenon, SessionIsWhole
  <2> QED
    BY Zenon, <1>2, <1>3, <2>1, <2>2, NoneTriggered
<1> QED
  BY Zenon, <1>4, <1>5

LEMMA CheckEndTriggered ==
    ASSUME IInv, NEW s \in Sessions, CheckEnd(s)
    PROVE  TriggersStand
<1> DEFINE old == session[s]
<1>1. PICK se \in check_session_rotation_pending_on_consumers(
                    timer_session_rotation_pending_check_stop(old)) :
            session' = [session EXCEPT ![s] = session_put(se)]
  BY Zenon DEF CheckEnd
<1>2. /\ rotation = [pc |-> "stop", job |-> <<CHECK_PENDING_ROTATION, s>>]
      /\ stopping = "done" /\ SessionsInv
  BY Zenon DEF CheckEnd, IInv
<1>3. old.check_timer
  <2>1. client = Idle /\ Stopped = <<CHECK_PENDING_ROTATION, s>>
    BY <1>2 DEF IInv, ThreadInv, Stopped
  <2> QED
    BY Zenon, <1>2, <2>1 DEF IInv, StopInv, Enabled
<1>4. /\ SessionInv(old) /\ Usable(old) /\ old.ref = Own(old) + Held(s)
      /\ Held(s) \in Nat /\ Held(s) > 0
  BY SMTT(30), <1>2, JobSession
<1>5. SessionInv(se) /\ se.rotate_size = old.rotate_size /\ se.rotate_trigger = old.rotate_trigger
  BY <1>3, <1>4, CheckedSession
<1>6. Triggered(old) => Triggered(session_put(se))
  BY Zenon, <1>5, PutTriggered DEF SessionInv, Whole, Triggered
<1>7. rotation.pc # "dead"
  BY <1>2
<1> QED
  BY Zenon, <1>1, <1>2, <1>6, <1>7, OneTriggered

\* A size rotation that succeeds sets the trigger again; one that fails ends
\* the thread.
LEMMA ConditionTriggered ==
    ASSUME IInv, handle_condition
    PROVE  TriggersStand
<1> DEFINE n == Head(notifications)
<1>1. rotation.pc # "dead" /\ SessionsInv
  BY DEF handle_condition, IInv
<1>2. CASE UNCHANGED session
  BY Zenon, <1>1, <1>2, NoneTriggered
<1>3. CASE rotation' = [rotation EXCEPT !.pc = "dead"]
  <2>1. rotation'.pc = "dead"
    BY <1>3 DEF IInv, ThreadInv
  <2> QED
    BY Zenon, <2>1 DEF TriggersStand
<1>4. ASSUME NEW s \in Live, session[s].rotate_trigger = n.threshold,
             NEW o \in cmd_rotate_session(
                    unsubscribe_session_consumed_size_rotation(session[s]), MOVE_TO_COMPLETED),
             session' = [session EXCEPT ![s] =
                            [o.session EXCEPT !.rotate_trigger = n.consumed + RotateSize]]
      PROVE  TriggersStand
  <2>1. n.threshold # None /\ n.consumed + RotateSize # None
    <3> DEFINE Notification == [threshold: Nat \ {0}, consumed: Nat]
    <3>1. notifications # <<>> /\ notifications \in Seq(Notification)
      BY Zenon DEF handle_condition, IInv, NotificationInv
    <3> HIDE DEF Notification
    <3>2. n \in Notification
      BY <3>1
    <3> QED
      BY <3>2 DEF None, Notification, RotateSize
  <2> DEFINE threshold == n.consumed + RotateSize
             b == [o.session EXCEPT !.rotate_trigger = threshold]
  <2>2. session' = [session EXCEPT ![s] = b] /\ threshold # None
    BY Zenon, <1>4, <2>1
  <2> HIDE DEF threshold, n
  <2>3. s \in Sessions /\ SessionInv(session[s]) /\ Usable(session[s])
        /\ session[s].rotate_trigger # None
    BY <1>1, <1>4, <2>1 DEF Live, SessionsInv, Usable
  <2>4. SessionInv(o.session)
    BY Zenon, <2>3, ConditionGrows
  <2>5. b.rotate_trigger = threshold
    BY Zenon, <2>4 DEF SessionInv, Fields
  <2>6. Triggered(b)
    BY Zenon, <2>2, <2>5 DEF Triggered
  <2> QED
    BY Zenon, <1>1, <2>2, <2>3, <2>6, OneTriggered
<1> QED
  BY Zenon, <1>2, <1>3, <1>4 DEF handle_condition, Becomes

LEMMA StepTriggers ==
    ASSUME IInv, [Next]_vars
    PROVE  TriggersStand
<1>1. CASE timer_signal_thread_qs \/ HandleQuiescentState \/ UNCHANGED vars
  <2>1. UNCHANGED <<session, rotation>>
    BY Zenon, <1>1 DEF timer_signal_thread_qs, HandleQuiescentState, vars, threads
  <2> QED
    BY Zenon, <2>1, NoneTriggered
<1>2. CASE PollQueue \/ PopJob \/ QueueEmpty \/ ReadPipe
  <2>1. UNCHANGED session /\ rotation.pc \in {"poll", "jobs", "read"}
    BY Zenon, <1>2 DEF PollQueue, PopJob, QueueEmpty, ReadPipe, RotationAt
  <2>2. rotation.pc # "dead"
    BY <2>1
  <2> QED
    BY Zenon, <2>1, <2>2, NoneTriggered
<1>3. ASSUME NEW t \in Timers, sigwaitinfo(t) \/ TimerExpires(t)
      PROVE  TriggersStand
  <2>1. UNCHANGED <<session, rotation>>
    BY Zenon, <1>3 DEF sigwaitinfo, TimerExpires, threads
  <2> QED
    BY Zenon, <2>1, NoneTriggered
<1>4. ASSUME NEW t \in Timers, rotation_thread_enqueue_job(t)
      PROVE  TriggersStand
  BY Zenon, <1>4, EnqueueTriggered
<1>5. CASE handle_condition
  BY Zenon, <1>5, ConditionTriggered
<1>6. ASSUME NEW s \in Sessions,
             CheckEnd(s) \/ Client(s) \/ ClientEnd(s) \/ RunJob(s)
             \/ Consumes(s) \/ ConsumerReleasesChunk(s)
      PROVE  TriggersStand
  BY Zenon, <1>6, ClientTriggered, OthersTriggered, DestroyTriggered,
     JobTriggered, CheckEndTriggered DEF Client, ClientEnd, RunJob
<1> QED
  BY Zenon, <1>1, <1>2, <1>3, <1>4, <1>5, <1>6 DEF Next, HandleSignal, JobQueue

\* Which assertion a step may fail.
LEMMA StepAssertions ==
    ASSUME IInv, TriggersInv, aborted = {}, Next
    PROVE  AssertionsHold'
<1> DEFINE Silent == "comparison" \notin aborted' /\ "unsubscribe" \notin aborted'
<1>0. AbortInv'
  BY StepKeeps DEF IInv
<1>1. ASSUME Silent
      PROVE  AssertionsHold'
  BY Zenon, <1>0, <1>1 DEF AssertionsHold, AbortInv
<1>2. CASE aborted' = aborted
  BY <1>1, <1>2
<1>3. ASSUME NEW condition, NEW why \in {"subscribed", "check_timer", "released"},
             Asserts(condition, why)
      PROVE  AssertionsHold'
  <2>1. aborted' = {} \/ aborted' = {why}
    BY <1>3 DEF Asserts
  <2> QED
    BY <1>1, <1>3, <2>1
<1>4. ASSUME NEW s \in Sessions, ~Triggered(session[s]), rotation' = rotation,
             "comparison" \notin aborted'
      PROVE  AssertionsHold'
  <2>1. rotation'.pc = "dead"
    BY Zenon, <1>4 DEF TriggersInv
  <2> QED
    BY Zenon, <1>0, <1>4, <2>1 DEF AssertionsHold, AbortInv
<1>5. CASE handle_condition
  <2>1. CASE aborted' # aborted
    <3>1. PICK s \in Live : /\ session[s].rotate_trigger = None
                            /\ Asserts(FALSE, "comparison") /\ UNCHANGED session
      BY Zenon, <1>5, <2>1 DEF handle_condition
    <3>2. aborted' = {"comparison"} /\ Live' = Live
      BY <3>1 DEF Asserts, Live
    <3>3. rotation.pc # "dead"
      BY <1>5 DEF handle_condition
    <3>4. ~session'[s].rotate_size
      BY Zenon, <3>1, <3>3 DEF TriggersInv, Triggered, Live
    <3> QED
      BY <3>1, <3>2, <3>4 DEF AssertionsHold
  <2> QED
    BY <1>2, <2>1
<1>6. ASSUME NEW s \in Sessions, DeactivateSize(s)
      PROVE  AssertionsHold'
  <2>1. aborted' = aborted \/ (session[s].rotate_trigger = None /\ aborted' = {"unsubscribe"})
    BY <1>6 DEF DeactivateSize, Asserts
  <2>2. session[s].rotate_size /\ rotation' = rotation
    BY Zenon, <1>6 DEF DeactivateSize, threads
  <2>3. CASE session[s].rotate_trigger = None /\ aborted' = {"unsubscribe"}
    <3>1. ~Triggered(session[s])
      BY Zenon, <2>2, <2>3 DEF Triggered
    <3>2. "comparison" \notin aborted'
      BY <2>3
    <3> QED
      BY Zenon, <1>4, <2>2, <3>1, <3>2
  <2> QED
    BY Zenon, <1>2, <2>1, <2>3
<1>7. ASSUME NEW s \in Sessions, cmd_destroy_session(s) \/ DestroyEnd(s)
      PROVE  AssertionsHold'
  <2>1. /\ "comparison" \notin aborted' /\ rotation' = rotation
        /\ "unsubscribe" \in aborted' => ~Triggered(session[s])
    <3>1. "comparison" \notin aborted /\ "unsubscribe" \notin aborted
      OBVIOUS
    <3> QED
      BY Zenon, <1>7, <3>1, DestroyTriggered
  <2> QED
    BY Zenon, <1>1, <1>4, <2>1
<1>8. ASSUME NEW s \in Sessions, Start(s) \/ Stop(s) \/ Rotate(s) \/ Clear(s) \/ ActivatePeriod(s)
      PROVE  AssertionsHold'
  <2>1. aborted' = aborted
    BY Zenon, <1>8 DEF Start, Stop, Rotate, Clear, ActivatePeriod, Runs
  <2> QED
    BY Zenon, <1>2, <2>1
<1>9. ASSUME NEW s \in Sessions,
             \/ session_create(s) \/ DeactivatePeriod(s) \/ DeactivatePeriodEnd(s)
             \/ Consumes(s) \/ ConsumerReleasesChunk(s)
      PROVE  AssertionsHold'
  <2>1. aborted' = aborted
    BY Zenon, <1>9 DEF session_create, DeactivatePeriod, DeactivatePeriodEnd, Consumes,
                       ConsumerReleasesChunk
  <2> QED
    BY Zenon, <1>2, <2>1
<1>10. ASSUME NEW s \in Sessions,
              ActivateSize(s) \/ RunJob(s) \/ CheckEnd(s)
       PROVE  AssertionsHold'
  <2>1. \E condition : \/ Asserts(condition, "subscribed")
                       \/ Asserts(condition, "check_timer")
                       \/ Asserts(condition, "released")
    BY Zenon, <1>10 DEF ActivateSize, RunJob, launch_session_rotation,
                        check_session_rotation_pending, JobDone, CheckEnd
  <2> QED
    BY Zenon, <1>3, <2>1
<1>11. CASE timer_signal_thread_qs \/ HandleQuiescentState \/ PollQueue \/ PopJob
            \/ QueueEmpty \/ ReadPipe
  <2>1. aborted' = aborted
    BY Zenon, <1>11 DEF timer_signal_thread_qs, HandleQuiescentState, PollQueue, PopJob,
                        QueueEmpty, ReadPipe
  <2> QED
    BY Zenon, <1>2, <2>1
<1>12. ASSUME NEW t \in Timers,
              sigwaitinfo(t) \/ TimerExpires(t) \/ rotation_thread_enqueue_job(t)
       PROVE  AssertionsHold'
  <2>1. aborted' = aborted
    BY Zenon, <1>12 DEF sigwaitinfo, TimerExpires, rotation_thread_enqueue_job
  <2> QED
    BY Zenon, <1>2, <2>1
<1> QED
  BY Zenon, <1>5, <1>6, <1>7, <1>8, <1>9, <1>10, <1>11, <1>12
  DEF Next, HandleSignal, JobQueue, Client, ClientEnd

\* No assertion of the session daemon fails but for two, whatever the number of
\* sessions and whichever operations fail: the comparison of handle_condition
\* with the trigger of a session that has no size schedule, and the assertion
\* of unsubscribe_session_consumed_size_rotation once a size rotation has
\* failed and ended the rotation thread.  A check that finds a chunk being
\* archived finds its timer enabled, no session is released with such a chunk,
\* none is subscribed twice (rotation-thread.c, session.c, rotate.c).
THEOREM AssertionsNeverFail == Spec => []AssertionsHold
<1>1. Init => TriggersInv /\ AssertionsHold
  <2> SUFFICES ASSUME Init
               PROVE  TriggersInv /\ AssertionsHold
    OBVIOUS
  <2>1. aborted = {} /\ \A s \in Sessions : session[s] = NewSession
    BY DEF Init
  <2>2. NewSession.rotate_size = FALSE
    BY Zenon DEF NewSession
  <2> QED
    BY <2>1, <2>2 DEF TriggersInv, Triggered, AssertionsHold
<1>2. IInv /\ TriggersInv /\ [Next]_vars => TriggersInv'
  BY Zenon, StepTriggers DEF TriggersStand, TriggersInv, Triggered
<1>3. IInv /\ TriggersInv /\ AssertionsHold /\ [Next]_vars => AssertionsHold'
  <2> SUFFICES ASSUME IInv, TriggersInv, AssertionsHold, [Next]_vars
               PROVE  AssertionsHold'
    OBVIOUS
  <2>1. CASE Next
    BY Zenon, <2>1, StepAssertions DEF Next
  <2>2. CASE UNCHANGED vars
    BY <2>2 DEF AssertionsHold, Live, vars, threads
  <2> QED
    BY <2>1, <2>2
<1> QED
  BY <1>1, <1>2, <1>3, Invariant, PTL DEF Spec

=============================================================================
