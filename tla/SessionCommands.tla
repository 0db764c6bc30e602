--------------------------- MODULE SessionCommands ---------------------------
(***************************************************************************)
(* What the session daemon's commands do to a recording session (cmd.c,    *)
(* clear.c, session.c): start, stop, rotate, clear, rotation schedules.    *)
(*                                                                         *)
(* A command runs with the session list and session locks held, so it is   *)
(* a function of the session: an operator here yields the set of outcomes, *)
(* records of the returned code and of the session after the command.      *)
(* The session is one that records to an output and is not live; it has a  *)
(* channel.  What the consumer daemons know of its trace chunks is part of *)
(* the record: a chunk that is "open" or closing exists on a consumer.     *)
(***************************************************************************)
EXTENDS Naturals, FiniteSets

CONSTANTS
    MaxChunks,      \* trace chunks a session may create (bound)
    MaxConsumed,    \* consumed size a session may reach (bound)
    Faults          \* what may fail: "create", "set", "rotate", "close", "check"

ASSUME CommandsAssumption ==
    /\ MaxChunks \in Nat \ {0}
    /\ MaxConsumed \in Nat
    /\ Faults \subseteq {"create", "set", "rotate", "close", "check"}

Chunks == 1 .. MaxChunks
None == 0                       \* no chunk, no trigger
RotateSize == 1                 \* session->rotate_size once set

\* The close commands of a trace chunk.
MOVE_TO_COMPLETED == "move_to_completed"
DELETE == "delete"
NO_OPERATION == "no_operation"
NotClosed == "not_closed"
CloseCommands == {MOVE_TO_COMPLETED, DELETE, NO_OPERATION}

ltt_session == [
    status: {"unborn", "live", "destroyed", "freed"},
    ref: Nat,
    active: BOOLEAN,
    tracing: BOOLEAN,                   \* the UST or kernel session is active
    has_been_started: BOOLEAN,
    rotated: BOOLEAN,
    rotated_after_last_stop: BOOLEAN,
    cleared_after_last_stop: BOOLEAN,
    current_trace_chunk: Chunks \cup {None},
    chunk_being_archived: Chunks \cup {None},
    most_recent_chunk_id: Chunks \cup {None},
    last_archived_chunk_id: Chunks \cup {None},
    rotation_state: {"no_rotation", "ongoing", "completed", "error"},
    check_timer: BOOLEAN,               \* rotation_pending_check_timer_enabled
    schedule_timer: BOOLEAN,            \* rotation_schedule_timer_enabled
    rotate_timer_period: BOOLEAN,       \* a period is set
    rotate_size: BOOLEAN,               \* a size is set
    rotate_trigger: 0 .. MaxConsumed + RotateSize,  \* its threshold, or None
    consumed: 0 .. MaxConsumed,
    on_consumers: SUBSET Chunks,        \* the chunks a consumer daemon has
    close_command: CloseCommands \cup {NotClosed},  \* of chunk_being_archived
    clear_notifiers: SUBSET (Chunks \cup {None})]   \* current chunk at each clear

NewSession == [
    status |-> "unborn", ref |-> 0, active |-> FALSE, tracing |-> FALSE,
    has_been_started |-> FALSE, rotated |-> FALSE,
    rotated_after_last_stop |-> FALSE, cleared_after_last_stop |-> FALSE,
    current_trace_chunk |-> None, chunk_being_archived |-> None,
    most_recent_chunk_id |-> None, last_archived_chunk_id |-> None,
    rotation_state |-> "no_rotation", check_timer |-> FALSE,
    schedule_timer |-> FALSE, rotate_timer_period |-> FALSE,
    rotate_size |-> FALSE, rotate_trigger |-> None, consumed |-> 0,
    on_consumers |-> {}, close_command |-> NotClosed, clear_notifiers |-> {}]

Outcome(code, se) == [ret |-> code, session |-> se]

-----------------------------------------------------------------------------
\* References.  The last one put releases the session.

session_get(se) == [se EXCEPT !.ref = @ + 1]

\* Nothing is kept of a session that is freed but what it was freed with.
session_put(se) ==
    IF se.ref > 1 THEN [se EXCEPT !.ref = @ - 1]
    ELSE [NewSession EXCEPT !.status = "freed",
                            !.chunk_being_archived = se.chunk_being_archived]

-----------------------------------------------------------------------------
\* Rotations.

\* The check timer is never enabled here: it is stopped before the rotation
\* ends, and a rotation that fails to start has not enabled it.
session_reset_rotation_state(se, result) ==
    IF se.chunk_being_archived = None
    THEN [se EXCEPT !.rotation_state = result]
    ELSE [se EXCEPT !.rotation_state = result,
                    !.last_archived_chunk_id = se.chunk_being_archived,
                    !.chunk_being_archived = None,
                    !.close_command = NotClosed,
                    !.clear_notifiers = {}]

session_create_new_trace_chunk(se) == se.most_recent_chunk_id + 1

\* The chunk now current is se.current_trace_chunk, which the caller keeps.
session_set_trace_chunk(se, new) ==
    IF new = None
    THEN [se EXCEPT !.current_trace_chunk = None]
    ELSE [se EXCEPT !.current_trace_chunk = new,
                    !.most_recent_chunk_id = new,
                    !.on_consumers = @ \cup {new}]

\* The consumers that cannot be told to close the chunk keep it.
session_close_trace_chunk(se, command) ==
    [se EXCEPT !.rotated = @ \/ command = MOVE_TO_COMPLETED,
               !.close_command = command]

timer_session_rotation_pending_check_start(se) ==
    [session_get(se) EXCEPT !.check_timer = TRUE]

\* The refusals of cmd_rotate_session that a session of this kind can meet.
\* "bound": the model has no more chunks.  No command of the client goes on
\* then, and a rotation of the daemon's own is left out.
RotationRefusal(se) ==
    IF ~se.has_been_started THEN "start_session_once"
    ELSE IF se.rotation_state = "ongoing" THEN "rotation_pending"
    ELSE IF se.rotated_after_last_stop THEN "rotation_multiple_after_stop"
    ELSE IF se.cleared_after_last_stop THEN "rotation_after_stop_clear"
    ELSE IF se.active /\ se.most_recent_chunk_id = MaxChunks THEN "bound"
    ELSE "ok"

\* The rotation of a session that is not refused, if "fault" occurs.
Rotated(se, command, fault) ==
    LET old == se.current_trace_chunk
        new == IF se.active THEN session_create_new_trace_chunk(se) ELSE None
        set == [session_set_trace_chunk(se, new) EXCEPT
                    !.rotated_after_last_stop = @ \/ ~se.active]
        closed == [session_close_trace_chunk(set, command) EXCEPT
                        !.rotation_state = "ongoing"]
        Failed(after) ==
            Outcome("error", [session_reset_rotation_state(after, "error") EXCEPT
                                !.close_command = NotClosed])
    IN  IF fault = "create" THEN Failed(se)
        ELSE IF fault = "set" THEN Failed([se EXCEPT !.current_trace_chunk = None])
        ELSE IF fault \in {"rotate", "close"} THEN Failed(IF old = None THEN set ELSE closed)
        ELSE IF old = None THEN Outcome("ok", set)
        ELSE Outcome("ok", [timer_session_rotation_pending_check_start(closed) EXCEPT
                                !.chunk_being_archived = old])

\* Creating and setting a chunk can fail only if there is one to create,
\* closing one only if there is one to close.
RotationFaults(se) ==
    {f \in Faults : /\ f \in {"create", "set"} => se.active
                    /\ f = "close" => se.current_trace_chunk # None} \ {"check"}

cmd_rotate_session(se, command) ==
    IF RotationRefusal(se) # "ok"
    THEN {Outcome(RotationRefusal(se), se)}
    ELSE {Rotated(se, command, f) : f \in RotationFaults(se) \cup {"no_fault"}}

\* The outcomes within the bound.
Within(outcomes) == {o \in outcomes : o.ret # "bound"}

\* What LTTNG_ROTATION_GET_INFO says of the rotation of a chunk.
cmd_rotate_get_info(se, id) ==
    IF se.chunk_being_archived # None
    THEN IF id = se.chunk_being_archived THEN "ongoing" ELSE "expired"
    ELSE IF se.last_archived_chunk_id \notin {None, id} THEN "expired"
    ELSE se.rotation_state

-----------------------------------------------------------------------------
\* Start, stop and clear.

timer_session_rotation_schedule_timer_start(se) ==
    [session_get(se) EXCEPT !.schedule_timer = TRUE]

\* The chunk of a session that is starting.
FirstChunk(se) ==
    {Outcome("error", se) : f \in Faults \cap {"create", "set"}}
    \cup {Outcome("ok", session_set_trace_chunk(se, session_create_new_trace_chunk(se)))}

cmd_start_trace(se) ==
    LET starting == [se EXCEPT !.active = TRUE,
                               !.rotated_after_last_stop = FALSE,
                               !.cleared_after_last_stop = FALSE]
        chunked == IF se.current_trace_chunk # None
                   THEN {Outcome("ok", starting)}
                   ELSE IF ~se.has_been_started THEN FirstChunk(starting)
                   ELSE cmd_rotate_session(starting, NO_OPERATION)
        Started(st) == [st EXCEPT !.tracing = TRUE, !.has_been_started = TRUE]
        Scheduled(st) ==
            IF st.rotate_timer_period /\ ~st.schedule_timer
            THEN timer_session_rotation_schedule_timer_start(st) ELSE st
        Finish(o) ==
            IF o.ret = "ok" THEN Outcome("ok", Scheduled(Started(o.session)))
            ELSE Outcome(o.ret,
                    [o.session EXCEPT
                        !.active = FALSE,
                        !.rotated_after_last_stop = se.rotated_after_last_stop,
                        !.cleared_after_last_stop = se.cleared_after_last_stop])
    IN  IF se.active THEN {Outcome("trace_already_started", se)}
        ELSE IF se.rotation_state = "ongoing" /\ se.current_trace_chunk = None
        THEN {Outcome("rotation_pending", se)}
        ELSE {Finish(o) : o \in Within(chunked)}

cmd_stop_trace(se) == [se EXCEPT !.tracing = FALSE, !.active = FALSE]

\* The reply is sent at once, or by session_reset_rotation_state.
cmd_clear_session(se) ==
    LET cleared == [se EXCEPT !.tracing = FALSE,
                              !.clear_notifiers = @ \cup {se.current_trace_chunk}]
        Finish(o) ==
            IF o.ret # "ok" THEN o
            ELSE Outcome("ok", [o.session EXCEPT
                    !.cleared_after_last_stop = @ \/ ~se.active,
                    !.tracing = se.active])
    IN  IF \/ ~se.has_been_started
           \/ se.cleared_after_last_stop
           \/ se.rotated_after_last_stop
        THEN {Outcome("ok", se)}
        ELSE {Finish(o) : o \in Within(cmd_rotate_session(cleared, DELETE))}

=============================================================================
