--------------------------- MODULE AppRegistration ---------------------------
(***************************************************************************)
(* The registration of applications in the session daemon.  An application *)
(* connects twice, with a command and then with a notify socket.  Five     *)
(* threads share the result: the registration thread (register.c) accepts  *)
(* sockets, the dispatch thread (dispatch.c) pairs them and enters the     *)
(* application in three hash tables, the notification (notify-apps.c) and  *)
(* management (manage-apps.c) threads watch the sockets, and a thread that *)
(* executes a client's command takes references to applications.  The      *)
(* call_rcu thread closes sockets after a grace period (ust-app.c).        *)
(*                                                                         *)
(* The queue between the first two threads is the one of FutexQueue.       *)
(***************************************************************************)
EXTENDS Integers, Sequences, Functions, FiniteSets, FiniteSetsExt

CONSTANTS
    Pids,               \* process identifiers
    MaxRegistrations,   \* bound: registrations with one identifier
    Fds,                \* the descriptors sockets can have
    MaxFdCount,         \* fd_threshold: what lttng_fd_get allows
    PipeMayFail,        \* lttng_pipe_open may fail in ust_app_create
    PollMayFail,        \* lttng_poll_add may fail in the notification thread
    None

ASSUME BoundsAssumption == MaxRegistrations \in Nat /\ MaxFdCount \in Nat

\* One registration: the same process may register again once it has hung up,
\* and so may another process that was given its identifier.
Regs == Pids \X (1 .. MaxRegistrations)

Pid(r) == r[1]

Sockets == Regs \X {"cmd", "notify"}

Apps == [ref : Nat, sock : Fds, notify_sock : Fds \cup {None}, pipe : {1, 2}]

ASSUME NoneAssumption == None \notin Fds \cup Regs \cup Sockets \cup Apps

\* The descriptors of a process, and the processes, are finitely many.
ASSUME FiniteAssumption == IsFiniteSet(Fds) /\ IsFiniteSet(Pids)

VARIABLES
    peer,               \* what the application of a registration has connected
    file,               \* the sockets open in the daemon: <<registration, type>>
    fd_count,           \* the descriptors accounted for
    ust_cmd_queue,      \* from the registration to the dispatch thread
    dispatch,           \* what the dispatch thread does, and for whom
    wait_queue,         \* its applications without a notify socket
    app,                \* the struct ust_app of a registration
    ust_app_ht, ust_app_ht_by_sock, ust_app_ht_by_notify_sock,
    notify,             \* the notification thread: its pipe and poll set
    manage,             \* the management thread: its pipe and poll set
    client,             \* the application a command holds a reference to
    releasing,          \* the applications whose last reference a thread put
    callbacks,          \* what call_rcu has to do
    aborted             \* an assertion has failed

vars == <<peer, file, fd_count, ust_cmd_queue, dispatch, wait_queue, app,
          ust_app_ht, ust_app_ht_by_sock, ust_app_ht_by_notify_sock, notify,
          manage, client, releasing, callbacks, aborted>>

tables == <<ust_app_ht, ust_app_ht_by_sock, ust_app_ht_by_notify_sock>>

Init ==
    /\ peer = [r \in Regs |-> "out"]
    /\ file = [fd \in Fds |-> None]
    /\ fd_count = 0
    /\ ust_cmd_queue = <<>>
    /\ dispatch = [pc |-> "wait", app |-> None]
    /\ wait_queue = <<>>
    /\ app = [r \in Regs |-> None]
    /\ ust_app_ht = {}
    /\ ust_app_ht_by_sock = {}
    /\ ust_app_ht_by_notify_sock = {}
    /\ notify = [pipe |-> <<>>, polled |-> {}]
    /\ manage = [pipe |-> <<>>, polled |-> {}]
    /\ client = None
    /\ releasing = [t \in {"manage", "client"} |-> None]
    /\ callbacks = {}
    /\ aborted = FALSE

\* The dispatch thread holds the session list lock and an RCU read lock from
\* ust_app_add to the end of the registration.
InSection == dispatch.pc \in {"update", "send"}

\* The threads that a grace period started now waits for.
Readers ==
    {t \in {"dispatch", "client"} : IF t = "dispatch" THEN InSection
                                    ELSE client # None}

call_rcu(kind, r, fd) == [kind |-> kind, reg |-> r, fd |-> fd, readers |-> Readers]

\* rcu_read_unlock by t.
Unlocked(t) == {[c EXCEPT !.readers = @ \ {t}] : c \in callbacks}

-----------------------------------------------------------------------------
\* The applications (external) and the registration thread.

\* Earlier registrations of the identifier have hung up.
MayConnect(r) ==
    \A q \in Regs : Pid(q) = Pid(r) /\ q[2] < r[2] => peer[q] = "gone"

Connects(r, type) ==
    \/ type = "cmd" /\ peer[r] = "out" /\ MayConnect(r)
       /\ peer' = [peer EXCEPT ![r] = "cmd"]
    \/ type = "notify" /\ peer[r] = "cmd"
       /\ peer' = [peer EXCEPT ![r] = "both"]

HangUp(r) ==
    /\ peer[r] \in {"cmd", "both"}
    /\ peer' = [peer EXCEPT ![r] = "gone"]
    /\ UNCHANGED <<file, fd_count, ust_cmd_queue, dispatch, wait_queue, app, tables,
                   notify, manage, client, releasing, callbacks, aborted>>

\* A socket is accepted, counted, its message received, and it is enqueued.
thread_application_registration(r, type, fd) ==
    /\ Connects(r, type)
    /\ file[fd] = None
    /\ fd_count + 1 <= MaxFdCount
    /\ file' = [file EXCEPT ![fd] = <<r, type>>]
    /\ fd_count' = fd_count + 1
    /\ ust_cmd_queue' = Append(ust_cmd_queue, [reg |-> r, type |-> type, sock |-> fd])
    /\ UNCHANGED <<dispatch, wait_queue, app, tables, notify, manage, client,
                   releasing, callbacks, aborted>>

\* Too many descriptors, or no message: the socket is closed.
RegistrationRefused(r, type) ==
    /\ Connects(r, type)
    /\ UNCHANGED <<file, fd_count, ust_cmd_queue, dispatch, wait_queue, app, tables,
                   notify, manage, client, releasing, callbacks, aborted>>

-----------------------------------------------------------------------------
\* The dispatch thread.

\* The futex wait ends, with a request or after one was handled.
FutexWaitEnds ==
    /\ dispatch.pc = "wait"
    /\ dispatch' = [dispatch EXCEPT !.pc = "sanitize"]
    /\ UNCHANGED <<peer, file, fd_count, ust_cmd_queue, wait_queue, app, tables,
                   notify, manage, client, releasing, callbacks, aborted>>

\* The last reference to applications in no table: ust_app_release, which then
\* only defers delete_ust_app.
Deferred(rs) == {call_rcu("app", r, app[r].sock) : r \in rs}

\* The events of the hung up sockets come in any order, and each is compared
\* with the first node only: the first that differs ends the function.  So k
\* nodes are removed from the front, and what is left has no event, or one that
\* is not for the new first node.
sanitize_wait_queue ==
    /\ dispatch.pc = "sanitize"
    /\ \E k \in 0 .. Len(wait_queue) :
         LET hup(i) == peer[wait_queue[i]] = "gone"
         IN  /\ \A i \in 1 .. k : hup(i)
             /\ \/ \A i \in (k + 1) .. Len(wait_queue) : ~hup(i)
                \/ \E i \in (k + 2) .. Len(wait_queue) : hup(i)
             /\ wait_queue' = SubSeq(wait_queue, k + 1, Len(wait_queue))
             /\ callbacks' = callbacks \cup
                    Deferred({wait_queue[i] : i \in 1 .. k})
    /\ dispatch' = [dispatch EXCEPT !.pc = "dequeue"]
    /\ UNCHANGED <<peer, file, fd_count, ust_cmd_queue, app, tables, notify, manage,
                   client, releasing, aborted>>

\* The queue is empty.
DequeueNothing ==
    /\ dispatch.pc = "dequeue"
    /\ ust_cmd_queue = <<>>
    /\ dispatch' = [dispatch EXCEPT !.pc = "wait"]
    /\ UNCHANGED <<peer, file, fd_count, ust_cmd_queue, wait_queue, app, tables,
                   notify, manage, client, releasing, callbacks, aborted>>

Dequeue(type) ==
    /\ dispatch.pc = "dequeue"
    /\ ust_cmd_queue # <<>>
    /\ Head(ust_cmd_queue).type = type
    /\ ust_cmd_queue' = Tail(ust_cmd_queue)

\* A command socket: ust_app_create, and the application waits for its notify
\* socket at the head of the list.
DispatchCmd ==
    /\ Dequeue("cmd")
    /\ LET cmd == Head(ust_cmd_queue)
       IN  /\ fd_count + 2 <= MaxFdCount
           /\ app' = [app EXCEPT ![cmd.reg] =
                [ref |-> 1, sock |-> cmd.sock, notify_sock |-> None, pipe |-> 2]]
           /\ fd_count' = fd_count + 2
           /\ wait_queue' = <<cmd.reg>> \o wait_queue
    /\ dispatch' = [dispatch EXCEPT !.pc = "sanitize"]
    /\ UNCHANGED <<peer, file, tables, notify, manage, client, releasing, callbacks,
                   aborted>>

\* ust_app_create fails: no consumer daemon, no descriptors left for the pipe,
\* or the pipe cannot be opened (its two descriptors stay accounted for).
DispatchCmdFails ==
    /\ Dequeue("cmd")
    /\ \/ fd_count' = fd_count - 1
       \/ /\ PipeMayFail
          /\ fd_count + 2 <= MaxFdCount
          /\ fd_count' = fd_count + 2 - 1
    /\ file' = [file EXCEPT ![Head(ust_cmd_queue).sock] = None]
    /\ dispatch' = [dispatch EXCEPT !.pc = "sanitize"]
    /\ UNCHANGED <<peer, wait_queue, app, tables, notify, manage, client, releasing,
                   callbacks, aborted>>

\* The nodes of the list for the process.
Nodes(pid) == {i \in DOMAIN wait_queue : Pid(wait_queue[i]) = pid}

\* Mutant: the search does not stop at the first application found.
WaitingOldest(pid) == IF Nodes(pid) = {} THEN 0 ELSE Max(Nodes(pid))

\* The waiting application of the process, the latest if there are several.
Waiting(pid) == IF Nodes(pid) = {} THEN 0 ELSE Min(Nodes(pid))

\* cds_list_del
Without(s, i) == SubSeq(s, 1, i - 1) \o SubSeq(s, i + 1, Len(s))

\* ust_app_add: the previous registration of the process is kicked out of
\* ust_app_ht; a socket that is already in its table is an assertion failure.
ust_app_add(r, notify_sock) ==
    /\ ust_app_ht' = {q \in ust_app_ht : Pid(q) # Pid(r)} \cup {r}
    /\ ust_app_ht_by_sock' = ust_app_ht_by_sock \cup {r}
    /\ ust_app_ht_by_notify_sock' = ust_app_ht_by_notify_sock \cup {r}
    /\ aborted' =
         \/ \E q \in ust_app_ht_by_sock : app[q].sock = app[r].sock
         \/ \E q \in ust_app_ht_by_notify_sock : app[q].notify_sock = notify_sock

\* A notify socket, its application is waiting: the application is entered in
\* the tables, the event notifier group set up or not, and the socket sent to
\* the notification thread, all under the session list lock.
DispatchNotify ==
    /\ Dequeue("notify")
    /\ client = None
    /\ LET cmd == Head(ust_cmd_queue)
           i == Waiting(Pid(cmd.reg))
           r == wait_queue[i]
       IN  /\ i # 0
           /\ wait_queue' = Without(wait_queue, i)
           /\ ust_app_add(r, cmd.sock)
           /\ \E pipe \in {1, 2} :
                /\ app' = [app EXCEPT ![r].notify_sock = cmd.sock, ![r].pipe = pipe]
                /\ fd_count' = fd_count - (2 - pipe)
           /\ notify' = [notify EXCEPT !.pipe = Append(@, cmd.sock)]
           /\ dispatch' = [pc |-> "update", app |-> r]
    /\ UNCHANGED <<peer, file, manage, client, releasing, callbacks>>

\* A notify socket that no application waits for.
DispatchNotifyUseless ==
    /\ Dequeue("notify")
    /\ Waiting(Pid(Head(ust_cmd_queue).reg)) = 0
    /\ file' = [file EXCEPT ![Head(ust_cmd_queue).sock] = None]
    /\ fd_count' = fd_count - 1
    /\ dispatch' = [dispatch EXCEPT !.pc = "sanitize"]
    /\ UNCHANGED <<peer, wait_queue, app, tables, notify, manage, client, releasing,
                   callbacks, aborted>>

\* update_ust_app and ust_app_register_done, exchanges with the application that
\* change nothing here.
update_ust_app ==
    /\ dispatch.pc = "update"
    /\ dispatch' = [dispatch EXCEPT !.pc = "send"]
    /\ UNCHANGED <<peer, file, fd_count, ust_cmd_queue, wait_queue, app, tables,
                   notify, manage, client, releasing, callbacks, aborted>>

\* The command socket is sent to the management thread, and the locks released.
SendToManage ==
    /\ dispatch.pc = "send"
    /\ manage' = [manage EXCEPT !.pipe = Append(@, app[dispatch.app].sock)]
    /\ dispatch' = [pc |-> "sanitize", app |-> None]
    /\ callbacks' = Unlocked("dispatch")
    /\ UNCHANGED <<peer, file, fd_count, ust_cmd_queue, wait_queue, app, tables,
                   notify, client, releasing, aborted>>

-----------------------------------------------------------------------------
\* The notification thread.

NotifyReads ==
    /\ notify.pipe # <<>>
    /\ notify' = [pipe |-> Tail(notify.pipe),
                  polled |-> notify.polled \cup {Head(notify.pipe)}]
    /\ UNCHANGED <<peer, file, fd_count, ust_cmd_queue, dispatch, wait_queue, app,
                   tables, manage, client, releasing, callbacks, aborted>>

\* Mutant: the socket is forgotten.
NotifyReadForgets ==
    /\ PollMayFail
    /\ notify.pipe # <<>>
    /\ notify' = [notify EXCEPT !.pipe = Tail(@)]
    /\ UNCHANGED <<peer, file, fd_count, ust_cmd_queue, dispatch, wait_queue, app,
                   tables, manage, client, releasing, callbacks, aborted>>

\* The socket cannot be added to the poll set, and is closed at once.
NotifyReadFails ==
    /\ PollMayFail
    /\ notify.pipe # <<>>
    /\ notify' = [notify EXCEPT !.pipe = Tail(@)]
    /\ file' = [file EXCEPT ![Head(notify.pipe)] = None]
    /\ fd_count' = fd_count - 1
    /\ UNCHANGED <<peer, ust_cmd_queue, dispatch, wait_queue, app, tables, manage,
                   client, releasing, callbacks, aborted>>

\* Mutant: the socket is closed and its entry left to ust_app_unregister.
UnregisterSocketOnly(fd) ==
    /\ fd \in notify.polled
    /\ notify' = [notify EXCEPT !.polled = @ \ {fd}]
    /\ callbacks' = callbacks \cup {call_rcu("notify", None, fd)}
    /\ UNCHANGED <<peer, file, fd_count, ust_cmd_queue, dispatch, wait_queue, app,
                   tables, manage, client, releasing, aborted>>

\* The socket hung up, or what came on it could not be handled.
ust_app_notify_sock_unregister(fd) ==
    /\ fd \in notify.polled
    /\ notify' = [notify EXCEPT !.polled = @ \ {fd}]
    /\ ust_app_ht_by_notify_sock' =
         {r \in ust_app_ht_by_notify_sock : app[r].notify_sock # fd}
    /\ callbacks' = callbacks \cup {call_rcu("notify", None, fd)}
    /\ UNCHANGED <<peer, file, fd_count, ust_cmd_queue, dispatch, wait_queue, app,
                   ust_app_ht, ust_app_ht_by_sock, manage, client, releasing,
                   aborted>>

-----------------------------------------------------------------------------
\* The management thread and the commands of clients.

ManageReads ==
    /\ manage.pipe # <<>>
    /\ releasing["manage"] = None
    /\ manage' = [pipe |-> Tail(manage.pipe),
                  polled |-> manage.polled \cup {Head(manage.pipe)}]
    /\ UNCHANGED <<peer, file, fd_count, ust_cmd_queue, dispatch, wait_queue, app,
                   tables, notify, client, releasing, callbacks, aborted>>

\* Mutant: a reference is put, the last one included, and nobody releases.
PutOnly(t, r) ==
    /\ app' = [app EXCEPT ![r].ref = @ - 1]
    /\ releasing' = [releasing EXCEPT ![t] = IF app[r].ref = 0 THEN r ELSE None]

\* ust_app_put by thread t.
ust_app_put(t, r) ==
    /\ app' = [app EXCEPT ![r].ref = @ - 1]
    /\ releasing' = [releasing EXCEPT ![t] = IF app[r].ref = 1 THEN r ELSE None]

\* The command socket has hung up.
ust_app_unregister_by_socket(fd) ==
    /\ fd \in manage.polled
    /\ releasing["manage"] = None
    /\ file[fd] # None => peer[file[fd][1]] = "gone"
    /\ manage' = [manage EXCEPT !.polled = @ \ {fd}]
    /\ \/ \E r \in ust_app_ht_by_sock :
            /\ app[r].sock = fd
            /\ ust_app_ht_by_sock' = ust_app_ht_by_sock \ {r}
            /\ ust_app_put("manage", r)
            /\ UNCHANGED aborted
       \/ /\ \A r \in ust_app_ht_by_sock : app[r].sock # fd
          /\ aborted' = TRUE
          /\ UNCHANGED <<ust_app_ht_by_sock, app, releasing>>
    /\ UNCHANGED <<peer, file, fd_count, ust_cmd_queue, dispatch, wait_queue,
                   ust_app_ht, ust_app_ht_by_notify_sock, notify, client, callbacks>>

\* ust_app_rotate_session: a reference to an application of ust_app_ht is taken,
\* unless the last one is gone, under the session list lock.
ust_app_get(r) ==
    /\ client = None
    /\ ~InSection
    /\ r \in ust_app_ht
    /\ app[r].ref > 0
    /\ client' = r
    /\ app' = [app EXCEPT ![r].ref = @ + 1]
    /\ UNCHANGED <<peer, file, fd_count, ust_cmd_queue, dispatch, wait_queue, tables,
                   notify, manage, releasing, callbacks, aborted>>

ClientPuts ==
    /\ client # None
    /\ releasing["client"] = None
    /\ ust_app_put("client", client)
    /\ IF app[client].ref = 1 THEN UNCHANGED <<client, callbacks>>
       ELSE client' = None /\ callbacks' = Unlocked("client")
    /\ UNCHANGED <<peer, file, fd_count, ust_cmd_queue, dispatch, wait_queue, tables,
                   notify, manage, aborted>>

\* Mutant: the notify table is left to the thread that closes the socket.
ReleaseKeepsNotify(t) ==
    /\ releasing[t] # None
    /\ LET r == releasing[t]
       IN  /\ ust_app_ht' = ust_app_ht \ {r}
           /\ callbacks' = (IF t = "client" THEN Unlocked(t) ELSE callbacks)
                           \cup {call_rcu("app", r, app[r].sock)}
    /\ client' = IF t = "client" THEN None ELSE client
    /\ releasing' = [releasing EXCEPT ![t] = None]
    /\ UNCHANGED <<peer, file, fd_count, ust_cmd_queue, dispatch, wait_queue, app,
                   ust_app_ht_by_sock, ust_app_ht_by_notify_sock, notify, manage,
                   aborted>>

\* ust_app_release: out of the tables it is still in (the notification thread or
\* a new registration may have removed it), then deleted after a grace period.
\* The client's command goes on to its next application.
ust_app_release(t) ==
    /\ releasing[t] # None
    /\ LET r == releasing[t]
           freed == call_rcu("app", r, app[r].sock)
       IN  /\ ust_app_ht' = ust_app_ht \ {r}
           /\ ust_app_ht_by_notify_sock' = ust_app_ht_by_notify_sock \ {r}
           /\ callbacks' =
                IF t = "client"
                THEN Unlocked(t) \cup {[freed EXCEPT !.readers = @ \ {t}]}
                ELSE callbacks \cup {freed}
    /\ client' = IF t = "client" THEN None ELSE client
    /\ releasing' = [releasing EXCEPT ![t] = None]
    /\ UNCHANGED <<peer, file, fd_count, ust_cmd_queue, dispatch, wait_queue, app,
                   ust_app_ht_by_sock, notify, manage, aborted>>

-----------------------------------------------------------------------------
\* The call_rcu thread.

\* delete_ust_app, under the session list lock: the command socket and the pipe
\* are closed and the application freed.
delete_ust_app(c) ==
    /\ c \in callbacks
    /\ c.kind = "app"
    /\ c.readers = {}
    /\ ~InSection /\ client = None
    /\ callbacks' = callbacks \ {c}
    /\ file' = [file EXCEPT ![c.fd] = None]
    /\ fd_count' = fd_count - app[c.reg].pipe - 1
    /\ app' = [app EXCEPT ![c.reg] = None]
    /\ UNCHANGED <<peer, ust_cmd_queue, dispatch, wait_queue, tables, notify, manage,
                   client, releasing, aborted>>

\* Mutant: the descriptor is closed and stays accounted for.
CloseUncounted(c) ==
    /\ c \in callbacks
    /\ c.kind = "notify"
    /\ c.readers = {}
    /\ callbacks' = callbacks \ {c}
    /\ file' = [file EXCEPT ![c.fd] = None]
    /\ UNCHANGED <<peer, fd_count, ust_cmd_queue, dispatch, wait_queue, app, tables,
                   notify, manage, client, releasing, aborted>>

close_notify_sock_rcu(c) ==
    /\ c \in callbacks
    /\ c.kind = "notify"
    /\ c.readers = {}
    /\ callbacks' = callbacks \ {c}
    /\ file' = [file EXCEPT ![c.fd] = None]
    /\ fd_count' = fd_count - 1
    /\ UNCHANGED <<peer, ust_cmd_queue, dispatch, wait_queue, app, tables, notify,
                   manage, client, releasing, aborted>>

-----------------------------------------------------------------------------
Registration ==
    \E r \in Regs :
        \/ HangUp(r)
        \/ \E type \in {"cmd", "notify"} :
             \/ RegistrationRefused(r, type)
             \/ \E fd \in Fds : thread_application_registration(r, type, fd)

Dispatch ==
    \/ FutexWaitEnds \/ sanitize_wait_queue
    \/ DequeueNothing \/ DispatchCmd \/ DispatchCmdFails
    \/ DispatchNotify \/ DispatchNotifyUseless
    \/ update_ust_app \/ SendToManage

Notification ==
    \/ NotifyReads \/ NotifyReadFails
    \/ \E fd \in Fds : ust_app_notify_sock_unregister(fd)

Management ==
    \/ ManageReads \/ ust_app_release("manage")
    \/ \E fd \in Fds : ust_app_unregister_by_socket(fd)

Client ==
    \/ ClientPuts \/ ust_app_release("client")
    \/ \E r \in Regs : ust_app_get(r)

Reclaim == \E c \in callbacks : delete_ust_app(c) \/ close_notify_sock_rcu(c)

Next ==
    /\ ~aborted
    /\ \/ Registration \/ Dispatch \/ Notification \/ Management \/ Client
       \/ Reclaim

Spec == Init /\ [][Next]_vars

(***************************************************************************)
(* Each thread of the daemon runs, and a command ends before the next one  *)
(* starts.  delete_ust_app needs the session list lock, which commands     *)
(* take again and again: it gets it if it is free again and again.         *)
(***************************************************************************)
Running(Steps) == ~aborted /\ Steps

FairSpec ==
    /\ Spec
    /\ WF_vars(Running(Dispatch)) /\ WF_vars(Running(Management))
    /\ WF_vars(Running(NotifyReads \/ NotifyReadFails))
    /\ WF_vars(Running(ClientPuts \/ ust_app_release("client")))
    /\ \A r \in Regs :
         SF_vars(Running(\E c \in callbacks : c.reg = r /\ delete_ust_app(c)))

-----------------------------------------------------------------------------
(***************************************************************************)
(* "The socket _should_ be unique until _we_ call close" (ust-app.c:4056): *)
(* the assertions of lttng_ht_add_unique_ulong in ust_app_add and the one  *)
(* of ust_app_unregister_by_socket hold, whatever descriptors are reused.  *)
(***************************************************************************)
NeverAborts == ~aborted

(***************************************************************************)
(* Whoever is in a table, in the wait queue, or used by a thread, is not   *)
(* freed.                                                                  *)
(***************************************************************************)
AppsInUseExist ==
    \A r \in ust_app_ht \cup ust_app_ht_by_sock \cup ust_app_ht_by_notify_sock
             \cup Range(wait_queue)
             \cup ({dispatch.app, client, releasing["manage"], releasing["client"]}
                   \ {None}) :
        app[r] # None

\* What is responsible for closing descriptor fd.
HoldersOf(fd) ==
    {<<"queue", i>> : i \in {i \in DOMAIN ust_cmd_queue : ust_cmd_queue[i].sock = fd}}
    \cup {<<"app", r>> : r \in {r \in Regs : app[r] # None /\ app[r].sock = fd}}
    \cup {<<"pipe", i>> : i \in {i \in DOMAIN notify.pipe : notify.pipe[i] = fd}}
    \cup {<<"polled", x>> : x \in notify.polled \cap {fd}}
    \cup {<<"callback", c>> : c \in {c \in callbacks : c.kind = "notify" /\ c.fd = fd}}

(***************************************************************************)
(* Every open socket is closed by exactly one thread, and no thread closes *)
(* a descriptor that is not open, or that was reused meanwhile.            *)
(***************************************************************************)
SocketsHaveOneHolder ==
    \A fd \in Fds :
        Cardinality(HoldersOf(fd)) = IF file[fd] = None THEN 0 ELSE 1

(***************************************************************************)
(* Descriptors lead to their application.  A socket table's entry is gone  *)
(* before its descriptor is closed and can be that of another; the notify  *)
(* socket may be that of a later registration of the process, whose        *)
(* command socket was refused.  And no application of the wait queue waits *)
(* for a notify socket that was given to an earlier registration of the    *)
(* same process, still in the queue (dispatch.c:346).                      *)
(***************************************************************************)
TablesLeadToTheirApp ==
    /\ \A r \in ust_app_ht_by_sock : file[app[r].sock] = <<r, "cmd">>
    /\ \A r \in ust_app_ht_by_notify_sock :
         \E q \in Regs : /\ file[app[r].notify_sock] = <<q, "notify">>
                         /\ Pid(q) = Pid(r) /\ q[2] >= r[2]
    /\ \A r \in Range(wait_queue) : \A fd \in Fds :
         file[fd] = <<r, "notify">> =>
             \E i \in DOMAIN ust_cmd_queue : ust_cmd_queue[i].sock = fd

\* The sockets that are open, and the ends of the pipes of the event notifier
\* groups.
OpenSockets == {fd \in Fds : file[fd] # None}

OpenPipes == {x \in Regs \X {1, 2} : app[x[1]] # None /\ x[2] <= app[x[1]].pipe}

(***************************************************************************)
(* The descriptors accounted for against the limit (fd-limit.c) are those  *)
(* in use.                                                                 *)
(***************************************************************************)
FdCountIsExact == fd_count = Cardinality(OpenSockets) + Cardinality(OpenPipes)

(***************************************************************************)
(* An application that has hung up is unregistered and freed, even while   *)
(* commands take references to it and other applications register.         *)
(***************************************************************************)
HungUpAppsAreFreed ==
    \A r \in Regs :
        r \in ust_app_ht_by_sock /\ peer[r] = "gone" ~> app[r] = None \/ aborted
=============================================================================
