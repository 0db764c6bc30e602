---------------------- MODULE AppRegistrationInvariant ----------------------
(***************************************************************************)
(* The inductive invariant of AppRegistration, for every number of         *)
(* processes, registrations and descriptors, and the proof that the steps  *)
(* of the registration, dispatch and notification threads preserve it,     *)
(* with those of the processes and the arrival of a socket at the          *)
(* management thread.  AppRegistrationProofs has the other steps and what  *)
(* follows.                                                                *)
(***************************************************************************)
EXTENDS AppRegistration, WellFoundedInduction, TLAPS

-----------------------------------------------------------------------------
\* The inductive invariant.

Cmds == [reg : Regs, type : {"cmd", "notify"}, sock : Fds]

Callbacks == [kind : {"app", "notify"}, reg : Regs \cup {None}, fd : Fds,
              readers : SUBSET {"dispatch", "client"}]

TypeInv ==
    /\ peer \in [Regs -> {"out", "cmd", "both", "gone"}]
    /\ file \in [Fds -> Sockets \cup {None}]
    /\ fd_count \in Int
    /\ ust_cmd_queue \in Seq(Cmds)
    /\ dispatch \in [pc : {"wait", "sanitize", "dequeue", "update", "send"},
                     app : Regs \cup {None}]
    /\ wait_queue \in Seq(Regs)
    /\ app \in [Regs -> Apps \cup {None}]
    /\ ust_app_ht \subseteq Regs
    /\ ust_app_ht_by_sock \subseteq Regs
    /\ ust_app_ht_by_notify_sock \subseteq Regs
    /\ notify \in [pipe : Seq(Fds), polled : SUBSET Fds]
    /\ manage \in [pipe : Seq(Fds), polled : SUBSET Fds]
    /\ client \in Regs \cup {None}
    /\ releasing \in [{"manage", "client"} -> Regs \cup {None}]
    /\ callbacks \subseteq Callbacks
    /\ aborted \in BOOLEAN

\* A process registers again only once it has hung up, and a registration has
\* at most one socket of each type.
PeerInv ==
    /\ \A q, r \in Regs :
         Pid(q) = Pid(r) /\ q[2] < r[2] /\ peer[r] # "out" => peer[q] = "gone"
    /\ \A fd \in Fds : file[fd] # None => peer[file[fd][1]] # "out"
    /\ \A fd \in Fds : \A r \in Regs :
         file[fd] = <<r, "notify">> => peer[r] \in {"both", "gone"}
    /\ \A fd, fe \in Fds : file[fd] = file[fe] /\ file[fd] # None => fd = fe

Queued(fd) == \E i \in DOMAIN ust_cmd_queue : ust_cmd_queue[i].sock = fd

\* The requests of a process are in the order it connected.
QueueInv ==
    /\ \A i \in DOMAIN ust_cmd_queue :
         file[ust_cmd_queue[i].sock] = <<ust_cmd_queue[i].reg, ust_cmd_queue[i].type>>
    /\ \A i, j \in DOMAIN ust_cmd_queue :
         ust_cmd_queue[i].sock = ust_cmd_queue[j].sock => i = j
    /\ \A i, j \in DOMAIN ust_cmd_queue :
         i < j /\ Pid(ust_cmd_queue[i].reg) = Pid(ust_cmd_queue[j].reg)
           => \/ ust_cmd_queue[i].reg[2] < ust_cmd_queue[j].reg[2]
              \/ /\ ust_cmd_queue[i].reg = ust_cmd_queue[j].reg
                 /\ ust_cmd_queue[j].type = "notify"

\* What was received is later than what waits, and the latest waits in front.
WaitInv ==
    /\ \A i, j \in DOMAIN wait_queue :
         i < j /\ Pid(wait_queue[i]) = Pid(wait_queue[j])
           => wait_queue[j][2] < wait_queue[i][2]
    /\ \A i \in DOMAIN ust_cmd_queue : \A j \in DOMAIN wait_queue :
         Pid(ust_cmd_queue[i].reg) = Pid(wait_queue[j])
           => wait_queue[j][2] <= ust_cmd_queue[i].reg[2]
    /\ \A j \in DOMAIN wait_queue : \A fd \in Fds :
         file[fd] = <<wait_queue[j], "notify">> => Queued(fd)
    /\ \A i \in DOMAIN ust_cmd_queue : \A fd \in Fds :
         /\ ust_cmd_queue[i].type = "cmd"
         /\ file[fd] = <<ust_cmd_queue[i].reg, "notify">>
         => Queued(fd)

Waits(r) == \E i \in DOMAIN wait_queue : wait_queue[i] = r
Dies(r) == \E c \in callbacks : c.kind = "app" /\ c.reg = r
Active(r) == r \in ust_app_ht_by_sock \/ client = r \/ releasing["manage"] = r

\* An application waits, is used or is about to be freed.
AppInv ==
    /\ \A r \in Regs : app[r] # None => file[app[r].sock] = <<r, "cmd">>
    /\ \A i \in DOMAIN ust_cmd_queue :
         ust_cmd_queue[i].type = "cmd" => app[ust_cmd_queue[i].reg] = None
    /\ \A r \in Regs : Waits(r) \/ Active(r) \/ Dies(r) => app[r] # None
    /\ \A r \in Regs : Waits(r) => ~Active(r)
    /\ \A r \in Regs : Waits(r) => ~Dies(r)
    /\ \A r \in Regs : Active(r) => ~Dies(r)
    /\ \A r \in ust_app_ht : Active(r)
    /\ \A r \in ust_app_ht_by_notify_sock : Active(r)

\* An application is freed once, and a notify socket closed once.
CallbackInv ==
    /\ \A c \in callbacks :
         c.kind = "app" => c.reg \in Regs /\ c.fd = app[c.reg].sock
    /\ \A c, d \in callbacks :
         c.kind = "app" /\ d.kind = "app" /\ c.reg = d.reg => c = d
    /\ \A c, d \in callbacks :
         c.kind = "notify" /\ d.kind = "notify" /\ c.fd = d.fd => c = d

\* The reference count of an application in use is the number of its users.
RefInv ==
    /\ \A i \in DOMAIN wait_queue : app[wait_queue[i]].ref = 1
    /\ \A r \in ust_app_ht_by_sock : app[r].ref = IF client = r THEN 2 ELSE 1
    /\ client # None /\ client \notin ust_app_ht_by_sock
         => app[client].ref = IF releasing["client"] = client THEN 0 ELSE 1
    /\ releasing["manage"] # None
         => /\ app[releasing["manage"]].ref = 0
            /\ client # releasing["manage"]
            /\ releasing["manage"] \notin ust_app_ht_by_sock
    /\ releasing["client"] # None
         => releasing["client"] = client /\ client \notin ust_app_ht_by_sock

\* The sockets sent to the management thread are in ust_app_ht_by_sock.
ManageInv ==
    /\ InSection => dispatch.app \in ust_app_ht_by_sock
    /\ ~InSection => dispatch.app = None
    /\ \A i, j \in DOMAIN manage.pipe : manage.pipe[i] = manage.pipe[j] => i = j
    /\ \A i \in DOMAIN manage.pipe : manage.pipe[i] \notin manage.polled
    /\ InSection => /\ app[dispatch.app].sock \notin manage.polled
                    /\ \A i \in DOMAIN manage.pipe :
                         manage.pipe[i] # app[dispatch.app].sock
    /\ \A fd \in Fds :
         fd \in manage.polled \/ (\E i \in DOMAIN manage.pipe : manage.pipe[i] = fd)
           => \E r \in ust_app_ht_by_sock : app[r].sock = fd

Piped(fd) == \E i \in DOMAIN notify.pipe : notify.pipe[i] = fd
Closing(fd) == \E c \in callbacks : c.kind = "notify" /\ c.fd = fd

\* A notify socket that was dequeued is in one place until it is closed.
NotifyInv ==
    /\ \A i, j \in DOMAIN notify.pipe : notify.pipe[i] = notify.pipe[j] => i = j
    /\ \A fd \in Fds : Piped(fd) => fd \notin notify.polled
    /\ \A fd \in Fds : Piped(fd) \/ fd \in notify.polled => ~Closing(fd) /\ ~Queued(fd)
    /\ \A fd \in Fds : Closing(fd) => ~Queued(fd)
    /\ \A fd \in Fds :
         Piped(fd) \/ fd \in notify.polled \/ Closing(fd)
           => file[fd] # None /\ file[fd][2] = "notify"

\* Every open socket has a holder.
HeldInv ==
    \A fd \in Fds :
        file[fd] # None =>
            \/ Queued(fd) \/ Piped(fd) \/ fd \in notify.polled \/ Closing(fd)
            \/ \E r \in Regs : app[r] # None /\ app[r].sock = fd

\* The notify sockets of the table are watched, or about to be.
WatchInv ==
    /\ \A r \in ust_app_ht_by_notify_sock :
         /\ app[r].notify_sock \in Fds
         /\ Piped(app[r].notify_sock) \/ app[r].notify_sock \in notify.polled
         /\ Pid(file[app[r].notify_sock][1]) = Pid(r)
         /\ file[app[r].notify_sock][1][2] >= r[2]
    /\ \A q, r \in ust_app_ht_by_notify_sock :
         app[q].notify_sock = app[r].notify_sock => q = r
    /\ ~aborted

\* A waiting application has both ends of its event notifier group's pipe.
CountInv ==
    /\ FdCountIsExact
    /\ \A r \in Regs : Waits(r) => app[r].pipe = 2

IInv ==
    /\ TypeInv /\ PeerInv /\ QueueInv /\ WaitInv /\ AppInv /\ CallbackInv /\ RefInv
    /\ ManageInv /\ NotifyInv /\ HeldInv

-----------------------------------------------------------------------------
\* What the definitions say, for the provers.

LEMMA HeadTail ==
    ASSUME NEW S, NEW s \in Seq(S), s # <<>>
    PROVE  /\ Len(s) \in Nat /\ Len(s) > 0
           /\ Head(s) = s[1] /\ Head(s) \in S
           /\ Tail(s) \in Seq(S) /\ Len(Tail(s)) = Len(s) - 1
           /\ \A i \in DOMAIN Tail(s) : i + 1 \in DOMAIN s /\ Tail(s)[i] = s[i + 1]
           /\ \A i \in DOMAIN s : i # 1 => i - 1 \in DOMAIN Tail(s)
<1>1. Len(s) \in Nat /\ Len(s) > 0 /\ DOMAIN s = 1 .. Len(s)
  OBVIOUS
<1>2. Tail(s) \in Seq(S) /\ Len(Tail(s)) = Len(s) - 1
  OBVIOUS
<1>3. DOMAIN Tail(s) = 1 .. Len(s) - 1
  BY <1>2
<1>4. \A i \in 1 .. Len(s) - 1 : Tail(s)[i] = s[i + 1]
  BY <1>1
<1>5. Head(s) = s[1] /\ Head(s) \in S
  BY <1>1
<1> QED
  BY <1>1, <1>2, <1>3, <1>4, <1>5

LEMMA Appended ==
    ASSUME NEW S, NEW s \in Seq(S), NEW e \in S
    PROVE  /\ Len(s) \in Nat
           /\ Append(s, e) \in Seq(S) /\ Len(Append(s, e)) = Len(s) + 1
           /\ DOMAIN s = 1 .. Len(s)
           /\ DOMAIN Append(s, e) = 1 .. Len(s) + 1
           /\ \A i \in DOMAIN s : Append(s, e)[i] = s[i]
           /\ Append(s, e)[Len(s) + 1] = e
  OBVIOUS

LEMMA Concatenated ==
    ASSUME NEW S, NEW s \in Seq(S), NEW t \in Seq(S)
    PROVE  \A i \in 1 .. Len(s) + Len(t) :
              (s \o t)[i] = IF i <= Len(s) THEN s[i] ELSE t[i - Len(s)]
  OBVIOUS

LEMMA NonemptySetHasMin ==
    ASSUME NEW S, S \subseteq Nat, S # {}
    PROVE  Min(S) \in S /\ \A y \in S : Min(S) <= y
<1>1. \E x \in S : \A y \in S : ~(<<y, x>> \in OpToRel(<, Nat))
  BY Zenon, NatLessThanWellFounded, WFMin
<1>2. \A x, y \in Nat : y < x => <<y, x>> \in OpToRel(<, Nat)
  BY DEF OpToRel
<1>3. PICK x \in S : \A y \in S : ~(y < x)
  BY Zenon, <1>1, <1>2
<1>4. x \in S /\ \A y \in S : x <= y
  BY <1>3
<1> QED
  BY Zenon, <1>4 DEF Min

LEMMA WaitingIsFirst ==
    ASSUME NEW pid, wait_queue \in Seq(Regs)
    PROVE  LET i == Waiting(pid)
           IN  \/ i = 0 /\ \A j \in DOMAIN wait_queue : Pid(wait_queue[j]) # pid
               \/ /\ i \in DOMAIN wait_queue /\ Pid(wait_queue[i]) = pid /\ i # 0
                  /\ \A j \in DOMAIN wait_queue : Pid(wait_queue[j]) = pid => i <= j
<1>1. Nodes(pid) \subseteq Nat
  BY DEF Nodes
<1>2. Nodes(pid) # {} =>
          /\ Min(Nodes(pid)) \in Nodes(pid)
          /\ \A y \in Nodes(pid) : Min(Nodes(pid)) <= y
  BY <1>1, NonemptySetHasMin
<1>3. \A i : i \in Nodes(pid) <=> i \in DOMAIN wait_queue /\ Pid(wait_queue[i]) = pid
  BY DEF Nodes
<1>4. 0 \notin DOMAIN wait_queue
  OBVIOUS
<1> QED
  BY <1>2, <1>3, <1>4 DEF Waiting

LEMMA Removed ==
    ASSUME NEW S, NEW s \in Seq(S), NEW i \in DOMAIN s
    PROVE  /\ Len(s) \in Nat /\ DOMAIN s = 1 .. Len(s)
           /\ Without(s, i) \in Seq(S)
           /\ DOMAIN Without(s, i) = 1 .. Len(s) - 1
           /\ \A j \in 1 .. Len(s) - 1 :
                Without(s, i)[j] = IF j < i THEN s[j] ELSE s[j + 1]
<1>1. i \in 1 .. Len(s) /\ Len(s) \in Nat
  OBVIOUS
<1> DEFINE a == SubSeq(s, 1, i - 1)
           b == SubSeq(s, i + 1, Len(s))
<1>2. a \in Seq(S) /\ Len(a) = i - 1 /\ \A j \in 1 .. i - 1 : a[j] = s[j]
  BY <1>1
<1>3. b \in Seq(S) /\ Len(b) = Len(s) - i /\ \A j \in 1 .. Len(s) - i : b[j] = s[i + j]
  BY <1>1
<1>4. Without(s, i) = a \o b
  BY DEF Without
<1> HIDE DEF a, b
<1>5. a \o b \in Seq(S) /\ Len(a \o b) = Len(s) - 1
  BY <1>1, <1>2, <1>3
<1>6. \A j \in 1 .. Len(s) - 1 : (a \o b)[j] = IF j <= Len(a) THEN a[j] ELSE b[j - Len(a)]
  <2>1. a \in Seq(S) /\ b \in Seq(S) /\ Len(a) + Len(b) = Len(s) - 1
    BY <1>1, <1>2, <1>3
  <2> QED
    BY Zenon, <2>1, Concatenated
<1>7. \A j \in 1 .. Len(s) - 1 : (a \o b)[j] = IF j < i THEN s[j] ELSE s[j + 1]
  BY SMTT(30), <1>1, <1>2, <1>3, <1>6
<1> QED
  BY <1>1, <1>4, <1>5, <1>7

LEMMA RegsDiffer ==
    ASSUME NEW q \in Regs, NEW r \in Regs
    PROVE  /\ q[2] \in Int /\ r[2] \in Int
           /\ Pid(q) = Pid(r) /\ q # r => q[2] # r[2]
  BY BoundsAssumption DEF Regs, Pid

\* A reference is taken or put.
LEMMA RefChanges ==
    ASSUME TypeInv, NEW r \in Regs, app[r] # None, NEW n \in Nat,
           app' = [app EXCEPT ![r].ref = n]
    PROVE  /\ app' \in [Regs -> Apps \cup {None}]
           /\ app'[r] # None /\ app'[r].ref = n /\ app'[r].sock = app[r].sock
           /\ app'[r].notify_sock = app[r].notify_sock /\ app'[r].pipe = app[r].pipe
           /\ \A q \in Regs : q # r => app'[q] = app[q]
<1>1. app[r] \in Apps
  BY DEF TypeInv
<1>2. [app[r] EXCEPT !.ref = n] \in Apps
  BY <1>1 DEF Apps
<1>3. app' = [app EXCEPT ![r] = [app[r] EXCEPT !.ref = n]]
  BY DEF TypeInv
<1>4. app'[r] = [app[r] EXCEPT !.ref = n] /\ \A q \in Regs : q # r => app'[q] = app[q]
  BY <1>3 DEF TypeInv
<1> DEFINE a == [app[r] EXCEPT !.ref = n]
<1>5. a.ref = n /\ a.sock = app[r].sock /\ a.notify_sock = app[r].notify_sock /\ a.pipe = app[r].pipe
  BY <1>1 DEF Apps
<1>6. app' \in [Regs -> Apps \cup {None}]
  BY <1>2, <1>3 DEF TypeInv
<1>7. app'[r] # None
  BY <1>2, <1>4, NoneAssumption
<1> HIDE DEF a
<1> QED
  BY <1>4, <1>5, <1>6, <1>7 DEF a

LEMMA TypeKeeps == ASSUME IInv, Next PROVE TypeInv'
<1>0. TypeInv
  BY DEF IInv
<1> DEFINE DispatchType == [pc : {"wait", "sanitize", "dequeue", "update", "send"},
                            app : Regs \cup {None}]
<1>a. ASSUME NEW pc \in {"wait", "sanitize", "dequeue", "update", "send"},
             dispatch' = [dispatch EXCEPT !.pc = pc]
      PROVE  dispatch' \in DispatchType
  BY <1>0, <1>a DEF TypeInv
<1>1. ASSUME NEW r \in Regs, HangUp(r) PROVE TypeInv'
  BY <1>0, <1>1 DEF TypeInv, HangUp, tables
<1>2. ASSUME NEW r \in Regs, NEW type \in {"cmd", "notify"}, Connects(r, type)
      PROVE  peer' \in [Regs -> {"out", "cmd", "both", "gone"}]
  BY Zenon, <1>0, <1>2 DEF TypeInv, Connects
<1>3. ASSUME NEW r \in Regs, NEW type \in {"cmd", "notify"}, RegistrationRefused(r, type)
      PROVE  TypeInv'
  BY <1>0, <1>2, <1>3 DEF TypeInv, RegistrationRefused, tables
<1>4. ASSUME NEW r \in Regs, NEW type \in {"cmd", "notify"}, NEW fd \in Fds,
             thread_application_registration(r, type, fd)
      PROVE  TypeInv'
  <2>1. [reg |-> r, type |-> type, sock |-> fd] \in Cmds
    BY DEF Cmds
  <2>2. ust_cmd_queue' \in Seq(Cmds)
    BY <1>0, <1>4, <2>1, Appended DEF TypeInv, thread_application_registration
  <2> QED
    BY <1>0, <1>2, <1>4, <2>2 DEF TypeInv, thread_application_registration, tables, Sockets
<1>5. CASE FutexWaitEnds \/ DequeueNothing \/ update_ust_app
  BY SMTT(30), <1>0, <1>5 DEF TypeInv, FutexWaitEnds, DequeueNothing, update_ust_app, tables
<1>6. CASE sanitize_wait_queue
  <2>1. PICK k \in 0 .. Len(wait_queue) :
          /\ wait_queue' = SubSeq(wait_queue, k + 1, Len(wait_queue))
          /\ callbacks' = callbacks \cup Deferred({wait_queue[i] : i \in 1 .. k})
    BY Zenon, <1>6 DEF sanitize_wait_queue
  <2>2. wait_queue' \in Seq(Regs)
    BY <1>0, <2>1 DEF TypeInv
  <2>3. \A i \in 1 .. k : app[wait_queue[i]] \in Apps
    BY <1>0 DEF TypeInv, IInv, AppInv, Waits
  <2>4. \A i \in 1 .. k : call_rcu("app", wait_queue[i], app[wait_queue[i]].sock) \in Callbacks
    BY <1>0, <2>3 DEF TypeInv, call_rcu, Callbacks, Readers, Apps
  <2>5. callbacks' \subseteq Callbacks
    BY <1>0, <2>1, <2>4 DEF TypeInv, Deferred
  <2> QED
    BY Zenon, <1>0, <1>6, <2>2, <2>5 DEF TypeInv, sanitize_wait_queue, tables
<1>7. ASSUME NEW type, Dequeue(type)
      PROVE  /\ Head(ust_cmd_queue) \in Cmds /\ ust_cmd_queue' \in Seq(Cmds)
             /\ Head(ust_cmd_queue).reg \in Regs /\ Head(ust_cmd_queue).sock \in Fds
  <2>1. Head(ust_cmd_queue) \in Cmds /\ ust_cmd_queue' \in Seq(Cmds)
    BY <1>0, <1>7, HeadTail DEF TypeInv, Dequeue
  <2> QED
    BY <2>1 DEF Cmds
<1>8. CASE DispatchCmd
  <2> DEFINE cmd == Head(ust_cmd_queue)
             a == [ref |-> 1, sock |-> cmd.sock, notify_sock |-> None, pipe |-> 2]
  <2>1. cmd.reg \in Regs /\ cmd.sock \in Fds /\ ust_cmd_queue' \in Seq(Cmds)
    BY <1>7, <1>8 DEF DispatchCmd
  <2>2. a \in Apps
    BY <2>1 DEF Apps
  <2>3. app' = [app EXCEPT ![cmd.reg] = a]
    BY <1>8 DEF DispatchCmd
  <2>4. wait_queue' \in Seq(Regs)
    BY <1>0, <1>8, <2>1 DEF TypeInv, DispatchCmd
  <2> HIDE DEF a
  <2>5. app' \in [Regs -> Apps \cup {None}]
    BY <1>0, <2>1, <2>2, <2>3 DEF TypeInv
  <2>6. dispatch' \in DispatchType
    BY <1>8, <1>a DEF DispatchCmd
  <2>7. fd_count' \in Int
    BY <1>0, <1>8 DEF DispatchCmd, TypeInv
  <2>8. UNCHANGED <<peer, file, tables, notify, manage, client, releasing, callbacks,
                    aborted>>
    BY <1>8 DEF DispatchCmd
  <2> HIDE DEF cmd
  <2> QED
    BY <1>0, <2>1, <2>4, <2>5, <2>6, <2>7, <2>8 DEF TypeInv, tables
<1>9. CASE DispatchCmdFails \/ DispatchNotifyUseless
  <2>1. Head(ust_cmd_queue).sock \in Fds /\ ust_cmd_queue' \in Seq(Cmds)
    BY <1>7, <1>9 DEF DispatchCmdFails, DispatchNotifyUseless
  <2>2. dispatch' \in DispatchType
    BY <1>9, <1>a DEF DispatchCmdFails, DispatchNotifyUseless
  <2>3. fd_count' \in Int
    BY <1>0, <1>9 DEF DispatchCmdFails, DispatchNotifyUseless, TypeInv
  <2>5. file' = [file EXCEPT ![Head(ust_cmd_queue).sock] = None]
    BY <1>9 DEF DispatchCmdFails, DispatchNotifyUseless
  <2>6. file' \in [Fds -> Sockets \cup {None}]
    BY <1>0, <2>1, <2>5 DEF TypeInv
  <2>4. UNCHANGED <<peer, wait_queue, app, tables, notify, manage, client, releasing,
                    callbacks, aborted>>
    BY <1>9 DEF DispatchCmdFails, DispatchNotifyUseless
  <2> QED
    BY <1>0, <2>1, <2>2, <2>3, <2>4, <2>6 DEF TypeInv, tables
<1>10. CASE DispatchNotify
  <2> DEFINE cmd == Head(ust_cmd_queue)
             i == Waiting(Pid(cmd.reg))
             r == wait_queue[i]
  <2>1. cmd.reg \in Regs /\ cmd.sock \in Fds /\ ust_cmd_queue' \in Seq(Cmds)
    BY Zenon, <1>7, <1>10 DEF DispatchNotify
  <2>2. i # 0 /\ i \in DOMAIN wait_queue /\ r \in Regs
    BY <1>0, <1>10, WaitingIsFirst DEF DispatchNotify, TypeInv
  <2>3. PICK pipe \in {1, 2} :
          /\ app' = [app EXCEPT ![r].notify_sock = cmd.sock, ![r].pipe = pipe]
          /\ fd_count' = fd_count - (2 - pipe)
    BY Zenon, <1>10 DEF DispatchNotify
  <2>4. wait_queue' \in Seq(Regs)
    BY <1>0, <1>10, <2>2, Removed DEF DispatchNotify, TypeInv
  <2>5. notify' \in [pipe : Seq(Fds), polled : SUBSET Fds]
    BY Zenon, <1>0, <1>10, <2>1, Appended DEF DispatchNotify, TypeInv
  <2>6. /\ ust_app_ht' \subseteq Regs /\ ust_app_ht_by_sock' \subseteq Regs
        /\ ust_app_ht_by_notify_sock' \subseteq Regs /\ aborted' \in BOOLEAN
    BY Zenon, <1>0, <1>10, <2>2 DEF DispatchNotify, TypeInv, ust_app_add
  <2>7. dispatch' = [pc |-> "update", app |-> r]
    BY <1>10 DEF DispatchNotify
  <2>8. app[r] \in Apps
    BY <1>0, <2>2 DEF IInv, AppInv, Waits, TypeInv
  <2> DEFINE a == [app[r] EXCEPT !.notify_sock = cmd.sock, !.pipe = pipe]
  <2>9. a \in Apps
    BY Zenon, <2>1, <2>8 DEF Apps
  <2>10. app' = [app EXCEPT ![r] = a]
    BY Zenon, <1>0, <2>2, <2>3 DEF TypeInv
  <2> HIDE DEF a
  <2>11. app' \in [Regs -> Apps \cup {None}]
    BY Zenon, <1>0, <2>2, <2>9, <2>10 DEF TypeInv
  <2>12. UNCHANGED <<peer, file, manage, client, releasing, callbacks>>
    BY <1>10 DEF DispatchNotify
  <2>13. fd_count' \in Int
    BY <1>0, <2>3 DEF TypeInv
  <2> HIDE DEF r, i, cmd
  <2>14. dispatch' \in DispatchType
    BY <2>2, <2>7
  <2> QED
    BY Zenon, <1>0, <2>1, <2>4, <2>5, <2>6, <2>11, <2>12, <2>13, <2>14 DEF TypeInv
<1>11. CASE SendToManage
  <2>0. dispatch.app \in Regs /\ app[dispatch.app].sock \in Fds
    <3>1. dispatch.app \in ust_app_ht_by_sock
      BY <1>11 DEF SendToManage, IInv, ManageInv, InSection
    <3>2. dispatch.app \in Regs /\ app[dispatch.app] \in Apps
      BY <1>0, <3>1 DEF TypeInv, IInv, AppInv, Active
    <3> QED
      BY <3>2 DEF Apps
  <2>1. manage' \in [pipe : Seq(Fds), polled : SUBSET Fds]
    BY Zenon, <1>0, <1>11, <2>0, Appended DEF SendToManage, TypeInv
  <2>2. callbacks' \subseteq Callbacks
    <3>1. \A c \in Callbacks : [c EXCEPT !.readers = @ \ {"dispatch"}] \in Callbacks
      BY DEF Callbacks
    <3> QED
      BY <1>0, <1>11, <3>1 DEF SendToManage, TypeInv, Unlocked
  <2>3. dispatch' \in DispatchType
    BY <1>11 DEF SendToManage
  <2>4. UNCHANGED <<peer, file, fd_count, ust_cmd_queue, wait_queue, app, tables,
                   notify, client, releasing, aborted>>
    BY <1>11 DEF SendToManage
  <2> QED
    BY <1>0, <2>1, <2>2, <2>3, <2>4 DEF TypeInv, tables
<1>12. CASE NotifyReads \/ NotifyReadFails
  <2>1. notify.pipe # <<>> /\ notify.pipe \in Seq(Fds) /\ notify.polled \subseteq Fds
    BY <1>0, <1>12 DEF TypeInv, NotifyReads, NotifyReadFails
  <2>2. Head(notify.pipe) \in Fds /\ Tail(notify.pipe) \in Seq(Fds)
    BY <2>1
  <2>3. notify' \in [pipe : Seq(Fds), polled : SUBSET Fds]
    <3>1. CASE NotifyReads
      BY <2>1, <2>2, <3>1 DEF NotifyReads
    <3>2. CASE NotifyReadFails
      BY Zenon, <1>0, <2>2, <3>2 DEF TypeInv, NotifyReadFails
    <3> QED
      BY <1>12, <3>1, <3>2
  <2>4. CASE NotifyReads
    BY <1>0, <2>3, <2>4 DEF TypeInv, NotifyReads, tables
  <2>5. CASE NotifyReadFails
    <3>1. fd_count' \in Int /\ file' \in [Fds -> Sockets \cup {None}]
      BY <1>0, <2>2, <2>5 DEF TypeInv, NotifyReadFails
    <3> QED
      BY Zenon, <1>0, <2>3, <2>5, <3>1 DEF TypeInv, NotifyReadFails, tables
  <2> QED
    BY <1>12, <2>4, <2>5
<1>13. ASSUME NEW fd \in Fds, ust_app_notify_sock_unregister(fd) PROVE TypeInv'
  <2>1. notify' \in [pipe : Seq(Fds), polled : SUBSET Fds]
    BY Zenon, <1>0, <1>13 DEF TypeInv, ust_app_notify_sock_unregister
  <2>2. call_rcu("notify", None, fd) \in Callbacks
    BY DEF call_rcu, Callbacks, Readers
  <2> QED
    BY <1>0, <1>13, <2>1, <2>2 DEF TypeInv, ust_app_notify_sock_unregister
<1>14. CASE ManageReads
  <2>1. manage.pipe # <<>> /\ manage.pipe \in Seq(Fds) /\ manage.polled \subseteq Fds
    BY <1>0, <1>14 DEF TypeInv, ManageReads
  <2>2. Head(manage.pipe) \in Fds /\ Tail(manage.pipe) \in Seq(Fds)
    BY <2>1
  <2>3. manage' \in [pipe : Seq(Fds), polled : SUBSET Fds]
    BY <1>0, <1>14, <2>1, <2>2 DEF TypeInv, ManageReads
  <2> QED
    BY <1>0, <1>14, <2>3 DEF TypeInv, ManageReads, tables
<1>15. ASSUME NEW t \in {"manage", "client"}, NEW r \in Regs, app[r] # None,
              app[r].ref > 0, ust_app_put(t, r)
       PROVE  /\ app' \in [Regs -> Apps \cup {None}]
              /\ releasing' \in [{"manage", "client"} -> Regs \cup {None}]
  <2>1. app[r] \in Apps /\ app[r].ref \in Nat
    BY <1>0, <1>15 DEF TypeInv, Apps
  <2>2. app' = [app EXCEPT ![r].ref = app[r].ref - 1] /\ app[r].ref - 1 \in Nat
    BY <1>0, <1>15, <2>1 DEF ust_app_put, TypeInv
  <2> QED
    BY Zenon, <1>0, <1>15, <2>2, RefChanges DEF ust_app_put, TypeInv
<1>16. ASSUME NEW fd \in Fds, ust_app_unregister_by_socket(fd) PROVE TypeInv'
  <2>1. manage' \in [pipe : Seq(Fds), polled : SUBSET Fds]
    BY Zenon, <1>0, <1>16 DEF TypeInv, ust_app_unregister_by_socket
  <2>2. /\ ust_app_ht_by_sock' \subseteq Regs /\ aborted' \in BOOLEAN
        /\ app' \in [Regs -> Apps \cup {None}]
        /\ releasing' \in [{"manage", "client"} -> Regs \cup {None}]
    <3>1. ASSUME NEW r \in ust_app_ht_by_sock, ust_app_put("manage", r)
          PROVE  /\ app' \in [Regs -> Apps \cup {None}]
                 /\ releasing' \in [{"manage", "client"} -> Regs \cup {None}]
      <4>0. r \in Regs /\ Active(r)
        BY <1>0, <3>1 DEF TypeInv, Active
      <4>1. app[r] # None /\ app[r].ref > 0
        BY <3>1, <4>0 DEF IInv, AppInv, RefInv
      <4> QED
        BY <1>15, <3>1, <4>0, <4>1
    <3> QED
      BY Zenon, <1>0, <1>16, <3>1 DEF TypeInv, ust_app_unregister_by_socket
  <2> QED
    BY <1>0, <1>16, <2>1, <2>2 DEF TypeInv, ust_app_unregister_by_socket
<1>17. ASSUME NEW r \in Regs, ust_app_get(r) PROVE TypeInv'
  <2>1. app[r] # None /\ app[r] \in Apps /\ app[r].ref \in Nat
    BY <1>0, <1>17 DEF ust_app_get, IInv, AppInv, TypeInv, Apps
  <2>2. app' = [app EXCEPT ![r].ref = app[r].ref + 1] /\ app[r].ref + 1 \in Nat
    BY <1>0, <1>17, <2>1 DEF ust_app_get, TypeInv
  <2>3. app' \in [Regs -> Apps \cup {None}]
    BY Zenon, <1>0, <2>1, <2>2, RefChanges
  <2> QED
    BY <1>0, <1>17, <2>3 DEF ust_app_get, TypeInv, tables
<1>18. ASSUME NEW t \in {"dispatch", "client"} PROVE Unlocked(t) \subseteq Callbacks
  <2>1. \A c \in Callbacks : [c EXCEPT !.readers = @ \ {t}] \in Callbacks
    BY DEF Callbacks
  <2> QED
    BY <1>0, <2>1 DEF TypeInv, Unlocked
<1>19. CASE ClientPuts
  <2>1. client \in Regs /\ app[client] # None /\ app[client].ref > 0
    BY <1>0, <1>19 DEF ClientPuts, TypeInv, IInv, AppInv, RefInv, Active
  <2>2. /\ app' \in [Regs -> Apps \cup {None}]
        /\ releasing' \in [{"manage", "client"} -> Regs \cup {None}]
    BY <1>15, <1>19, <2>1 DEF ClientPuts
  <2>3. client' \in Regs \cup {None} /\ callbacks' \subseteq Callbacks
    BY <1>0, <1>18, <1>19 DEF ClientPuts, TypeInv
  <2> QED
    BY <1>0, <1>19, <2>2, <2>3 DEF TypeInv, ClientPuts, tables
<1>20. ASSUME NEW t \in {"manage", "client"}, ust_app_release(t) PROVE TypeInv'
  <2> DEFINE r == releasing[t]
             freed == call_rcu("app", r, app[r].sock)
  <2>1. r \in Regs /\ Active(r) /\ app[r] \in Apps /\ app[r].sock \in Fds
    <3>1. r \in Regs /\ Active(r)
      BY <1>0, <1>20 DEF ust_app_release, TypeInv, IInv, RefInv, Active
    <3>2. app[r] \in Apps
      BY <1>0, <3>1 DEF TypeInv, IInv, AppInv
    <3> QED
      BY <3>1, <3>2 DEF Apps
  <2>2. freed \in Callbacks /\ [freed EXCEPT !.readers = @ \ {t}] \in Callbacks
    BY Zenon, <2>1 DEF call_rcu, Readers, Callbacks
  <2>3. callbacks' \subseteq Callbacks
    BY Zenon, <1>0, <1>18, <1>20, <2>2 DEF ust_app_release, TypeInv
  <2>4. releasing' \in [{"manage", "client"} -> Regs \cup {None}]
    BY <1>0, <1>20 DEF ust_app_release, TypeInv
  <2>5. ust_app_ht' \subseteq Regs /\ ust_app_ht_by_notify_sock' \subseteq Regs
    BY <1>0, <1>20 DEF ust_app_release, TypeInv
  <2> QED
    BY <1>0, <1>20, <2>3, <2>4, <2>5 DEF TypeInv, ust_app_release
<1>21. ASSUME NEW c \in callbacks, delete_ust_app(c) \/ close_notify_sock_rcu(c)
       PROVE  TypeInv'
  <2>1. c \in Callbacks /\ c.fd \in Fds
    BY <1>0 DEF TypeInv, Callbacks
  <2>2. CASE close_notify_sock_rcu(c)
    BY <1>0, <2>1, <2>2 DEF TypeInv, close_notify_sock_rcu, tables
  <2>3. CASE delete_ust_app(c)
    <3>1. c.reg \in Regs /\ app[c.reg] \in Apps
      BY <1>0, <2>3 DEF delete_ust_app, IInv, AppInv, CallbackInv, Dies, TypeInv
    <3>2. app[c.reg].pipe \in Int
      BY <3>1 DEF Apps
    <3>3. fd_count' \in Int
      BY <1>0, <2>3, <3>2 DEF delete_ust_app, TypeInv
    <3>4. app' \in [Regs -> Apps \cup {None}] /\ file' \in [Fds -> Sockets \cup {None}]
      BY <1>0, <2>1, <2>3, <3>1 DEF delete_ust_app, TypeInv
    <3> QED
      BY <1>0, <2>3, <3>3, <3>4 DEF TypeInv, delete_ust_app, tables
  <2> QED
    BY <1>21, <2>2, <2>3
<1> QED
  BY <1>1, <1>3, <1>4, <1>5, <1>6, <1>8, <1>9, <1>10, <1>11, <1>12, <1>13, <1>14, <1>16,
     <1>17, <1>19, <1>20, <1>21
  DEF Next, Registration, Dispatch, Notification, Management, Client, Reclaim

-----------------------------------------------------------------------------
\* A part of the invariant is kept by a step that changes nothing it is about.

tablesAndUsers == <<ust_app_ht, ust_app_ht_by_sock, ust_app_ht_by_notify_sock,
                    client, releasing>>

LEMMA CmdTypes ==
    ASSUME TypeInv
    PROVE  \A i \in DOMAIN ust_cmd_queue :
               /\ ust_cmd_queue[i].reg \in Regs /\ ust_cmd_queue[i].sock \in Fds
               /\ ust_cmd_queue[i].type \in {"cmd", "notify"}
<1>1. \A i \in DOMAIN ust_cmd_queue : ust_cmd_queue[i] \in Cmds
  BY DEF TypeInv
<1> QED
  BY <1>1 DEF Cmds

LEMMA FileTypes ==
    ASSUME TypeInv
    PROVE  /\ \A fd \in Fds : file[fd] # None =>
                /\ file[fd] = <<file[fd][1], file[fd][2]>>
                /\ file[fd][1] \in Regs /\ file[fd][2] \in {"cmd", "notify"}
           /\ \A r \in Regs : None # <<r, "notify">> /\ None # <<r, "cmd">>
<1>1. \A fd \in Fds : file[fd] # None => file[fd] \in Sockets
  BY DEF TypeInv
<1> QED
  BY <1>1, NoneAssumption DEF Sockets

LEMMA SocketParts ==
    ASSUME NEW r \in Regs, NEW type \in {"cmd", "notify"}, NEW f, f = <<r, type>>
    PROVE  f # None /\ f[1] = r /\ f[2] = type
  BY NoneAssumption DEF Sockets

LEMMA PeerFrame ==
    ASSUME TypeInv, PeerInv, UNCHANGED peer,
           \A fd \in Fds : file'[fd] = file[fd] \/ file'[fd] = None
    PROVE  PeerInv'
  BY Zenon, FileTypes DEF PeerInv

LEMMA QueueFrame ==
    ASSUME TypeInv, QueueInv, UNCHANGED ust_cmd_queue,
           \A fd \in Fds : Queued(fd) => file'[fd] = file[fd]
    PROVE  QueueInv'
<1>1. \A i \in DOMAIN ust_cmd_queue : /\ ust_cmd_queue[i].sock \in Fds
                                     /\ Queued(ust_cmd_queue[i].sock)
  BY CmdTypes DEF Queued
<1> QED
  BY <1>1 DEF QueueInv

LEMMA WaitFrame ==
    ASSUME TypeInv, WaitInv, UNCHANGED <<ust_cmd_queue, wait_queue>>,
           \A fd \in Fds : file'[fd] = file[fd] \/ file'[fd] = None
    PROVE  WaitInv'
<1>1. \A fd : Queued(fd)' <=> Queued(fd)
  BY DEF Queued
<1>2. \A j \in DOMAIN wait_queue : wait_queue[j] \in Regs
  BY DEF TypeInv
<1> QED
  BY Zenon, <1>1, <1>2, CmdTypes, FileTypes DEF WaitInv

LEMMA AppFrame ==
    ASSUME TypeInv, AppInv, UNCHANGED <<app, ust_cmd_queue, wait_queue, tablesAndUsers, callbacks>>,
           \A r \in Regs : app[r] # None => file'[app[r].sock] = file[app[r].sock]
    PROVE  AppInv'
  BY DEF AppInv, Waits, Active, Dies, tablesAndUsers

LEMMA CallbackFrame ==
    ASSUME CallbackInv, UNCHANGED <<callbacks, app>>
    PROVE  CallbackInv'
  BY DEF CallbackInv

LEMMA RefFrame ==
    ASSUME RefInv, UNCHANGED <<wait_queue, app, ust_app_ht_by_sock, client, releasing>>
    PROVE  RefInv'
  BY DEF RefInv

LEMMA ManageFrame ==
    ASSUME ManageInv, UNCHANGED <<manage, ust_app_ht_by_sock, app, dispatch>>
    PROVE  ManageInv'
  BY DEF ManageInv, InSection

LEMMA NotifyFrame ==
    ASSUME TypeInv, NotifyInv, UNCHANGED <<notify, callbacks, ust_cmd_queue>>,
           \A fd \in Fds : Piped(fd) \/ fd \in notify.polled \/ Closing(fd)
                          => file'[fd] = file[fd]
    PROVE  NotifyInv'
  BY DEF NotifyInv, Piped, Closing, Queued

LEMMA HeldFrame ==
    ASSUME TypeInv, HeldInv, UNCHANGED <<notify, callbacks, ust_cmd_queue, app>>,
           \A fd \in Fds : file'[fd] = file[fd] \/ file'[fd] = None
    PROVE  HeldInv'
  BY DEF HeldInv, Piped, Closing, Queued

-----------------------------------------------------------------------------
\* The applications and the registration thread.

LEMMA ConnectKeeps ==
    ASSUME IInv, NEW r \in Regs, NEW type \in {"cmd", "notify"}, Connects(r, type)
    PROVE  /\ \A p, q \in Regs :
                Pid(p) = Pid(q) /\ p[2] < q[2] /\ peer'[q] # "out" => peer'[p] = "gone"
           /\ \A fd \in Fds : file[fd] # None => peer'[file[fd][1]] # "out"
           /\ \A fd \in Fds : \A q \in Regs :
                file[fd] = <<q, "notify">> => peer'[q] \in {"both", "gone"}
           /\ peer'[r] # "out" /\ (type = "notify" => peer'[r] = "both")
           /\ \A fd \in Fds : file[fd] # <<r, type>>
           /\ \A q \in Regs : Pid(q) = Pid(r) /\ r[2] < q[2] => peer[q] = "out"
<1>1. TypeInv /\ PeerInv /\ peer \in [Regs -> {"out", "cmd", "both", "gone"}]
  BY DEF IInv, TypeInv
<1>2. /\ \A p, q \in Regs :
           Pid(p) = Pid(q) /\ p[2] < q[2] /\ peer[q] # "out" => peer[p] = "gone"
      /\ \A fd \in Fds : file[fd] # None => peer[file[fd][1]] # "out"
      /\ \A fd \in Fds : \A q \in Regs :
           file[fd] = <<q, "notify">> => peer[q] \in {"both", "gone"}
  BY <1>1 DEF PeerInv
<1>3. \/ type = "cmd" /\ peer[r] = "out" /\ MayConnect(r) /\ peer' = [peer EXCEPT ![r] = "cmd"]
      \/ type = "notify" /\ peer[r] = "cmd" /\ peer' = [peer EXCEPT ![r] = "both"]
  BY DEF Connects
<1>4. /\ peer'[r] # "out" /\ (type = "notify" => peer'[r] = "both")
      /\ peer[r] # "gone" /\ peer'[r] # "gone"
      /\ \A q \in Regs : q # r => peer'[q] = peer[q]
  BY <1>1, <1>3
<1>5. \A q \in Regs : Pid(q) = Pid(r) /\ r[2] < q[2] => peer[q] = "out"
  BY <1>2, <1>4
<1>6. \A q \in Regs : Pid(q) = Pid(r) /\ q[2] < r[2] => peer[q] = "gone"
  BY <1>2, <1>3 DEF MayConnect
<1>7. \A fd \in Fds : file[fd] # <<r, type>>
  <2> SUFFICES ASSUME NEW fd \in Fds, file[fd] = <<r, type>>
               PROVE  FALSE
    OBVIOUS
  <2>1. file[fd] # None /\ file[fd][1] = r
    BY SocketParts
  <2> QED
    BY Zenon, <1>2, <1>3, <2>1
<1>8. \A p, q \in Regs :
          Pid(p) = Pid(q) /\ p[2] < q[2] /\ peer'[q] # "out" => peer'[p] = "gone"
  <2> SUFFICES ASSUME NEW p \in Regs, NEW q \in Regs, Pid(p) = Pid(q), p[2] < q[2],
                      peer'[q] # "out"
               PROVE  peer'[p] = "gone"
    OBVIOUS
  <2>1. p # q
    BY DEF Regs
  <2> QED
    BY <1>2, <1>4, <1>5, <1>6, <2>1
<1> QED
  BY <1>1, <1>2, <1>3, <1>4, <1>5, <1>7, <1>8, FileTypes

LEMMA HangUpKeeps ==
    ASSUME IInv, TypeInv', NEW r \in Regs, HangUp(r)
    PROVE  IInv'
<1>1. PeerInv'
  BY DEF HangUp, IInv, TypeInv, PeerInv, Pid
<1> QED
  BY Zenon, <1>1, QueueFrame, WaitFrame, AppFrame, CallbackFrame, RefFrame, ManageFrame,
     NotifyFrame, HeldFrame
  DEF IInv, HangUp, tables, tablesAndUsers

LEMMA RefusedKeeps ==
    ASSUME IInv, TypeInv', NEW r \in Regs, NEW type \in {"cmd", "notify"},
           RegistrationRefused(r, type)
    PROVE  IInv'
<1>1. PeerInv'
  <2>1. Connects(r, type) /\ file' = file /\ PeerInv
    BY Zenon DEF RegistrationRefused, IInv
  <2>2. /\ \A p, q \in Regs :
            Pid(p) = Pid(q) /\ p[2] < q[2] /\ peer'[q] # "out" => peer'[p] = "gone"
        /\ \A fd \in Fds : file[fd] # None => peer'[file[fd][1]] # "out"
        /\ \A fd \in Fds : \A q \in Regs :
            file[fd] = <<q, "notify">> => peer'[q] \in {"both", "gone"}
    BY Zenon, <2>1, ConnectKeeps
  <2> QED
    BY Zenon, <2>1, <2>2 DEF PeerInv, Pid
<1> QED
  BY Zenon, <1>1, QueueFrame, WaitFrame, AppFrame, CallbackFrame, RefFrame, ManageFrame,
     NotifyFrame, HeldFrame
  DEF IInv, RegistrationRefused, tables, tablesAndUsers

\* What holds a socket holds no other's.
LEMMA SocketsDiffer ==
    ASSUME IInv
    PROVE  /\ \A r \in Regs : app[r] # None =>
                /\ app[r] \in Apps /\ app[r].sock \in Fds /\ ~Queued(app[r].sock)
                /\ ~Piped(app[r].sock) /\ app[r].sock \notin notify.polled
                /\ ~Closing(app[r].sock)
           /\ \A q, r \in Regs : app[q] # None /\ app[r] # None /\ app[q].sock = app[r].sock
                => q = r
           /\ \A fd \in Fds : file[fd] = None =>
                /\ ~Queued(fd) /\ ~Piped(fd) /\ fd \notin notify.polled /\ ~Closing(fd)
                /\ \A r \in Regs : app[r] # None => app[r].sock # fd
<1>1. TypeInv /\ AppInv /\ QueueInv /\ NotifyInv
  BY DEF IInv
<1>2. \A r \in Regs : app[r] # None => app[r] \in Apps
  BY <1>1 DEF TypeInv
<1>3. \A r \in Regs : app[r] # None => app[r].sock \in Fds
  BY <1>2 DEF Apps
<1>4. \A r \in Regs : app[r] # None =>
         file[app[r].sock] = <<r, "cmd">> /\ file[app[r].sock] # None
  BY Zenon, <1>1, SocketParts DEF AppInv
<1>5. \A fd \in Fds : Queued(fd) =>
        \E i \in DOMAIN ust_cmd_queue :
            /\ ust_cmd_queue[i].sock = fd
            /\ file[fd] = <<ust_cmd_queue[i].reg, ust_cmd_queue[i].type>>
            /\ file[fd] # None
  <2>1. \A i \in DOMAIN ust_cmd_queue :
          file[ust_cmd_queue[i].sock] = <<ust_cmd_queue[i].reg, ust_cmd_queue[i].type>>
    BY <1>1 DEF QueueInv
  <2>2. ASSUME NEW i \in DOMAIN ust_cmd_queue
        PROVE  file[ust_cmd_queue[i].sock] # None
    <3>1. ust_cmd_queue[i].reg \in Regs /\ ust_cmd_queue[i].type \in {"cmd", "notify"}
      BY <1>1, CmdTypes
    <3> QED
      BY <2>1, <3>1, SocketParts
  <2> QED
    BY <2>1, <2>2 DEF Queued
<1>6. \A fd \in Fds : Piped(fd) \/ fd \in notify.polled \/ Closing(fd)
        => file[fd] # None /\ file[fd][2] = "notify"
  BY <1>1 DEF NotifyInv
<1>7. \A r \in Regs : app[r] # None => ~Queued(app[r].sock)
  <2> SUFFICES ASSUME NEW r \in Regs, app[r] # None, Queued(app[r].sock)
               PROVE  FALSE
    OBVIOUS
  <2>1. PICK i \in DOMAIN ust_cmd_queue :
            file[app[r].sock] = <<ust_cmd_queue[i].reg, ust_cmd_queue[i].type>>
    BY <1>3, <1>5
  <2>2. ust_cmd_queue[i].reg = r /\ ust_cmd_queue[i].type = "cmd"
    BY <1>4, <2>1
  <2> QED
    BY <1>1, <2>2 DEF AppInv
<1>8. \A q, r \in Regs : app[q] # None /\ app[r] # None /\ app[q].sock = app[r].sock => q = r
  BY <1>4
<1>9. \A r \in Regs : app[r] # None =>
        ~Piped(app[r].sock) /\ app[r].sock \notin notify.polled /\ ~Closing(app[r].sock)
  BY <1>3, <1>4, <1>6
<1> QED
  BY <1>2, <1>3, <1>4, <1>5, <1>6, <1>7, <1>8, <1>9

LEMMA RegistrationKeeps ==
    ASSUME IInv, TypeInv', NEW r \in Regs, NEW type \in {"cmd", "notify"}, NEW fd \in Fds,
           thread_application_registration(r, type, fd)
    PROVE  IInv'
<1> DEFINE e == [reg |-> r, type |-> type, sock |-> fd]
           n == Len(ust_cmd_queue) + 1
<1>1. /\ Connects(r, type) /\ file[fd] = None
      /\ file' = [file EXCEPT ![fd] = <<r, type>>]
      /\ ust_cmd_queue' = Append(ust_cmd_queue, e)
      /\ UNCHANGED <<dispatch, wait_queue, app, tablesAndUsers, notify, manage, callbacks>>
  BY DEF thread_application_registration, tables, tablesAndUsers
<1>2. /\ TypeInv /\ PeerInv /\ QueueInv /\ WaitInv /\ AppInv /\ CallbackInv /\ RefInv
      /\ ManageInv /\ NotifyInv /\ HeldInv
  BY DEF IInv
<1>3. e \in Cmds /\ e.reg = r /\ e.type = type /\ e.sock = fd
  BY Zenon DEF Cmds
<1> HIDE DEF e
<1>4. /\ n \in Nat /\ n \notin DOMAIN ust_cmd_queue
      /\ DOMAIN ust_cmd_queue' = DOMAIN ust_cmd_queue \cup {n}
      /\ \A i \in DOMAIN ust_cmd_queue : ust_cmd_queue'[i] = ust_cmd_queue[i] /\ i \in Nat /\ i < n
      /\ ust_cmd_queue'[n] = e
  BY SMTT(30), <1>1, <1>2, <1>3, Appended DEF TypeInv
<1> HIDE DEF n
<1>5. /\ file'[fd] = <<r, type>> /\ file'[fd] # None
      /\ \A fe \in Fds : fe # fd => file'[fe] = file[fe]
  BY Zenon, <1>1, <1>2, FileTypes DEF TypeInv
<1>6. /\ ~Queued(fd) /\ ~Piped(fd) /\ fd \notin notify.polled /\ ~Closing(fd)
      /\ \A q \in Regs : app[q] # None => app[q].sock # fd
  BY <1>1, SocketsDiffer
<1>7. \A fe \in Fds : Queued(fe)' <=> Queued(fe) \/ fe = fd
  BY Zenon, <1>3, <1>4 DEF Queued
<1>8. PeerInv'
  <2>1. /\ \A p, q \in Regs :
             Pid(p) = Pid(q) /\ p[2] < q[2] /\ peer'[q] # "out" => peer'[p] = "gone"
        /\ \A fe \in Fds : file[fe] # None => peer'[file[fe][1]] # "out"
        /\ \A fe \in Fds : \A q \in Regs :
             file[fe] = <<q, "notify">> => peer'[q] \in {"both", "gone"}
        /\ peer'[r] # "out" /\ (type = "notify" => peer'[r] = "both")
        /\ \A fe \in Fds : file[fe] # <<r, type>>
    BY <1>1, ConnectKeeps
  <2>2. file'[fd][1] = r /\ file'[fd][2] = type
    BY <1>5
  <2>3. \A fe \in Fds : file'[fe] # None => peer'[file'[fe][1]] # "out"
    BY <1>5, <2>1, <2>2
  <2>4. \A fe \in Fds : \A q \in Regs :
          file'[fe] = <<q, "notify">> => peer'[q] \in {"both", "gone"}
    BY <1>5, <2>1, <2>2
  <2>5. \A fe, fg \in Fds : file'[fe] = file'[fg] /\ file'[fe] # None => fe = fg
    BY <1>2, <1>5, <2>1 DEF PeerInv
  <2> QED
    BY Zenon, <2>1, <2>3, <2>4, <2>5 DEF PeerInv
<1>9. \A i \in DOMAIN ust_cmd_queue :
        /\ ust_cmd_queue[i].sock # fd
        /\ peer[ust_cmd_queue[i].reg] # "out"
        /\ <<ust_cmd_queue[i].reg, ust_cmd_queue[i].type>> # <<r, type>>
  <2> SUFFICES ASSUME NEW i \in DOMAIN ust_cmd_queue
               PROVE  /\ ust_cmd_queue[i].sock # fd
                      /\ peer[ust_cmd_queue[i].reg] # "out"
                      /\ <<ust_cmd_queue[i].reg, ust_cmd_queue[i].type>> # <<r, type>>
    OBVIOUS
  <2> DEFINE c == ust_cmd_queue[i]
  <2>1. c.sock \in Fds /\ c.reg \in Regs /\ file[c.sock] = <<c.reg, c.type>>
    BY <1>2, CmdTypes DEF QueueInv
  <2>2. c.sock # fd
    BY <1>6 DEF Queued
  <2>3. file[c.sock] # None /\ file[c.sock][1] = c.reg
    BY SMTT(30), <1>2, <2>1, CmdTypes, SocketParts
  <2>4. file[c.sock] # <<r, type>>
    BY <1>1, <2>1, ConnectKeeps
  <2>5. peer[c.reg] # "out"
    BY Zenon, <1>2, <2>1, <2>3 DEF PeerInv
  <2> QED
    BY <2>1, <2>2, <2>4, <2>5
<1>10. \A q \in Regs : Pid(q) = Pid(r) /\ peer[q] # "out" => q[2] < r[2] \/ q = r
  BY SMTT(30), <1>1, ConnectKeeps DEF Regs, Pid
<1>11. QueueInv'
  <2>1. \A i \in DOMAIN ust_cmd_queue :
          i < n /\ Pid(ust_cmd_queue[i].reg) = Pid(r)
            => \/ ust_cmd_queue[i].reg[2] < r[2]
               \/ ust_cmd_queue[i].reg = r /\ type = "notify"
    <3>1. type = "cmd" => peer[r] = "out"
      BY <1>1 DEF Connects
    <3> QED
      BY <1>2, <1>9, <1>10, <3>1, CmdTypes
  <2>2. \A i \in DOMAIN ust_cmd_queue : ust_cmd_queue[i].sock \in Fds
    BY Zenon, <1>2, CmdTypes
  <2>3. \A i \in DOMAIN ust_cmd_queue' :
          file'[ust_cmd_queue'[i].sock] = <<ust_cmd_queue'[i].reg, ust_cmd_queue'[i].type>>
    BY SMTT(30), <1>2, <1>3, <1>4, <1>5, <1>9, <2>2 DEF QueueInv
  <2>4. \A i, j \in DOMAIN ust_cmd_queue' :
          ust_cmd_queue'[i].sock = ust_cmd_queue'[j].sock => i = j
    BY <1>2, <1>3, <1>4, <1>9 DEF QueueInv
  <2>5. \A i, j \in DOMAIN ust_cmd_queue' :
          i < j /\ Pid(ust_cmd_queue'[i].reg) = Pid(ust_cmd_queue'[j].reg)
            => \/ ust_cmd_queue'[i].reg[2] < ust_cmd_queue'[j].reg[2]
               \/ /\ ust_cmd_queue'[i].reg = ust_cmd_queue'[j].reg
                  /\ ust_cmd_queue'[j].type = "notify"
    BY SMTT(30), <1>2, <1>3, <1>4, <2>1 DEF QueueInv
  <2> QED
    BY <2>3, <2>4, <2>5 DEF QueueInv
<1>12. WaitInv'
  <2>1. \A j \in DOMAIN wait_queue : /\ wait_queue[j] \in Regs /\ app[wait_queue[j]] # None
                                    /\ peer[wait_queue[j]] # "out"
    <3> SUFFICES ASSUME NEW j \in DOMAIN wait_queue
                 PROVE  /\ wait_queue[j] \in Regs /\ app[wait_queue[j]] # None
                        /\ peer[wait_queue[j]] # "out"
      OBVIOUS
    <3> DEFINE w == wait_queue[j]
    <3>1. w \in Regs
      BY SMTT(30), <1>2 DEF TypeInv
    <3>2. app[w] # None
      BY <1>2, <3>1 DEF AppInv, Waits
    <3>3. file[app[w].sock] = <<w, "cmd">> /\ app[w].sock \in Fds
      BY Zenon, <1>2, <3>1, <3>2, SocketsDiffer DEF AppInv
    <3>4. file[app[w].sock] # None /\ file[app[w].sock][1] = w
      BY <3>1, <3>3, SocketParts
    <3>5. peer[w] # "out"
      BY Zenon, <1>2, <3>3, <3>4 DEF PeerInv
    <3> QED
      BY <3>1, <3>2, <3>5
  <2>2. \A i \in DOMAIN ust_cmd_queue' : \A j \in DOMAIN wait_queue :
          Pid(ust_cmd_queue'[i].reg) = Pid(wait_queue[j])
            => wait_queue[j][2] <= ust_cmd_queue'[i].reg[2]
    <3>1. \A j \in DOMAIN wait_queue : Pid(r) = Pid(wait_queue[j]) => wait_queue[j][2] <= r[2]
      BY <1>10, <2>1 DEF Regs
    <3> QED
      BY <1>2, <1>3, <1>4, <3>1 DEF WaitInv
  <2>3. \A j \in DOMAIN wait_queue : \A fe \in Fds :
          file'[fe] = <<wait_queue[j], "notify">> => Queued(fe)'
    BY Zenon, <1>2, <1>5, <1>7 DEF WaitInv
  <2>4. \A i \in DOMAIN ust_cmd_queue' : \A fe \in Fds :
          /\ ust_cmd_queue'[i].type = "cmd"
          /\ file'[fe] = <<ust_cmd_queue'[i].reg, "notify">>
          => Queued(fe)'
    <3>1. \A fe \in Fds : type = "cmd" => file[fe] # <<r, "notify">>
      BY SMTT(30), <1>1, <1>2 DEF Connects, PeerInv
    <3> QED
      BY <1>2, <1>3, <1>4, <1>5, <1>7, <3>1 DEF WaitInv
  <2> QED
    BY <1>1, <1>2, <2>2, <2>3, <2>4 DEF WaitInv
<1>13. AppInv'
  <2>1. \A q \in Regs : app'[q] # None => file'[app'[q].sock] = <<q, "cmd">>
    BY ZenonT(30), <1>1, <1>2, <1>5, <1>6, SocketsDiffer DEF AppInv
  <2>2. type = "cmd" => app[r] = None
    <3>1. \A fe \in Fds : file[fe] # <<r, type>>
      BY SMTT(30), <1>1, ConnectKeeps
    <3>2. app[r] # None => app[r].sock \in Fds /\ file[app[r].sock] = <<r, "cmd">>
      BY Zenon, <1>2, SocketsDiffer DEF AppInv
    <3> QED
      BY <3>1, <3>2
  <2>3. \A i \in DOMAIN ust_cmd_queue' :
          ust_cmd_queue'[i].type = "cmd" => app'[ust_cmd_queue'[i].reg] = None
    BY Zenon, <1>1, <1>2, <1>3, <1>4, <2>2 DEF AppInv
  <2> QED
    BY Zenon, <1>1, <1>2, <2>1, <2>3 DEF AppInv, Waits, Active, Dies, tablesAndUsers
<1>14. NotifyInv'
  BY SMTT(30), <1>1, <1>2, <1>5, <1>6, <1>7 DEF NotifyInv, Piped, Closing
<1>15. HeldInv'
  BY Zenon, <1>1, <1>2, <1>5, <1>6, <1>7 DEF HeldInv, Piped, Closing
<1> QED
  BY <1>1, <1>2, <1>8, <1>11, <1>12, <1>13, <1>14, <1>15, CallbackFrame, RefFrame, ManageFrame
  DEF IInv, tablesAndUsers

-----------------------------------------------------------------------------
\* The dispatch thread.

\* The first request leaves the queue, and no file but its own changes.
LEMMA Dequeued ==
    ASSUME IInv, NEW type, Dequeue(type),
           \A fd \in Fds : fd # Head(ust_cmd_queue).sock => file'[fd] = file[fd]
    PROVE  LET h == Head(ust_cmd_queue)
           IN  /\ h.reg \in Regs /\ h.sock \in Fds /\ h.type = type
               /\ type \in {"cmd", "notify"}
               /\ file[h.sock] = <<h.reg, type>> /\ Queued(h.sock)
               /\ (type = "cmd" => app[h.reg] = None)
               /\ \A i \in DOMAIN ust_cmd_queue' :
                    /\ i + 1 \in DOMAIN ust_cmd_queue
                    /\ ust_cmd_queue'[i] = ust_cmd_queue[i + 1]
                    /\ Pid(h.reg) = Pid(ust_cmd_queue'[i].reg)
                        => \/ h.reg[2] < ust_cmd_queue'[i].reg[2]
                           \/ /\ h.reg = ust_cmd_queue'[i].reg
                              /\ ust_cmd_queue'[i].type = "notify"
               /\ \A fd \in Fds : Queued(fd)' <=> Queued(fd) /\ fd # h.sock
               /\ QueueInv'
               /\ \A j \in DOMAIN wait_queue :
                    Pid(h.reg) = Pid(wait_queue[j]) => wait_queue[j][2] <= h.reg[2]
<1> DEFINE h == Head(ust_cmd_queue)
<1>1. TypeInv /\ QueueInv /\ WaitInv /\ AppInv
  BY DEF IInv
<1>2. /\ ust_cmd_queue \in Seq(Cmds) /\ ust_cmd_queue # <<>> /\ h.type = type
      /\ ust_cmd_queue' = Tail(ust_cmd_queue)
  BY <1>1 DEF Dequeue, TypeInv
<1>3. /\ h = ust_cmd_queue[1] /\ 1 \in DOMAIN ust_cmd_queue
      /\ \A i \in DOMAIN ust_cmd_queue' :
           /\ i \in Nat /\ i > 0 /\ i + 1 \in DOMAIN ust_cmd_queue
           /\ ust_cmd_queue'[i] = ust_cmd_queue[i + 1]
      /\ \A i \in DOMAIN ust_cmd_queue : i \in Nat /\ (i # 1 => i - 1 \in DOMAIN ust_cmd_queue')
  BY SMTT(30), <1>2, HeadTail
<1> HIDE DEF h
<1>4. /\ h.reg \in Regs /\ h.sock \in Fds /\ type \in {"cmd", "notify"}
      /\ file[h.sock] = <<h.reg, type>> /\ Queued(h.sock)
      /\ (type = "cmd" => app[h.reg] = None)
  BY Zenon, <1>1, <1>2, <1>3, CmdTypes DEF Queued, QueueInv, AppInv
<1>5. \A i \in DOMAIN ust_cmd_queue' : ust_cmd_queue'[i].sock # h.sock
  BY SMTT(30), <1>1, <1>3 DEF QueueInv
<1>6. \A fd \in Fds : Queued(fd)' <=> Queued(fd) /\ fd # h.sock
  <2>1. ASSUME NEW fd \in Fds, Queued(fd)' PROVE Queued(fd) /\ fd # h.sock
    BY <1>3, <1>5, <2>1 DEF Queued
  <2>2. ASSUME NEW fd \in Fds, Queued(fd), fd # h.sock PROVE Queued(fd)'
    <3>1. PICK i \in DOMAIN ust_cmd_queue : ust_cmd_queue[i].sock = fd
      BY <2>2 DEF Queued
    <3>2. i # 1
      BY <1>3, <2>2, <3>1
    <3>3. i - 1 \in DOMAIN ust_cmd_queue' /\ ust_cmd_queue'[i - 1] = ust_cmd_queue[i]
      <4>1. i - 1 \in DOMAIN ust_cmd_queue' /\ (i - 1) + 1 = i
        BY <1>3, <3>2
      <4> QED
        BY <1>3, <4>1
    <3> QED
      BY <3>1, <3>3 DEF Queued
  <2> QED
    BY <2>1, <2>2
<1>7. QueueInv'
  <2>1. \A i \in DOMAIN ust_cmd_queue' :
          file'[ust_cmd_queue'[i].sock] = <<ust_cmd_queue'[i].reg, ust_cmd_queue'[i].type>>
    BY <1>1, <1>3, <1>5, CmdTypes DEF QueueInv, h
  <2>2. \A i, j \in DOMAIN ust_cmd_queue' :
          ust_cmd_queue'[i].sock = ust_cmd_queue'[j].sock => i = j
    BY <1>1, <1>3 DEF QueueInv
  <2>3. \A i, j \in DOMAIN ust_cmd_queue' :
          i < j /\ Pid(ust_cmd_queue'[i].reg) = Pid(ust_cmd_queue'[j].reg)
            => \/ ust_cmd_queue'[i].reg[2] < ust_cmd_queue'[j].reg[2]
               \/ /\ ust_cmd_queue'[i].reg = ust_cmd_queue'[j].reg
                  /\ ust_cmd_queue'[j].type = "notify"
    BY <1>1, <1>3 DEF QueueInv
  <2> QED
    BY Zenon, <2>1, <2>2, <2>3 DEF QueueInv
<1>8. \A i \in DOMAIN ust_cmd_queue' :
          Pid(h.reg) = Pid(ust_cmd_queue'[i].reg)
            => \/ h.reg[2] < ust_cmd_queue'[i].reg[2]
               \/ h.reg = ust_cmd_queue'[i].reg /\ ust_cmd_queue'[i].type = "notify"
  <2>1. \A i \in DOMAIN ust_cmd_queue' : 1 < i + 1
    BY <1>3
  <2> QED
    BY <1>1, <1>3, <2>1 DEF QueueInv
<1>9. \A j \in DOMAIN wait_queue :
          Pid(h.reg) = Pid(wait_queue[j]) => wait_queue[j][2] <= h.reg[2]
  BY <1>1, <1>3 DEF WaitInv
<1> QED
  BY <1>2, <1>3, <1>4, <1>6, <1>7, <1>8, <1>9 DEF h

LEMMA IdleDispatchKeeps ==
    ASSUME IInv, TypeInv', FutexWaitEnds \/ DequeueNothing \/ update_ust_app
    PROVE  IInv'
<1>1. ManageInv'
  <2>1. InSection' = InSection /\ dispatch'.app = dispatch.app
    BY DEF IInv, TypeInv, InSection, FutexWaitEnds, DequeueNothing, update_ust_app
  <2> QED
    BY <2>1 DEF IInv, ManageInv, tables, FutexWaitEnds, DequeueNothing, update_ust_app
<1> QED
  BY <1>1, PeerFrame, QueueFrame, WaitFrame, AppFrame, CallbackFrame, RefFrame,
     NotifyFrame, HeldFrame
  DEF IInv, FutexWaitEnds, DequeueNothing, update_ust_app, tables, tablesAndUsers

\* A socket that leaves the queue is closed.
LEMMA CloseDequeuedKeeps ==
    ASSUME IInv, TypeInv', DispatchCmdFails \/ DispatchNotifyUseless
    PROVE  IInv'
<1> DEFINE h == Head(ust_cmd_queue)
<1>1. /\ file' = [file EXCEPT ![h.sock] = None]
      /\ dispatch' = [dispatch EXCEPT !.pc = "sanitize"] /\ dispatch.pc = "dequeue"
      /\ UNCHANGED <<peer, wait_queue, app, tablesAndUsers, notify, manage, callbacks>>
  BY DEF DispatchCmdFails, DispatchNotifyUseless, Dequeue, tables, tablesAndUsers
<1>2. PICK type : Dequeue(type)
  BY DEF DispatchCmdFails, DispatchNotifyUseless
<1>3. /\ TypeInv /\ PeerInv /\ QueueInv /\ WaitInv /\ AppInv /\ CallbackInv /\ RefInv
      /\ ManageInv /\ NotifyInv /\ HeldInv
  BY DEF IInv
<1>4. \A fd \in Fds : fd # h.sock => file'[fd] = file[fd]
  BY Zenon, <1>1, <1>3 DEF TypeInv
<1> HIDE DEF h
<1>5. /\ h.reg \in Regs /\ h.sock \in Fds /\ type \in {"cmd", "notify"}
      /\ file[h.sock] = <<h.reg, type>> /\ Queued(h.sock)
      /\ \A i \in DOMAIN ust_cmd_queue' : /\ i + 1 \in DOMAIN ust_cmd_queue
                                          /\ ust_cmd_queue'[i] = ust_cmd_queue[i + 1]
      /\ \A fd \in Fds : Queued(fd)' <=> Queued(fd) /\ fd # h.sock
      /\ QueueInv'
  BY <1>2, <1>4, Dequeued DEF h
<1>6. file'[h.sock] = None
  BY Zenon, <1>1, <1>3, <1>5 DEF TypeInv
<1>7. /\ ~Piped(h.sock) /\ h.sock \notin notify.polled /\ ~Closing(h.sock)
      /\ \A r \in Regs : app[r] # None => app[r].sock # h.sock
  BY <1>3, <1>5, SocketsDiffer DEF NotifyInv
<1>8. PeerInv'
  BY <1>1, <1>3, <1>4, <1>6, PeerFrame
<1>9. WaitInv'
  <2>1. \A j \in DOMAIN wait_queue : \A fd \in Fds :
          file'[fd] = <<wait_queue[j], "notify">> => Queued(fd)'
    <3> SUFFICES ASSUME NEW j \in DOMAIN wait_queue, NEW fd \in Fds,
                        file'[fd] = <<wait_queue[j], "notify">>
                 PROVE  Queued(fd)'
      BY Zenon
    <3>1. wait_queue[j] \in Regs
      BY <1>3 DEF TypeInv
    <3>2. fd # h.sock
      BY Zenon, <1>3, <1>6, <3>1, FileTypes
    <3> QED
      BY <1>3, <1>4, <1>5, <3>2 DEF WaitInv
  <2>2. \A i \in DOMAIN ust_cmd_queue' : \A fd \in Fds :
          /\ ust_cmd_queue'[i].type = "cmd"
          /\ file'[fd] = <<ust_cmd_queue'[i].reg, "notify">>
          => Queued(fd)'
    <3> SUFFICES ASSUME NEW i \in DOMAIN ust_cmd_queue', NEW fd \in Fds,
                        ust_cmd_queue'[i].type = "cmd",
                        file'[fd] = <<ust_cmd_queue'[i].reg, "notify">>
                 PROVE  Queued(fd)'
      OBVIOUS
    <3>1. ust_cmd_queue'[i].reg \in Regs
      BY Zenon, <1>3, <1>5, CmdTypes
    <3>2. fd # h.sock
      BY Zenon, <1>3, <1>6, <3>1, FileTypes
    <3> QED
      BY <1>3, <1>4, <1>5, <3>2 DEF WaitInv
  <2> QED
    BY Zenon, <1>1, <1>3, <1>5, <2>1, <2>2 DEF WaitInv
<1>10. AppInv'
  <2>1. \A r \in Regs : app[r] # None => file'[app[r].sock] = <<r, "cmd">>
    BY Zenon, <1>3, <1>4, <1>7, SocketsDiffer DEF AppInv
  <2>2. \A i \in DOMAIN ust_cmd_queue' :
          ust_cmd_queue'[i].type = "cmd" => app[ust_cmd_queue'[i].reg] = None
    BY <1>3, <1>5 DEF AppInv
  <2> QED
    BY SMTT(30), <1>1, <1>3, <2>1, <2>2 DEF AppInv, Waits, Active, Dies, tablesAndUsers
<1>11. ManageInv'
  <2>1. ~InSection /\ ~InSection' /\ dispatch'.app = dispatch.app
    BY <1>1, <1>3 DEF InSection, TypeInv
  <2> QED
    BY <1>1, <1>3, <2>1 DEF ManageInv, tablesAndUsers
<1>12. NotifyInv'
  BY <1>1, <1>3, <1>4, <1>5, <1>7 DEF NotifyInv, Piped, Closing
<1>13. HeldInv'
  BY <1>1, <1>3, <1>4, <1>5, <1>6 DEF HeldInv, Piped, Closing
<1> QED
  BY <1>1, <1>3, <1>5, <1>8, <1>9, <1>10, <1>11, <1>12, <1>13, CallbackFrame, RefFrame
  DEF IInv, tablesAndUsers

LEMMA DispatchCmdKeeps ==
    ASSUME IInv, TypeInv', DispatchCmd
    PROVE  IInv'
<1> DEFINE h == Head(ust_cmd_queue)
           a == [ref |-> 1, sock |-> h.sock, notify_sock |-> None, pipe |-> 2]
<1>1. /\ Dequeue("cmd") /\ dispatch.pc = "dequeue"
      /\ app' = [app EXCEPT ![h.reg] = a]
      /\ wait_queue' = <<h.reg>> \o wait_queue
      /\ dispatch' = [dispatch EXCEPT !.pc = "sanitize"]
      /\ UNCHANGED <<peer, file, tablesAndUsers, notify, manage, callbacks>>
  BY DEF DispatchCmd, Dequeue, tables, tablesAndUsers
<1>2. /\ TypeInv /\ PeerInv /\ QueueInv /\ WaitInv /\ AppInv /\ CallbackInv /\ RefInv
      /\ ManageInv /\ NotifyInv /\ HeldInv
  BY Zenon DEF IInv
<1>3. a.ref = 1 /\ a.sock = h.sock
  OBVIOUS
<1>4. \A fd \in Fds : fd # h.sock => file'[fd] = file[fd]
  BY <1>1
<1> HIDE DEF h, a
<1>5. /\ h.reg \in Regs /\ h.sock \in Fds /\ file[h.sock] = <<h.reg, "cmd">>
      /\ Queued(h.sock) /\ app[h.reg] = None
  BY <1>1, <1>4, Dequeued DEF h
<1>6. /\ \A i \in DOMAIN ust_cmd_queue' :
           /\ i + 1 \in DOMAIN ust_cmd_queue
           /\ ust_cmd_queue'[i] = ust_cmd_queue[i + 1]
           /\ Pid(h.reg) = Pid(ust_cmd_queue'[i].reg)
               => \/ h.reg[2] < ust_cmd_queue'[i].reg[2]
                  \/ h.reg = ust_cmd_queue'[i].reg /\ ust_cmd_queue'[i].type = "notify"
      /\ \A fd \in Fds : Queued(fd)' <=> Queued(fd) /\ fd # h.sock
      /\ QueueInv'
      /\ \A j \in DOMAIN wait_queue :
           Pid(h.reg) = Pid(wait_queue[j]) => wait_queue[j][2] <= h.reg[2]
  BY <1>1, <1>4, Dequeued DEF h
<1>7. /\ app'[h.reg] = a /\ a # None
      /\ \A r \in Regs : r # h.reg => app'[r] = app[r]
  <2>1. app'[h.reg] = a /\ \A r \in Regs : r # h.reg => app'[r] = app[r]
    BY <1>1, <1>2, <1>5 DEF TypeInv
  <2>2. a \in Apps
    BY <1>5 DEF a, Apps
  <2> QED
    BY <2>1, <2>2, NoneAssumption
<1>8. /\ 1 \in DOMAIN wait_queue' /\ wait_queue'[1] = h.reg
      /\ \A j \in DOMAIN wait_queue :
           j \in Nat /\ j + 1 \in DOMAIN wait_queue' /\ wait_queue'[j + 1] = wait_queue[j]
      /\ \A j \in DOMAIN wait_queue' : j \in Nat /\ j > 0 /\ (j # 1 =>
           j - 1 \in DOMAIN wait_queue /\ wait_queue'[j] = wait_queue[j - 1])
  BY SMTT(30), <1>1, <1>2, <1>5 DEF TypeInv
<1>9. \A j \in DOMAIN wait_queue : wait_queue[j] \in Regs /\ wait_queue[j] # h.reg
  BY <1>2, <1>5 DEF TypeInv, AppInv, Waits
<1>10. \A r \in Regs : Waits(r)' <=> Waits(r) \/ r = h.reg
  <2>1. ASSUME NEW r \in Regs, Waits(r) PROVE Waits(r)'
    <3>1. PICK j \in DOMAIN wait_queue : wait_queue[j] = r
      BY Zenon, <2>1 DEF Waits
    <3>2. j + 1 \in DOMAIN wait_queue' /\ wait_queue'[j + 1] = r
      BY Zenon, <1>8, <3>1
    <3> QED
      BY <3>2 DEF Waits
  <2>2. ASSUME NEW r \in Regs, r = h.reg PROVE Waits(r)'
    BY <1>8, <2>2 DEF Waits
  <2>3. ASSUME NEW r \in Regs, Waits(r)', r # h.reg PROVE Waits(r)
    <3>1. PICK j \in DOMAIN wait_queue' : wait_queue'[j] = r
      BY <2>3 DEF Waits
    <3>2. j - 1 \in DOMAIN wait_queue /\ wait_queue[j - 1] = r
      BY Zenon, <1>8, <2>3, <3>1
    <3> QED
      BY Zenon, <3>2 DEF Waits
  <2> QED
    BY <2>1, <2>2, <2>3
<1>11. ~Active(h.reg) /\ ~Dies(h.reg)
  BY Zenon, <1>2, <1>5 DEF AppInv
<1>12. WaitInv'
  <2>1. \A j \in DOMAIN wait_queue :
          Pid(h.reg) = Pid(wait_queue[j]) => wait_queue[j][2] < h.reg[2]
    <3>1. \A j \in DOMAIN wait_queue :
             Pid(h.reg) = Pid(wait_queue[j]) => wait_queue[j][2] <= h.reg[2]
      BY Zenon, <1>6
    <3>2. h.reg \in Regs
      BY <1>5
    <3> QED
      BY <1>9, <3>1, <3>2, RegsDiffer
  <2>2. \A i, j \in DOMAIN wait_queue' :
          i < j /\ Pid(wait_queue'[i]) = Pid(wait_queue'[j])
            => wait_queue'[j][2] < wait_queue'[i][2]
    <3> SUFFICES ASSUME NEW i \in DOMAIN wait_queue', NEW j \in DOMAIN wait_queue', i < j,
                        Pid(wait_queue'[i]) = Pid(wait_queue'[j])
                 PROVE  wait_queue'[j][2] < wait_queue'[i][2]
      OBVIOUS
    <3>1. j # 1 /\ j - 1 \in DOMAIN wait_queue /\ wait_queue'[j] = wait_queue[j - 1]
      BY <1>8
    <3>2. CASE i = 1
      BY Zenon, <1>8, <2>1, <3>1, <3>2
    <3>3. CASE i # 1
      <4>1. i - 1 \in DOMAIN wait_queue /\ wait_queue'[i] = wait_queue[i - 1] /\ i - 1 < j - 1
        BY <1>8, <3>3
      <4> QED
        BY <1>2, <3>1, <4>1 DEF WaitInv
    <3> QED
      BY <3>2, <3>3
  <2>3. \A i \in DOMAIN ust_cmd_queue' : \A j \in DOMAIN wait_queue' :
          Pid(ust_cmd_queue'[i].reg) = Pid(wait_queue'[j])
            => wait_queue'[j][2] <= ust_cmd_queue'[i].reg[2]
    <3> SUFFICES ASSUME NEW i \in DOMAIN ust_cmd_queue', NEW j \in DOMAIN wait_queue',
                        Pid(ust_cmd_queue'[i].reg) = Pid(wait_queue'[j])
                 PROVE  wait_queue'[j][2] <= ust_cmd_queue'[i].reg[2]
      OBVIOUS
    <3>1. CASE j = 1
      <4>1. h.reg[2] \in Nat /\ ust_cmd_queue'[i].reg \in Regs
        BY <1>2, <1>5, <1>6, CmdTypes DEF Regs
      <4>2. ust_cmd_queue'[i].reg[2] \in Nat
        BY SMTT(30), <4>1 DEF Regs
      <4> QED
        BY <1>6, <1>8, <3>1, <4>1, <4>2
    <3>2. CASE j # 1
      BY <1>2, <1>6, <1>8, <3>2 DEF WaitInv
    <3> QED
      BY <3>1, <3>2
  <2>4. \A fd \in Fds : \A r \in Regs : file[fd] = <<r, "notify">> => fd # h.sock
    BY <1>5
  <2>5. \A j \in DOMAIN wait_queue' : \A fd \in Fds :
          file'[fd] = <<wait_queue'[j], "notify">> => Queued(fd)'
    <3> SUFFICES ASSUME NEW j \in DOMAIN wait_queue', NEW fd \in Fds,
                        file[fd] = <<wait_queue'[j], "notify">>
                 PROVE  Queued(fd)'
      BY Zenon, <1>1
    <3>1. CASE j = 1
      <4>1. 1 \in DOMAIN ust_cmd_queue /\ ust_cmd_queue[1] = h
        BY <1>1, <1>2, HeadTail DEF TypeInv, Dequeue, h
      <4>2. ust_cmd_queue[1].type = "cmd"
        BY <1>1, <4>1 DEF Dequeue, h
      <4>3. file[fd] = <<ust_cmd_queue[1].reg, "notify">>
        BY Zenon, <1>8, <3>1, <4>1
      <4>4. Queued(fd)
        BY <1>2, <4>1, <4>2, <4>3 DEF WaitInv
      <4> QED
        BY <1>5, <1>6, <1>8, <2>4, <3>1, <4>4
    <3>2. CASE j # 1
      <4>1. j - 1 \in DOMAIN wait_queue /\ file[fd] = <<wait_queue[j - 1], "notify">>
        BY Zenon, <1>8, <3>2
      <4> QED
        BY Zenon, <1>2, <1>6, <1>9, <2>4, <4>1 DEF WaitInv
    <3> QED
      BY <3>1, <3>2
  <2>6. \A i \in DOMAIN ust_cmd_queue' : \A fd \in Fds :
          /\ ust_cmd_queue'[i].type = "cmd"
          /\ file'[fd] = <<ust_cmd_queue'[i].reg, "notify">>
          => Queued(fd)'
    <3> SUFFICES ASSUME NEW i \in DOMAIN ust_cmd_queue', NEW fd \in Fds,
                        ust_cmd_queue'[i].type = "cmd",
                        file[fd] = <<ust_cmd_queue'[i].reg, "notify">>
                 PROVE  Queued(fd)'
      BY Zenon, <1>1
    <3>1. i + 1 \in DOMAIN ust_cmd_queue /\ ust_cmd_queue'[i] = ust_cmd_queue[i + 1]
      BY Zenon, <1>6
    <3>2. ust_cmd_queue[i + 1].reg \in Regs /\ Queued(fd)
      BY Zenon, <1>2, <3>1, CmdTypes DEF WaitInv
    <3> QED
      BY <1>6, <2>4, <3>1, <3>2
  <2> QED
    BY Zenon, <2>2, <2>3, <2>5, <2>6 DEF WaitInv
<1>13. AppInv'
  <2>1. \A r \in Regs : app'[r] # None => file'[app'[r].sock] = <<r, "cmd">>
    BY Zenon, <1>1, <1>2, <1>3, <1>5, <1>7 DEF AppInv
  <2>2. \A i \in DOMAIN ust_cmd_queue' :
          ust_cmd_queue'[i].type = "cmd" => app'[ust_cmd_queue'[i].reg] = None
    <3> SUFFICES ASSUME NEW i \in DOMAIN ust_cmd_queue', ust_cmd_queue'[i].type = "cmd"
                 PROVE  app'[ust_cmd_queue'[i].reg] = None
      OBVIOUS
    <3>1. i + 1 \in DOMAIN ust_cmd_queue /\ ust_cmd_queue'[i] = ust_cmd_queue[i + 1]
      BY <1>6
    <3>2. ust_cmd_queue'[i].reg \in Regs
      BY <1>2, <3>1, CmdTypes
    <3>3. ust_cmd_queue'[i].reg # h.reg
      <4>1. h.reg[2] \in Nat
        BY <1>5 DEF Regs
      <4> QED
        BY <1>6, <4>1
    <3> QED
      BY <1>2, <1>7, <3>1, <3>2, <3>3 DEF AppInv
  <2>3. \A r \in Regs : (Active(r)' <=> Active(r)) /\ (Dies(r)' <=> Dies(r))
    BY <1>1 DEF Active, Dies, tablesAndUsers
  <2>4. /\ \A r \in Regs : Waits(r)' \/ Active(r)' \/ Dies(r)' => app'[r] # None
        /\ \A r \in Regs : Waits(r)' => ~Active(r)'
        /\ \A r \in Regs : Waits(r)' => ~Dies(r)'
        /\ \A r \in Regs : Active(r)' => ~Dies(r)'
    BY Zenon, <1>2, <1>7, <1>10, <1>11, <2>3 DEF AppInv
  <2>5. /\ \A r \in ust_app_ht' : Active(r)'
        /\ \A r \in ust_app_ht_by_notify_sock' : Active(r)'
    BY <1>1, <1>2, <2>3 DEF AppInv, tablesAndUsers, TypeInv
  <2> QED
    BY <2>1, <2>2, <2>4, <2>5 DEF AppInv
<1>14. CallbackInv'
  BY <1>1, <1>2, <1>7, <1>11 DEF CallbackInv, Dies
<1>15. RefInv'
  <2>1. \A j \in DOMAIN wait_queue' : app'[wait_queue'[j]].ref = 1
    BY <1>2, <1>3, <1>7, <1>8, <1>9 DEF RefInv
  <2>2. \A r \in Regs : Active(r) => app'[r] = app[r]
    BY <1>7, <1>11
  <2> QED
    BY SMTT(30), <1>1, <1>2, <2>1, <2>2 DEF RefInv, Active, tablesAndUsers, TypeInv
<1>16. ManageInv'
  <2>1. ~InSection /\ ~InSection' /\ dispatch'.app = dispatch.app
    BY <1>1, <1>2 DEF InSection, TypeInv
  <2>2. \A r \in ust_app_ht_by_sock : app'[r] = app[r]
    BY <1>2, <1>7, <1>11 DEF Active, TypeInv
  <2> QED
    BY <1>1, <1>2, <2>1, <2>2 DEF ManageInv, tablesAndUsers
<1>17. NotifyInv'
  BY <1>1, <1>2, <1>6 DEF NotifyInv, Piped, Closing
<1>18. HeldInv'
  BY <1>1, <1>2, <1>3, <1>5, <1>6, <1>7 DEF HeldInv, Piped, Closing
<1> QED
  BY <1>1, <1>2, <1>6, <1>12, <1>13, <1>14, <1>15, <1>16, <1>17, <1>18, PeerFrame DEF IInv

LEMMA DispatchNotifyKeeps ==
    ASSUME IInv, TypeInv', DispatchNotify
    PROVE  IInv'
<1> DEFINE h == Head(ust_cmd_queue)
           k == Waiting(Pid(h.reg))
           r == wait_queue[k]
<1>1. /\ Dequeue("notify") /\ client = None /\ k # 0
      /\ wait_queue' = Without(wait_queue, k)
      /\ ust_app_ht' = {q \in ust_app_ht : Pid(q) # Pid(r)} \cup {r}
      /\ ust_app_ht_by_sock' = ust_app_ht_by_sock \cup {r}
      /\ ust_app_ht_by_notify_sock' = ust_app_ht_by_notify_sock \cup {r}
      /\ notify' = [notify EXCEPT !.pipe = Append(@, h.sock)]
      /\ dispatch' = [pc |-> "update", app |-> r]
      /\ UNCHANGED <<peer, file, manage, client, releasing, callbacks>>
  BY Zenon DEF DispatchNotify, ust_app_add
<1>2. PICK pipe \in {1, 2} : app' = [app EXCEPT ![r].notify_sock = h.sock, ![r].pipe = pipe]
  BY Zenon DEF DispatchNotify
<1>3. /\ TypeInv /\ PeerInv /\ QueueInv /\ WaitInv /\ AppInv /\ CallbackInv /\ RefInv
      /\ ManageInv /\ NotifyInv /\ HeldInv
  BY DEF IInv
<1>4. /\ k \in DOMAIN wait_queue /\ Pid(r) = Pid(h.reg)
      /\ \A j \in DOMAIN wait_queue : Pid(wait_queue[j]) = Pid(h.reg) => k <= j
  BY <1>1, <1>3, WaitingIsFirst DEF TypeInv
<1>5. \A fd \in Fds : fd # h.sock => file'[fd] = file[fd]
  BY <1>1
<1> HIDE DEF h, k
<1>6. /\ h.reg \in Regs /\ h.sock \in Fds /\ file[h.sock] = <<h.reg, "notify">> /\ Queued(h.sock)
  BY <1>1, <1>5, Dequeued DEF h
<1>7. /\ \A i \in DOMAIN ust_cmd_queue' :
           /\ i + 1 \in DOMAIN ust_cmd_queue
           /\ ust_cmd_queue'[i] = ust_cmd_queue[i + 1]
           /\ Pid(h.reg) = Pid(ust_cmd_queue'[i].reg)
               => \/ h.reg[2] < ust_cmd_queue'[i].reg[2]
                  \/ h.reg = ust_cmd_queue'[i].reg /\ ust_cmd_queue'[i].type = "notify"
      /\ \A fd \in Fds : Queued(fd)' <=> Queued(fd) /\ fd # h.sock
      /\ QueueInv'
      /\ \A j \in DOMAIN wait_queue :
           Pid(h.reg) = Pid(wait_queue[j]) => wait_queue[j][2] <= h.reg[2]
  BY Zenon, <1>1, <1>5, Dequeued DEF h
<1>8. /\ r \in Regs /\ Waits(r) /\ ~Active(r) /\ ~Dies(r) /\ app[r] # None /\ app[r].ref = 1
  <2>1. r \in Regs /\ Waits(r) /\ app[r].ref = 1
    <3>1. wait_queue \in Seq(Regs) /\ \A i \in DOMAIN wait_queue : app[wait_queue[i]].ref = 1
      BY Zenon, <1>3 DEF TypeInv, RefInv
    <3>2. k \in DOMAIN wait_queue
      BY <1>4
    <3> QED
      BY <3>1, <3>2 DEF Waits
  <2> QED
    BY <1>3, <2>1 DEF AppInv
<1>9. /\ app'[r] # None /\ app'[r].sock = app[r].sock /\ app'[r].ref = 1
      /\ app'[r].notify_sock = h.sock
      /\ \A q \in Regs : q # r => app'[q] = app[q]
  <2> DEFINE a == [app[r] EXCEPT !.notify_sock = h.sock, !.pipe = pipe]
  <2>1. app' = [app EXCEPT ![r] = a]
    BY Zenon, <1>2, <1>3, <1>8 DEF TypeInv
  <2>2. app[r] \in Apps
    BY Zenon, <1>3, <1>8 DEF TypeInv
  <2>3. a \in Apps /\ a.sock = app[r].sock /\ a.ref = app[r].ref /\ a.notify_sock = h.sock
    BY Zenon, <1>6, <2>2 DEF Apps
  <2> HIDE DEF a
  <2>4. app'[r] = a /\ \A q \in Regs : q # r => app'[q] = app[q]
    BY Zenon, <1>3, <1>8, <2>1 DEF TypeInv
  <2> QED
    BY Zenon, <1>8, <2>3, <2>4, NoneAssumption
<1>10. /\ \A j \in DOMAIN wait_queue : j \in Nat
       /\ \A j \in DOMAIN wait_queue' : j \in Nat /\
            IF j < k THEN j \in DOMAIN wait_queue /\ wait_queue'[j] = wait_queue[j]
            ELSE j + 1 \in DOMAIN wait_queue /\ wait_queue'[j] = wait_queue[j + 1]
       /\ \A j \in DOMAIN wait_queue :
            /\ j < k => j \in DOMAIN wait_queue'
            /\ j > k => j - 1 \in DOMAIN wait_queue'
  <2>1. wait_queue \in Seq(Regs)
    BY <1>3 DEF TypeInv
  <2>2. /\ Len(wait_queue) \in Nat /\ DOMAIN wait_queue = 1 .. Len(wait_queue)
        /\ DOMAIN wait_queue' = 1 .. Len(wait_queue) - 1
        /\ \A j \in 1 .. Len(wait_queue) - 1 :
             wait_queue'[j] = IF j < k THEN wait_queue[j] ELSE wait_queue[j + 1]
    BY Zenon, <1>1, <1>4, <2>1, Removed
  <2> QED
    BY <1>4, <2>2
<1> HIDE DEF r
<1>11. \A j \in DOMAIN wait_queue' : \E i \in DOMAIN wait_queue :
           wait_queue'[j] = wait_queue[i] /\ i # k
  BY <1>4, <1>10
<1>12. \A i, j \in DOMAIN wait_queue : wait_queue[i] = wait_queue[j] => i = j
  <2>1. \A i \in DOMAIN wait_queue : i \in Nat /\ wait_queue[i][2] \in Int
    BY <1>3, <1>10 DEF TypeInv, Regs
  <2> QED
    BY SMTT(30), <1>3, <2>1 DEF WaitInv
<1>13. \A q \in Regs : Waits(q)' <=> Waits(q) /\ q # r
  <2>1. ASSUME NEW q \in Regs, Waits(q)' PROVE Waits(q) /\ q # r
    <3>1. PICK i \in DOMAIN wait_queue : wait_queue[i] = q /\ i # k
      BY <1>11, <2>1 DEF Waits
    <3> QED
      BY <1>4, <1>12, <3>1 DEF Waits, r
  <2>2. ASSUME NEW q \in Regs, Waits(q), q # r PROVE Waits(q)'
    <3>1. PICK i \in DOMAIN wait_queue : wait_queue[i] = q
      BY Zenon, <2>2 DEF Waits
    <3>2. i # k /\ i \in Nat /\ k \in Nat
      BY <1>4, <1>10, <2>2, <3>1 DEF r
    <3>3. CASE i < k
      BY <1>10, <3>1, <3>3 DEF Waits
    <3>4. CASE i > k
      <4>1. i - 1 \in DOMAIN wait_queue' /\ ~(i - 1 < k) /\ (i - 1) + 1 = i
        BY <1>10, <3>1, <3>2, <3>4
      <4>2. wait_queue'[i - 1] = q
        BY <1>10, <3>1, <4>1
      <4> QED
        BY <4>1, <4>2 DEF Waits
    <3> QED
      BY <3>2, <3>3, <3>4
  <2> QED
    BY <2>1, <2>2
<1>14. \A q \in Regs : (Active(q)' <=> Active(q) \/ q = r) /\ (Dies(q)' <=> Dies(q))
  BY Zenon, <1>1 DEF Active, Dies, r
<1>15. WaitInv'
  <2>0. \A j \in DOMAIN wait_queue : j \in Nat /\ wait_queue[j] \in Regs /\ wait_queue[j][2] \in Int
    BY SMTT(30), <1>3, <1>10 DEF TypeInv, Regs
  <2>1. \A i, j \in DOMAIN wait_queue' :
          i < j /\ Pid(wait_queue'[i]) = Pid(wait_queue'[j])
            => wait_queue'[j][2] < wait_queue'[i][2]
    <3> SUFFICES ASSUME NEW i \in DOMAIN wait_queue', NEW j \in DOMAIN wait_queue', i < j,
                        Pid(wait_queue'[i]) = Pid(wait_queue'[j])
                 PROVE  wait_queue'[j][2] < wait_queue'[i][2]
      BY SMTT(30)
    <3>1. \E a, b \in DOMAIN wait_queue :
             a < b /\ wait_queue'[i] = wait_queue[a] /\ wait_queue'[j] = wait_queue[b]
      <4>1. ASSUME NEW m \in DOMAIN wait_queue'
            PROVE  /\ m < k => m \in DOMAIN wait_queue /\ wait_queue'[m] = wait_queue[m]
                   /\ ~(m < k) => /\ m + 1 \in DOMAIN wait_queue
                                  /\ wait_queue'[m] = wait_queue[m + 1]
        BY <1>10
      <4>2. i \in Nat /\ j \in Nat /\ k \in Nat
        BY <1>4, <1>10
      <4>3. CASE i < k /\ j < k
        BY Zenon, <4>1, <4>3
      <4>4. CASE i < k /\ ~(j < k)
        <5>1. i < j + 1
          BY <4>2
        <5> QED
          BY Zenon, <4>1, <4>4, <5>1
      <4>5. CASE ~(i < k)
        <5>1. i + 1 < j + 1 /\ ~(j < k)
          BY <4>2, <4>5
        <5> QED
          BY Zenon, <4>1, <4>5, <5>1
      <4> QED
        BY Zenon, <4>3, <4>4, <4>5
    <3> QED
      BY Zenon, <1>3, <3>1 DEF WaitInv
  <2>2. \A i \in DOMAIN ust_cmd_queue' : \A j \in DOMAIN wait_queue' :
          Pid(ust_cmd_queue'[i].reg) = Pid(wait_queue'[j])
            => wait_queue'[j][2] <= ust_cmd_queue'[i].reg[2]
    BY SMTT(30), <1>3, <1>7, <1>11 DEF WaitInv
  <2>3. \A j \in DOMAIN wait_queue' : \A fd \in Fds :
          file'[fd] = <<wait_queue'[j], "notify">> => Queued(fd)'
    <3> SUFFICES ASSUME NEW j \in DOMAIN wait_queue', NEW fd \in Fds,
                        file[fd] = <<wait_queue'[j], "notify">>
                 PROVE  Queued(fd)'
      BY <1>1
    <3>1. PICK i \in DOMAIN wait_queue : wait_queue'[j] = wait_queue[i] /\ i # k
      BY SMTT(30), <1>11
    <3>2. Queued(fd)
      BY Zenon, <1>3, <3>1 DEF WaitInv
    <3>3. fd # h.sock
      <4> SUFFICES ASSUME fd = h.sock PROVE FALSE
        OBVIOUS
      <4>1. wait_queue[i] = h.reg
        BY <1>6, <3>1
      <4>2. k < i
        BY SMTT(30), <1>4, <2>0, <3>1, <4>1
      <4>3. wait_queue[i][2] < wait_queue[k][2]
        BY Zenon, <1>3, <1>4, <4>1, <4>2 DEF WaitInv, r
      <4>4. wait_queue[k][2] <= h.reg[2]
        BY Zenon, <1>4, <1>7 DEF r
      <4> QED
        BY <1>4, <2>0, <4>1, <4>3, <4>4
    <3> QED
      BY Zenon, <1>7, <3>2, <3>3
  <2>4. \A i \in DOMAIN ust_cmd_queue' : \A fd \in Fds :
          /\ ust_cmd_queue'[i].type = "cmd"
          /\ file'[fd] = <<ust_cmd_queue'[i].reg, "notify">>
          => Queued(fd)'
    <3> SUFFICES ASSUME NEW i \in DOMAIN ust_cmd_queue', NEW fd \in Fds,
                        ust_cmd_queue'[i].type = "cmd",
                        file[fd] = <<ust_cmd_queue'[i].reg, "notify">>
                 PROVE  Queued(fd)'
      BY Zenon, <1>1
    <3>1. i + 1 \in DOMAIN ust_cmd_queue /\ ust_cmd_queue'[i] = ust_cmd_queue[i + 1]
      BY Zenon, <1>7
    <3>2. Queued(fd)
      BY <1>3, <3>1 DEF WaitInv
    <3>3. ust_cmd_queue'[i].reg # h.reg
      <4>1. h.reg[2] \in Nat
        BY <1>6 DEF Regs
      <4> QED
        BY <1>7, <4>1
    <3>4. fd # h.sock
      BY SMTT(30), <1>6, <3>3
    <3> QED
      BY <1>7, <3>2, <3>4
  <2> QED
    BY Zenon, <2>1, <2>2, <2>3, <2>4 DEF WaitInv
<1>16. \A q \in Regs : /\ app'[q] # None <=> app[q] # None
                       /\ app[q] # None => app'[q].sock = app[q].sock
  BY Zenon, <1>8, <1>9
<1>17. AppInv'
  <2>1. \A q \in Regs : app'[q] # None => file'[app'[q].sock] = <<q, "cmd">>
    BY Zenon, <1>1, <1>3, <1>16 DEF AppInv
  <2>2. \A i \in DOMAIN ust_cmd_queue' :
          ust_cmd_queue'[i].type = "cmd" => app'[ust_cmd_queue'[i].reg] = None
    BY <1>3, <1>7, <1>16, CmdTypes DEF AppInv
  <2>3. /\ \A q \in Regs : Waits(q)' \/ Active(q)' \/ Dies(q)' => app'[q] # None
        /\ \A q \in Regs : Waits(q)' => ~Active(q)'
        /\ \A q \in Regs : Waits(q)' => ~Dies(q)'
        /\ \A q \in Regs : Active(q)' => ~Dies(q)'
    BY Zenon, <1>3, <1>8, <1>9, <1>13, <1>14, <1>16 DEF AppInv
  <2>4. /\ \A q \in ust_app_ht' : Active(q)'
        /\ \A q \in ust_app_ht_by_notify_sock' : Active(q)'
    <3>1. /\ \A q \in ust_app_ht' : q \in Regs /\ (q \in ust_app_ht \/ q = r)
          /\ \A q \in ust_app_ht_by_notify_sock' :
               q \in Regs /\ (q \in ust_app_ht_by_notify_sock \/ q = r)
      BY SMTT(30), <1>1, <1>3, <1>8 DEF TypeInv, r
    <3> QED
      BY <1>3, <1>14, <3>1 DEF AppInv
  <2> QED
    BY <2>1, <2>2, <2>3, <2>4 DEF AppInv
<1>18. CallbackInv'
  <2>1. \A c \in callbacks : c.kind = "app" => app[c.reg] # None
    BY <1>3 DEF AppInv, Dies, CallbackInv
  <2> QED
    BY Zenon, <1>1, <1>3, <1>16, <2>1 DEF CallbackInv
<1>19. RefInv'
  <2>1. \A j \in DOMAIN wait_queue' : app'[wait_queue'[j]].ref = 1
    <3> SUFFICES ASSUME NEW j \in DOMAIN wait_queue'
                 PROVE  app'[wait_queue'[j]].ref = 1
      OBVIOUS
    <3>1. PICK i \in DOMAIN wait_queue : wait_queue'[j] = wait_queue[i] /\ i # k
      BY <1>11
    <3>2. wait_queue[i] # r
      BY Zenon, <1>4, <1>12, <3>1 DEF r
    <3>3. wait_queue \in Seq(Regs)
      BY Zenon, <1>3 DEF TypeInv
    <3>4. wait_queue[i] \in Regs
      BY <3>1, <3>3
    <3> QED
      BY Zenon, <1>3, <1>9, <3>1, <3>2, <3>4 DEF RefInv
  <2>2. \A q \in Regs : Active(q) => app'[q] = app[q] /\ q # r
    BY <1>8, <1>9
  <2>3. \A q \in ust_app_ht_by_sock' : app'[q].ref = IF client' = q THEN 2 ELSE 1
    <3>1. \A q \in ust_app_ht_by_sock' : q \in Regs /\ (q \in ust_app_ht_by_sock \/ q = r)
      BY <1>1, <1>3, <1>8 DEF TypeInv, r
    <3>2. client # r
      BY <1>1, <1>8, NoneAssumption
    <3> QED
      BY <1>1, <1>3, <1>9, <2>2, <3>1, <3>2 DEF RefInv, Active
  <2>4. releasing["manage"] # None
         => /\ app'[releasing["manage"]].ref = 0
            /\ releasing["manage"] \notin ust_app_ht_by_sock'
    <3>1. releasing["manage"] # None =>
             releasing["manage"] \in Regs /\ Active(releasing["manage"])
      BY <1>3 DEF TypeInv, Active
    <3> QED
      BY Zenon, <1>1, <1>3, <2>2, <3>1 DEF RefInv, r
  <2> QED
    BY SMTT(30), <1>1, <1>3, <2>1, <2>3, <2>4 DEF RefInv
<1>20. ManageInv'
  <2>1. InSection' /\ dispatch'.app = r
    BY Zenon, <1>1 DEF InSection, r
  <2>2. \A q \in ust_app_ht_by_sock : q \in Regs /\ q # r /\ app[q] # None /\ app'[q] = app[q]
    BY <1>3, <1>8, <1>9 DEF AppInv, Active, TypeInv
  <2>3. \A q \in ust_app_ht_by_sock : app[q].sock # app[r].sock
    BY Zenon, <1>8, <2>2, SocketsDiffer
  <2>4. \A fd \in Fds :
         fd \in manage.polled \/ (\E i \in DOMAIN manage.pipe : manage.pipe[i] = fd)
           => fd # app[r].sock /\ \E q \in ust_app_ht_by_sock : app'[q].sock = fd
    <3>1. \A fd \in Fds :
             fd \in manage.polled \/ (\E i \in DOMAIN manage.pipe : manage.pipe[i] = fd)
               => \E q \in ust_app_ht_by_sock : app[q].sock = fd
      BY Zenon, <1>3 DEF ManageInv
    <3>2. \A q \in ust_app_ht_by_sock : app'[q].sock = app[q].sock
      BY <2>2
    <3> QED
      BY Zenon, <2>3, <3>1, <3>2
  <2>5. /\ manage.polled \subseteq Fds
        /\ \A i \in DOMAIN manage.pipe : manage.pipe[i] \in Fds
    BY SMTT(30), <1>3 DEF TypeInv
  <2>6. /\ app'[r].sock \notin manage.polled
        /\ \A i \in DOMAIN manage.pipe : manage.pipe[i] # app'[r].sock
    BY <1>9, <2>4, <2>5
  <2>7. ust_app_ht_by_sock \subseteq ust_app_ht_by_sock' /\ r \in ust_app_ht_by_sock'
    BY <1>1 DEF r
  <2>8. \A fd \in Fds :
         fd \in manage.polled \/ (\E i \in DOMAIN manage.pipe : manage.pipe[i] = fd)
           => \E q \in ust_app_ht_by_sock' : app'[q].sock = fd
    BY Zenon, <2>4, <2>7
  <2> QED
    BY <1>1, <1>3, <2>1, <2>6, <2>7, <2>8 DEF ManageInv
<1>21. /\ \A fd \in Fds : Piped(fd)' <=> Piped(fd) \/ fd = h.sock
       /\ notify'.polled = notify.polled
       /\ \A fd \in Fds : Closing(fd)' <=> Closing(fd)
       /\ ~Piped(h.sock) /\ h.sock \notin notify.polled /\ ~Closing(h.sock)
  <2> DEFINE n == Len(notify.pipe) + 1
  <2>1. notify.pipe \in Seq(Fds) /\ notify'.pipe = Append(notify.pipe, h.sock)
        /\ notify'.polled = notify.polled
    BY <1>1, <1>3 DEF TypeInv
  <2>2. /\ DOMAIN notify'.pipe = DOMAIN notify.pipe \cup {n}
        /\ \A i \in DOMAIN notify.pipe : notify'.pipe[i] = notify.pipe[i]
        /\ notify'.pipe[n] = h.sock
    BY <1>6, <2>1, Appended
  <2> HIDE DEF n
  <2>3. \A fd \in Fds : Piped(fd)' <=> Piped(fd) \/ fd = h.sock
    BY <2>2 DEF Piped
  <2>4. \A fd \in Fds : Closing(fd)' <=> Closing(fd)
    BY Zenon, <1>1 DEF Closing
  <2>5. ~Piped(h.sock) /\ h.sock \notin notify.polled /\ ~Closing(h.sock)
    BY <1>3, <1>6 DEF NotifyInv
  <2> QED
    BY <2>1, <2>3, <2>4, <2>5
<1>22. NotifyInv'
  <2>1. \A i, j \in DOMAIN notify'.pipe : notify'.pipe[i] = notify'.pipe[j] => i = j
    <3> DEFINE n == Len(notify.pipe) + 1
    <3>1. notify.pipe \in Seq(Fds) /\ notify'.pipe = Append(notify.pipe, h.sock)
      BY Zenon, <1>1, <1>3 DEF TypeInv
    <3>2. /\ DOMAIN notify'.pipe = DOMAIN notify.pipe \cup {n}
          /\ \A i \in DOMAIN notify.pipe : notify'.pipe[i] = notify.pipe[i]
          /\ notify'.pipe[n] = h.sock
      BY <1>6, <3>1, Appended
    <3> HIDE DEF n
    <3> QED
      BY <1>3, <1>21, <3>2 DEF NotifyInv, Piped
  <2>2. file[h.sock] # None /\ file[h.sock][2] = "notify"
    BY <1>6, SocketParts
  <2> QED
    BY Zenon, <1>1, <1>3, <1>6, <1>7, <1>21, <2>1, <2>2 DEF NotifyInv
<1>23. HeldInv'
  BY <1>1, <1>3, <1>7, <1>16, <1>21 DEF HeldInv
<1> QED
  BY <1>1, <1>3, <1>7, <1>15, <1>17, <1>18, <1>19, <1>20, <1>22, <1>23, PeerFrame DEF IInv

LEMMA SanitizeKeeps ==
    ASSUME IInv, TypeInv', sanitize_wait_queue
    PROVE  IInv'
<1>1. PICK k \in 0 .. Len(wait_queue) :
        /\ wait_queue' = SubSeq(wait_queue, k + 1, Len(wait_queue))
        /\ callbacks' = callbacks \cup Deferred({wait_queue[i] : i \in 1 .. k})
  BY Zenon DEF sanitize_wait_queue
<1>2. /\ dispatch' = [dispatch EXCEPT !.pc = "dequeue"] /\ dispatch.pc = "sanitize"
      /\ UNCHANGED <<peer, file, ust_cmd_queue, app, tablesAndUsers, notify, manage>>
  BY DEF sanitize_wait_queue, tables, tablesAndUsers
<1>3. /\ TypeInv /\ PeerInv /\ QueueInv /\ WaitInv /\ AppInv /\ CallbackInv /\ RefInv
      /\ ManageInv /\ NotifyInv /\ HeldInv
  BY Zenon DEF IInv
<1>4. /\ Len(wait_queue) \in Nat /\ DOMAIN wait_queue = 1 .. Len(wait_queue)
      /\ \A i \in DOMAIN wait_queue : wait_queue[i] \in Regs /\ Waits(wait_queue[i])
  BY SMTT(30), <1>3 DEF TypeInv, Waits
<1>5. /\ DOMAIN wait_queue' = 1 .. Len(wait_queue) - k
      /\ \A j \in DOMAIN wait_queue' : /\ k + j \in DOMAIN wait_queue
                                       /\ wait_queue'[j] = wait_queue[k + j]
  <2>1. wait_queue \in Seq(Regs)
    BY <1>3 DEF TypeInv
  <2>2. /\ DOMAIN wait_queue' = 1 .. Len(wait_queue) - k
        /\ \A j \in 1 .. Len(wait_queue) - k : wait_queue'[j] = wait_queue[k + j]
    BY SMTT(30), <1>1, <1>4, <2>1
  <2> QED
    BY <1>4, <2>2
<1>6. \A i, j \in DOMAIN wait_queue : wait_queue[i] = wait_queue[j] => i = j
  <2>1. \A i \in DOMAIN wait_queue : i \in Nat /\ wait_queue[i][2] \in Int
    BY <1>4 DEF Regs
  <2> QED
    BY <1>3, <2>1 DEF WaitInv
<1> DEFINE Gone(r) == \E i \in 1 .. k : wait_queue[i] = r
<1>7. \A r \in Regs : Waits(r)' <=> Waits(r) /\ ~Gone(r)
  <2>1. ASSUME NEW r \in Regs, Waits(r)' PROVE Waits(r) /\ ~Gone(r)
    <3>1. PICK j \in DOMAIN wait_queue' : wait_queue'[j] = r
      BY Zenon, <2>1 DEF Waits
    <3>2. k + j \in DOMAIN wait_queue /\ wait_queue[k + j] = r /\ k + j > k /\ 1 .. k \subseteq DOMAIN wait_queue
      BY <1>4, <1>5, <3>1
    <3> QED
      BY <1>4, <1>6, <3>2
  <2>2. ASSUME NEW r \in Regs, Waits(r), ~Gone(r) PROVE Waits(r)'
    <3>1. PICK i \in DOMAIN wait_queue : wait_queue[i] = r
      BY Zenon, <2>2 DEF Waits
    <3>2. i - k \in DOMAIN wait_queue' /\ k + (i - k) = i
      BY <1>4, <1>5, <2>2, <3>1
    <3>3. wait_queue'[i - k] = r
      BY <1>5, <3>1, <3>2
    <3> QED
      BY <3>2, <3>3 DEF Waits
  <2> QED
    BY <2>1, <2>2
<1>8. \A r \in Regs : Gone(r) => Waits(r)
  BY <1>4
<1>9. \A c : c \in callbacks' <=> c \in callbacks \/ \E r \in Regs : Gone(r) /\ c = call_rcu("app", r, app[r].sock)
  <2>1. \A r : r \in {wait_queue[i] : i \in 1 .. k} <=> r \in Regs /\ Gone(r)
    BY <1>4
  <2> DEFINE gone == {wait_queue[i] : i \in 1 .. k}
             freed(r) == call_rcu("app", r, app[r].sock)
  <2>2. callbacks' = callbacks \cup {freed(r) : r \in gone}
    BY <1>1 DEF Deferred
  <2> HIDE DEF gone, freed
  <2>3. \A c : c \in callbacks' <=> c \in callbacks \/ \E r \in gone : c = freed(r)
    BY <2>2
  <2>4. \A r : r \in gone <=> r \in Regs /\ Gone(r)
    BY <2>1 DEF gone
  <2> HIDE DEF Gone
  <2>5. \A c : c \in callbacks' <=> c \in callbacks \/ \E r \in Regs : Gone(r) /\ c = freed(r)
    BY <2>3, <2>4
  <2> QED
    BY <2>5 DEF freed
<1>10. \A r \in Regs : LET c == call_rcu("app", r, app[r].sock)
                       IN  c.kind = "app" /\ c.reg = r /\ c.fd = app[r].sock
  BY DEF call_rcu
<1> HIDE DEF Gone
<1>11. \A r \in Regs : Dies(r)' <=> Dies(r) \/ Gone(r)
  <2>1. ASSUME NEW r \in Regs, Dies(r)' PROVE Dies(r) \/ Gone(r)
    <3>1. PICK c \in callbacks' : c.kind = "app" /\ c.reg = r
      BY <2>1 DEF Dies
    <3> QED
      BY <1>9, <1>10, <3>1 DEF Dies
  <2>2. ASSUME NEW r \in Regs, Dies(r) PROVE Dies(r)'
    BY <1>9, <2>2 DEF Dies
  <2>3. ASSUME NEW r \in Regs, Gone(r) PROVE Dies(r)'
    <3> DEFINE c == call_rcu("app", r, app[r].sock)
    <3>1. c \in callbacks' /\ c.kind = "app" /\ c.reg = r
      BY <1>9, <1>10, <2>3
    <3> HIDE DEF c
    <3> QED
      BY Zenon, <3>1 DEF Dies
  <2> QED
    BY Zenon, <2>1, <2>2, <2>3
<1>12. \A fd \in Fds : Closing(fd)' <=> Closing(fd)
  <2>1. \A c \in callbacks' : c.kind = "notify" => c \in callbacks
    BY <1>9, <1>10
  <2>2. callbacks \subseteq callbacks'
    BY <1>9
  <2> QED
    BY Zenon, <2>1, <2>2 DEF Closing
<1>13. \A r : Active(r)' <=> Active(r)
  BY <1>2 DEF Active, tablesAndUsers
<1>14. WaitInv'
  <2>1. \A i, j \in DOMAIN wait_queue' :
          i < j /\ Pid(wait_queue'[i]) = Pid(wait_queue'[j])
            => wait_queue'[j][2] < wait_queue'[i][2]
    <3>1. \A i, j \in DOMAIN wait_queue' : i < j => k + i < k + j
      BY <1>4, <1>5
    <3> QED
      BY <1>3, <1>5, <3>1 DEF WaitInv
  <2>2. \A fd \in Fds : Queued(fd)' <=> Queued(fd)
    BY <1>2 DEF Queued
  <2> QED
    BY Zenon, <1>2, <1>3, <1>5, <2>1, <2>2 DEF WaitInv
<1>15. AppInv'
  <2>1. /\ \A r \in Regs : Waits(r)' \/ Active(r)' \/ Dies(r)' => app'[r] # None
        /\ \A r \in Regs : Waits(r)' => ~Active(r)'
        /\ \A r \in Regs : Waits(r)' => ~Dies(r)'
        /\ \A r \in Regs : Active(r)' => ~Dies(r)'
    BY Zenon, <1>2, <1>3, <1>7, <1>8, <1>11, <1>13 DEF AppInv
  <2> QED
    BY <1>2, <1>3, <1>13, <2>1 DEF AppInv, tablesAndUsers
<1>16. CallbackInv'
  <2>1. \A c \in callbacks' : c.kind = "app" => c.reg \in Regs /\ c.fd = app'[c.reg].sock
    BY <1>2, <1>3, <1>9, <1>10 DEF CallbackInv
  <2>2. \A c, d \in callbacks' : c.kind = "app" /\ d.kind = "app" /\ c.reg = d.reg => c = d
    <3> SUFFICES ASSUME NEW c \in callbacks', NEW d \in callbacks',
                        c.kind = "app", d.kind = "app", c.reg = d.reg
                 PROVE  c = d
      OBVIOUS
    <3>1. c.reg \in Regs
      BY Zenon, <2>1
    <3>2. CASE Gone(c.reg)
      <4>1. ~Dies(c.reg)
        BY <1>3, <1>8, <3>1, <3>2 DEF AppInv
      <4>2. c \notin callbacks /\ d \notin callbacks
        BY Zenon, <4>1 DEF Dies
      <4> QED
        BY SMTT(30), <1>9, <1>10, <4>2
    <3>3. CASE ~Gone(c.reg)
      BY SMTT(30), <1>3, <1>9, <1>10, <3>3 DEF CallbackInv
    <3> QED
      BY <3>2, <3>3
  <2>3. \A c, d \in callbacks' : c.kind = "notify" /\ d.kind = "notify" /\ c.fd = d.fd => c = d
    BY <1>3, <1>9, <1>10 DEF CallbackInv
  <2> QED
    BY <2>1, <2>2, <2>3 DEF CallbackInv
<1>17. RefInv'
  BY <1>2, <1>3, <1>5 DEF RefInv, tablesAndUsers
<1>18. ManageInv'
  <2>1. ~InSection /\ ~InSection' /\ dispatch'.app = dispatch.app
    BY <1>2, <1>3 DEF InSection, TypeInv
  <2> QED
    BY <1>2, <1>3, <2>1 DEF ManageInv, tablesAndUsers
<1>19. NotifyInv'
  BY <1>2, <1>3, <1>12 DEF NotifyInv, Piped, Queued
<1>20. HeldInv'
  BY Zenon, <1>2, <1>3, <1>12 DEF HeldInv, Piped, Queued
<1> QED
  BY <1>2, <1>3, <1>14, <1>15, <1>16, <1>17, <1>18, <1>19, <1>20, PeerFrame, QueueFrame DEF IInv

\* A read lock is released: the callbacks stay the same but for their readers.
LEMMA UnlockedSame ==
    ASSUME IInv, NEW t
    PROVE  /\ \A c \in Unlocked(t) : \E d \in callbacks :
                c.kind = d.kind /\ c.reg = d.reg /\ c.fd = d.fd
           /\ \A d \in callbacks : \E c \in Unlocked(t) :
                c.kind = d.kind /\ c.reg = d.reg /\ c.fd = d.fd
           /\ \A c, d \in Unlocked(t) :
                c.kind = "app" /\ d.kind = "app" /\ c.reg = d.reg => c = d
           /\ \A c, d \in Unlocked(t) :
                c.kind = "notify" /\ d.kind = "notify" /\ c.fd = d.fd => c = d
<1> DEFINE u(c) == [c EXCEPT !.readers = @ \ {t}]
<1>1. callbacks \subseteq Callbacks /\ CallbackInv
  BY DEF IInv, TypeInv
<1>2. \A c \in Callbacks : u(c).kind = c.kind /\ u(c).reg = c.reg /\ u(c).fd = c.fd
  BY DEF Callbacks
<1>3. Unlocked(t) = {u(c) : c \in callbacks}
  BY DEF Unlocked
<1> HIDE DEF u
<1> QED
  BY <1>1, <1>2, <1>3 DEF CallbackInv

LEMMA SameCallbacks ==
    ASSUME IInv, NEW t, callbacks' = Unlocked(t)
    PROVE  /\ \A r \in Regs : Dies(r)' <=> Dies(r)
           /\ \A fd \in Fds : Closing(fd)' <=> Closing(fd)
           /\ (\A r \in Regs : app[r] # None => app'[r].sock = app[r].sock) => CallbackInv'
<1>1. /\ \A c \in callbacks' : \E d \in callbacks :
           c.kind = d.kind /\ c.reg = d.reg /\ c.fd = d.fd
      /\ \A d \in callbacks : \E c \in callbacks' :
           c.kind = d.kind /\ c.reg = d.reg /\ c.fd = d.fd
      /\ \A c, d \in callbacks' :
           c.kind = "app" /\ d.kind = "app" /\ c.reg = d.reg => c = d
      /\ \A c, d \in callbacks' :
           c.kind = "notify" /\ d.kind = "notify" /\ c.fd = d.fd => c = d
  BY Zenon, UnlockedSame
<1>2. \A r \in Regs : Dies(r)' <=> Dies(r)
  BY <1>1 DEF Dies
<1>3. \A fd \in Fds : Closing(fd)' <=> Closing(fd)
  BY SMTT(30), <1>1 DEF Closing
<1>4. \A c \in callbacks : c.kind = "app" => c.reg \in Regs /\ c.fd = app[c.reg].sock /\ app[c.reg] # None
  BY Zenon DEF IInv, CallbackInv, AppInv, Dies
<1>5. (\A r \in Regs : app[r] # None => app'[r].sock = app[r].sock) => CallbackInv'
  BY <1>1, <1>4 DEF CallbackInv
<1> QED
  BY Zenon, <1>2, <1>3, <1>5

\* The first of distinct elements is taken.
LEMMA TailOfDistinct ==
    ASSUME NEW S, NEW s \in Seq(S), s # <<>>,
           \A i, j \in DOMAIN s : s[i] = s[j] => i = j
    PROVE  /\ Tail(s) \in Seq(S) /\ Head(s) \in S
           /\ \A i, j \in DOMAIN Tail(s) : Tail(s)[i] = Tail(s)[j] => i = j
           /\ \A x : (\E i \in DOMAIN Tail(s) : Tail(s)[i] = x)
                    <=> (\E i \in DOMAIN s : s[i] = x) /\ x # Head(s)
           /\ \E i \in DOMAIN s : s[i] = Head(s)
<1>1. /\ Len(s) \in Nat /\ Len(s) > 0 /\ DOMAIN s = 1 .. Len(s)
      /\ Head(s) = s[1] /\ Head(s) \in S /\ Tail(s) \in Seq(S)
      /\ DOMAIN Tail(s) = 1 .. Len(s) - 1
      /\ \A i \in DOMAIN Tail(s) : i + 1 \in DOMAIN s /\ Tail(s)[i] = s[i + 1]
  BY HeadTail
<1>2. \A i, j \in DOMAIN Tail(s) : Tail(s)[i] = Tail(s)[j] => i = j
  BY <1>1
<1>3. ASSUME NEW i \in DOMAIN Tail(s) PROVE Tail(s)[i] # Head(s) /\ \E j \in DOMAIN s : s[j] = Tail(s)[i]
  BY <1>1, <1>3
<1>4. ASSUME NEW i \in DOMAIN s, s[i] # Head(s) PROVE \E j \in DOMAIN Tail(s) : Tail(s)[j] = s[i]
  <2>1. i - 1 \in DOMAIN Tail(s) /\ (i - 1) + 1 = i
    BY SMTT(30), <1>1, <1>4
  <2> QED
    BY <1>1, <2>1
<1> QED
  BY <1>1, <1>2, <1>3, <1>4

LEMMA SendToManageKeeps ==
    ASSUME IInv, TypeInv', SendToManage
    PROVE  IInv'
<1>1. /\ TypeInv /\ PeerInv /\ QueueInv /\ WaitInv /\ AppInv /\ CallbackInv /\ RefInv
      /\ ManageInv /\ NotifyInv /\ HeldInv
  BY DEF IInv
<1>2. /\ callbacks' = Unlocked("dispatch")
      /\ UNCHANGED <<peer, file, ust_cmd_queue, wait_queue, app, tablesAndUsers, notify>>
  BY DEF SendToManage, tables, tablesAndUsers
<1>3. /\ \A r \in Regs : Dies(r)' <=> Dies(r)
      /\ \A fd \in Fds : Closing(fd)' <=> Closing(fd)
      /\ CallbackInv'
  BY <1>2, SameCallbacks
<1>4. AppInv'
  BY Zenon, <1>1, <1>2, <1>3 DEF AppInv, Waits, Active, tablesAndUsers
<1>5. NotifyInv' /\ HeldInv'
  BY Zenon, <1>1, <1>2, <1>3 DEF NotifyInv, HeldInv, Piped, Queued
<1>6. ManageInv'
  <2> DEFINE s == app[dispatch.app].sock
  <2>1. InSection /\ dispatch.app \in ust_app_ht_by_sock /\ dispatch.app \in Regs
    BY <1>1 DEF SendToManage, InSection, ManageInv, TypeInv
  <2>2. s \in Fds
    <3>1. app[dispatch.app] \in Apps
      BY Zenon, <1>1, <2>1 DEF AppInv, Active, TypeInv
    <3> QED
      BY Zenon, <3>1 DEF Apps
  <2>3. manage.pipe \in Seq(Fds)
    BY <1>1 DEF TypeInv
  <2>4. manage'.pipe = Append(manage.pipe, s) /\ manage'.polled = manage.polled
    BY <1>1 DEF SendToManage, TypeInv
  <2>5. ~InSection' /\ dispatch'.app = None
    BY SMTT(30) DEF SendToManage, InSection
  <2>6. /\ s \notin manage.polled
        /\ \A i \in DOMAIN manage.pipe : manage.pipe[i] # s
    BY Zenon, <1>1, <2>1 DEF ManageInv
  <2>7. /\ Len(manage.pipe) \in Nat
        /\ DOMAIN manage.pipe = 1 .. Len(manage.pipe)
        /\ DOMAIN manage'.pipe = 1 .. Len(manage.pipe) + 1
        /\ \A i \in DOMAIN manage.pipe : manage'.pipe[i] = manage.pipe[i]
        /\ manage'.pipe[Len(manage.pipe) + 1] = s
    <3> HIDE DEF s
    <3> QED
      BY <2>2, <2>3, <2>4, Appended
  <2>8. \E r \in ust_app_ht_by_sock : app[r].sock = s
    BY Zenon, <2>1
  <2> HIDE DEF s
  <2>9. \A i, j \in DOMAIN manage'.pipe : manage'.pipe[i] = manage'.pipe[j] => i = j
    BY SMTT(30), <1>1, <2>6, <2>7 DEF ManageInv
  <2>10. \A i \in DOMAIN manage'.pipe : manage'.pipe[i] \notin manage'.polled
    BY SMTT(30), <1>1, <2>4, <2>6, <2>7 DEF ManageInv
  <2>11. \A fd \in Fds :
         fd \in manage'.polled \/ (\E i \in DOMAIN manage'.pipe : manage'.pipe[i] = fd)
           => \E r \in ust_app_ht_by_sock : app[r].sock = fd
    BY SMTT(30), <1>1, <2>4, <2>7, <2>8 DEF ManageInv
  <2> QED
    BY Zenon, <1>2, <2>5, <2>9, <2>10, <2>11 DEF ManageInv, tablesAndUsers
<1> QED
  BY <1>1, <1>2, <1>3, <1>4, <1>5, <1>6, PeerFrame, QueueFrame, WaitFrame, RefFrame
  DEF IInv, tablesAndUsers

-----------------------------------------------------------------------------
\* The notification thread.

LEMMA NotifyReadsKeeps ==
    ASSUME IInv, TypeInv', NotifyReads
    PROVE  IInv'
<1>1. /\ TypeInv /\ PeerInv /\ QueueInv /\ WaitInv /\ AppInv /\ CallbackInv /\ RefInv
      /\ ManageInv /\ NotifyInv /\ HeldInv
  BY DEF IInv
<1>2. UNCHANGED <<peer, file, ust_cmd_queue, wait_queue, app, tablesAndUsers, manage,
                  dispatch, callbacks>>
  BY Zenon DEF NotifyReads, tables, tablesAndUsers
<1> DEFINE p == notify.pipe
           h == Head(p)
<1>3. p \in Seq(Fds) /\ p # <<>> /\ \A i, j \in DOMAIN p : p[i] = p[j] => i = j
  BY Zenon, <1>1 DEF TypeInv, NotifyReads, NotifyInv
<1>4. notify'.pipe = Tail(p) /\ notify'.polled = notify.polled \cup {h}
  BY Zenon DEF NotifyReads
<1>5. /\ h \in Fds /\ Piped(h)
      /\ \A i, j \in DOMAIN notify'.pipe : notify'.pipe[i] = notify'.pipe[j] => i = j
      /\ \A fd : Piped(fd)' <=> Piped(fd) /\ fd # h
  <2> HIDE DEF p
  <2>1. /\ Head(p) \in Fds
        /\ \A i, j \in DOMAIN Tail(p) : Tail(p)[i] = Tail(p)[j] => i = j
        /\ \A x : (\E i \in DOMAIN Tail(p) : Tail(p)[i] = x)
                    <=> (\E i \in DOMAIN p : p[i] = x) /\ x # Head(p)
        /\ \E i \in DOMAIN p : p[i] = Head(p)
    BY Zenon, <1>3, TailOfDistinct
  <2>2. \A fd : Piped(fd) <=> \E i \in DOMAIN p : p[i] = fd
    BY DEF Piped, p
  <2>3. \A fd : Piped(fd)' <=> \E i \in DOMAIN Tail(p) : Tail(p)[i] = fd
    BY <1>4 DEF Piped
  <2>4. \A fd : Piped(fd)' <=> Piped(fd) /\ fd # Head(p)
    BY Zenon, <2>1, <2>2, <2>3
  <2> QED
    BY Zenon, <1>4, <2>1, <2>2, <2>4
<1>6. \A fd : (Closing(fd)' <=> Closing(fd)) /\ (Queued(fd)' <=> Queued(fd))
  BY <1>2 DEF Closing, Queued
<1> HIDE DEF p, h
<1>7. NotifyInv'
  <2>1. \A fd \in Fds : Piped(fd)' => fd \notin notify'.polled
    BY Zenon, <1>1, <1>4, <1>5 DEF NotifyInv
  <2>2. \A fd \in Fds : Piped(fd)' \/ fd \in notify'.polled =>
                          Piped(fd) \/ fd \in notify.polled
    BY Zenon, <1>4, <1>5
  <2>3. file' = file
    BY Zenon, <1>2
  <2> QED
    BY Zenon, <1>1, <1>5, <1>6, <2>1, <2>2, <2>3 DEF NotifyInv
<1>8. HeldInv'
  BY Zenon, <1>1, <1>2, <1>4, <1>5, <1>6 DEF HeldInv
<1> QED
  BY Zenon, <1>1, <1>2, <1>7, <1>8, PeerFrame, QueueFrame, WaitFrame, AppFrame, CallbackFrame,
     RefFrame, ManageFrame
  DEF IInv, tablesAndUsers

\* A notify socket nothing else leads to is closed.
LEMMA ClosedNotify ==
    ASSUME IInv, NEW fd \in Fds, Piped(fd) \/ Closing(fd),
           file' = [file EXCEPT ![fd] = None]
    PROVE  /\ file'[fd] = None /\ \A fe \in Fds : fe # fd => file'[fe] = file[fe]
           /\ ~Queued(fd) /\ fd \notin notify.polled
           /\ Piped(fd) => ~Closing(fd)
           /\ \A r \in Regs : app[r] # None => app[r].sock \in Fds /\ app[r].sock # fd
<1>1. TypeInv /\ AppInv /\ NotifyInv
  BY SMTT(30) DEF IInv
<1>2. file[fd] # None /\ file[fd][2] = "notify" /\ ~Queued(fd) /\ fd \notin notify.polled
  BY Zenon, <1>1 DEF NotifyInv
<1>3. file'[fd] = None /\ \A fe \in Fds : fe # fd => file'[fe] = file[fe]
  BY <1>1 DEF TypeInv
<1>4. ASSUME NEW r \in Regs, app[r] # None PROVE app[r].sock \in Fds /\ app[r].sock # fd
  <2>1. app[r] \in Apps
    BY Zenon, <1>1, <1>4 DEF TypeInv
  <2>2. file[app[r].sock] = <<r, "cmd">>
    BY <1>1, <1>4 DEF AppInv
  <2>3. file[app[r].sock][2] = "cmd"
    BY SMTT(30), <2>2, SocketParts
  <2> QED
    BY <1>2, <2>1, <2>3 DEF Apps
<1> QED
  BY Zenon, <1>1, <1>2, <1>3, <1>4 DEF NotifyInv

LEMMA NotifyReadFailsKeeps ==
    ASSUME IInv, TypeInv', NotifyReadFails
    PROVE  IInv'
<1>1. /\ TypeInv /\ PeerInv /\ QueueInv /\ WaitInv /\ AppInv /\ CallbackInv /\ RefInv
      /\ ManageInv /\ NotifyInv /\ HeldInv
  BY DEF IInv
<1>2. UNCHANGED <<peer, ust_cmd_queue, wait_queue, app, tablesAndUsers, manage,
                  dispatch, callbacks>>
  BY DEF NotifyReadFails, tables, tablesAndUsers
<1> DEFINE p == notify.pipe
           h == Head(p)
<1>3. p \in Seq(Fds) /\ p # <<>> /\ \A i, j \in DOMAIN p : p[i] = p[j] => i = j
  BY <1>1 DEF TypeInv, NotifyReadFails, NotifyInv
<1>4. notify'.pipe = Tail(p) /\ notify'.polled = notify.polled /\ file' = [file EXCEPT ![h] = None]
  BY SMTT(30), <1>1 DEF NotifyReadFails, TypeInv
<1>5. /\ h \in Fds /\ Piped(h)
      /\ \A i, j \in DOMAIN notify'.pipe : notify'.pipe[i] = notify'.pipe[j] => i = j
      /\ \A fd : Piped(fd)' <=> Piped(fd) /\ fd # h
  <2> HIDE DEF p
  <2>1. /\ Head(p) \in Fds
        /\ \A i, j \in DOMAIN Tail(p) : Tail(p)[i] = Tail(p)[j] => i = j
        /\ \A x : (\E i \in DOMAIN Tail(p) : Tail(p)[i] = x)
                    <=> (\E i \in DOMAIN p : p[i] = x) /\ x # Head(p)
        /\ \E i \in DOMAIN p : p[i] = Head(p)
    BY Zenon, <1>3, TailOfDistinct
  <2>2. \A fd : Piped(fd) <=> \E i \in DOMAIN p : p[i] = fd
    BY DEF Piped, p
  <2>3. \A fd : Piped(fd)' <=> \E i \in DOMAIN Tail(p) : Tail(p)[i] = fd
    BY <1>4 DEF Piped
  <2> QED
    BY Zenon, <1>4, <2>1, <2>2, <2>3
<1>6. \A fd : (Closing(fd)' <=> Closing(fd)) /\ (Queued(fd)' <=> Queued(fd))
  BY <1>2 DEF Closing, Queued
<1> HIDE DEF p, h
<1>7. /\ file'[h] = None /\ \A fe \in Fds : fe # h => file'[fe] = file[fe]
      /\ ~Queued(h) /\ h \notin notify.polled /\ ~Closing(h)
      /\ \A r \in Regs : app[r] # None => app[r].sock \in Fds /\ app[r].sock # h
  BY Zenon, <1>4, <1>5, ClosedNotify
<1>8. NotifyInv'
  BY Zenon, <1>1, <1>2, <1>4, <1>5, <1>6, <1>7 DEF NotifyInv
<1>9. HeldInv'
  BY Zenon, <1>1, <1>2, <1>4, <1>5, <1>6, <1>7 DEF HeldInv
<1> QED
  BY Zenon, <1>1, <1>2, <1>7, <1>8, <1>9, PeerFrame, QueueFrame, WaitFrame, AppFrame, CallbackFrame,
     RefFrame, ManageFrame
  DEF IInv, tablesAndUsers

LEMMA NotifyUnregisterKeeps ==
    ASSUME IInv, TypeInv', NEW fd \in Fds, ust_app_notify_sock_unregister(fd)
    PROVE  IInv'
<1>1. /\ TypeInv /\ PeerInv /\ QueueInv /\ WaitInv /\ AppInv /\ CallbackInv /\ RefInv
      /\ ManageInv /\ NotifyInv /\ HeldInv
  BY DEF IInv
<1>2. /\ UNCHANGED <<peer, file, ust_cmd_queue, dispatch, wait_queue, app, ust_app_ht,
                     ust_app_ht_by_sock, manage, client, releasing>>
      /\ ust_app_ht_by_notify_sock' \subseteq ust_app_ht_by_notify_sock
      /\ fd \in notify.polled
  BY DEF ust_app_notify_sock_unregister
<1>3. notify'.pipe = notify.pipe /\ notify'.polled = notify.polled \ {fd}
  BY <1>1 DEF ust_app_notify_sock_unregister, TypeInv
<1> DEFINE c0 == call_rcu("notify", None, fd)
<1>4. callbacks' = callbacks \cup {c0} /\ c0.kind = "notify" /\ c0.fd = fd
  BY DEF ust_app_notify_sock_unregister, call_rcu
<1> HIDE DEF c0
<1>5. \A r : Dies(r)' <=> Dies(r)
  BY <1>4 DEF Dies
<1>6. \A fe : Closing(fe)' <=> Closing(fe) \/ fe = fd
  BY Zenon, <1>4 DEF Closing
<1>7. \A fe : (Piped(fe)' <=> Piped(fe)) /\ (Queued(fe)' <=> Queued(fe))
  BY <1>2, <1>3 DEF Piped, Queued
<1>8. AppInv'
  BY Zenon, <1>1, <1>2, <1>5 DEF AppInv, Waits, Active
<1>9. CallbackInv'
  <2>1. ~Closing(fd)
    BY Zenon, <1>1, <1>2 DEF NotifyInv
  <2> QED
    BY Zenon, <1>1, <1>2, <1>4, <2>1 DEF CallbackInv, Closing
<1>10. NotifyInv'
  BY Zenon, <1>1, <1>2, <1>3, <1>6, <1>7 DEF NotifyInv
<1>11. HeldInv'
  BY Zenon, <1>1, <1>2, <1>3, <1>6, <1>7 DEF HeldInv
<1> QED
  BY <1>1, <1>2, <1>8, <1>9, <1>10, <1>11, PeerFrame, QueueFrame, WaitFrame,
     RefFrame, ManageFrame
  DEF IInv

-----------------------------------------------------------------------------
\* The management thread and the commands of clients.

LEMMA ManageReadsKeeps ==
    ASSUME IInv, TypeInv', ManageReads
    PROVE  IInv'
<1>1. /\ TypeInv /\ PeerInv /\ QueueInv /\ WaitInv /\ AppInv /\ CallbackInv /\ RefInv
      /\ ManageInv /\ NotifyInv /\ HeldInv
  BY DEF IInv
<1>2. UNCHANGED <<peer, file, ust_cmd_queue, wait_queue, app, tablesAndUsers, notify,
                  dispatch, callbacks>>
  BY Zenon DEF ManageReads, tables, tablesAndUsers
<1> DEFINE p == manage.pipe
           h == Head(p)
<1>3. p \in Seq(Fds) /\ p # <<>> /\ \A i, j \in DOMAIN p : p[i] = p[j] => i = j
  BY Zenon, <1>1 DEF TypeInv, ManageReads, ManageInv
<1>4. manage'.pipe = Tail(p) /\ manage'.polled = manage.polled \cup {h}
  BY Zenon DEF ManageReads
<1>5. ManageInv'
  <2> HIDE DEF p
  <2>1. /\ \A i, j \in DOMAIN Tail(p) : Tail(p)[i] = Tail(p)[j] => i = j
        /\ \A x : (\E i \in DOMAIN Tail(p) : Tail(p)[i] = x)
                    <=> (\E i \in DOMAIN p : p[i] = x) /\ x # h
        /\ \E i \in DOMAIN p : p[i] = h
    BY Zenon, <1>3, TailOfDistinct
  <2> HIDE DEF h
  <2>2. (InSection' <=> InSection) /\ dispatch' = dispatch
    BY Zenon, <1>2 DEF InSection
  <2>3. /\ \A i \in DOMAIN p : p[i] \notin manage.polled
        /\ InSection => /\ app[dispatch.app].sock \notin manage.polled
                        /\ \A i \in DOMAIN p : p[i] # app[dispatch.app].sock
        /\ \A fd \in Fds :
             fd \in manage.polled \/ (\E i \in DOMAIN p : p[i] = fd)
               => \E r \in ust_app_ht_by_sock : app[r].sock = fd
    BY Zenon, <1>1 DEF ManageInv, p
  <2>4. \A i \in DOMAIN manage'.pipe : manage'.pipe[i] \notin manage'.polled
    BY SMTT(60), <1>4, <2>1, <2>3
  <2>5. InSection' => /\ app'[dispatch'.app].sock \notin manage'.polled
                      /\ \A i \in DOMAIN manage'.pipe :
                           manage'.pipe[i] # app'[dispatch'.app].sock
    <3> DEFINE s == app[dispatch.app].sock
    <3>1. app'[dispatch'.app].sock = s
      BY <1>2
    <3>2. InSection => s \notin manage.polled /\ \A i \in DOMAIN p : p[i] # s
      BY <2>3
    <3> HIDE DEF s
    <3>3. InSection => s # h /\ \A i \in DOMAIN Tail(p) : Tail(p)[i] # s
      BY Zenon, <2>1, <3>2
    <3> QED
      BY Zenon, <1>4, <2>2, <3>1, <3>2, <3>3
  <2>6. \A fd \in Fds :
             fd \in manage'.polled \/ (\E i \in DOMAIN manage'.pipe : manage'.pipe[i] = fd)
               => \E r \in ust_app_ht_by_sock : app[r].sock = fd
    BY SMTT(30), <1>4, <2>1, <2>3
  <2> QED
    BY Zenon, <1>1, <1>2, <1>4, <2>1, <2>2, <2>4, <2>5, <2>6 DEF ManageInv, tablesAndUsers
<1> QED
  BY Zenon, <1>1, <1>2, <1>5, PeerFrame, QueueFrame, WaitFrame, AppFrame, CallbackFrame,
     RefFrame, NotifyFrame, HeldFrame
  DEF IInv, tablesAndUsers
==============================================================================
