------------------------ MODULE AppRegistrationProofs ------------------------
(***************************************************************************)
(* The steps that release an application preserve the invariant too: those *)
(* of the management and client threads and the call_rcu callbacks.  From  *)
(* it follow the properties of AppRegistration, for every number of        *)
(* processes, registrations and descriptors.                               *)
(***************************************************************************)
EXTENDS AppRegistrationInvariant, FiniteSetTheorems

-----------------------------------------------------------------------------

\* ust_app_put by a thread that holds a reference.
LEMMA Put ==
    ASSUME IInv, NEW t \in {"manage", "client"}, NEW r \in Regs, app[r] # None,
           app[r].ref > 0, ust_app_put(t, r)
    PROVE  /\ app'[r] # None /\ app'[r].ref = app[r].ref - 1
           /\ \A q \in Regs : /\ app'[q] # None <=> app[q] # None
                              /\ app[q] # None => app'[q].sock = app[q].sock
           /\ \A q \in Regs : q # r => app'[q] = app[q]
           /\ app'[r].notify_sock = app[r].notify_sock /\ app'[r].pipe = app[r].pipe
           /\ releasing'[t] = IF app[r].ref = 1 THEN r ELSE None
           /\ \A u \in {"manage", "client"} : u # t => releasing'[u] = releasing[u]
<1>1. TypeInv
  BY SMTT(30) DEF IInv
<1>2. app[r] \in Apps /\ app[r].ref \in Nat
  BY Zenon, <1>1 DEF TypeInv, Apps
<1>3. app' = [app EXCEPT ![r].ref = app[r].ref - 1] /\ app[r].ref - 1 \in Nat
  BY <1>1, <1>2 DEF ust_app_put, TypeInv
<1>4. /\ releasing'[t] = IF app[r].ref = 1 THEN r ELSE None
      /\ \A u \in {"manage", "client"} : u # t => releasing'[u] = releasing[u]
  BY <1>1 DEF ust_app_put, TypeInv
<1>5. /\ app'[r] # None /\ app'[r].ref = app[r].ref - 1 /\ app'[r].sock = app[r].sock
      /\ app'[r].notify_sock = app[r].notify_sock /\ app'[r].pipe = app[r].pipe
      /\ \A q \in Regs : q # r => app'[q] = app[q]
  BY Zenon, <1>1, <1>3, RefChanges
<1> QED
  BY <1>4, <1>5

\* The sockets of the applications stay what they are.
LEMMA AppsFrame ==
    ASSUME IInv, UNCHANGED <<peer, file, ust_cmd_queue, wait_queue, notify>>,
           \A q \in Regs : /\ app'[q] # None <=> app[q] # None
                           /\ app[q] # None => app'[q].sock = app[q].sock
    PROVE  /\ PeerInv' /\ QueueInv' /\ WaitInv'
           /\ (callbacks' = callbacks => CallbackInv')
           /\ (\A fd \in Fds : Closing(fd)' <=> Closing(fd)) => NotifyInv' /\ HeldInv'
           /\ /\ \A r \in Regs : Dies(r)' <=> Dies(r)
              /\ \A r \in Regs : Active(r)' <=> Active(r)
              /\ ust_app_ht' \subseteq ust_app_ht
              /\ ust_app_ht_by_notify_sock' \subseteq ust_app_ht_by_notify_sock
              => AppInv'
<1>1. /\ TypeInv /\ PeerInv /\ QueueInv /\ WaitInv /\ AppInv /\ CallbackInv
      /\ NotifyInv /\ HeldInv
  BY Zenon DEF IInv
<1>2. PeerInv' /\ QueueInv' /\ WaitInv'
  BY Zenon, <1>1, PeerFrame, QueueFrame, WaitFrame
<1>3. ASSUME callbacks' = callbacks PROVE CallbackInv'
  <2>1. \A c \in callbacks : c.kind = "app" => c.reg \in Regs /\ app[c.reg] # None
    BY Zenon, <1>1 DEF CallbackInv, AppInv, Dies
  <2> QED
    BY SMTT(60), <1>1, <1>3, <2>1 DEF CallbackInv
<1>4. ASSUME \A fd \in Fds : Closing(fd)' <=> Closing(fd) PROVE NotifyInv' /\ HeldInv'
  <2>1. \A fd : (Piped(fd)' <=> Piped(fd)) /\ (Queued(fd)' <=> Queued(fd))
    BY SMTT(60) DEF Piped, Queued
  <2>2. NotifyInv'
    BY Zenon, <1>1, <1>4, <2>1 DEF NotifyInv
  <2>3. HeldInv'
    BY Zenon, <1>1, <1>4, <2>1 DEF HeldInv
  <2> QED
    BY Zenon, <2>2, <2>3
<1>5. ASSUME \A r \in Regs : Dies(r)' <=> Dies(r),
             \A r \in Regs : Active(r)' <=> Active(r),
             ust_app_ht' \subseteq ust_app_ht,
             ust_app_ht_by_notify_sock' \subseteq ust_app_ht_by_notify_sock
      PROVE  AppInv'
  <2>1. \A r : Waits(r)' <=> Waits(r)
    BY SMTT(30) DEF Waits
  <2>2. ust_app_ht \subseteq Regs /\ ust_app_ht_by_notify_sock \subseteq Regs
    BY SMTT(60), <1>1 DEF TypeInv
  <2>3. \A i \in DOMAIN ust_cmd_queue : ust_cmd_queue[i].reg \in Regs
    BY Zenon, <1>1, CmdTypes
  <2> QED
    BY Zenon, <1>1, <1>5, <2>1, <2>2, <2>3 DEF AppInv
<1> QED
  BY Zenon, <1>2, <1>3, <1>4, <1>5

LEMMA UnregisterKeeps ==
    ASSUME IInv, TypeInv', NEW fd \in Fds, ust_app_unregister_by_socket(fd)
    PROVE  IInv' /\ UNCHANGED aborted
<1>1. /\ TypeInv /\ PeerInv /\ QueueInv /\ WaitInv /\ AppInv /\ CallbackInv /\ RefInv
      /\ ManageInv /\ NotifyInv /\ HeldInv
  BY DEF IInv
<1>2. /\ UNCHANGED <<peer, file, ust_cmd_queue, dispatch, wait_queue, ust_app_ht,
                     ust_app_ht_by_notify_sock, notify, client, callbacks>>
      /\ fd \in manage.polled /\ releasing["manage"] = None
  BY SMTT(30) DEF ust_app_unregister_by_socket
<1>3. \E r \in ust_app_ht_by_sock : app[r].sock = fd
  BY <1>1, <1>2 DEF ManageInv
<1>4. PICK r \in ust_app_ht_by_sock :
        /\ app[r].sock = fd
        /\ ust_app_ht_by_sock' = ust_app_ht_by_sock \ {r}
        /\ ust_app_put("manage", r)
        /\ UNCHANGED aborted
  BY SMTT(30), <1>3 DEF ust_app_unregister_by_socket
<1>5. /\ r \in Regs /\ app[r] # None /\ Active(r) /\ ~Waits(r)
      /\ app[r].ref = IF client = r THEN 2 ELSE 1
  BY Zenon, <1>1 DEF TypeInv, AppInv, Active, RefInv
<1>6. /\ app'[r] # None /\ app'[r].ref = app[r].ref - 1
      /\ \A q \in Regs : /\ app'[q] # None <=> app[q] # None
                         /\ app[q] # None => app'[q].sock = app[q].sock
      /\ \A q \in Regs : q # r => app'[q] = app[q]
      /\ releasing'["manage"] = IF app[r].ref = 1 THEN r ELSE None
      /\ releasing'["client"] = releasing["client"]
  BY SMTT(30), <1>4, <1>5, Put
<1>7. manage'.pipe = manage.pipe /\ manage'.polled = manage.polled \ {fd}
  BY <1>1 DEF ust_app_unregister_by_socket, TypeInv
<1>8. \A q \in Regs : Active(q)' <=> Active(q)
  <2>1. \A q \in Regs : q # None
    BY NoneAssumption
  <2> QED
    BY Zenon, <1>2, <1>4, <1>5, <1>6, <2>1 DEF Active
<1>9. \A q \in Regs : Dies(q)' <=> Dies(q)
  BY SMTT(30), <1>2 DEF Dies
<1>10. \A fe \in Fds : Closing(fe)' <=> Closing(fe)
  BY <1>2 DEF Closing
<1>11. /\ PeerInv' /\ QueueInv' /\ WaitInv' /\ CallbackInv' /\ NotifyInv' /\ HeldInv' /\ AppInv'
  BY Zenon, <1>2, <1>6, <1>8, <1>9, <1>10, AppsFrame
<1>12. RefInv'
  <2>1. \A i \in DOMAIN wait_queue : wait_queue[i] \in Regs /\ wait_queue[i] # r
    BY SMTT(30), <1>1, <1>5 DEF Waits, TypeInv
  <2>2. \A i \in DOMAIN wait_queue' : app'[wait_queue'[i]].ref = 1
    BY Zenon, <1>1, <1>2, <1>6, <2>1 DEF RefInv
  <2>3. ust_app_ht_by_sock \subseteq Regs /\ r # None /\ client \in Regs \cup {None}
    BY SMTT(30), <1>1, <1>5, NoneAssumption DEF TypeInv
  <2>4. \A q \in ust_app_ht_by_sock' : app'[q].ref = IF client' = q THEN 2 ELSE 1
    BY SMTT(60), <1>1, <1>2, <1>4, <1>6, <2>3 DEF RefInv
  <2>5. releasing'["client"] # None
         => releasing'["client"] = client' /\ client' \notin ust_app_ht_by_sock'
    BY Zenon, <1>1, <1>2, <1>4, <1>6 DEF RefInv
  <2>6. releasing'["manage"] # None
         => /\ app'[releasing'["manage"]].ref = 0
            /\ client' # releasing'["manage"]
            /\ releasing'["manage"] \notin ust_app_ht_by_sock'
    BY SMTT(30), <1>2, <1>4, <1>5, <1>6
  <2>7. client' # None /\ client' \notin ust_app_ht_by_sock'
         => app'[client'].ref = IF releasing'["client"] = client' THEN 0 ELSE 1
    <3>1. CASE client = r
      <4>1. releasing["client"] # r
        BY SMTT(30), <1>1, <2>3, <3>1 DEF RefInv
      <4> QED
        BY SMTT(30), <1>2, <1>5, <1>6, <3>1, <4>1
    <3>2. CASE client # r
      BY Zenon, <1>1, <1>2, <1>4, <1>6, <2>3, <3>2 DEF RefInv
    <3> QED
      BY <3>1, <3>2
  <2> QED
    BY <2>2, <2>4, <2>5, <2>6, <2>7 DEF RefInv
<1>13. ManageInv'
  <2>1. InSection' <=> InSection
    BY SMTT(30), <1>2 DEF InSection
  <2>2. ust_app_ht_by_sock \subseteq Regs /\ \A q \in ust_app_ht_by_sock : app[q] # None
    BY <1>1 DEF TypeInv, AppInv, Active
  <2>3. InSection => /\ dispatch.app \in ust_app_ht_by_sock' /\ dispatch.app \in Regs
                     /\ app'[dispatch.app].sock = app[dispatch.app].sock
    BY Zenon, <1>1, <1>2, <1>4, <1>6, <2>2 DEF ManageInv
  <2>4. ASSUME NEW fe \in Fds,
               fe \in manage'.polled \/ (\E i \in DOMAIN manage'.pipe : manage'.pipe[i] = fe)
        PROVE  \E q \in ust_app_ht_by_sock' : app'[q].sock = fe
    <3>1. PICK q \in ust_app_ht_by_sock : app[q].sock = fe
      BY Zenon, <1>1, <1>7, <2>4 DEF ManageInv
    <3>2. fe # fd
      BY SMTT(30), <1>1, <1>2, <1>7, <2>4 DEF ManageInv
    <3> QED
      BY Zenon, <1>4, <1>6, <2>2, <3>1, <3>2
  <2> QED
    BY Zenon, <1>1, <1>2, <1>7, <2>1, <2>3, <2>4 DEF ManageInv
<1> QED
  BY <1>4, <1>11, <1>12, <1>13 DEF IInv

LEMMA GetKeeps ==
    ASSUME IInv, TypeInv', NEW r \in Regs, ust_app_get(r)
    PROVE  IInv'
<1>1. /\ TypeInv /\ PeerInv /\ QueueInv /\ WaitInv /\ AppInv /\ CallbackInv /\ RefInv
      /\ ManageInv /\ NotifyInv /\ HeldInv
  BY DEF IInv
<1>2. /\ UNCHANGED <<peer, file, ust_cmd_queue, dispatch, wait_queue, ust_app_ht,
                     ust_app_ht_by_sock, ust_app_ht_by_notify_sock, notify, manage,
                     releasing, callbacks>>
      /\ client = None /\ client' = r /\ ~InSection /\ r \in ust_app_ht /\ app[r].ref > 0
  BY DEF ust_app_get, tables
<1>3. app[r] # None /\ app[r] \in Apps /\ app[r].ref \in Nat /\ Active(r)
  BY Zenon, <1>1, <1>2 DEF AppInv, TypeInv, Apps
<1>4. r # None /\ \A q \in Regs : q # None
  BY NoneAssumption
<1>5. r \in ust_app_ht_by_sock
  BY SMTT(30), <1>1, <1>2, <1>3, <1>4 DEF Active, RefInv
<1>6. app[r].ref = 1 /\ ~Waits(r)
  BY Zenon, <1>1, <1>2, <1>3, <1>4, <1>5 DEF RefInv, AppInv
<1>7. app' = [app EXCEPT ![r].ref = 2]
  BY <1>1, <1>6 DEF ust_app_get, TypeInv
<1>8. /\ app'[r] # None /\ app'[r].ref = 2 /\ app'[r].sock = app[r].sock
      /\ \A q \in Regs : q # r => app'[q] = app[q]
  BY Zenon, <1>1, <1>3, <1>7, RefChanges
<1>9. \A q \in Regs : /\ app'[q] # None <=> app[q] # None
                      /\ app[q] # None => app'[q].sock = app[q].sock
  BY SMTT(30), <1>3, <1>8
<1>10. \A q \in Regs : Active(q)' <=> Active(q)
  BY <1>2, <1>4, <1>5 DEF Active
<1>11. /\ \A q \in Regs : Dies(q)' <=> Dies(q)
       /\ \A fe \in Fds : Closing(fe)' <=> Closing(fe)
  BY <1>2 DEF Dies, Closing
<1>12. /\ PeerInv' /\ QueueInv' /\ WaitInv' /\ CallbackInv' /\ NotifyInv' /\ HeldInv' /\ AppInv'
  <2>1. /\ UNCHANGED <<peer, file, ust_cmd_queue, wait_queue, notify>> /\ callbacks' = callbacks
        /\ ust_app_ht' \subseteq ust_app_ht
        /\ ust_app_ht_by_notify_sock' \subseteq ust_app_ht_by_notify_sock
    BY SMTT(30), <1>2
  <2> QED
    BY Zenon, <1>9, <1>10, <1>11, <2>1, AppsFrame
<1>13. RefInv'
  <2>1. \A i \in DOMAIN wait_queue : wait_queue[i] \in Regs /\ wait_queue[i] # r
    BY SMTT(30), <1>1, <1>6 DEF Waits, TypeInv
  <2>2. \A i \in DOMAIN wait_queue' : app'[wait_queue'[i]].ref = 1
    BY Zenon, <1>1, <1>2, <1>8, <2>1 DEF RefInv
  <2>3. ust_app_ht_by_sock \subseteq Regs
    BY SMTT(30), <1>1 DEF TypeInv
  <2>4. \A q \in ust_app_ht_by_sock' : app'[q].ref = IF client' = q THEN 2 ELSE 1
    BY <1>1, <1>2, <1>4, <1>8, <2>3 DEF RefInv
  <2>5. releasing["client"] = None
    BY Zenon, <1>1, <1>2 DEF RefInv
  <2>6. releasing["manage"] # None => releasing["manage"] \in Regs /\ releasing["manage"] # r
    BY Zenon, <1>1, <1>5 DEF RefInv, TypeInv
  <2> QED
    BY Zenon, <1>1, <1>2, <1>5, <1>8, <2>2, <2>4, <2>5, <2>6 DEF RefInv
<1>14. ManageInv'
  <2>1. ~InSection'
    BY SMTT(30), <1>2 DEF InSection
  <2>2. ust_app_ht_by_sock \subseteq Regs /\ \A q \in ust_app_ht_by_sock : app[q] # None
    BY <1>1 DEF TypeInv, AppInv, Active
  <2>3. ASSUME NEW fe \in Fds,
               fe \in manage'.polled \/ (\E i \in DOMAIN manage'.pipe : manage'.pipe[i] = fe)
        PROVE  \E q \in ust_app_ht_by_sock' : app'[q].sock = fe
    <3>1. PICK q \in ust_app_ht_by_sock : app[q].sock = fe
      BY Zenon, <1>1, <1>2, <2>3 DEF ManageInv
    <3> QED
      BY Zenon, <1>2, <1>9, <2>2, <3>1
  <2> QED
    BY Zenon, <1>1, <1>2, <2>1, <2>3 DEF ManageInv
<1> QED
  BY <1>12, <1>13, <1>14 DEF IInv

LEMMA ClientPutsKeeps ==
    ASSUME IInv, TypeInv', ClientPuts
    PROVE  IInv'
<1>1. /\ TypeInv /\ PeerInv /\ QueueInv /\ WaitInv /\ AppInv /\ CallbackInv /\ RefInv
      /\ ManageInv /\ NotifyInv /\ HeldInv
  BY DEF IInv
<1>2. /\ UNCHANGED <<peer, file, ust_cmd_queue, dispatch, wait_queue, ust_app_ht,
                     ust_app_ht_by_sock, ust_app_ht_by_notify_sock, notify, manage>>
      /\ client # None /\ releasing["client"] = None /\ ust_app_put("client", client)
      /\ \/ app[client].ref = 1 /\ UNCHANGED <<client, callbacks>>
         \/ app[client].ref # 1 /\ client' = None /\ callbacks' = Unlocked("client")
  BY Zenon DEF ClientPuts, tables
<1>3. /\ client \in Regs /\ app[client] # None /\ Active(client) /\ ~Waits(client)
      /\ app[client].ref = IF client \in ust_app_ht_by_sock THEN 2 ELSE 1
  BY Zenon, <1>1, <1>2 DEF TypeInv, AppInv, RefInv, Active
<1>4. /\ app'[client] # None /\ app'[client].ref = app[client].ref - 1
      /\ \A q \in Regs : /\ app'[q] # None <=> app[q] # None
                         /\ app[q] # None => app'[q].sock = app[q].sock
      /\ \A q \in Regs : q # client => app'[q] = app[q]
      /\ releasing'["client"] = IF app[client].ref = 1 THEN client ELSE None
      /\ releasing'["manage"] = releasing["manage"]
  BY SMTT(30), <1>2, <1>3, Put
<1>5. \A q \in Regs : q # None
  BY NoneAssumption
<1>6. \A q \in Regs : Active(q)' <=> Active(q)
  BY Zenon, <1>2, <1>3, <1>4, <1>5 DEF Active
<1>7. /\ \A q \in Regs : Dies(q)' <=> Dies(q)
      /\ \A fe \in Fds : Closing(fe)' <=> Closing(fe)
      /\ CallbackInv'
  <2>1. CASE callbacks' = callbacks
    <3>1. CallbackInv'
      BY Zenon, <1>2, <1>4, <2>1, AppsFrame
    <3> QED
      BY <2>1, <3>1 DEF Dies, Closing
  <2>2. CASE callbacks' = Unlocked("client")
    BY Zenon, <1>4, <2>2, SameCallbacks
  <2> QED
    BY Zenon, <1>2, <2>1, <2>2
<1>8. /\ PeerInv' /\ QueueInv' /\ WaitInv' /\ NotifyInv' /\ HeldInv' /\ AppInv'
  BY Zenon, <1>2, <1>4, <1>6, <1>7, AppsFrame
<1>9. RefInv'
  <2>1. \A i \in DOMAIN wait_queue : wait_queue[i] \in Regs /\ wait_queue[i] # client
    BY SMTT(30), <1>1, <1>3 DEF Waits, TypeInv
  <2>2. \A i \in DOMAIN wait_queue' : app'[wait_queue'[i]].ref = 1
    BY Zenon, <1>1, <1>2, <1>4, <2>1 DEF RefInv
  <2>3. ust_app_ht_by_sock \subseteq Regs
    BY SMTT(30), <1>1 DEF TypeInv
  <2>4. releasing["manage"] # None => releasing["manage"] \in Regs /\ releasing["manage"] # client
    BY Zenon, <1>1 DEF RefInv, TypeInv
  <2>5. CASE client \in ust_app_ht_by_sock
    <3>1. app[client].ref = 2 /\ app'[client].ref = 1 /\ client' = None /\ releasing'["client"] = None
      BY SMTT(30), <1>2, <1>3, <1>4, <2>5
    <3>2. \A q \in ust_app_ht_by_sock' : app'[q].ref = IF client' = q THEN 2 ELSE 1
      BY Zenon, <1>1, <1>2, <1>4, <1>5, <2>3, <3>1 DEF RefInv
    <3> QED
      BY Zenon, <1>1, <1>2, <1>4, <1>5, <2>2, <2>4, <3>1, <3>2 DEF RefInv
  <2>6. CASE client \notin ust_app_ht_by_sock
    <3>1. app[client].ref = 1 /\ app'[client].ref = 0 /\ client' = client /\ releasing'["client"] = client
      BY SMTT(30), <1>2, <1>3, <1>4, <2>6
    <3>2. \A q \in ust_app_ht_by_sock' : app'[q].ref = IF client' = q THEN 2 ELSE 1
      BY SMTT(60), <1>1, <1>2, <1>4, <1>5, <2>3, <2>6, <3>1 DEF RefInv
    <3> QED
      BY Zenon, <1>1, <1>2, <1>4, <1>5, <2>2, <2>4, <2>6, <3>1, <3>2 DEF RefInv
  <2> QED
    BY <2>5, <2>6
<1>10. ManageInv'
  <2>1. InSection' <=> InSection
    BY SMTT(60), <1>2 DEF InSection
  <2>2. ust_app_ht_by_sock \subseteq Regs /\ \A q \in ust_app_ht_by_sock : app[q] # None
    BY SMTT(30), <1>1 DEF TypeInv, AppInv, Active
  <2>3. InSection => app'[dispatch.app].sock = app[dispatch.app].sock
    BY SMTT(60), <1>1, <1>4, <2>2 DEF ManageInv
  <2>4. ASSUME NEW fe \in Fds,
               fe \in manage'.polled \/ (\E i \in DOMAIN manage'.pipe : manage'.pipe[i] = fe)
        PROVE  \E q \in ust_app_ht_by_sock' : app'[q].sock = fe
    <3>1. PICK q \in ust_app_ht_by_sock : app[q].sock = fe
      BY Zenon, <1>1, <1>2, <2>4 DEF ManageInv
    <3> QED
      BY <1>2, <1>4, <2>2, <3>1
  <2> QED
    BY SMTT(60), <1>1, <1>2, <2>1, <2>3, <2>4 DEF ManageInv
<1> QED
  BY <1>7, <1>8, <1>9, <1>10 DEF IInv

LEMMA ReleaseKeeps ==
    ASSUME IInv, TypeInv', NEW t \in {"manage", "client"}, ust_app_release(t)
    PROVE  IInv'
<1>1. /\ TypeInv /\ PeerInv /\ QueueInv /\ WaitInv /\ AppInv /\ CallbackInv /\ RefInv
      /\ ManageInv /\ NotifyInv /\ HeldInv
  BY DEF IInv
<1> DEFINE r == releasing[t]
           freed == call_rcu("app", r, app[r].sock)
           base == IF t = "client" THEN Unlocked(t) ELSE callbacks
           last == IF t = "client" THEN [freed EXCEPT !.readers = @ \ {t}] ELSE freed
<1>2. /\ UNCHANGED <<peer, file, ust_cmd_queue, dispatch, wait_queue, app,
                     ust_app_ht_by_sock, notify, manage>>
      /\ ust_app_ht' = ust_app_ht \ {r}
      /\ ust_app_ht_by_notify_sock' = ust_app_ht_by_notify_sock \ {r}
      /\ callbacks' = base \cup {last}
      /\ client' = IF t = "client" THEN None ELSE client
      /\ r # None
  BY DEF ust_app_release
<1>3. /\ releasing'[t] = None
      /\ \A u \in {"manage", "client"} : u # t => releasing'[u] = releasing[u]
  BY <1>1 DEF ust_app_release, TypeInv
<1>4. freed.kind = "app" /\ freed.reg = r /\ freed.fd = app[r].sock
      /\ last.kind = "app" /\ last.reg = r /\ last.fd = app[r].sock
  BY SMTT(30) DEF call_rcu
<1> HIDE DEF freed, last
<1>5. /\ \A c \in base : \E d \in callbacks :
           c.kind = d.kind /\ c.reg = d.reg /\ c.fd = d.fd
      /\ \A d \in callbacks : \E c \in base :
           c.kind = d.kind /\ c.reg = d.reg /\ c.fd = d.fd
      /\ \A c, d \in base :
           c.kind = "app" /\ d.kind = "app" /\ c.reg = d.reg => c = d
      /\ \A c, d \in base :
           c.kind = "notify" /\ d.kind = "notify" /\ c.fd = d.fd => c = d
  <2>1. CASE t = "client"
    BY SMTT(30), <2>1, UnlockedSame
  <2>2. CASE t # "client"
    BY <1>1, <2>2 DEF CallbackInv
  <2> QED
    BY SMTT(30), <2>1, <2>2
<1> HIDE DEF base
<1>6. /\ r \in Regs /\ Active(r) /\ r \notin ust_app_ht_by_sock
      /\ t = "client" => client = r
      /\ t = "manage" => client # r
  BY Zenon, <1>1, <1>2 DEF TypeInv, RefInv, Active
<1>7. app[r] # None /\ ~Waits(r) /\ ~Dies(r)
  BY Zenon, <1>1, <1>6 DEF AppInv
<1>8. \A q \in Regs : q # None
  BY NoneAssumption
<1>9. \A q \in Regs : Active(q)' <=> Active(q) /\ q # r
  <2>1. CASE t = "client"
    <3>1. releasing["manage"] # r
      BY Zenon, <1>1, <1>2, <1>6, <2>1 DEF RefInv
    <3>2. client' = None /\ client = r /\ releasing'["manage"] = releasing["manage"]
      BY SMTT(30), <1>2, <1>3, <1>6, <2>1
    <3> QED
      BY Zenon, <1>2, <1>6, <1>8, <3>1, <3>2 DEF Active
  <2>2. CASE t = "manage"
    <3>1. client' = client /\ client # r /\ releasing'["manage"] = None /\ releasing["manage"] = r
      BY SMTT(30), <1>2, <1>3, <1>6, <2>2
    <3> QED
      BY SMTT(30), <1>2, <1>6, <1>8, <3>1 DEF Active
  <2> QED
    BY <2>1, <2>2
<1>10. \A q \in Regs : Dies(q)' <=> Dies(q) \/ q = r
  <2>1. \A c : c \in callbacks' <=> c \in base \/ c = last
    BY SMTT(30), <1>2
  <2> HIDE DEF r
  <2> QED
    BY <1>4, <1>5, <2>1 DEF Dies
<1>11. \A fd \in Fds : Closing(fd)' <=> Closing(fd)
  <2>1. \A c : c \in callbacks' <=> c \in base \/ c = last
    BY <1>2
  <2> HIDE DEF r
  <2> QED
    BY SMTT(60), <1>4, <1>5, <2>1 DEF Closing
<1>12. CallbackInv'
  <2>1. \A c : c \in callbacks' <=> c \in base \/ c = last
    BY <1>2
  <2>2. \A c \in base : c.kind = "app" => c.reg # r
    BY SMTT(30), <1>5, <1>7 DEF Dies
  <2>3. \A c \in base : c.kind = "app" => c.reg \in Regs /\ c.fd = app[c.reg].sock
    BY SMTT(30), <1>1, <1>5 DEF CallbackInv
  <2>4. \A c \in callbacks' : c.kind = "app" => c.reg \in Regs /\ c.fd = app[c.reg].sock
    BY SMTT(30), <1>4, <1>6, <2>1, <2>3
  <2> HIDE DEF r
  <2>5. \A c, d \in callbacks' : c.kind = "app" /\ d.kind = "app" /\ c.reg = d.reg => c = d
    BY SMTT(30), <1>4, <1>5, <2>1, <2>2
  <2>6. \A c, d \in callbacks' : c.kind = "notify" /\ d.kind = "notify" /\ c.fd = d.fd => c = d
    BY <1>4, <1>5, <2>1
  <2> QED
    BY SMTT(30), <1>2, <2>4, <2>5, <2>6 DEF CallbackInv
<1> HIDE DEF r
<1>13. AppInv'
  <2>1. \A q : Waits(q)' <=> Waits(q)
    BY SMTT(30), <1>2 DEF Waits
  <2>2. ust_app_ht \subseteq Regs /\ ust_app_ht_by_notify_sock \subseteq Regs
    BY <1>1 DEF TypeInv
  <2>3. /\ \A q \in Regs : Waits(q)' \/ Active(q)' \/ Dies(q)' => app'[q] # None
        /\ \A q \in Regs : Waits(q)' => ~Active(q)'
        /\ \A q \in Regs : Waits(q)' => ~Dies(q)'
        /\ \A q \in Regs : Active(q)' => ~Dies(q)'
    BY Zenon, <1>1, <1>2, <1>7, <1>9, <1>10, <2>1 DEF AppInv
  <2>4. /\ \A q \in ust_app_ht' : Active(q)'
        /\ \A q \in ust_app_ht_by_notify_sock' : Active(q)'
    BY Zenon, <1>1, <1>2, <1>9, <2>2 DEF AppInv
  <2> QED
    BY Zenon, <1>1, <1>2, <2>3, <2>4 DEF AppInv
<1>14. NotifyInv' /\ HeldInv'
  <2>1. \A fd : (Piped(fd)' <=> Piped(fd)) /\ (Queued(fd)' <=> Queued(fd))
    BY <1>2 DEF Piped, Queued
  <2>2. NotifyInv'
    BY Zenon, <1>1, <1>2, <1>11, <2>1 DEF NotifyInv
  <2>3. HeldInv'
    BY Zenon, <1>1, <1>2, <1>11, <2>1 DEF HeldInv
  <2> QED
    BY SMTT(30), <2>2, <2>3
<1>15. RefInv'
  <2>1. CASE t = "client"
    <3>1. client' = None /\ client = r /\ releasing'["manage"] = releasing["manage"]
          /\ releasing'["client"] = None
      BY SMTT(30), <1>2, <1>3, <1>6, <2>1
    <3>2. \A q \in ust_app_ht_by_sock : q \in Regs /\ q # r
      BY SMTT(30), <1>1, <1>6 DEF TypeInv
    <3>3. \A q \in ust_app_ht_by_sock' : app'[q].ref = IF client' = q THEN 2 ELSE 1
      BY Zenon, <1>1, <1>2, <1>8, <3>1, <3>2 DEF RefInv
    <3>4. releasing'["manage"] # client' \/ releasing'["manage"] = None
      BY <3>1
    <3> QED
      BY Zenon, <1>1, <1>2, <3>1, <3>3, <3>4 DEF RefInv
  <2>2. CASE t = "manage"
    <3>1. client' = client /\ releasing'["manage"] = None
          /\ releasing'["client"] = releasing["client"]
      BY Zenon, <1>2, <1>3, <2>2
    <3> QED
      BY Zenon, <1>1, <1>2, <3>1 DEF RefInv
  <2> QED
    BY <2>1, <2>2
<1> QED
  BY Zenon, <1>1, <1>2, <1>12, <1>13, <1>14, <1>15, PeerFrame, QueueFrame, WaitFrame, ManageFrame
  DEF IInv

-----------------------------------------------------------------------------
\* The call_rcu thread.

LEMMA DeleteKeeps ==
    ASSUME IInv, TypeInv', NEW c \in callbacks, delete_ust_app(c)
    PROVE  IInv'
<1>1. /\ TypeInv /\ PeerInv /\ QueueInv /\ WaitInv /\ AppInv /\ CallbackInv /\ RefInv
      /\ ManageInv /\ NotifyInv /\ HeldInv
  BY DEF IInv
<1> DEFINE r == c.reg
<1>2. /\ UNCHANGED <<peer, ust_cmd_queue, dispatch, wait_queue, tablesAndUsers, notify, manage>>
      /\ c.kind = "app" /\ callbacks' = callbacks \ {c} /\ ~InSection /\ client = None
      /\ file' = [file EXCEPT ![c.fd] = None] /\ app' = [app EXCEPT ![r] = None]
  BY Zenon DEF delete_ust_app, tables, tablesAndUsers
<1>3. r \in Regs /\ c.fd = app[r].sock /\ c.fd \in Fds /\ Dies(r)
  BY Zenon, <1>1, <1>2 DEF CallbackInv, TypeInv, Callbacks, Dies
<1>4. ~Active(r) /\ ~Waits(r) /\ app[r] # None /\ file[c.fd] = <<r, "cmd">>
  BY Zenon, <1>1, <1>3 DEF AppInv
<1>5. file[c.fd] # None /\ file[c.fd][1] = r /\ file[c.fd][2] = "cmd"
  BY SMTT(30), <1>3, <1>4, SocketParts
<1>6. /\ file'[c.fd] = None /\ \A fe \in Fds : fe # c.fd => file'[fe] = file[fe]
      /\ app'[r] = None /\ \A q \in Regs : q # r => app'[q] = app[q]
  BY Zenon, <1>1, <1>2, <1>3 DEF TypeInv
<1>7. \A d \in callbacks : d.kind = "app" /\ d.reg = r => d = c
  BY Zenon, <1>1, <1>2 DEF CallbackInv
<1>8. \A d : d \in callbacks' <=> d \in callbacks /\ d # c
  BY <1>2
<1>9. \A q \in Regs : Dies(q)' <=> Dies(q) /\ q # r
  <2>1. ASSUME NEW q \in Regs, Dies(q)' PROVE Dies(q) /\ q # r
    BY <1>7, <1>8, <2>1 DEF Dies
  <2>2. ASSUME NEW q \in Regs, Dies(q), q # r PROVE Dies(q)'
    <3>1. PICK d \in callbacks : d.kind = "app" /\ d.reg = q
      BY <2>2 DEF Dies
    <3>2. d # c
      BY <2>2, <3>1
    <3> QED
      BY <1>8, <3>1, <3>2 DEF Dies
  <2> QED
    BY <2>1, <2>2
<1>10. \A fd \in Fds : Closing(fd)' <=> Closing(fd)
  BY SMTT(30), <1>2, <1>8 DEF Closing
<1>11. \A fd : (Piped(fd)' <=> Piped(fd)) /\ (Queued(fd)' <=> Queued(fd))
  BY SMTT(30), <1>2 DEF Piped, Queued
<1>12. ASSUME NEW q \in Regs, q # r, app[q] # None
       PROVE  app[q].sock # c.fd /\ app[q].sock \in Fds
  <2>1. file[app[q].sock] = <<q, "cmd">>
    BY SMTT(30), <1>1, <1>12 DEF AppInv
  <2>2. file[app[q].sock][1] = q
    BY SMTT(30), <2>1, SocketParts
  <2>3. app[q] \in Apps
    BY SMTT(30), <1>1, <1>12 DEF TypeInv
  <2> QED
    BY SMTT(30), <1>5, <1>12, <2>2, <2>3 DEF Apps
<1>13. ~Queued(c.fd)
  <2> SUFFICES ASSUME Queued(c.fd) PROVE FALSE
    OBVIOUS
  <2>1. PICK i \in DOMAIN ust_cmd_queue : ust_cmd_queue[i].sock = c.fd
    BY SMTT(30) DEF Queued
  <2>2. file[c.fd] = <<ust_cmd_queue[i].reg, ust_cmd_queue[i].type>>
    BY SMTT(30), <1>1, <2>1 DEF QueueInv
  <2>3. file[c.fd][1] = ust_cmd_queue[i].reg /\ file[c.fd][2] = ust_cmd_queue[i].type
    BY SMTT(30), <1>1, <2>2, CmdTypes, SocketParts
  <2>4. ust_cmd_queue[i].reg = r /\ ust_cmd_queue[i].type = "cmd"
    BY SMTT(30), <1>5, <2>3
  <2> QED
    BY <1>1, <1>4, <2>4 DEF AppInv
<1>14. \A fd \in Fds : Piped(fd) \/ fd \in notify.polled \/ Closing(fd) => fd # c.fd
  BY SMTT(30), <1>1, <1>5 DEF NotifyInv
<1>15. PeerInv' /\ QueueInv' /\ WaitInv'
  BY <1>1, <1>2, <1>6, <1>13, PeerFrame, QueueFrame, WaitFrame
<1>16. AppInv'
  <2>1. \A q \in Regs : (Active(q)' <=> Active(q)) /\ (Waits(q)' <=> Waits(q))
    BY Zenon, <1>2 DEF Active, Waits, tablesAndUsers
  <2>2. ust_app_ht \subseteq Regs /\ ust_app_ht_by_notify_sock \subseteq Regs
    BY <1>1 DEF TypeInv
  <2>3. \A q \in Regs : app'[q] # None => file'[app'[q].sock] = <<q, "cmd">>
    BY Zenon, <1>1, <1>6, <1>12 DEF AppInv
  <2>4. \A i \in DOMAIN ust_cmd_queue : ust_cmd_queue[i].type = "cmd" => app'[ust_cmd_queue[i].reg] = None
    BY Zenon, <1>1, <1>6, CmdTypes DEF AppInv
  <2>5. /\ \A q \in Regs : Waits(q)' \/ Active(q)' \/ Dies(q)' => app'[q] # None
        /\ \A q \in Regs : Waits(q)' => ~Active(q)'
        /\ \A q \in Regs : Waits(q)' => ~Dies(q)'
        /\ \A q \in Regs : Active(q)' => ~Dies(q)'
    BY Zenon, <1>1, <1>4, <1>6, <1>9, <2>1 DEF AppInv
  <2>6. /\ \A q \in ust_app_ht : Active(q)'
        /\ \A q \in ust_app_ht_by_notify_sock : Active(q)'
    BY Zenon, <1>1, <2>1, <2>2 DEF AppInv
  <2> QED
    BY Zenon, <1>2, <2>3, <2>4, <2>5, <2>6 DEF AppInv, tablesAndUsers
<1>17. CallbackInv'
  <2>1. \A d \in callbacks' : d.kind = "app" => d.reg # r
    BY <1>7, <1>8
  <2> HIDE DEF r
  <2> QED
    BY Zenon, <1>1, <1>6, <1>8, <2>1 DEF CallbackInv
<1>18. RefInv'
  <2>1. \A i \in DOMAIN wait_queue : wait_queue[i] \in Regs /\ wait_queue[i] # r
    BY SMTT(30), <1>1, <1>4 DEF Waits, TypeInv
  <2>2. \A q \in ust_app_ht_by_sock : q \in Regs /\ q # r
    BY Zenon, <1>1, <1>4 DEF Active, TypeInv
  <2>3. releasing["manage"] # None => releasing["manage"] \in Regs /\ releasing["manage"] # r
    BY Zenon, <1>1, <1>4 DEF Active, TypeInv
  <2>4. releasing["client"] = None
    BY Zenon, <1>1, <1>2 DEF RefInv
  <2> HIDE DEF r
  <2> QED
    BY SMTT(30), <1>1, <1>2, <1>6, <2>1, <2>2, <2>3, <2>4 DEF RefInv, tablesAndUsers
<1>19. ManageInv'
  <2>1. ~InSection' /\ dispatch' = dispatch
    BY <1>2 DEF InSection
  <2>2. \A q \in ust_app_ht_by_sock : q \in Regs /\ q # r
    BY Zenon, <1>1, <1>4 DEF Active, TypeInv
  <2>3. ASSUME NEW fe \in Fds,
               fe \in manage'.polled \/ (\E i \in DOMAIN manage'.pipe : manage'.pipe[i] = fe)
        PROVE  \E q \in ust_app_ht_by_sock' : app'[q].sock = fe
    <3>1. PICK q \in ust_app_ht_by_sock : app[q].sock = fe
      BY Zenon, <1>1, <1>2, <2>3 DEF ManageInv
    <3> QED
      BY Zenon, <1>2, <1>6, <2>2, <3>1 DEF tablesAndUsers
  <2> QED
    BY Zenon, <1>1, <1>2, <2>1, <2>3 DEF ManageInv, tablesAndUsers
<1>20. NotifyInv'
  BY Zenon, <1>1, <1>2, <1>6, <1>10, <1>11, <1>14 DEF NotifyInv
<1>21. HeldInv'
  BY SMTT(30), <1>1, <1>2, <1>3, <1>6, <1>10, <1>11 DEF HeldInv
<1> QED
  BY <1>15, <1>16, <1>17, <1>18, <1>19, <1>20, <1>21 DEF IInv

LEMMA CloseNotifyKeeps ==
    ASSUME IInv, TypeInv', NEW c \in callbacks, close_notify_sock_rcu(c)
    PROVE  IInv'
<1>1. /\ TypeInv /\ PeerInv /\ QueueInv /\ WaitInv /\ AppInv /\ CallbackInv /\ RefInv
      /\ ManageInv /\ NotifyInv /\ HeldInv
  BY DEF IInv
<1> DEFINE fd == c.fd
<1>2. /\ UNCHANGED <<peer, ust_cmd_queue, dispatch, wait_queue, app, tablesAndUsers, notify,
                     manage>>
      /\ c.kind = "notify" /\ callbacks' = callbacks \ {c}
      /\ file' = [file EXCEPT ![fd] = None]
  BY SMTT(30) DEF close_notify_sock_rcu, tables, tablesAndUsers
<1>3. fd \in Fds /\ Closing(fd)
  BY Zenon, <1>1, <1>2 DEF TypeInv, Callbacks, Closing
<1>4. /\ file'[fd] = None /\ \A fe \in Fds : fe # fd => file'[fe] = file[fe]
      /\ ~Queued(fd) /\ fd \notin notify.polled /\ ~Piped(fd)
      /\ \A r \in Regs : app[r] # None => app[r].sock \in Fds /\ app[r].sock # fd
  BY Zenon, <1>2, <1>3, ClosedNotify
<1>5. \A d : d \in callbacks' <=> d \in callbacks /\ d # c
  BY <1>2
<1>6. \A q : Dies(q)' <=> Dies(q)
  BY SMTT(30), <1>2, <1>5 DEF Dies
<1>7. \A d \in callbacks : d.kind = "notify" /\ d.fd = fd => d = c
  BY <1>1, <1>2 DEF CallbackInv
<1>8. \A fe \in Fds : Closing(fe)' <=> Closing(fe) /\ fe # fd
  <2>1. ASSUME NEW fe \in Fds, Closing(fe)' PROVE Closing(fe) /\ fe # fd
    BY <1>5, <1>7, <2>1 DEF Closing
  <2>2. ASSUME NEW fe \in Fds, Closing(fe), fe # fd PROVE Closing(fe)'
    <3>1. PICK d \in callbacks : d.kind = "notify" /\ d.fd = fe
      BY <2>2 DEF Closing
    <3>2. d # c
      BY <2>2, <3>1
    <3> QED
      BY <1>5, <3>1, <3>2 DEF Closing
  <2> QED
    BY <2>1, <2>2
<1>9. \A fe : (Piped(fe)' <=> Piped(fe)) /\ (Queued(fe)' <=> Queued(fe))
  BY Zenon, <1>2 DEF Piped, Queued
<1> HIDE DEF fd
<1>10. PeerInv' /\ QueueInv' /\ WaitInv'
  BY Zenon, <1>1, <1>2, <1>4, PeerFrame, QueueFrame, WaitFrame
<1>11. AppInv'
  <2>1. \A q \in Regs : (Active(q)' <=> Active(q)) /\ (Waits(q)' <=> Waits(q))
    BY Zenon, <1>2 DEF Active, Waits, tablesAndUsers
  <2>2. ust_app_ht \subseteq Regs /\ ust_app_ht_by_notify_sock \subseteq Regs
    BY <1>1 DEF TypeInv
  <2> QED
    BY Zenon, <1>1, <1>2, <1>4, <1>6, <2>1, <2>2 DEF AppInv, tablesAndUsers
<1>12. CallbackInv'
  BY <1>1, <1>2, <1>5 DEF CallbackInv
<1>13. NotifyInv'
  BY Zenon, <1>1, <1>2, <1>4, <1>8, <1>9 DEF NotifyInv
<1>14. HeldInv'
  BY Zenon, <1>1, <1>2, <1>4, <1>8, <1>9 DEF HeldInv
<1> QED
  BY SMTT(30), <1>1, <1>2, <1>10, <1>11, <1>12, <1>13, <1>14, RefFrame, ManageFrame DEF IInv, tablesAndUsers

-----------------------------------------------------------------------------
LEMMA InitHolds == ASSUME Init PROVE IInv
<1>1. /\ ust_cmd_queue = <<>> /\ wait_queue = <<>> /\ callbacks = {} /\ client = None
      /\ dispatch = [pc |-> "wait", app |-> None] /\ peer = [r \in Regs |-> "out"]
      /\ file = [fd \in Fds |-> None] /\ app = [r \in Regs |-> None]
      /\ ust_app_ht = {} /\ ust_app_ht_by_sock = {} /\ ust_app_ht_by_notify_sock = {}
      /\ notify = [pipe |-> <<>>, polled |-> {}] /\ manage = [pipe |-> <<>>, polled |-> {}]
      /\ releasing = [t \in {"manage", "client"} |-> None] /\ fd_count = 0 /\ aborted = FALSE
  BY Zenon DEF Init
<1>2. DOMAIN ust_cmd_queue = {} /\ DOMAIN wait_queue = {}
  BY SMTT(30), <1>1
<1>3. /\ notify.pipe = <<>> /\ notify.polled = {} /\ manage.pipe = <<>> /\ manage.polled = {}
      /\ dispatch.pc = "wait" /\ dispatch.app = None
      /\ releasing["manage"] = None /\ releasing["client"] = None
  BY <1>1
<1>4. DOMAIN notify.pipe = {} /\ DOMAIN manage.pipe = {}
  BY <1>3
<1>5. TypeInv
  <2>1. /\ ust_cmd_queue \in Seq(Cmds) /\ wait_queue \in Seq(Regs)
    BY SMTT(30), <1>1
  <2>2. notify \in [pipe : Seq(Fds), polled : SUBSET Fds] /\ manage \in [pipe : Seq(Fds), polled : SUBSET Fds]
    BY SMTT(30), <1>1
  <2>3. dispatch \in [pc : {"wait", "sanitize", "dequeue", "update", "send"}, app : Regs \cup {None}]
    BY SMTT(30), <1>1
  <2>4. callbacks \subseteq Callbacks
    BY SMTT(30), <1>1
  <2>5. /\ peer \in [Regs -> {"out", "cmd", "both", "gone"}] /\ file \in [Fds -> Sockets \cup {None}]
        /\ app \in [Regs -> Apps \cup {None}]
    BY SMTT(30), <1>1
  <2>6. releasing \in [{"manage", "client"} -> Regs \cup {None}] /\ client \in Regs \cup {None}
    BY SMTT(30), <1>1
  <2>7. fd_count \in Int
    BY <1>1
  <2>9. aborted \in BOOLEAN
    BY Zenon DEF Init
  <2>8. /\ ust_app_ht \subseteq Regs /\ ust_app_ht_by_sock \subseteq Regs
        /\ ust_app_ht_by_notify_sock \subseteq Regs
    BY <1>1
  <2> QED
    BY Zenon, <2>1, <2>2, <2>3, <2>4, <2>5, <2>6, <2>7, <2>8, <2>9 DEF TypeInv
<1>6. \A r \in Regs : ~Waits(r) /\ ~Dies(r) /\ ~Active(r)
  <2>1. \A r \in Regs : r # None
    BY NoneAssumption
  <2> QED
    BY Zenon, <1>1, <1>2, <1>3, <2>1 DEF Waits, Dies, Active
<1>7. \A fd : ~Queued(fd) /\ ~Piped(fd) /\ ~Closing(fd)
  BY Zenon, <1>1, <1>2, <1>4 DEF Queued, Piped, Closing
<1>8. (\A fd \in Fds : file[fd] = None) /\ (\A r \in Regs : peer[r] = "out" /\ app[r] = None)
  BY SMTT(30), <1>1
<1>9. PeerInv
  <2>1. \A fd \in Fds : \A r \in Regs : file[fd] # <<r, "notify">>
    BY <1>8, NoneAssumption DEF Sockets
  <2> QED
    BY SMTT(30), <1>8, <2>1 DEF PeerInv
<1>10. QueueInv /\ WaitInv
  BY Zenon, <1>2 DEF QueueInv, WaitInv
<1>11. AppInv
  BY <1>1, <1>2, <1>6, <1>8 DEF AppInv
<1>12. CallbackInv /\ RefInv
  BY Zenon, <1>1, <1>2, <1>3 DEF CallbackInv, RefInv
<1>13. ManageInv
  BY Zenon, <1>3, <1>4 DEF ManageInv, InSection
<1>14. NotifyInv
  BY Zenon, <1>3, <1>4, <1>7 DEF NotifyInv
<1>15. HeldInv
  BY Zenon, <1>8 DEF HeldInv
<1> QED
  BY <1>5, <1>9, <1>10, <1>11, <1>12, <1>13, <1>14, <1>15 DEF IInv

LEMMA StepKeeps == ASSUME IInv, [Next]_vars PROVE IInv'
<1>1. CASE Next
  <2>1. TypeInv'
    BY <1>1, TypeKeeps
  <2>2. CASE Registration
    BY <2>1, <2>2, HangUpKeeps, RefusedKeeps, RegistrationKeeps DEF Registration
  <2>3. CASE Dispatch
    BY <2>1, <2>3, IdleDispatchKeeps, SanitizeKeeps, DispatchCmdKeeps, CloseDequeuedKeeps,
       DispatchNotifyKeeps, SendToManageKeeps DEF Dispatch
  <2>4. CASE Notification
    BY <2>1, <2>4, NotifyReadsKeeps, NotifyReadFailsKeeps, NotifyUnregisterKeeps DEF Notification
  <2>5. CASE Management
    BY <2>1, <2>5, ManageReadsKeeps, ReleaseKeeps, UnregisterKeeps DEF Management
  <2>6. CASE Client
    BY <2>1, <2>6, ClientPutsKeeps, ReleaseKeeps, GetKeeps DEF Client
  <2>7. CASE Reclaim
    BY <2>1, <2>7, DeleteKeeps, CloseNotifyKeeps DEF Reclaim
  <2> QED
    BY <1>1, <2>2, <2>3, <2>4, <2>5, <2>6, <2>7 DEF Next
<1>2. CASE UNCHANGED vars
  <2>1. UNCHANGED <<peer, file, ust_cmd_queue, dispatch, wait_queue, app, tablesAndUsers,
                    notify, manage, callbacks>>
    BY <1>2 DEF vars, tablesAndUsers
  <2>2. TypeInv'
    BY Zenon, <1>2 DEF IInv, vars, TypeInv
  <2> QED
    BY Zenon, <2>1, <2>2, PeerFrame, QueueFrame, WaitFrame, AppFrame, CallbackFrame, RefFrame,
       ManageFrame, NotifyFrame, HeldFrame
    DEF IInv, tablesAndUsers
<1> QED
  BY <1>1, <1>2

(***************************************************************************)
(* IInv holds throughout, whatever calls fail and in whatever order the    *)
(* threads run: an application exists while a table, the wait queue or a   *)
(* thread refers to it, its references are counted, and every socket is in *)
(* the hands of one thread (register.c, dispatch.c, manage-apps.c,         *)
(* notify-apps.c, ust-app.c).                                              *)
(***************************************************************************)
THEOREM Invariance == Spec => []IInv
<1>1. Init => IInv
  BY InitHolds
<1>2. IInv /\ [Next]_vars => IInv'
  BY StepKeeps
<1> QED
  BY <1>1, <1>2, PTL DEF Spec

-----------------------------------------------------------------------------
LEMMA Holder ==
    ASSUME IInv, NEW fd \in Fds
    PROVE  IF file[fd] = None THEN HoldersOf(fd) = {} ELSE \E x : HoldersOf(fd) = {x}
<1> DEFINE Q == {<<"queue", i>> : i \in {i \in DOMAIN ust_cmd_queue : ust_cmd_queue[i].sock = fd}}
           A == {<<"app", r>> : r \in {r \in Regs : app[r] # None /\ app[r].sock = fd}}
           P == {<<"pipe", i>> : i \in {i \in DOMAIN notify.pipe : notify.pipe[i] = fd}}
           O == {<<"polled", x>> : x \in notify.polled \cap {fd}}
           C == {<<"callback", c>> : c \in {c \in callbacks : c.kind = "notify" /\ c.fd = fd}}
           Used == \E r \in Regs : app[r] # None /\ app[r].sock = fd
<1>1. HoldersOf(fd) = Q \cup A \cup P \cup O \cup C
  BY Zenon DEF HoldersOf
<1>2. QueueInv /\ NotifyInv /\ CallbackInv /\ HeldInv
  BY DEF IInv
<1>3. (~Queued(fd) => Q = {}) /\ (Queued(fd) => \E x : Q = {x})
  <2>1. ASSUME ~Queued(fd) PROVE Q = {}
    BY <2>1 DEF Queued
  <2>2. ASSUME NEW i \in DOMAIN ust_cmd_queue, ust_cmd_queue[i].sock = fd PROVE Q = {<<"queue", i>>}
    <3>1. \A j \in DOMAIN ust_cmd_queue : ust_cmd_queue[j].sock = fd => j = i
      BY <1>2, <2>2 DEF QueueInv
    <3> QED
      BY <2>2, <3>1
  <2> QED
    BY Zenon, <2>1, <2>2 DEF Queued
<1>4. (~Used => A = {}) /\ (Used => \E x : A = {x})
  <2>1. ASSUME ~Used PROVE A = {}
    BY <2>1
  <2>2. ASSUME NEW r \in Regs, app[r] # None, app[r].sock = fd PROVE A = {<<"app", r>>}
    <3>1. \A q \in Regs : app[q] # None /\ app[q].sock = fd => q = r
      BY <2>2, SocketsDiffer
    <3> QED
      BY <2>2, <3>1
  <2> QED
    BY Zenon, <2>1, <2>2
<1>5. (~Piped(fd) => P = {}) /\ (Piped(fd) => \E x : P = {x})
  <2>1. ASSUME ~Piped(fd) PROVE P = {}
    BY <2>1 DEF Piped
  <2>2. ASSUME NEW i \in DOMAIN notify.pipe, notify.pipe[i] = fd PROVE P = {<<"pipe", i>>}
    <3>1. \A j \in DOMAIN notify.pipe : notify.pipe[j] = fd => j = i
      BY <1>2, <2>2 DEF NotifyInv
    <3> QED
      BY <2>2, <3>1
  <2> QED
    BY Zenon, <2>1, <2>2 DEF Piped
<1>6. (fd \notin notify.polled => O = {}) /\ (fd \in notify.polled => O = {<<"polled", fd>>})
  OBVIOUS
<1>7. (~Closing(fd) => C = {}) /\ (Closing(fd) => \E x : C = {x})
  <2>1. ASSUME ~Closing(fd) PROVE C = {}
    BY <2>1 DEF Closing
  <2>2. ASSUME NEW c \in callbacks, c.kind = "notify", c.fd = fd PROVE C = {<<"callback", c>>}
    <3>1. \A d \in callbacks : d.kind = "notify" /\ d.fd = fd => d = c
      BY <1>2, <2>2 DEF CallbackInv
    <3> QED
      BY <2>2, <3>1
  <2> QED
    BY Zenon, <2>1, <2>2 DEF Closing
<1>8. /\ Used => ~Queued(fd) /\ ~Piped(fd) /\ fd \notin notify.polled /\ ~Closing(fd)
      /\ file[fd] = None => /\ ~Queued(fd) /\ ~Piped(fd) /\ fd \notin notify.polled
                            /\ ~Closing(fd) /\ ~Used
  BY SMTT(30), SocketsDiffer
<1>9. /\ Piped(fd) => fd \notin notify.polled
      /\ Piped(fd) \/ fd \in notify.polled => ~Closing(fd) /\ ~Queued(fd)
      /\ Closing(fd) => ~Queued(fd)
  BY SMTT(30), <1>2 DEF NotifyInv
<1>10. file[fd] # None => Queued(fd) \/ Piped(fd) \/ fd \in notify.polled \/ Closing(fd) \/ Used
  BY SMTT(30), <1>2 DEF HeldInv
<1> HIDE DEF Q, A, P, O, C, Used
<1>11. CASE file[fd] = None
  BY <1>1, <1>3, <1>4, <1>5, <1>6, <1>7, <1>8, <1>11
<1>12. CASE file[fd] # None
  <2>1. CASE Queued(fd)
    <3>1. A = {} /\ P = {} /\ O = {} /\ C = {} /\ \E x : Q = {x}
      BY Zenon, <1>3, <1>4, <1>5, <1>6, <1>7, <1>8, <1>9, <2>1
    <3> QED
      BY <1>1, <1>12, <3>1
  <2>2. CASE Piped(fd)
    <3>1. A = {} /\ Q = {} /\ O = {} /\ C = {} /\ \E x : P = {x}
      BY Zenon, <1>3, <1>4, <1>5, <1>6, <1>7, <1>8, <1>9, <2>2
    <3> QED
      BY <1>1, <1>12, <3>1
  <2>3. CASE fd \in notify.polled
    <3>1. A = {} /\ Q = {} /\ P = {} /\ C = {} /\ O = {<<"polled", fd>>}
      BY <1>3, <1>4, <1>5, <1>6, <1>7, <1>8, <1>9, <2>3
    <3>2. HoldersOf(fd) = {<<"polled", fd>>}
      BY <1>1, <3>1
    <3> QED
      BY Zenon, <1>12, <3>2
  <2>4. CASE Closing(fd)
    <3>1. A = {} /\ Q = {} /\ P = {} /\ O = {} /\ \E x : C = {x}
      BY Zenon, <1>3, <1>4, <1>5, <1>6, <1>7, <1>8, <1>9, <2>4
    <3> QED
      BY <1>1, <1>12, <3>1
  <2>5. CASE Used
    <3>1. Q = {} /\ P = {} /\ O = {} /\ C = {} /\ \E x : A = {x}
      BY Zenon, <1>3, <1>4, <1>5, <1>6, <1>7, <1>8, <1>9, <2>5
    <3> QED
      BY <1>1, <1>12, <3>1
  <2> QED
    BY Zenon, <1>10, <1>12, <2>1, <2>2, <2>3, <2>4, <2>5
<1> QED
  BY <1>11, <1>12

(***************************************************************************)
(* Every open socket is closed by exactly one thread and no descriptor is  *)
(* closed twice, whatever fails: the command and notify sockets go through *)
(* ust_cmd_queue, the applications, the notification thread's pipe and     *)
(* poll set and call_rcu, and each of them hands a socket over or closes   *)
(* it (dispatch.c, notify-apps.c, ust-app.c).                              *)
(***************************************************************************)
THEOREM OneHolder == Spec => []SocketsHaveOneHolder
<1>1. IInv => SocketsHaveOneHolder
  <2> SUFFICES ASSUME IInv, NEW fd \in Fds
               PROVE  Cardinality(HoldersOf(fd)) = IF file[fd] = None THEN 0 ELSE 1
    BY DEF SocketsHaveOneHolder
  <2>1. CASE file[fd] = None
    <3>1. HoldersOf(fd) = {}
      BY <2>1, Holder
    <3> QED
      BY <2>1, <3>1, FS_EmptySet
  <2>2. CASE file[fd] # None
    <3>1. PICK x : HoldersOf(fd) = {x}
      BY Zenon, <2>2, Holder
    <3>2. Cardinality({x}) = 1
      BY Zenon, FS_Singleton
    <3> QED
      BY <2>2, <3>1, <3>2
  <2> QED
    BY <2>1, <2>2
<1> QED
  BY <1>1, Invariance, PTL

(***************************************************************************)
(* No thread uses an application that was freed: whoever is in a hash      *)
(* table of ust-app.c, in the dispatch thread's wait queue, or held by a   *)
(* thread, exists, whatever descriptors and process identifiers are reused *)
(* and whatever fails.                                                     *)
(***************************************************************************)
THEOREM NoUseAfterFree == Spec => []AppsInUseExist
<1>1. IInv => AppsInUseExist
  <2> SUFFICES ASSUME IInv,
                      NEW r \in ust_app_ht \cup ust_app_ht_by_sock \cup ust_app_ht_by_notify_sock
                          \cup Range(wait_queue)
                          \cup ({dispatch.app, client, releasing["manage"], releasing["client"]}
                                \ {None})
               PROVE  app[r] # None
    BY SMTT(30) DEF AppsInUseExist
  <2>1. TypeInv /\ AppInv /\ RefInv /\ ManageInv
    BY SMTT(30) DEF IInv
  <2>2. ASSUME NEW q \in Regs, Waits(q) \/ Active(q) PROVE app[q] # None
    BY <2>1, <2>2 DEF AppInv
  <2>3. CASE r \in ust_app_ht \cup ust_app_ht_by_sock \cup ust_app_ht_by_notify_sock
    BY Zenon, <2>1, <2>2, <2>3 DEF TypeInv, AppInv, Active
  <2>4. CASE r \in Range(wait_queue)
    <3>1. r \in Regs /\ Waits(r)
      BY <2>1, <2>4 DEF TypeInv, Range, Waits
    <3> QED
      BY Zenon, <2>2, <3>1
  <2>5. CASE r = dispatch.app /\ r # None
    <3>1. r \in Regs /\ Active(r)
      BY Zenon, <2>1, <2>5 DEF TypeInv, ManageInv, Active
    <3> QED
      BY SMTT(30), <2>2, <3>1
  <2>6. CASE r \in {client, releasing["manage"], releasing["client"]} /\ r # None
    <3>1. r \in Regs /\ Active(r)
      BY <2>1, <2>6 DEF TypeInv, RefInv, Active
    <3> QED
      BY <2>2, <3>1
  <2> QED
    BY <2>3, <2>4, <2>5, <2>6
<1> QED
  BY <1>1, Invariance, PTL

-----------------------------------------------------------------------------
\* The notify sockets of the table, when lttng_poll_add does not fail.

LEMMA WatchFrame ==
    ASSUME IInv, WatchInv, ~aborted',
           ust_app_ht_by_notify_sock' \subseteq ust_app_ht_by_notify_sock,
           \A r \in ust_app_ht_by_notify_sock' : app'[r].notify_sock = app[r].notify_sock,
           \A r \in ust_app_ht_by_notify_sock' :
               file'[app[r].notify_sock] = file[app[r].notify_sock],
           \A r \in ust_app_ht_by_notify_sock' :
               Piped(app[r].notify_sock) \/ app[r].notify_sock \in notify.polled
                 => \E fd \in Fds : fd = app[r].notify_sock /\ (Piped(fd)' \/ fd \in notify'.polled)
    PROVE  WatchInv'
<1>1. ASSUME NEW r \in ust_app_ht_by_notify_sock'
      PROVE  LET w == app'[r].notify_sock
             IN  /\ w \in Fds
                 /\ \E fd \in Fds : fd = w /\ (Piped(fd)' \/ fd \in notify'.polled)
                 /\ Pid(file'[w][1]) = Pid(r)
                 /\ file'[w][1][2] >= r[2]
  BY Zenon, <1>1 DEF WatchInv
<1>2. \A q, r \in ust_app_ht_by_notify_sock' : app'[q].notify_sock = app'[r].notify_sock => q = r
  BY Zenon DEF WatchInv
<1> QED
  BY Zenon, <1>1, <1>2 DEF WatchInv, Piped

\* A socket of the table is open, of type notify, and nowhere else.
LEMMA Watched ==
    ASSUME IInv, WatchInv, NEW r \in ust_app_ht_by_notify_sock
    PROVE  LET w == app[r].notify_sock
           IN  /\ w \in Fds /\ file[w] # None /\ file[w][2] = "notify"
               /\ ~Queued(w) /\ ~Closing(w)
               /\ r \in Regs /\ app[r] # None /\ Active(r)
<1>1. TypeInv /\ AppInv /\ NotifyInv
  BY DEF IInv
<1>2. app[r].notify_sock \in Fds /\ (Piped(app[r].notify_sock) \/ app[r].notify_sock \in notify.polled)
  BY Zenon DEF WatchInv
<1> QED
  BY Zenon, <1>1, <1>2 DEF NotifyInv, TypeInv, AppInv

LEMMA DispatchNotifyWatches ==
    ASSUME IInv, WatchInv, IInv', DispatchNotify
    PROVE  WatchInv'
<1> DEFINE h == Head(ust_cmd_queue)
           k == Waiting(Pid(h.reg))
           r == wait_queue[k]
<1>1. /\ Dequeue("notify") /\ k # 0
      /\ ust_app_ht_by_notify_sock' = ust_app_ht_by_notify_sock \cup {r}
      /\ notify' = [notify EXCEPT !.pipe = Append(@, h.sock)]
      /\ UNCHANGED file
      /\ aborted' = \/ \E q \in ust_app_ht_by_sock : app[q].sock = app[r].sock
                    \/ \E q \in ust_app_ht_by_notify_sock : app[q].notify_sock = h.sock
  BY Zenon DEF DispatchNotify, ust_app_add
<1>2. PICK pipe \in {1, 2} : app' = [app EXCEPT ![r].notify_sock = h.sock, ![r].pipe = pipe]
  BY Zenon DEF DispatchNotify
<1>3. TypeInv /\ AppInv
  BY DEF IInv
<1>4. k \in DOMAIN wait_queue /\ Pid(r) = Pid(h.reg)
  BY <1>1, <1>3, WaitingIsFirst DEF TypeInv
<1> HIDE DEF h, k
<1>5. /\ h.reg \in Regs /\ h.sock \in Fds /\ file[h.sock] = <<h.reg, "notify">> /\ Queued(h.sock)
      /\ \A j \in DOMAIN wait_queue :
           Pid(h.reg) = Pid(wait_queue[j]) => wait_queue[j][2] <= h.reg[2]
  <2>1. \A fd \in Fds : fd # h.sock => file'[fd] = file[fd]
    BY <1>1
  <2> QED
    BY <1>1, <2>1, Dequeued DEF h
<1>6. /\ r \in Regs /\ Waits(r) /\ ~Active(r) /\ app[r] # None
  <2>1. r \in Regs /\ Waits(r)
    BY <1>3, <1>4 DEF TypeInv, Waits
  <2> QED
    BY Zenon, <1>3, <2>1 DEF AppInv
<1>7. /\ app'[r].notify_sock = h.sock
      /\ \A q \in Regs : q # r => app'[q] = app[q]
  <2> DEFINE a == [app[r] EXCEPT !.notify_sock = h.sock, !.pipe = pipe]
  <2>1. app' = [app EXCEPT ![r] = a]
    BY Zenon, <1>2, <1>3, <1>6 DEF TypeInv
  <2>2. app[r] \in Apps
    BY <1>3, <1>6 DEF TypeInv
  <2>3. a.notify_sock = h.sock
    BY SMTT(30), <2>2 DEF Apps
  <2> HIDE DEF a
  <2> QED
    BY Zenon, <1>3, <1>6, <2>1, <2>3 DEF TypeInv
<1>8. h.reg[2] >= r[2] /\ file[h.sock][1] = h.reg
  <2>1. r[2] \in Int /\ h.reg[2] \in Int
    BY <1>5, <1>6 DEF Regs
  <2>2. file[h.sock][1] = h.reg
    BY <1>5
  <2> QED
    BY <1>4, <1>5, <2>1, <2>2
<1>9. \A q \in ust_app_ht_by_notify_sock :
        /\ q \in Regs /\ q # r /\ app[q].notify_sock \in Fds /\ app[q].notify_sock # h.sock
  BY Zenon, <1>5, <1>6, Watched
<1>10. ~aborted'
  <2>1. \A q \in ust_app_ht_by_sock : q \in Regs /\ Active(q) /\ app[q] # None /\ q # r
    BY Zenon, <1>3, <1>6 DEF TypeInv, Active, AppInv
  <2>2. \A q \in ust_app_ht_by_sock : app[q].sock # app[r].sock
    BY Zenon, <1>6, <2>1, SocketsDiffer
  <2> QED
    BY <1>1, <1>9, <2>2
<1>11. \A fd \in Fds : (Piped(fd)' <=> Piped(fd) \/ fd = h.sock)
  <2>1. notify.pipe \in Seq(Fds) /\ notify'.pipe = Append(notify.pipe, h.sock)
    BY SMTT(30), <1>1, <1>3 DEF TypeInv
  <2>2. /\ Len(notify.pipe) \in Nat
        /\ DOMAIN notify.pipe = 1 .. Len(notify.pipe)
        /\ DOMAIN notify'.pipe = 1 .. Len(notify.pipe) + 1
        /\ \A i \in DOMAIN notify.pipe : notify'.pipe[i] = notify.pipe[i]
        /\ notify'.pipe[Len(notify.pipe) + 1] = h.sock
    BY <1>5, <2>1, Appended
  <2> QED
    BY <2>2 DEF Piped
<1>12. notify'.polled = notify.polled
  BY <1>1, <1>3 DEF TypeInv
<1> HIDE DEF r
<1>13. ASSUME NEW q \in ust_app_ht_by_notify_sock'
       PROVE  \E w \in Fds :
                  /\ w = app'[q].notify_sock
                  /\ Piped(w)' \/ w \in notify'.polled
                  /\ Pid(file'[w][1]) = Pid(q)
                  /\ file'[w][1][2] >= q[2]
  <2>1. CASE q = r
    BY <1>1, <1>4, <1>5, <1>7, <1>8, <1>11, <2>1
  <2>2. CASE q # r
    <3>1. q \in ust_app_ht_by_notify_sock /\ app'[q] = app[q] /\ app[q].notify_sock \in Fds
      BY <1>1, <1>7, <1>9, <1>13, <2>2
    <3> QED
      BY <1>1, <1>11, <1>12, <3>1 DEF WatchInv
  <2> QED
    BY Zenon, <2>1, <2>2
<1>14. \A p, q \in ust_app_ht_by_notify_sock' : app'[p].notify_sock = app'[q].notify_sock => p = q
  BY SMTT(30), <1>1, <1>7, <1>9 DEF WatchInv
<1> QED
  BY Zenon, <1>10, <1>13, <1>14 DEF WatchInv, Piped

LEMMA StepWatches ==
    ASSUME ~PollMayFail, IInv, WatchInv, IInv', Next
    PROVE  WatchInv'
<1>1. ~aborted
  BY SMTT(30) DEF WatchInv
<1>2. TypeInv /\ AppInv /\ CallbackInv /\ RefInv /\ NotifyInv
  BY DEF IInv
<1>3. \A r \in ust_app_ht_by_notify_sock :
        /\ app[r].notify_sock \in Fds /\ file[app[r].notify_sock] # None
        /\ file[app[r].notify_sock][2] = "notify"
        /\ ~Queued(app[r].notify_sock) /\ ~Closing(app[r].notify_sock)
        /\ r \in Regs /\ app[r] # None /\ Active(r)
  BY Zenon, Watched
<1>4. ASSUME ~aborted', notify' = notify,
             ust_app_ht_by_notify_sock' \subseteq ust_app_ht_by_notify_sock,
             \A r \in ust_app_ht_by_notify_sock' : app'[r].notify_sock = app[r].notify_sock,
             \A r \in ust_app_ht_by_notify_sock' :
               file'[app[r].notify_sock] = file[app[r].notify_sock]
      PROVE  WatchInv'
  <2>1. \A fd : Piped(fd)' <=> Piped(fd)
    BY <1>4 DEF Piped
  <2> QED
    BY Zenon, <1>3, <1>4, <2>1, WatchFrame
<1>5. CASE Registration
  <2>1. ASSUME NEW fd \in Fds, file[fd] = None, NEW x, file' = [file EXCEPT ![fd] = x],
               UNCHANGED <<notify, ust_app_ht_by_notify_sock, app, aborted>>
        PROVE  WatchInv'
    <3>1. \A r \in ust_app_ht_by_notify_sock' : file'[app[r].notify_sock] = file[app[r].notify_sock]
      BY <1>2, <1>3, <2>1 DEF TypeInv
    <3> QED
      BY SMTT(30), <1>1, <1>4, <2>1, <3>1
  <2>2. ASSUME UNCHANGED <<notify, ust_app_ht_by_notify_sock, app, aborted, file>>
        PROVE  WatchInv'
    BY <1>1, <1>4, <2>2
  <2>3. \/ UNCHANGED <<notify, ust_app_ht_by_notify_sock, app, aborted, file>>
        \/ \E fd \in Fds : file[fd] = None /\ (\E x : file' = [file EXCEPT ![fd] = x])
                            /\ UNCHANGED <<notify, ust_app_ht_by_notify_sock, app, aborted>>
    BY Zenon, <1>5 DEF Registration, HangUp, RegistrationRefused, thread_application_registration, tables
  <2> QED
    BY SMTT(30), <2>1, <2>2, <2>3
<1>6. CASE FutexWaitEnds \/ sanitize_wait_queue \/ DequeueNothing \/ update_ust_app \/ SendToManage
  <2>1. UNCHANGED <<notify, ust_app_ht_by_notify_sock, app, aborted, file>>
    BY <1>6 DEF FutexWaitEnds, sanitize_wait_queue, DequeueNothing, update_ust_app, SendToManage, tables
  <2> QED
    BY <1>1, <1>4, <2>1
<1>7. CASE DispatchCmd
  <2> DEFINE h == Head(ust_cmd_queue)
             a == [ref |-> 1, sock |-> h.sock, notify_sock |-> None, pipe |-> 2]
  <2>1. /\ app' = [app EXCEPT ![h.reg] = a] /\ Dequeue("cmd")
        /\ UNCHANGED <<notify, ust_app_ht_by_notify_sock, aborted, file>>
    BY <1>7 DEF DispatchCmd, tables
  <2>2. app[h.reg] = None
    <3>1. 1 \in DOMAIN ust_cmd_queue /\ h = ust_cmd_queue[1]
      BY <1>2, <2>1, HeadTail DEF Dequeue, TypeInv
    <3> QED
      BY Zenon, <1>2, <2>1, <3>1 DEF AppInv, Dequeue
  <2> HIDE DEF h, a
  <2>3. \A r \in ust_app_ht_by_notify_sock' : app'[r] = app[r]
    BY Zenon, <1>2, <1>3, <2>1, <2>2 DEF TypeInv
  <2> QED
    BY Zenon, <1>1, <1>4, <2>1, <2>3
<1>8. CASE DispatchCmdFails \/ DispatchNotifyUseless
  <2> DEFINE h == Head(ust_cmd_queue)
  <2>1. /\ file' = [file EXCEPT ![h.sock] = None] /\ \E type : Dequeue(type)
        /\ UNCHANGED <<notify, ust_app_ht_by_notify_sock, app, aborted>>
    BY <1>8 DEF DispatchCmdFails, DispatchNotifyUseless, tables
  <2>2. Queued(h.sock)
    <3>1. 1 \in DOMAIN ust_cmd_queue /\ h = ust_cmd_queue[1]
      BY <1>2, <2>1, HeadTail DEF Dequeue, TypeInv
    <3> QED
      BY <3>1 DEF Queued
  <2> HIDE DEF h
  <2>3. \A r \in ust_app_ht_by_notify_sock' : file'[app[r].notify_sock] = file[app[r].notify_sock]
    BY Zenon, <1>2, <1>3, <2>1, <2>2 DEF TypeInv
  <2> QED
    BY Zenon, <1>1, <1>4, <2>1, <2>3
<1>9. CASE DispatchNotify
  BY <1>9, DispatchNotifyWatches
<1>10. CASE NotifyReads
  <2> DEFINE p == notify.pipe
  <2>1. /\ notify'.pipe = Tail(p) /\ notify'.polled = notify.polled \cup {Head(p)} /\ p # <<>>
        /\ UNCHANGED <<ust_app_ht_by_notify_sock, app, aborted, file>>
    BY Zenon, <1>10 DEF NotifyReads, tables
  <2>2. p \in Seq(Fds) /\ \A i, j \in DOMAIN p : p[i] = p[j] => i = j
    BY <1>2 DEF TypeInv, NotifyInv
  <2> HIDE DEF p
  <2>3. \A x : (\E i \in DOMAIN Tail(p) : Tail(p)[i] = x)
               <=> (\E i \in DOMAIN p : p[i] = x) /\ x # Head(p)
    BY Zenon, <2>1, <2>2, TailOfDistinct
  <2>4. \A fd : Piped(fd) <=> \E i \in DOMAIN p : p[i] = fd
    BY DEF Piped, p
  <2>5. \A fd : Piped(fd)' <=> \E i \in DOMAIN Tail(p) : Tail(p)[i] = fd
    BY <2>1 DEF Piped
  <2>6. \A fd \in Fds : Piped(fd) \/ fd \in notify.polled => Piped(fd)' \/ fd \in notify'.polled
    BY Zenon, <2>1, <2>3, <2>4, <2>5
  <2> QED
    BY Zenon, <1>1, <1>3, <2>1, <2>6, WatchFrame
<1>11. ASSUME NEW fd \in Fds, ust_app_notify_sock_unregister(fd) PROVE WatchInv'
  <2>1. /\ ust_app_ht_by_notify_sock' = {r \in ust_app_ht_by_notify_sock : app[r].notify_sock # fd}
        /\ UNCHANGED <<app, aborted, file>>
    BY <1>11 DEF ust_app_notify_sock_unregister
  <2>2. notify'.pipe = notify.pipe /\ notify'.polled = notify.polled \ {fd}
    BY <1>2, <1>11 DEF ust_app_notify_sock_unregister, TypeInv
  <2>3. \A fe : Piped(fe)' <=> Piped(fe)
    BY <2>2 DEF Piped
  <2>4. \A r \in ust_app_ht_by_notify_sock' :
           Piped(app[r].notify_sock) \/ app[r].notify_sock \in notify.polled
             => \E fe \in Fds : fe = app[r].notify_sock /\ (Piped(fe)' \/ fe \in notify'.polled)
    BY Zenon, <1>3, <2>1, <2>2, <2>3
  <2> QED
    BY <1>1, <2>1, <2>4, WatchFrame
<1>12. CASE ManageReads
  BY Zenon, <1>1, <1>4, <1>12 DEF ManageReads, tables
<1>13. ASSUME NEW t \in {"manage", "client"}, ust_app_release(t) PROVE WatchInv'
  <2>1. /\ ust_app_ht_by_notify_sock' \subseteq ust_app_ht_by_notify_sock
        /\ UNCHANGED <<app, notify, aborted, file>>
    BY <1>13 DEF ust_app_release
  <2> QED
    BY <1>1, <1>4, <2>1
<1>14. ASSUME NEW t \in {"manage", "client"}, NEW r \in Regs, app[r] # None,
              app[r].ref > 0, ust_app_put(t, r),
              UNCHANGED <<ust_app_ht_by_notify_sock, notify, file, aborted>>
       PROVE  WatchInv'
  <2>1. \A q \in Regs : app'[q].notify_sock = app[q].notify_sock
    BY Zenon, <1>14, Put
  <2> QED
    BY Zenon, <1>1, <1>3, <1>4, <1>14, <2>1
<1>15. ASSUME NEW fd \in Fds, ust_app_unregister_by_socket(fd) PROVE WatchInv'
  <2>1. UNCHANGED aborted
    BY <1>15, UnregisterKeeps DEF IInv
  <2>2. aborted' # TRUE
    BY Zenon, <1>1, <2>1
  <2>3. PICK r \in ust_app_ht_by_sock : ust_app_put("manage", r)
    BY Zenon, <1>15, <2>2 DEF ust_app_unregister_by_socket
  <2>4. r \in Regs /\ app[r] # None /\ app[r].ref > 0
    <3>1. r \in Regs /\ Active(r)
      BY SMTT(30), <1>2 DEF TypeInv, Active
    <3> QED
      BY <1>2, <3>1 DEF AppInv, RefInv
  <2>5. UNCHANGED <<ust_app_ht_by_notify_sock, notify, file, aborted>>
    BY <1>15, <2>1 DEF ust_app_unregister_by_socket
  <2> QED
    BY <1>14, <2>3, <2>4, <2>5
<1>16. CASE ClientPuts
  <2>1. client \in Regs /\ app[client] # None /\ app[client].ref > 0
    BY <1>2, <1>16 DEF ClientPuts, TypeInv, AppInv, RefInv, Active
  <2>2. UNCHANGED <<ust_app_ht_by_notify_sock, notify, file, aborted>> /\ ust_app_put("client", client)
    BY Zenon, <1>16 DEF ClientPuts, tables
  <2> QED
    BY SMTT(30), <1>14, <2>1, <2>2
<1>17. ASSUME NEW r \in Regs, ust_app_get(r) PROVE WatchInv'
  <2>1. app[r] # None /\ app[r] \in Apps /\ app[r].ref \in Nat
    BY <1>2, <1>17 DEF ust_app_get, AppInv, TypeInv, Apps
  <2>2. app' = [app EXCEPT ![r].ref = app[r].ref + 1] /\ app[r].ref + 1 \in Nat
    BY <1>2, <1>17, <2>1 DEF ust_app_get, TypeInv
  <2>3. \A q \in Regs : app'[q].notify_sock = app[q].notify_sock
    BY <1>2, <2>1, <2>2, RefChanges
  <2>4. UNCHANGED <<ust_app_ht_by_notify_sock, notify, file, aborted>>
    BY <1>17 DEF ust_app_get, tables
  <2> QED
    BY Zenon, <1>1, <1>3, <1>4, <2>3, <2>4
<1>18. ASSUME NEW c \in callbacks, delete_ust_app(c) PROVE WatchInv'
  <2>1. /\ UNCHANGED <<ust_app_ht_by_notify_sock, notify, aborted>> /\ c.kind = "app"
        /\ file' = [file EXCEPT ![c.fd] = None] /\ app' = [app EXCEPT ![c.reg] = None]
    BY Zenon, <1>18 DEF delete_ust_app, tables
  <2>2. c.reg \in Regs /\ c.fd = app[c.reg].sock /\ Dies(c.reg)
    BY SMTT(30), <1>2, <2>1 DEF CallbackInv, Dies
  <2>3. ~Active(c.reg) /\ file[c.fd] = <<c.reg, "cmd">>
    BY SMTT(30), <1>2, <2>2 DEF AppInv
  <2>4. file[c.fd][2] = "cmd"
    BY <2>2, <2>3, SocketParts
  <2>5. \A r \in ust_app_ht_by_notify_sock : app'[r] = app[r]
    BY Zenon, <1>2, <1>3, <2>1, <2>3 DEF TypeInv
  <2>6. \A r \in ust_app_ht_by_notify_sock : file'[app[r].notify_sock] = file[app[r].notify_sock]
    BY Zenon, <1>2, <1>3, <2>1, <2>4 DEF TypeInv
  <2> QED
    BY Zenon, <1>1, <1>4, <2>1, <2>5, <2>6
<1>19. ASSUME NEW c \in callbacks, close_notify_sock_rcu(c) PROVE WatchInv'
  <2>1. /\ UNCHANGED <<ust_app_ht_by_notify_sock, app, notify, aborted>> /\ c.kind = "notify"
        /\ file' = [file EXCEPT ![c.fd] = None]
    BY Zenon, <1>19 DEF close_notify_sock_rcu, tables
  <2>2. Closing(c.fd)
    BY <2>1 DEF Closing
  <2>3. \A r \in ust_app_ht_by_notify_sock : file'[app[r].notify_sock] = file[app[r].notify_sock]
    BY Zenon, <1>2, <1>3, <2>1, <2>2 DEF TypeInv
  <2> QED
    BY Zenon, <1>1, <1>4, <2>1, <2>3
<1>20. ~NotifyReadFails
  BY DEF NotifyReadFails
<1> QED
  BY <1>5, <1>6, <1>7, <1>8, <1>9, <1>10, <1>11, <1>12, <1>13, <1>15, <1>16, <1>17, <1>18, <1>19, <1>20
  DEF Next, Dispatch, Notification, Management, Client, Reclaim

LEMMA WatchInvariance == ASSUME ~PollMayFail PROVE Spec => [](IInv /\ WatchInv)
<1>1. Init => IInv /\ WatchInv
  <2>1. ASSUME Init PROVE WatchInv
    <3>1. ust_app_ht_by_notify_sock = {} /\ ~aborted
      BY <2>1 DEF Init
    <3> QED
      BY SMTT(30), <3>1 DEF WatchInv
  <2> QED
    BY SMTT(30), <2>1, InitHolds
<1>2. IInv /\ WatchInv /\ [Next]_vars => (IInv /\ WatchInv)'
  <2> SUFFICES ASSUME IInv, WatchInv, [Next]_vars PROVE IInv' /\ WatchInv'
    OBVIOUS
  <2>1. IInv'
    BY StepKeeps
  <2>2. CASE Next
    BY <2>1, <2>2, StepWatches
  <2>3. CASE UNCHANGED vars
    <3>1. UNCHANGED <<ust_app_ht_by_notify_sock, app, notify, file, aborted>>
      BY <2>3 DEF vars
    <3>2. ~aborted'
      BY <3>1, Zenon DEF WatchInv
    <3>3. \A fd : Piped(fd)' <=> Piped(fd)
      BY SMTT(30), <3>1 DEF Piped
    <3>4. \A r \in ust_app_ht_by_notify_sock : app[r].notify_sock \in Fds
      BY SMTT(30) DEF WatchInv
    <3>6. \A r \in ust_app_ht_by_notify_sock' :
            Piped(app[r].notify_sock) \/ app[r].notify_sock \in notify.polled
              => \E fd \in Fds : fd = app[r].notify_sock /\ (Piped(fd)' \/ fd \in notify'.polled)
      BY <3>1, <3>3, <3>4
    <3>7. /\ ust_app_ht_by_notify_sock' \subseteq ust_app_ht_by_notify_sock
          /\ \A r \in ust_app_ht_by_notify_sock' : app'[r].notify_sock = app[r].notify_sock
          /\ \A r \in ust_app_ht_by_notify_sock' :
               file'[app[r].notify_sock] = file[app[r].notify_sock]
      BY <3>1
    <3> QED
      BY Zenon, <2>1, <3>2, <3>6, <3>7, WatchFrame
  <2> QED
    BY <2>1, <2>2, <2>3
<1> QED
  BY <1>1, <1>2, PTL DEF Spec

(***************************************************************************)
(* Unless lttng_poll_add fails, the assertions of                          *)
(* lttng_ht_add_unique_ulong in ust_app_add and the one of                 *)
(* ust_app_unregister_by_socket hold, for any number of processes and      *)
(* descriptors, however they are reused.                                   *)
(***************************************************************************)
THEOREM NoAssertionFails == ASSUME ~PollMayFail PROVE Spec => []NeverAborts
<1>1. IInv /\ WatchInv => NeverAborts
  BY SMTT(30) DEF WatchInv, NeverAborts
<1> QED
  BY <1>1, WatchInvariance, PTL

(***************************************************************************)
(* Unless lttng_poll_add fails, the entries of the socket tables lead from *)
(* a descriptor to the application that has it, and no waiting application *)
(* has lost its notify socket to an earlier registration (dispatch.c:346). *)
(***************************************************************************)
THEOREM TablesLead == ASSUME ~PollMayFail PROVE Spec => []TablesLeadToTheirApp
<1>1. IInv /\ WatchInv => TablesLeadToTheirApp
  <2> SUFFICES ASSUME IInv, WatchInv PROVE TablesLeadToTheirApp
    OBVIOUS
  <2>1. TypeInv /\ AppInv /\ WaitInv
    BY SMTT(30) DEF IInv
  <2>2. \A r \in ust_app_ht_by_sock : file[app[r].sock] = <<r, "cmd">>
    BY Zenon, <2>1 DEF TypeInv, AppInv, Active
  <2>3. ASSUME NEW r \in ust_app_ht_by_notify_sock
        PROVE  \E q \in Regs : /\ file[app[r].notify_sock] = <<q, "notify">>
                               /\ Pid(q) = Pid(r) /\ q[2] >= r[2]
    <3> DEFINE w == app[r].notify_sock
    <3>1. w \in Fds /\ file[w] # None /\ file[w][2] = "notify"
      BY Zenon, <2>3, Watched
    <3>2. file[w] = <<file[w][1], "notify">> /\ file[w][1] \in Regs
      BY SMTT(30), <2>1, <3>1, FileTypes
    <3>3. Pid(file[w][1]) = Pid(r) /\ file[w][1][2] >= r[2]
      BY <2>3 DEF WatchInv
    <3> HIDE DEF w
    <3>4. \E q \in Regs : file[w] = <<q, "notify">> /\ Pid(q) = Pid(r) /\ q[2] >= r[2]
      BY SMTT(30), <3>2, <3>3
    <3> QED
      BY SMTT(30), <3>4 DEF w
  <2>4. \A r \in Range(wait_queue) : \A fd \in Fds :
          file[fd] = <<r, "notify">> => \E i \in DOMAIN ust_cmd_queue : ust_cmd_queue[i].sock = fd
    BY <2>1 DEF WaitInv, Queued, Range
  <2> QED
    BY <2>2, <2>3, <2>4 DEF TablesLeadToTheirApp
<1> QED
  BY <1>1, WatchInvariance, PTL

-----------------------------------------------------------------------------
\* The count of descriptors, when lttng_pipe_open does not fail.

LEMMA FiniteSockets == ASSUME NEW S, S \subseteq Fds PROVE IsFiniteSet(S)
  BY FiniteAssumption, FS_Subset

LEMMA FinitePipes == ASSUME NEW S, S \subseteq Regs \X {1, 2} PROVE IsFiniteSet(S)
<1>0. 1 \in Int /\ 2 \in Int /\ MaxRegistrations \in Int
  BY BoundsAssumption
<1>1. IsFiniteSet(1 .. MaxRegistrations) /\ IsFiniteSet(1 .. 2)
  BY Zenon, <1>0, FS_Interval
<1>2. IsFiniteSet(Regs)
  BY Zenon, <1>1, FiniteAssumption, FS_Product DEF Regs
<1>3. 1 .. 2 = {1, 2}
  OBVIOUS
<1>4. IsFiniteSet(Regs \X {1, 2})
  BY <1>1, <1>2, <1>3, FS_Product
<1> QED
  BY <1>4, FS_Subset

LEMMA CountsAreNaturals ==
    Cardinality(OpenSockets) \in Nat /\ Cardinality(OpenPipes) \in Nat
<1>1. IsFiniteSet(OpenSockets) /\ IsFiniteSet(OpenPipes)
  BY FiniteSockets, FinitePipes DEF OpenSockets, OpenPipes
<1> QED
  BY <1>1, FS_CardinalityType

LEMMA SocketOpens ==
    ASSUME TypeInv, NEW fd \in Fds, file[fd] = None, NEW x, x # None,
           file' = [file EXCEPT ![fd] = x]
    PROVE  Cardinality(OpenSockets') = Cardinality(OpenSockets) + 1
<1>1. OpenSockets' = OpenSockets \cup {fd} /\ fd \notin OpenSockets
  BY DEF OpenSockets, TypeInv
<1>2. IsFiniteSet(OpenSockets)
  BY FiniteSockets DEF OpenSockets
<1> QED
  BY <1>1, <1>2, FS_AddElement

LEMMA SocketCloses ==
    ASSUME TypeInv, NEW fd \in Fds, file[fd] # None, file' = [file EXCEPT ![fd] = None]
    PROVE  Cardinality(OpenSockets') = Cardinality(OpenSockets) - 1
<1>1. OpenSockets' = OpenSockets \ {fd} /\ fd \in OpenSockets
  BY DEF OpenSockets, TypeInv
<1>2. IsFiniteSet(OpenSockets)
  BY FiniteSockets DEF OpenSockets
<1> QED
  BY SMTT(30), <1>1, <1>2, FS_RemoveElement

\* The pipe ends of an application, besides those of the others.
LEMMA PipeEnds ==
    ASSUME NEW Rest, Rest \subseteq Regs \X {1, 2}, NEW r \in Regs, NEW n \in {0, 1, 2}, NEW T,
           \A x \in Rest : x[1] # r,
           \A x : x \in T <=> x \in Rest \/ x \in {<<r, i>> : i \in 1 .. n}
    PROVE  Cardinality(T) = Cardinality(Rest) + n
<1>1. IsFiniteSet(Rest)
  BY FinitePipes
<1>2. <<r, 1>> \notin Rest /\ <<r, 2>> \notin Rest /\ <<r, 1>> # <<r, 2>>
  OBVIOUS
<1>3. \A x : x \in T <=> x \in Rest \/ x \in {<<r, i>> : i \in 1 .. n}
  OBVIOUS
<1>4. Cardinality(Rest) \in Nat
  BY <1>1, FS_CardinalityType
<1>5. CASE n = 0
  <2>1. T = Rest
    BY <1>3, <1>5
  <2> QED
    BY <1>4, <1>5, <2>1
<1>6. IsFiniteSet(Rest \cup {<<r, 1>>}) /\ Cardinality(Rest \cup {<<r, 1>>}) = Cardinality(Rest) + 1
  BY <1>1, <1>2, FS_AddElement
<1>7. CASE n = 1
  <2>1. \A x : x \in {<<r, i>> : i \in 1 .. n} <=> x = <<r, 1>>
    BY <1>7
  <2>2. T = Rest \cup {<<r, 1>>}
    BY <1>3, <2>1
  <2> QED
    BY <1>6, <1>7, <2>2
<1>8. CASE n = 2
  <2>1. \A x : x \in {<<r, i>> : i \in 1 .. n} <=> x = <<r, 1>> \/ x = <<r, 2>>
    BY <1>8
  <2> DEFINE U == Rest \cup {<<r, 1>>}
  <2>2. T = U \cup {<<r, 2>>} /\ <<r, 2>> \notin U
    BY <1>2, <1>3, <2>1
  <2>3. Cardinality(U \cup {<<r, 2>>}) = Cardinality(U) + 1
    <3> HIDE DEF U
    <3>1. IsFiniteSet(U)
      BY <1>6 DEF U
    <3> QED
      BY <2>2, <3>1, FS_AddElement
  <2>4. Cardinality(T) = Cardinality(Rest) + 2
    BY <1>4, <1>6, <2>2, <2>3
  <2> QED
    BY <1>8, <2>4
<1> QED
  BY <1>5, <1>7, <1>8

\* The pipe of one application is opened, or an end or both are closed.
LEMMA PipesChange ==
    ASSUME TypeInv, TypeInv', NEW r \in Regs, NEW n \in {0, 1, 2}, NEW m \in {0, 1, 2},
           n = IF app[r] = None THEN 0 ELSE app[r].pipe,
           m = IF app'[r] = None THEN 0 ELSE app'[r].pipe,
           \A q \in Regs : q # r => app'[q] = app[q]
    PROVE  Cardinality(OpenPipes') = Cardinality(OpenPipes) + (m - n)
<1> DEFINE ends(a) == {i \in {1, 2} : a # None /\ i <= a.pipe}
<1>1. \A x : x \in OpenPipes <=> x \in Regs \X {1, 2} /\ x[2] \in ends(app[x[1]])
  BY SMTT(30) DEF OpenPipes
<1>2. \A x : x \in OpenPipes' <=> x \in Regs \X {1, 2} /\ x[2] \in ends(app'[x[1]])
  BY DEF OpenPipes
<1>3. ends(app[r]) = 1 .. n /\ ends(app'[r]) = 1 .. m
  OBVIOUS
<1> HIDE DEF ends
<1>4. \A i \in 1 .. n : i \in {1, 2}
  OBVIOUS
<1>5. \A i \in 1 .. m : i \in {1, 2}
  BY SMTT(30)
<1> DEFINE Rest == {x \in OpenPipes : x[1] # r}
<1>6. \A x : x \in OpenPipes <=> x \in Rest \/ x \in {<<r, i>> : i \in 1 .. n}
  BY SMTT(30), <1>1, <1>3, <1>4
<1>7. \A x : x \in OpenPipes' <=> x \in Rest \/ x \in {<<r, i>> : i \in 1 .. m}
  BY SMTT(30), <1>1, <1>2, <1>3, <1>5
<1>8. Rest \subseteq Regs \X {1, 2} /\ \A x \in Rest : x[1] # r
  BY SMTT(30) DEF OpenPipes
<1> HIDE DEF Rest
<1>9. Cardinality(OpenPipes) = Cardinality(Rest) + n
  BY <1>6, <1>8, PipeEnds
<1>10. Cardinality(OpenPipes') = Cardinality(Rest) + m
  <2> DEFINE T == OpenPipes'
  <2>1. \A x : x \in T <=> x \in Rest \/ x \in {<<r, i>> : i \in 1 .. m}
    BY SMTT(30), <1>7
  <2> HIDE DEF T
  <2>2. Cardinality(T) = Cardinality(Rest) + m
    BY <1>8, <2>1, PipeEnds
  <2> QED
    BY <2>2 DEF T
<1>11. Cardinality(Rest) \in Nat
  <2>1. IsFiniteSet(Rest)
    BY <1>8, FinitePipes
  <2> QED
    BY <2>1, FS_CardinalityType
<1> QED
  BY SMTT(30), <1>9, <1>10, <1>11

LEMMA StepCounts ==
    ASSUME ~PipeMayFail, IInv, IInv', CountInv, Next
    PROVE  CountInv'
<1>1. TypeInv /\ AppInv /\ CallbackInv /\ RefInv /\ NotifyInv /\ QueueInv /\ TypeInv'
  BY SMTT(30) DEF IInv
<1>2. /\ fd_count = Cardinality(OpenSockets) + Cardinality(OpenPipes) /\ fd_count \in Int
      /\ Cardinality(OpenSockets) \in Nat /\ Cardinality(OpenPipes) \in Nat
      /\ \A r \in Regs : Waits(r) => app[r].pipe = 2
  BY <1>1, CountsAreNaturals DEF CountInv, FdCountIsExact, TypeInv
<1>3. ASSUME Cardinality(OpenSockets') + Cardinality(OpenPipes') = fd_count',
             \A r \in Regs : Waits(r)' => app'[r].pipe = 2
      PROVE  CountInv'
  BY <1>3 DEF CountInv, FdCountIsExact
<1>4. UNCHANGED file => OpenSockets' = OpenSockets
  BY DEF OpenSockets
<1>5. UNCHANGED app => OpenPipes' = OpenPipes
  BY DEF OpenPipes
<1>6. UNCHANGED wait_queue => \A r : Waits(r)' <=> Waits(r)
  BY DEF Waits
<1>7. ASSUME UNCHANGED <<file, app, fd_count>>, \A r \in Regs : Waits(r)' => Waits(r)
      PROVE  CountInv'
  BY Zenon, <1>2, <1>3, <1>4, <1>5, <1>7
<1>8. ASSUME NEW fd \in Fds, file[fd] # None, file' = [file EXCEPT ![fd] = None],
             fd_count' = fd_count - 1, UNCHANGED <<app, wait_queue>>
      PROVE  CountInv'
  <2>1. Cardinality(OpenSockets') = Cardinality(OpenSockets) - 1
    BY Zenon, <1>1, <1>8, SocketCloses
  <2> QED
    BY <1>2, <1>3, <1>5, <1>6, <1>8, <2>1
<1>9. ASSUME UNCHANGED <<file, fd_count, wait_queue>>, NEW r \in Regs, app[r] # None, app'[r] # None,
             app'[r].pipe = app[r].pipe, \A q \in Regs : q # r => app'[q] = app[q]
      PROVE  CountInv'
  <2>1. OpenPipes' = OpenPipes
    BY SMTT(30), <1>9 DEF OpenPipes
  <2>2. \A q \in Regs : Waits(q)' => app'[q].pipe = 2
    BY <1>2, <1>6, <1>9
  <2> QED
    BY SMTT(30), <1>2, <1>3, <1>4, <1>9, <2>1, <2>2
<1>10. CASE Registration
  <2>1. ASSUME NEW r \in Regs, NEW type \in {"cmd", "notify"}, NEW fd \in Fds,
               thread_application_registration(r, type, fd)
        PROVE  CountInv'
    <3>1. /\ file[fd] = None /\ file' = [file EXCEPT ![fd] = <<r, type>>]
          /\ fd_count' = fd_count + 1 /\ UNCHANGED <<app, wait_queue>>
      BY <2>1 DEF thread_application_registration
    <3>2. <<r, type>> # None
      BY SocketParts
    <3>3. Cardinality(OpenSockets') = Cardinality(OpenSockets) + 1
      BY Zenon, <1>1, <3>1, <3>2, SocketOpens
    <3> QED
      BY <1>2, <1>3, <1>5, <1>6, <3>1, <3>3
  <2>2. ASSUME UNCHANGED <<file, app, fd_count, wait_queue>> PROVE CountInv'
    BY <1>6, <1>7, <2>2
  <2> QED
    BY SMTT(30), <1>10, <2>1, <2>2 DEF Registration, HangUp, RegistrationRefused
<1>11. CASE FutexWaitEnds \/ DequeueNothing \/ update_ust_app \/ SendToManage
  BY <1>6, <1>7, <1>11 DEF FutexWaitEnds, DequeueNothing, update_ust_app, SendToManage
<1>12. CASE sanitize_wait_queue
  <2>1. PICK k \in 0 .. Len(wait_queue) : wait_queue' = SubSeq(wait_queue, k + 1, Len(wait_queue))
    BY Zenon, <1>12 DEF sanitize_wait_queue
  <2>2. wait_queue \in Seq(Regs) /\ Len(wait_queue) \in Nat
    BY SMTT(30), <1>1 DEF TypeInv
  <2>3. \A j \in DOMAIN wait_queue' : k + j \in DOMAIN wait_queue /\ wait_queue'[j] = wait_queue[k + j]
    BY <2>1, <2>2
  <2>4. \A r \in Regs : Waits(r)' => Waits(r)
    BY <2>3 DEF Waits
  <2> QED
    BY <1>7, <1>12, <2>4 DEF sanitize_wait_queue
<1>13. ASSUME NEW type, Dequeue(type)
       PROVE  LET h == Head(ust_cmd_queue)
              IN  /\ h.reg \in Regs /\ h.sock \in Fds /\ file[h.sock] # None
                  /\ h.type = "cmd" => app[h.reg] = None
  <2> DEFINE h == Head(ust_cmd_queue)
  <2>1. 1 \in DOMAIN ust_cmd_queue /\ h = ust_cmd_queue[1]
    BY <1>1, <1>13, HeadTail DEF Dequeue, TypeInv
  <2>2. h.reg \in Regs /\ h.sock \in Fds /\ h.type \in {"cmd", "notify"}
    BY SMTT(30), <1>1, <2>1, CmdTypes
  <2>3. file[h.sock] = <<h.reg, h.type>>
    BY SMTT(30), <1>1, <2>1 DEF QueueInv
  <2>4. file[h.sock] # None
    BY SMTT(30), <2>2, <2>3, SocketParts
  <2>5. h.type = "cmd" => app[h.reg] = None
    BY <1>1, <2>1 DEF AppInv
  <2> QED
    BY SMTT(30), <2>2, <2>4, <2>5
<1>14. CASE DispatchCmd
  <2> DEFINE h == Head(ust_cmd_queue)
             a == [ref |-> 1, sock |-> h.sock, notify_sock |-> None, pipe |-> 2]
  <2>1. /\ app' = [app EXCEPT ![h.reg] = a] /\ Dequeue("cmd") /\ h.type = "cmd"
        /\ fd_count' = fd_count + 2 /\ wait_queue' = <<h.reg>> \o wait_queue
        /\ UNCHANGED file
    BY SMTT(30), <1>14 DEF DispatchCmd, Dequeue
  <2>2. h.reg \in Regs /\ h.sock \in Fds /\ app[h.reg] = None
    BY <1>13, <2>1
  <2>3. a \in Apps /\ a # None /\ a.pipe = 2
    BY <2>2, NoneAssumption DEF Apps
  <2> HIDE DEF a, h
  <2>4. app'[h.reg] = a /\ \A q \in Regs : q # h.reg => app'[q] = app[q]
    BY Zenon, <1>1, <2>1, <2>2 DEF TypeInv
  <2>5. Cardinality(OpenPipes') = Cardinality(OpenPipes) + (2 - 0)
    BY Zenon, <1>1, <2>2, <2>3, <2>4, PipesChange
  <2>6. \A r \in Regs : Waits(r)' => app'[r].pipe = 2
    <3>1. wait_queue \in Seq(Regs) /\ Len(wait_queue) \in Nat
      BY <1>1 DEF TypeInv
    <3>2. \A j \in DOMAIN wait_queue' : \/ wait_queue'[j] = h.reg
                                       \/ \E i \in DOMAIN wait_queue : wait_queue'[j] = wait_queue[i]
      BY <2>1, <2>2, <3>1
    <3>3. \A r \in Regs : Waits(r)' => r = h.reg \/ Waits(r)
      BY Zenon, <3>2 DEF Waits
    <3> QED
      BY Zenon, <1>2, <2>3, <2>4, <3>3
  <2> QED
    BY <1>2, <1>3, <1>4, <2>1, <2>5, <2>6
<1>15. CASE DispatchCmdFails \/ DispatchNotifyUseless
  <2> DEFINE h == Head(ust_cmd_queue)
  <2>1. /\ file' = [file EXCEPT ![h.sock] = None] /\ \E type : Dequeue(type)
        /\ fd_count' = fd_count - 1 /\ UNCHANGED <<app, wait_queue>>
    BY <1>15 DEF DispatchCmdFails, DispatchNotifyUseless
  <2>2. h.sock \in Fds /\ file[h.sock] # None
    BY <1>13, <2>1
  <2> HIDE DEF h
  <2> QED
    BY Zenon, <1>8, <2>1, <2>2
<1>16. CASE DispatchNotify
  <2> DEFINE h == Head(ust_cmd_queue)
             k == Waiting(Pid(h.reg))
  <2>0. PICK r : r = wait_queue[k]
    BY SMTT(30)
  <2>1. /\ Dequeue("notify") /\ k # 0 /\ wait_queue' = Without(wait_queue, k) /\ UNCHANGED file
    BY <1>16 DEF DispatchNotify
  <2>2. PICK pipe \in {1, 2} :
          /\ app' = [app EXCEPT ![r].notify_sock = h.sock, ![r].pipe = pipe]
          /\ fd_count' = fd_count - (2 - pipe)
    BY Zenon, <1>16, <2>0 DEF DispatchNotify
  <2>3. k \in DOMAIN wait_queue /\ wait_queue \in Seq(Regs)
    BY Zenon, <1>1, <2>1, WaitingIsFirst DEF TypeInv
  <2>4. h.sock \in Fds
    BY <1>13, <2>1
  <2> HIDE DEF h, k
  <2>5. r \in Regs /\ Waits(r) /\ app[r] # None /\ app[r].pipe = 2
    <3>1. r \in Regs /\ Waits(r)
      BY SMTT(30), <2>0, <2>3 DEF Waits
    <3> QED
      BY Zenon, <1>1, <1>2, <3>1 DEF AppInv
  <2>6. app'[r] # None /\ app'[r].pipe = pipe /\ \A q \in Regs : q # r => app'[q] = app[q]
    <3> DEFINE a == [app[r] EXCEPT !.notify_sock = h.sock, !.pipe = pipe]
    <3>1. app' = [app EXCEPT ![r] = a]
      BY Zenon, <1>1, <2>2, <2>5 DEF TypeInv
    <3>2. app[r] \in Apps
      BY Zenon, <1>1, <2>5 DEF TypeInv
    <3>3. a \in Apps /\ a.pipe = pipe
      BY Zenon, <2>4, <3>2 DEF Apps
    <3> HIDE DEF a
    <3>4. app'[r] = a /\ \A q \in Regs : q # r => app'[q] = app[q]
      BY Zenon, <1>1, <2>5, <3>1 DEF TypeInv
    <3> QED
      BY <3>3, <3>4, NoneAssumption
  <2>7. Cardinality(OpenPipes') = Cardinality(OpenPipes) + (pipe - 2)
    BY Zenon, <1>1, <2>5, <2>6, PipesChange
  <2>8. \A q \in Regs : Waits(q)' => Waits(q) /\ q # r
    <3>1. \A q \in Regs : Waits(q)' => Waits(q)
      <4>1. /\ Len(wait_queue) \in Nat /\ DOMAIN wait_queue = 1 .. Len(wait_queue)
            /\ DOMAIN wait_queue' = 1 .. Len(wait_queue) - 1
            /\ \A j \in 1 .. Len(wait_queue) - 1 :
                 wait_queue'[j] = IF j < k THEN wait_queue[j] ELSE wait_queue[j + 1]
        BY Zenon, <2>1, <2>3, Removed
      <4>2. \A j \in DOMAIN wait_queue' : \E i \in DOMAIN wait_queue : wait_queue'[j] = wait_queue[i]
        BY <4>1
      <4> QED
        BY <4>2 DEF Waits
    <3>2. Active(r)'
      <4>1. r \in ust_app_ht_by_sock'
        BY <1>16, <2>0 DEF DispatchNotify, ust_app_add, h, k
      <4> QED
        BY SMTT(30), <4>1 DEF Active
    <3>3. ~Waits(r)'
      BY Zenon, <2>5, <3>2 DEF IInv, AppInv
    <3> QED
      BY SMTT(30), <3>1, <3>3
  <2>9. \A q \in Regs : Waits(q)' => app'[q].pipe = 2
    BY <1>2, <2>6, <2>8
  <2>10. fd_count' = fd_count - (2 - pipe) /\ OpenSockets' = OpenSockets
    BY SMTT(30), <1>4, <2>1, <2>2
  <2>11. Cardinality(OpenSockets') + Cardinality(OpenPipes') = fd_count'
    BY SMTT(30), <1>2, <2>7, <2>10
  <2> QED
    BY <1>3, <2>9, <2>11
<1>17. CASE NotifyReads \/ ManageReads
  BY <1>6, <1>7, <1>17 DEF NotifyReads, ManageReads
<1>18. CASE NotifyReadFails
  <2> DEFINE fd == Head(notify.pipe)
  <2>1. /\ notify.pipe # <<>> /\ file' = [file EXCEPT ![fd] = None]
        /\ fd_count' = fd_count - 1 /\ UNCHANGED <<app, wait_queue>>
    BY <1>18 DEF NotifyReadFails
  <2>2. fd \in Fds /\ Piped(fd)
    <3>1. notify.pipe \in Seq(Fds)
      BY <1>1 DEF TypeInv
    <3>2. fd \in Fds /\ 1 \in DOMAIN notify.pipe /\ fd = notify.pipe[1]
      BY SMTT(30), <2>1, <3>1, HeadTail
    <3> QED
      BY <3>2 DEF Piped
  <2>3. file[fd] # None
    BY <1>1, <2>2 DEF NotifyInv
  <2> HIDE DEF fd
  <2> QED
    BY Zenon, <1>8, <2>1, <2>2, <2>3
<1>19. ASSUME NEW fd \in Fds, ust_app_notify_sock_unregister(fd) PROVE CountInv'
  BY <1>6, <1>7, <1>19 DEF ust_app_notify_sock_unregister
<1>20. ASSUME NEW t \in {"manage", "client"}, ust_app_release(t) PROVE CountInv'
  BY SMTT(30), <1>6, <1>7, <1>20 DEF ust_app_release
<1>21. ASSUME NEW t \in {"manage", "client"}, NEW r \in Regs, app[r] # None,
              app[r].ref > 0, ust_app_put(t, r), UNCHANGED <<file, fd_count, wait_queue>>
       PROVE  CountInv'
  <2>1. /\ app'[r] # None /\ app'[r].pipe = app[r].pipe
        /\ \A q \in Regs : q # r => app'[q] = app[q]
    BY Zenon, <1>21, Put
  <2> QED
    BY <1>9, <1>21, <2>1
<1>22. ASSUME NEW fd \in Fds, ust_app_unregister_by_socket(fd) PROVE CountInv'
  <2>1. UNCHANGED <<file, fd_count, wait_queue>>
    BY SMTT(30), <1>22 DEF ust_app_unregister_by_socket
  <2>2. ASSUME NEW r \in ust_app_ht_by_sock, ust_app_put("manage", r) PROVE CountInv'
    <3>1. r \in Regs /\ Active(r)
      BY Zenon, <1>1 DEF TypeInv, Active
    <3>2. /\ app[r] # None
          /\ app[r].ref = IF client = r THEN 2 ELSE 1
      BY Zenon, <1>1, <3>1 DEF AppInv, RefInv
    <3>3. app[r].ref > 0
      BY <3>2
    <3> QED
      BY <1>21, <2>1, <2>2, <3>1, <3>2, <3>3
  <2>3. ASSUME UNCHANGED app PROVE CountInv'
    BY <1>6, <1>7, <2>1, <2>3
  <2> QED
    BY <1>22, <2>2, <2>3 DEF ust_app_unregister_by_socket
<1>23. CASE ClientPuts
  <2>1. client \in Regs /\ app[client] # None /\ app[client].ref > 0
    BY <1>1, <1>23 DEF ClientPuts, TypeInv, AppInv, RefInv, Active
  <2>2. UNCHANGED <<file, fd_count, wait_queue>> /\ ust_app_put("client", client)
    BY Zenon, <1>23 DEF ClientPuts
  <2> QED
    BY SMTT(30), <1>21, <2>1, <2>2
<1>24. ASSUME NEW r \in Regs, ust_app_get(r) PROVE CountInv'
  <2>1. app[r] # None /\ app[r] \in Apps /\ app[r].ref \in Nat
    BY <1>1, <1>24 DEF ust_app_get, AppInv, TypeInv, Apps
  <2>2. app' = [app EXCEPT ![r].ref = app[r].ref + 1] /\ app[r].ref + 1 \in Nat
    BY <1>1, <1>24, <2>1 DEF ust_app_get, TypeInv
  <2>3. /\ app'[r] # None /\ app'[r].pipe = app[r].pipe
        /\ \A q \in Regs : q # r => app'[q] = app[q]
    BY Zenon, <1>1, <2>1, <2>2, RefChanges
  <2>4. UNCHANGED <<file, fd_count, wait_queue>>
    BY <1>24 DEF ust_app_get
  <2> QED
    BY Zenon, <1>9, <2>1, <2>3, <2>4
<1>25. ASSUME NEW c \in callbacks, delete_ust_app(c) PROVE CountInv'
  <2> DEFINE r == c.reg
  <2>1. /\ UNCHANGED wait_queue /\ c.kind = "app"
        /\ file' = [file EXCEPT ![c.fd] = None] /\ app' = [app EXCEPT ![r] = None]
        /\ fd_count' = fd_count - app[r].pipe - 1
    BY <1>25 DEF delete_ust_app
  <2>2. r \in Regs /\ c.fd = app[r].sock /\ Dies(r) /\ c.fd \in Fds
    BY <1>1, <2>1 DEF CallbackInv, Dies, TypeInv, Callbacks
  <2>3. app[r] # None /\ file[c.fd] = <<r, "cmd">> /\ ~Waits(r)
    BY Zenon, <1>1, <2>2 DEF AppInv
  <2>4. file[c.fd] # None
    BY <2>2, <2>3, SocketParts
  <2>5. Cardinality(OpenSockets') = Cardinality(OpenSockets) - 1
    BY Zenon, <1>1, <2>1, <2>2, <2>4, SocketCloses
  <2>6. app'[r] = None /\ \A q \in Regs : q # r => app'[q] = app[q]
    BY Zenon, <1>1, <2>1, <2>2 DEF TypeInv
  <2>7. app[r].pipe \in {0, 1, 2}
    <3>1. app[r] \in Apps
      BY Zenon, <1>1, <2>2, <2>3 DEF TypeInv
    <3> QED
      BY <3>1 DEF Apps
  <2> HIDE DEF r
  <2>8. Cardinality(OpenPipes') = Cardinality(OpenPipes) + (0 - app[r].pipe)
    BY Zenon, <1>1, <2>2, <2>3, <2>6, <2>7, PipesChange
  <2>9. \A q \in Regs : Waits(q)' => app'[q].pipe = 2
    BY <1>2, <1>6, <2>1, <2>3, <2>6
  <2> QED
    BY <1>2, <1>3, <2>1, <2>5, <2>7, <2>8, <2>9
<1>26. ASSUME NEW c \in callbacks, close_notify_sock_rcu(c) PROVE CountInv'
  <2>1. /\ c.kind = "notify" /\ file' = [file EXCEPT ![c.fd] = None]
        /\ fd_count' = fd_count - 1 /\ UNCHANGED <<app, wait_queue>>
    BY <1>26 DEF close_notify_sock_rcu
  <2>2. c.fd \in Fds /\ Closing(c.fd)
    BY <1>1, <2>1 DEF Closing, TypeInv, Callbacks
  <2>3. file[c.fd] # None
    BY <1>1, <2>2 DEF NotifyInv
  <2> QED
    BY Zenon, <1>8, <2>1, <2>2, <2>3
<1> QED
  BY <1>10, <1>11, <1>12, <1>14, <1>15, <1>16, <1>17, <1>18, <1>19, <1>20, <1>22, <1>23,
     <1>24, <1>25, <1>26
  DEF Next, Dispatch, Notification, Management, Client, Reclaim

(***************************************************************************)
(* Unless lttng_pipe_open fails, fd_count of fd-limit.c is the number of   *)
(* descriptors open for applications, for every limit and every number of  *)
(* processes: each is counted once when it is opened and discounted once   *)
(* when it is closed, by whichever thread closes it.                       *)
(***************************************************************************)
THEOREM FdCountExact == ASSUME ~PipeMayFail PROVE Spec => []FdCountIsExact
<1>1. Init => IInv /\ CountInv
  <2>1. ASSUME Init PROVE CountInv
    <3>1. /\ \A fd \in Fds : file[fd] = None
          /\ \A r \in Regs : app[r] = None
          /\ fd_count = 0 /\ wait_queue = <<>>
      BY <2>1 DEF Init
    <3>2. OpenSockets = {} /\ OpenPipes = {}
      BY <3>1 DEF OpenSockets, OpenPipes
    <3>3. \A r : ~Waits(r)
      BY <3>1 DEF Waits
    <3> QED
      BY <3>1, <3>2, <3>3, FS_EmptySet DEF CountInv, FdCountIsExact
  <2> QED
    BY <2>1, InitHolds
<1>2. IInv /\ CountInv /\ [Next]_vars => (IInv /\ CountInv)'
  <2> SUFFICES ASSUME IInv, CountInv, [Next]_vars PROVE IInv' /\ CountInv'
    OBVIOUS
  <2>1. IInv'
    BY StepKeeps
  <2>2. CASE Next
    BY <2>1, <2>2, StepCounts
  <2>3. CASE UNCHANGED vars
    <3>1. UNCHANGED <<file, app, fd_count, wait_queue>>
      BY <2>3 DEF vars
    <3> QED
      BY <2>1, <3>1 DEF CountInv, FdCountIsExact, OpenSockets, OpenPipes, Waits
  <2> QED
    BY <2>1, <2>2, <2>3
<1>3. IInv /\ CountInv => FdCountIsExact
  BY DEF CountInv
<1> QED
  BY <1>1, <1>2, <1>3, PTL DEF Spec
=============================================================================
