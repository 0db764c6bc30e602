---------------------------- MODULE RelaySockets ----------------------------
(***************************************************************************)
(* The two TCP connections of a stream between the consumer daemon and the *)
(* relay daemon, as seen by both: module RelayDaemon reads what module     *)
(* ConsumerDaemon writes.                                                  *)
(*                                                                         *)
(* A command of the control connection is answered before the next one is  *)
(* sent (ctrl_sock_mutex is held over send and receive, relayd.c), so the  *)
(* connection holds at most one command or one reply.  The data connection *)
(* is a stream of bytes: for each packet a header, <<net, 0>>, then its    *)
(* data, <<net, 1>> to <<net, DataSize>>.                                  *)
(***************************************************************************)
EXTENDS Integers, Sequences

VARIABLES
    ctrl,               \* the command or the reply in flight, or NoMessage
    data,               \* the bytes in flight on the data connection
    ctrl_end,           \* the peer's end of each: "open", "eof" (orderly
    data_end            \*   shutdown) or "reset" (broken connection)

sockets == <<ctrl, data, ctrl_end, data_end>>

NoMessage == [type |-> "none"]

Reply(ret_code) == [type |-> "reply", ret_code |-> ret_code]

IsReply == ctrl.type = "reply"

SocketsInit ==
    /\ ctrl = NoMessage
    /\ data = <<>>
    /\ ctrl_end = "open"
    /\ data_end = "open"

\* A command may be sent: no one waits for a reply.
CtrlIdle == ctrl = NoMessage /\ ctrl_end = "open"
=============================================================================
