----------------------------- MODULE Vconn -----------------------------
(***************************************************************************)
(* OpenFlow connections over a byte stream: version negotiation and the   *)
(* blocking request of lib/vconn.c, over the framing of vconn-stream.c    *)
(* (and the sockets of vconn-tcp.c and vconn-unix.c).                     *)
(*                                                                         *)
(* End "a" opens the connection, as a client; end "b" accepts it.  Both   *)
(* run this code, or "b" is some other program that speaks OpenFlow.      *)
(* A message is [type, version, xid, more, len]; on the wire it is a row  *)
(* of len cells, the first HEADER of which stand for the header.  A       *)
(* function of the code is an operator from a state of both ends to the   *)
(* next one and what the function returns.                                *)
(***************************************************************************)
EXTENDS Integers, Sequences, SequencesExt

CONSTANTS
    Plans,     \* what the ends are going to send: set of scenarios
    Foreign,   \* messages another program may send in the place of "b"
    MaxForeign,\* bound: how many of them
    SOCKET,    \* cells the kernel holds in each direction
    Breaks     \* whether the connection may be lost

HEADER == 2
OFP_VERSION == 4
min_version == OFP_VERSION   \* what rconn.c and dpctl.c ask for

VARIABLES
    ends,   \* the two vconns, the bytes in flight, the state of the network
    call,   \* the client's vconn_transact()
    log     \* messages taken by vconn_send() and given by vconn_recv()

vconnVars == <<ends, call, log>>

Ends == {"a", "b"}
Other(e) == IF e = "a" THEN "b" ELSE "a"

Message(type, version, xid, more, len) ==
    [type |-> type, version |-> version, xid |-> xid, more |-> more,
     len |-> len]
Hello == Message("hello", OFP_VERSION, 0, FALSE, HEADER)
HelloFailed == Message("error", OFP_VERSION, 0, FALSE, HEADER + 1)
Garbled == Message("garbled", OFP_VERSION, 0, FALSE, HEADER)

(* The cells of a message; one whose length says less than a header has a *)
(* header all the same.                                                    *)
Cells(m) == [k \in 1..(IF m.len < HEADER THEN HEADER ELSE m.len) |->
                [m |-> m, k |-> k]]

(* Forces the evaluation of r before Op uses it.                           *)
After(r, Op(_)) == CHOOSE s \in {Op(x) : x \in {r}} : TRUE
Ret(w, ret) == [w |-> w, ret |-> ret, m |-> Garbled]

(***************************************************************************)
(* The socket, as the kernel offers it                                     *)
(***************************************************************************)
Broken(w, e) == w.net = "broken" \/ ~w.conn[Other(e)].open

write(w, e, cells) ==
    LET room == SOCKET - Len(w.pipe[e])
    IN IF Broken(w, e) THEN -1
       ELSE IF Len(cells) < room THEN Len(cells) ELSE room

check_connection_completion(w) ==
    CASE w.net = "pending" -> "EAGAIN"
      [] w.net = "refused" -> "ECONNREFUSED"
      [] OTHER -> "OK"

(***************************************************************************)
(* vconn-stream.c                                                          *)
(***************************************************************************)
new_stream_vconn(connect_status) ==
    [state |-> CASE connect_status = "EAGAIN" -> "CONNECTING"
                 [] connect_status = "OK" -> "SEND_HELLO"
                 [] OTHER -> "DISCONNECTED",
     version |-> -1, error |-> connect_status, rx |-> <<>>, tx |-> <<>>,
     open |-> TRUE]

stream_close(w, e) ==
    [w EXCEPT !.conn[e].open = FALSE, !.conn[e].rx = <<>>,
              !.conn[e].tx = <<>>]

(* Reads what is missing of the header, then of the message.               *)
TrustsFirstRead(rx) ==
    IF Len(rx) < HEADER THEN HEADER - Len(rx) ELSE rx[1].m.len - HEADER
Missing(rx) ==
    IF Len(rx) < HEADER THEN HEADER - Len(rx) ELSE rx[1].m.len - Len(rx)

Whole(w, e, rx) ==
    [w |-> [w EXCEPT !.conn[e].rx = <<>>], ret |-> "OK",
     m |-> IF rx = Cells(rx[1].m) THEN rx[1].m ELSE Garbled]

RECURSIVE stream_recv(_, _)
stream_recv(w, e) ==
    LET rx == w.conn[e].rx
        in == w.pipe[Other(e)]
        want == Missing(rx)
        n == IF Len(in) < want THEN Len(in) ELSE want
        filled == rx \o SubSeq(in, 1, n)
        next == [w EXCEPT !.conn[e].rx = filled,
                          !.pipe[Other(e)] = SubSeq(@, n + 1, Len(@))]
    IN CASE Len(rx) >= HEADER /\ rx[1].m.len < HEADER -> Ret(w, "EPROTO")
         [] Len(rx) >= HEADER /\ want = 0 -> Whole(w, e, rx)
         [] w.net = "broken" -> Ret(w, "ECONNRESET")
         [] w.net # "broken" /\ n = 0 ->
                Ret(w, IF w.conn[Other(e)].open THEN "EAGAIN"
                       ELSE IF rx # <<>> THEN "EPROTO" ELSE "EOF")
         [] n = want /\ Len(filled) > HEADER -> Whole(next, e, filled)
         [] n = want -> After(next, LAMBDA x : stream_recv(x, e))
         [] OTHER -> Ret(next, "EAGAIN")

(* A message that does not fit is kept; the rest of it leaves when the     *)
(* poll loop says there is room.                                           *)
stream_send(w, e, m) ==
    LET n == write(w, e, Cells(m))
    IN CASE w.conn[e].tx # <<>> -> Ret(w, "EAGAIN")
         [] w.conn[e].tx = <<>> /\ n < 0 -> Ret(w, "EPIPE")
         [] OTHER -> Ret([w EXCEPT
                !.pipe[e] = @ \o SubSeq(Cells(m), 1, n),
                !.conn[e].tx = SubSeq(Cells(m), n + 1, Len(Cells(m)))], "OK")

stream_do_tx(w, e) ==
    LET tx == w.conn[e].tx
        n == write(w, e, tx)
    IN IF n < 0 THEN [w EXCEPT !.conn[e].tx = <<>>]
       ELSE [w EXCEPT !.pipe[e] = @ \o SubSeq(tx, 1, n),
                      !.conn[e].tx = SubSeq(tx, n + 1, Len(tx))]

(***************************************************************************)
(* vconn.c                                                                 *)
(***************************************************************************)
AnyVersion == {"hello", "error", "echo_request", "echo_reply", "experimenter"}
Async == {"packet_in", "flow_removed", "port_status"}

RECURSIVE do_recv(_, _)
do_recv(w, e) ==
    LET r == stream_recv(w, e)
        wrong == /\ r.m.version # w.conn[e].version
                 /\ r.m.type \notin AnyVersion
    IN IF r.ret # "OK" \/ ~wrong THEN r
       ELSE IF w.conn[e].version < 0 /\ r.m.type \in Async
       THEN After(r.w, LAMBDA x : do_recv(x, e))
       ELSE Ret(r.w, "EPROTO")

(* Copied to the log on the way, when debugging.                           *)
do_send(w, e, m) == stream_send(w, e, m)

Fails(w, e, error) ==
    [w EXCEPT !.conn[e].state = "DISCONNECTED", !.conn[e].error = error]
UnlessAgain(w, e, ret) == IF ret = "EAGAIN" THEN w ELSE Fails(w, e, ret)

vcs_connecting(w, e) ==
    IF check_connection_completion(w) = "OK"
    THEN [w EXCEPT !.conn[e].state = "SEND_HELLO"]
    ELSE UnlessAgain(w, e, check_connection_completion(w))

vcs_send_hello(w, e) ==
    LET r == do_send(w, e, Hello)
    IN IF r.ret = "OK" THEN [r.w EXCEPT !.conn[e].state = "RECV_HELLO"]
       ELSE UnlessAgain(r.w, e, r.ret)

AnyMessageWillDo(w, e) ==
    LET r == do_recv(w, e)
        version == IF r.m.version < OFP_VERSION THEN r.m.version
                   ELSE OFP_VERSION
    IN IF r.ret = "OK"
       THEN [r.w EXCEPT !.conn[e].version = version,
                !.conn[e].state = IF version < min_version THEN "SEND_ERROR"
                                  ELSE "CONNECTED"]
       ELSE UnlessAgain(r.w, e, r.ret)
vcs_recv_hello(w, e) ==
    LET r == do_recv(w, e)
        version == IF r.m.version < OFP_VERSION THEN r.m.version
                   ELSE OFP_VERSION
    IN CASE r.ret # "OK" -> UnlessAgain(r.w, e, r.ret)
         [] r.ret = "OK" /\ r.m.type # "hello" -> Fails(r.w, e, "EPROTO")
         [] OTHER -> [r.w EXCEPT
                !.conn[e].version = version,
                !.conn[e].state = IF version < min_version THEN "SEND_ERROR"
                                  ELSE "CONNECTED"]

vcs_send_error(w, e) ==
    LET r == do_send(w, e, HelloFailed)
    IN IF r.ret = "OK" THEN Fails(r.w, e, "EPROTO")
       ELSE UnlessAgain(r.w, e, r.ret)

RECURSIVE vconn_connect(_, _)
vconn_connect(w, e) ==
    LET state == w.conn[e].state
        step == CASE state = "CONNECTING" -> vcs_connecting(w, e)
                  [] state = "SEND_HELLO" -> vcs_send_hello(w, e)
                  [] state = "RECV_HELLO" -> vcs_recv_hello(w, e)
                  [] state = "SEND_ERROR" -> vcs_send_error(w, e)
                  [] OTHER -> w
    IN CASE state = "CONNECTED" -> Ret(w, "OK")
         [] state = "DISCONNECTED" -> Ret(w, w.conn[e].error)
         [] OTHER -> After(step, LAMBDA x :
                        IF x.conn[e].state = state THEN Ret(x, "EAGAIN")
                        ELSE vconn_connect(x, e))

vconn_recv(w, e) ==
    After(vconn_connect(w, e), LAMBDA r :
        IF r.ret = "OK" THEN do_recv(r.w, e) ELSE r)

vconn_send(w, e, m) ==
    After(vconn_connect(w, e), LAMBDA r :
        IF r.ret = "OK" THEN do_send(r.w, e, m) ELSE r)

(* Every caller closes a vconn that returned an error.                     *)
CloseOnError(r, e) ==
    IF r.ret \in {"OK", "EAGAIN"} THEN r.w ELSE stream_close(r.w, e)

(* One message for the loop of vconn_recv_xid(), which may be among the    *)
(* parts of a multipart reply.  There it looks at the flags only: those of *)
(* another kind of message are whatever its bytes say; and it does not     *)
(* look at errors, so it uses a null pointer when the connection is lost.  *)
EndsAtFirstPart(c, r, more) == IF r.ret = "OK" /\ r.m.xid = c.xid
                               THEN [c EXCEPT !.phase = "done", !.reply = r.m]
                               ELSE c
vconn_recv_xid(c, r, more) ==
    LET multipart == r.m.type = "multipart"
        goes_on == IF multipart THEN r.m.more ELSE c.phase = "parts" /\ more
    IN CASE r.ret = "EAGAIN" -> c
         [] r.ret \notin {"OK", "EAGAIN"} ->
                [c EXCEPT !.phase = IF @ = "parts" THEN "crashed" ELSE "failed"]
         [] r.ret = "OK" /\ goes_on -> [c EXCEPT !.phase = "parts"]
         [] r.ret = "OK" /\ ~goes_on /\ r.m.xid = c.xid ->
                [c EXCEPT !.phase = "done", !.reply = r.m]
         [] OTHER -> [c EXCEPT !.phase = "waiting"]

-----------------------------------------------------------------------------
(* A plan says who is at "b", whether connect() succeeded at once, what    *)
(* each end sends unasked and in how many parts a request is answered.     *)
VconnInit ==
    \E p \in Plans, at_once \in BOOLEAN :
        /\ ends = [conn |-> [e \in Ends |-> new_stream_vconn(
                       IF e = "a" /\ ~at_once THEN "EAGAIN" ELSE "OK")],
                   pipe |-> [e \in Ends |-> <<>>],
                   net |-> IF at_once THEN "up" ELSE "pending"]
        /\ call = [phase |-> "idle", xid |-> p.xid, reply |-> Garbled]
        /\ log = [todo |-> p.todo, parts |-> p.parts, foreign |-> p.foreign,
                  sent |-> [e \in Ends |-> <<>>],
                  got |-> [e \in Ends |-> <<>>], raw |-> <<>>]

(* The kernel completes or refuses the connection.                         *)
Complete ==
    /\ ends.net = "pending"
    /\ \E net \in {"up", "refused"} : ends' = [ends EXCEPT !.net = net]
    /\ UNCHANGED <<call, log>>

Break ==
    /\ Breaks
    /\ ends.net = "up"
    /\ ends' = [ends EXCEPT !.net = "broken",
                            !.pipe = [e \in Ends |-> <<>>]]
    /\ UNCHANGED <<call, log>>

Runs(e) ==
    /\ ends.conn[e].open
    /\ e = "b" => ends.net \notin {"pending", "refused"} /\ ~log.foreign

(* The request the client makes is a send that then waits for the reply.   *)
Send(e) ==
    /\ Runs(e)
    /\ log.todo[e] # <<>>
    /\ \E r \in {vconn_send(ends, e, Head(log.todo[e]))} :
        /\ ends' = CloseOnError(r, e)
        /\ log' = IF r.ret = "OK"
                  THEN [log EXCEPT !.todo[e] = Tail(@),
                                   !.sent[e] = Append(@, Head(log.todo[e]))]
                  ELSE log
        /\ call' = IF Head(log.todo[e]).type # "request" THEN call
                   ELSE [call EXCEPT !.phase = CASE r.ret = "OK" -> "waiting"
                                                 [] r.ret = "EAGAIN" -> @
                                                 [] OTHER -> "failed"]

(* The parts of the answer to a request.                                   *)
Answer(m) ==
    IF m.type # "request" THEN <<>>
    ELSE [n \in 1..log.parts |->
             Message("multipart", OFP_VERSION, m.xid, n < log.parts,
                     HEADER + 1)]

Receive(e) ==
    /\ Runs(e)
    /\ e = "a" => call.phase # "crashed"
    /\ \E r \in {vconn_recv(ends, e)}, more \in BOOLEAN :
        /\ ends' = CloseOnError(r, e)
        /\ log' = IF r.ret = "OK"
                  THEN [log EXCEPT !.got[e] = Append(@, r.m),
                                   !.todo[e] = @ \o Answer(r.m)]
                  ELSE log
        /\ call' = IF e = "a" /\ call.phase \in {"waiting", "parts"}
                   THEN vconn_recv_xid(call, r, more) ELSE call

(* The poll loop finds the socket writable.                                *)
Transmit(e) ==
    /\ ends.conn[e].tx # <<>>
    /\ Broken(ends, e) \/ Len(ends.pipe[e]) < SOCKET
    /\ ends' = stream_do_tx(ends, e)
    /\ UNCHANGED <<call, log>>

(* Another program in the place of "b".                                    *)
ForeignSend(m) ==
    /\ log.foreign
    /\ ends.net = "up"
    /\ Len(log.raw) < MaxForeign
    /\ Len(ends.pipe["b"]) + Len(Cells(m)) <= SOCKET
    /\ ends' = [ends EXCEPT !.pipe["b"] = @ \o Cells(m)]
    /\ log' = [log EXCEPT !.raw = Append(@, m)]
    /\ UNCHANGED call

ForeignRead ==
    /\ log.foreign
    /\ ends.pipe["a"] # <<>>
    /\ ends' = [ends EXCEPT !.pipe["a"] = Tail(@)]
    /\ UNCHANGED <<call, log>>

VconnNext ==
    \/ Complete
    \/ Break
    \/ \E e \in Ends : Send(e) \/ Receive(e) \/ Transmit(e)
    \/ \E m \in Foreign : ForeignSend(m)
    \/ ForeignRead

-----------------------------------------------------------------------------
(* Between two ends that run this code, vconn_recv() gives the messages    *)
(* vconn_send() took, whole, once and in order, however the kernel cuts    *)
(* the stream into reads and writes (stream_recv, stream_send,             *)
(* stream_do_tx).                                                          *)
Delivered ==
    ~log.foreign =>
        \A e \in Ends : IsPrefix(log.got[e], log.sent[Other(e)])

(* An end hands out messages only when the peer opened with a hello of a   *)
(* version it supports (asynchronous messages aside, which do_recv()       *)
(* ignores until then), and only of the version agreed on.                 *)
HelloFirst ==
    LET opening == SelectSeq(log.raw, LAMBDA m : m.type \notin Async)
    IN log.foreign /\ log.got["a"] # <<>> =>
        /\ opening # <<>>
        /\ opening[1].type = "hello"
        /\ opening[1].version >= min_version
        /\ \A n \in DOMAIN log.got["a"] :
            log.got["a"][n].type \in AnyVersion \/
            log.got["a"][n].version = OFP_VERSION

(* vconn_transact() ends, with the last part of the reply to its request   *)
(* or because the connection failed, whatever else the peer sends between  *)
(* the parts: version negotiation never leaves both ends waiting, and no   *)
(* message is left behind in a full socket.                                *)
TransactOver ==
    \/ call.xid = 0 \/ log.foreign
    \/ /\ call.phase = "done"
       /\ call.reply.xid = call.xid
       /\ ~call.reply.more
    \/ ends.net \in {"broken", "refused"}

=============================================================================
