--------------------------- MODULE DatapathRemotes ---------------------------
(***************************************************************************)
(* The controllers ("remotes") of a datapath: udatapath/datapath.c and the *)
(* dispatcher of udatapath/dp_control.c.                                   *)
(*                                                                         *)
(* The datapath is a single-threaded loop, so one action is the complete   *)
(* handling of one message, of one connection event or of one asynchronous *)
(* broadcast.  What is interleaved is the order in which the controllers'  *)
(* messages, the events of the datapath and the failures of the            *)
(* connections reach that loop.                                            *)
(***************************************************************************)
EXTENDS Integers

CONSTANTS
    Remote,         \* controllers that may connect
    NoRemote,       \* actor of a step that no controller's message caused
    GEN_MODULUS,    \* number of values of generation_id (2^64 in the code)
    AsyncConfig,    \* the asynchronous configurations controllers may set
    DefaultConfig,  \* what remote_create() installs
    TXQ_LIMIT       \* messages queued for one controller

ASSUME RemotesAssumption ==
    /\ NoRemote \notin Remote
    /\ GEN_MODULUS \in Nat \ {0}
    /\ GEN_MODULUS % 2 = 0
    /\ DefaultConfig \in AsyncConfig
    /\ TXQ_LIMIT \in Nat \ {0}

VARIABLES
    remotes,        \* dp->remotes: the controllers not yet destroyed
    up,             \* those whose rconn is still alive
    role,           \* remote->role
    config,         \* remote->config: the asynchronous-message masks
    n_txq,          \* remote->n_txq: messages queued for a controller
    generation_id,  \* dp->generation_id
    last            \* history: what the last step did (see LastStep)

vars == <<remotes, up, role, config, n_txq, generation_id, last>>

Role == {"EQUAL", "MASTER", "SLAVE"}

GenerationId == 0 .. GEN_MODULUS - 1

-----------------------------------------------------------------------------
(* Messages.  `port' tells the local port from the physical ones: that is  *)
(* all that the mask checks of send_openflow_buffer() can tell apart.      *)

PacketInReason    == {"NO_MATCH", "ACTION", "INVALID_TTL"}
PortReason        == {"ADD", "DELETE", "MODIFY"}
FlowRemovedReason == {"IDLE_TIMEOUT", "HARD_TIMEOUT", "FLOW_DELETE",
                      "GROUP_DELETE", "METER_DELETE"}

PacketIn    == [type : {"PACKET_IN"}, reason : PacketInReason]
PortStatus  == [type : {"PORT_STATUS"}, reason : PortReason,
                port : {"PHYSICAL", "LOCAL"}]
FlowRemoved == [type : {"FLOW_REMOVED"}, reason : FlowRemovedReason]
AsyncMsg    == PacketIn \cup PortStatus \cup FlowRemoved

RoleReply   == [type : {"ROLE_REPLY"}, role : Role]
ErrorMsg    == [type : {"ERROR"}, code : {"IS_SLAVE", "STALE", "BAD_ROLE"}]
AsyncReply  == [type |-> "GET_ASYNC_REPLY"]
NoMsg       == [type |-> "NONE"]
Message     == AsyncMsg \cup RoleReply \cup ErrorMsg \cup {AsyncReply, NoMsg}
Part        == {"nothing", "tables", "config"}

\* actor: the controller whose message the step handled; wrote: which part of
\* the switch the step changed; sent, to: the message the step sent and the
\* controllers in whose queue it was put.
LastStep ==
    [actor : Remote \cup {NoRemote},
     wrote : Part,
     sent  : Message,
     to    : SUBSET Remote]

Quiet(r) == [actor |-> r, wrote |-> "nothing", sent |-> NoMsg, to |-> {}]

TypeOK ==
    /\ remotes \subseteq Remote
    /\ up \subseteq remotes
    /\ role \in [Remote -> Role]
    /\ config \in [Remote -> AsyncConfig]
    /\ n_txq \in [Remote -> 0 .. TXQ_LIMIT]
    /\ generation_id \in GenerationId
    /\ last \in LastStep

\* dp_new(): generation_id is a uint64_t initialised with -1.
Init ==
    /\ remotes = {}
    /\ up = {}
    /\ role = [r \in Remote |-> "EQUAL"]
    /\ config = [r \in Remote |-> DefaultConfig]
    /\ n_txq = [r \in Remote |-> 0]
    /\ generation_id = GEN_MODULUS - 1
    /\ last = Quiet(NoRemote)

-----------------------------------------------------------------------------
(* Sending.                                                                *)

\* rconn_send_with_limit(): a message for a full queue or for a dead
\* connection is destroyed.
Accepting(S) == {r \in S : r \in up /\ n_txq[r] < TXQ_LIMIT}

\* Queue m for the controllers of S, as part of handling a message of r that
\* changed the part w of the switch.
send_openflow_buffer_to_remote(S, m, r, w) ==
    /\ n_txq' = [q \in Remote |-> IF q \in Accepting(S) THEN n_txq[q] + 1 ELSE n_txq[q]]
    /\ last' = [actor |-> r, wrote |-> w, sent |-> m, to |-> Accepting(S)]

\* Mutant: the masks of a slave are used as they stand.
AsyncEnabled_SlaveMasks(r, m) ==
    LET mask(pair) == IF role[r] = "SLAVE" THEN pair.slave ELSE pair.full
    IN  \/ m.type = "PACKET_IN" /\ m.reason \in mask(config[r].packet_in)
        \/ m.type = "PORT_STATUS" /\ m.reason \in mask(config[r].port_status)
        \/ m.type = "FLOW_REMOVED" /\ m.reason \in mask(config[r].flow_removed)

\* The mask checks of the broadcast.  The PORT_STATUS case has no break: it
\* goes on into the FLOW_REMOVED checks, which read byte 18 of the message as
\* the reason.  In a port status that byte belongs to the port number: 0 (the
\* code of IDLE_TIMEOUT) for a physical port, 0xff (no reason) for OFPP_LOCAL.
AsyncEnabled(r, m) ==
    IF role[r] \in {"EQUAL", "MASTER"}
    THEN \/ m.type = "PACKET_IN" /\ m.reason \in config[r].packet_in.full
         \/ /\ m.type = "PORT_STATUS"
            /\ m.reason \in config[r].port_status.full
            /\ m.port = "PHYSICAL" =>
                  "IDLE_TIMEOUT" \in config[r].flow_removed.full
         \/ m.type = "FLOW_REMOVED" /\ m.reason \in config[r].flow_removed.full
    ELSE m.type = "PORT_STATUS" /\ m.reason \in config[r].port_status.slave

\* send_openflow_buffer() without a sender.
Broadcast(m) ==
    /\ send_openflow_buffer_to_remote({r \in remotes : AsyncEnabled(r, m)},
                                      m, NoRemote, "nothing")
    /\ UNCHANGED <<remotes, up, role, config, generation_id>>

\* send_openflow_buffer() with a sender: the reply to r.
Reply(r, m) == send_openflow_buffer_to_remote({r}, m, r, "nothing")

\* remote_rconn_run(): what a handler's error becomes.
ReplyError(r, code) == Reply(r, [type |-> "ERROR", code |-> code])

-----------------------------------------------------------------------------
(* Connections.                                                            *)

\* dp_run() accepts a connection; remote_create().
remote_create(r) ==
    /\ r \notin remotes
    /\ remotes' = remotes \cup {r}
    /\ up' = up \cup {r}
    /\ role' = [role EXCEPT ![r] = "EQUAL"]
    /\ config' = [config EXCEPT ![r] = DefaultConfig]
    /\ n_txq' = [n_txq EXCEPT ![r] = 0]
    /\ last' = Quiet(NoRemote)
    /\ UNCHANGED generation_id

\* The peer closes, or a send fails: the rconn of a remote is unreliable, so
\* it goes to S_VOID; the remote stays in dp->remotes until remote_run().
ConnectionLost(r) ==
    /\ r \in up
    /\ up' = up \ {r}
    /\ last' = Quiet(NoRemote)
    /\ UNCHANGED <<remotes, role, config, n_txq, generation_id>>

\* remote_run() finds the rconn dead; remote_destroy() frees the remote (its
\* fields mean nothing until remote_create() sets them again).
remote_destroy(r) ==
    /\ r \in remotes \ up
    /\ remotes' = remotes \ {r}
    /\ role' = [role EXCEPT ![r] = "EQUAL"]
    /\ config' = [config EXCEPT ![r] = DefaultConfig]
    /\ n_txq' = [n_txq EXCEPT ![r] = 0]
    /\ last' = Quiet(NoRemote)
    /\ UNCHANGED <<up, generation_id>>

\* The rconn passes a queued message to the peer.
Transmit(r) ==
    /\ r \in up
    /\ n_txq[r] > 0
    /\ n_txq' = [n_txq EXCEPT ![r] = @ - 1]
    /\ last' = Quiet(NoRemote)
    /\ UNCHANGED <<remotes, up, role, config, generation_id>>

-----------------------------------------------------------------------------
(* Handlers of the controllers' messages.                                  *)

\* Accepted unless (int64_t)(new_gen_id - generation_id) < 0.  The code's other
\* condition, generation_id >= 0, is always true of a uint64_t.
dp_check_generation_id(new_gen_id) ==
    (new_gen_id - generation_id) % GEN_MODULUS < GEN_MODULUS \div 2

\* Mutants: the old master stays; everyone else becomes a slave.
Elect_KeepOldMaster(r) == [role EXCEPT ![r] = "MASTER"]
Elect_DemoteAll(r) == [q \in Remote |-> IF q = r THEN "MASTER" ELSE "SLAVE"]

\* The roles once r is master: the old master(s) become slave(s).
Elect(r) ==
    [q \in Remote |-> IF q = r THEN "MASTER"
                      ELSE IF q \in remotes /\ role[q] = "MASTER" THEN "SLAVE"
                      ELSE role[q]]

dp_handle_role_request(r, new_role, gen) ==
    /\ \/ /\ new_role = "NOCHANGE"
          /\ Reply(r, [type |-> "ROLE_REPLY", role |-> role[r]])
          /\ UNCHANGED <<role, generation_id>>
       \/ /\ new_role = "EQUAL"
          /\ role' = [role EXCEPT ![r] = "EQUAL"]
          /\ Reply(r, [type |-> "ROLE_REPLY", role |-> "EQUAL"])
          /\ UNCHANGED generation_id
       \/ /\ new_role \in {"MASTER", "SLAVE"}
          /\ dp_check_generation_id(gen)
          /\ generation_id' = gen
          /\ role' = IF new_role = "MASTER" THEN Elect(r)
                     ELSE [role EXCEPT ![r] = "SLAVE"]
          /\ Reply(r, [type |-> "ROLE_REPLY", role |-> new_role])
       \/ /\ new_role \in {"MASTER", "SLAVE"}
          /\ ~dp_check_generation_id(gen)
          /\ ReplyError(r, "STALE")
          /\ UNCHANGED <<role, generation_id>>
       \/ /\ new_role = "UNKNOWN"
          /\ ReplyError(r, "BAD_ROLE")
          /\ UNCHANGED <<role, generation_id>>
    /\ UNCHANGED <<remotes, up, config>>

\* GET_ASYNC and SET_ASYNC, whatever the role.
dp_handle_async_request(r) ==
    /\ \/ Reply(r, AsyncReply) /\ UNCHANGED config
       \/ /\ \E c \in AsyncConfig : config' = [config EXCEPT ![r] = c]
          /\ last' = Quiet(r)
          /\ UNCHANGED n_txq
    /\ UNCHANGED <<remotes, up, role, generation_id>>

\* Mutant: the role is not looked at.
handle_table_write_AnyRole(r) ==
    /\ last' = [Quiet(r) EXCEPT !.wrote = "tables"]
    /\ UNCHANGED <<remotes, up, role, config, n_txq, generation_id>>

\* The handlers that refuse a slave: flow, group, meter, table and port
\* modifications and packet-outs.
handle_table_write(r) ==
    /\ \/ /\ role[r] # "SLAVE"
          /\ last' = [Quiet(r) EXCEPT !.wrote = "tables"]
          /\ UNCHANGED n_txq
       \/ /\ role[r] = "SLAVE"
          /\ ReplyError(r, "IS_SLAVE")
    /\ UNCHANGED <<remotes, up, role, config, generation_id>>

\* The handlers that write the switch without looking at the role: SET_CONFIG,
\* the table-features request and the experimenter messages on queues.
handle_config_write(r) ==
    /\ last' = [Quiet(r) EXCEPT !.wrote = "config"]
    /\ UNCHANGED <<remotes, up, role, config, n_txq, generation_id>>

\* remote_rconn_run(): handle_control_msg() on one message of r.  The generation
\* id is read only in the requests to become master or slave.
handle_control_msg(r) ==
    /\ r \in up
    /\ \/ \E new_role \in {"MASTER", "SLAVE"}, gen \in GenerationId :
            dp_handle_role_request(r, new_role, gen)
       \/ \E new_role \in {"EQUAL", "NOCHANGE", "UNKNOWN"} :
            dp_handle_role_request(r, new_role, 0)
       \/ dp_handle_async_request(r)
       \/ handle_table_write(r)
       \/ handle_config_write(r)

Next ==
    \/ \E m \in AsyncMsg : Broadcast(m)
    \/ \E r \in Remote :
          \/ remote_create(r)
          \/ ConnectionLost(r)
          \/ remote_destroy(r)
          \/ Transmit(r)
          \/ handle_control_msg(r)

Spec == Init /\ [][Next]_vars

-----------------------------------------------------------------------------
(* Properties.                                                             *)

\* openflow.h: "there may be at most one Master controller at a time".  Holds
\* among the remotes of the list, dead connections included, whatever the order
\* of role requests, connection losses and reconnections.
AtMostOneMaster ==
    \A q, r \in remotes : role[q] = "MASTER" /\ role[r] = "MASTER" => q = r

\* A connected controller's role changes only because it asked, or from MASTER
\* to SLAVE because the controller just served became master in its place.
RoleChangesHaveACause ==
    [][\A r \in remotes \cap remotes' :
          role'[r] # role[r] =>
             \/ last'.actor = r
             \/ /\ role[r] = "MASTER" /\ role'[r] = "SLAVE"
                /\ last'.actor \in up /\ role'[last'.actor] = "MASTER"]_vars

\* Two steps of two controllers: whoever loses mastership can write no table
\* before a request of its own is granted, so a table write is always made by
\* the master or an equal, and never by the master another one replaced.
TablesNotWrittenBySlaves ==
    last.wrote = "tables" =>
       last.actor \in up /\ role[last.actor] # "SLAVE"

\* openflow.h: slaves "do not receive OFPT_PACKET_IN or OFPT_FLOW_REMOVED
\* messages": whatever is queued for a slave without its asking is a port
\* status it enabled.
SlavesHearOnlyPortStatus ==
    \A r \in last.to :
       role[r] = "SLAVE" /\ last.sent \in AsyncMsg => last.sent \in PortStatus

\* datapath.c, "Check if the message is enabled in the asynchronous
\* configuration": a connected master or equal controller with room in its
\* queue is sent every port status whose reason it enabled.  Refuted by the
\* missing break of the PORT_STATUS case.
EnabledPortStatusIsSent ==
    [][\A r \in Accepting(remotes) :
          /\ last' # last
          /\ last'.sent \in PortStatus
          /\ role[r] # "SLAVE"
          /\ last'.sent.reason \in config[r].port_status.full
          => r \in last'.to]_vars
=============================================================================
