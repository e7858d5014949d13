---------------------------- MODULE InBand ----------------------------
(***************************************************************************)
(* In-band control in the secure channel: the port watcher's copy of the  *)
(* datapath's ports (port-watcher.c), the rules that keep the controller  *)
(* reachable through the local port (in-band.c), and the part of main()'s *)
(* loop (secchan.c) that reacts to a new local port.                      *)
(*                                                                         *)
(* A port's name is its number; the local port has the name of the        *)
(* physical port whose interface it shares.  The datapath is external: it *)
(* attaches once, announces it, answers requests in order and keeps one   *)
(* table of rules.                                                         *)
(***************************************************************************)
EXTENDS Naturals, Sequences, SequencesExt, FiniteSets, FiniteSetsExt

CONSTANTS
    Ports,        \* numbers of the physical ports
    MaxEvents,    \* bound: requests of the controller, interfaces that others
                  \* bring up or down, and packet-ins
    Slow          \* whether the datapath's socket is full at first: subset of
                  \* {"never", "full"}

LOCAL_AUX == 99   \* OFPP_LOCAL_AUX: where the local port is kept
CONTROLLER == 98  \* OFPP_CONTROLLER
NO_PORT == 0

VARIABLES
    dp,      \* the datapath: local port, port configuration, rules
    nics,    \* interfaces that are up
    chan,    \* connection to the datapath: down, up, and the rconn's queue
    pw,      \* struct port_watcher
    inb,     \* struct in_band_data
    main,    \* main()'s variables
    ctl,     \* what the controller did and was told
    slow     \* "full" while the socket to the datapath is, then "drained"

inbVars == <<dp, nics, chan, pw, inb, main, ctl, slow>>

(* Forces the evaluation of a state before a handler uses it.              *)
After(s, Op(_)) == CHOOSE r \in {Op(x) : x \in {s}} : TRUE

Known == pw.ports \ {LOCAL_AUX}

(***************************************************************************)
(* Sending to the datapath.  A request of the port watcher is dropped when *)
(* one is still in the rconn's queue.                                      *)
(***************************************************************************)
IsRequest(m) == m.type \in {"features", "desc"}
n_txq(c) == Len(SelectSeq(c.txq, IsRequest))

rconn_send(c, m) ==
    IF slow = "full" \/ c.txq # <<>> THEN [c EXCEPT !.txq = Append(@, m)]
    ELSE [c EXCEPT !.down = Append(@, m)]

rconn_send_with_limit(c, m) == IF n_txq(c) >= 1 THEN c ELSE rconn_send(c, m)

(* The limit of ten is out of reach of MaxEvents ways back.                *)
queue_tx(c, m) == rconn_send(c, m)

SendAll(c, ms) ==
    FoldLeft(LAMBDA d, m : After(d, LAMBDA x : rconn_send(x, m)), c, ms)

(***************************************************************************)
(* Rules (lib/ofp.c).  A field of a struct flow that is zero is not put in *)
(* the match, and which of the others are depends on the type.  An address *)
(* is that of this switch's local port, another's or the broadcast one.    *)
(***************************************************************************)
NoFlow == [in_port |-> 0, dl_src |-> "0", dl_dst |-> "0", dl_type |-> "0",
           nw_proto |-> "0", nw_dst |-> "0"]
IsSet(flow, f) == IF f = "in_port" THEN flow.in_port # 0 ELSE flow[f] # "0"

PutFields(flow) ==
    CASE flow.dl_type = "ARP" -> {"in_port", "nw_dst", "dl_dst"}
      [] flow.dl_type = "IP" /\ flow.nw_proto = "TCP" -> {"nw_proto", "in_port", "nw_dst"}
      [] flow.dl_type = "0" -> {"in_port", "dl_dst", "dl_src"}
      [] OTHER -> {}

create_ofl_match_UAH(flow) ==
    [f \in {g \in {"dl_type"} \union PutFields(flow) : IsSet(flow, g)} |-> flow[f]]

make_flow_mod(command, flow) ==
    [type |-> "flow_mod", command |-> command, match |-> create_ofl_match_UAH(flow),
     priority |-> 0, out |-> 0]

make_add_flow(flow, priority) == [make_flow_mod("ADD", flow) EXCEPT !.priority = priority]

(* Without a port the flow has no instructions: what matches is dropped.   *)
make_add_simple_flow(flow, out, priority) ==
    [make_add_flow(flow, priority) EXCEPT !.out = out]

make_del_flow(flow) == make_flow_mod("DELETE", flow)

CTRL_PRIORITY == 1
RULE_PRIORITY == 2
DROP_PRIORITY == 3

DropSource(port) == [NoFlow EXCEPT !.in_port = port, !.dl_src = "own"]
DropDestination(port) == [NoFlow EXCEPT !.in_port = port, !.dl_dst = "own"]
Arp == [NoFlow EXCEPT !.dl_type = "ARP"]
ArpForController == [Arp EXCEPT !.dl_dst = "broadcast", !.nw_dst = "controller"]
TcpForController ==
    [NoFlow EXCEPT !.dl_type = "IP", !.nw_proto = "TCP", !.nw_dst = "controller"]

DropRules(port) ==
    <<make_add_simple_flow(DropSource(port), 0, DROP_PRIORITY),
      make_add_simple_flow(DropDestination(port), 0, DROP_PRIORITY)>>
install_drop_rules(c, port) == SendAll(c, DropRules(port))

(* It lasts two seconds; nothing here depends on when it goes.             *)
install_ehddp_rules(c) ==
    After(c, LAMBDA x : rconn_send(x,
        make_add_simple_flow([NoFlow EXCEPT !.dl_type = "EHDDP"], CONTROLLER, CTRL_PRIORITY)))

install_in_band_rules_UAH(c, port) ==
    IF port = NO_PORT THEN c
    ELSE After(install_ehddp_rules(install_drop_rules(c, port)),
               LAMBDA x : rconn_send(x, make_add_simple_flow(Arp, port, CTRL_PRIORITY)))

install_new_localport_rules_UAH(c, new, old) ==
    LET gone == IF old = NO_PORT THEN <<>>
                ELSE <<make_del_flow(DropSource(old)), make_del_flow(DropDestination(old))>>
    IN SendAll(c, gone \o DropRules(new) \o <<make_del_flow(TcpForController)>>)

install_ARP_Controller_rules_UAH(c, port) ==
    rconn_send(c, make_add_simple_flow(ArpForController, port, CTRL_PRIORITY))
install_OpenFlow_Controller_rules_UAH(c, port) ==
    rconn_send(c, make_add_simple_flow(TcpForController, port, CTRL_PRIORITY))

(***************************************************************************)
(* The port watcher                                                        *)
(***************************************************************************)
Named(w) ==
    {n \in w.ports : w.local_name # NO_PORT /\
        (IF n = LOCAL_AUX THEN w.aux ELSE n) = w.local_name}

(* The physical port that shares the local port's interface: the lowest    *)
(* number with its name, or 0.                                             *)
FirstPort(w) == IF w.ports = {} THEN NO_PORT ELSE Min(w.ports)
get_pw_local_port_number_UAH(w) ==
    IF Named(w) = {} THEN NO_PORT ELSE Min(Named(w))

(* port_no is compared in network byte order: none is ever found.          *)
get_ofp_port_local_UAH(w, port) == NO_PORT

(* Features and descriptions are asked for together.                       *)
AsksFeaturesOnly(c) ==
    rconn_send_with_limit(c, [type |-> "features"])
MakeRequests(c) ==
    After(rconn_send_with_limit(c, [type |-> "features"]),
          LAMBDA d : rconn_send_with_limit(d, [type |-> "desc"]))

(* One port of a reply, m, or one that is not in it any more.              *)
update_phy_port(w, p, m, reason) ==
    CASE reason = "DELETE" /\ p \in w.ports -> [w EXCEPT !.ports = @ \ {p}, !.down = @ \ {p}]
      [] reason = "MODIFY" -> [w EXCEPT
             !.ports = @ \union {p},
             !.down = IF p \in m.down THEN @ \union {p} ELSE @ \ {p},
             !.aux = IF p = LOCAL_AUX THEN m.local ELSE @]
      [] OTHER -> w

(* The device of the local port is opened, unless it is already; opening   *)
(* an interface that exists does not fail.                                 *)
in_band_local_port_cb(b, port) == [b EXCEPT !.of_device = port]

call_local_port_changed_callbacks(s) ==
    LET port == IF LOCAL_AUX \in s.pw.ports THEN s.pw.aux ELSE NO_PORT
    IN [s EXCEPT !.pw.local_name = port, !.inb = in_band_local_port_cb(@, port)]

(* The ports in the reply, the local one last, replace the ones known      *)
(* before.  The drop rules are sent while the local port's name is still   *)
(* the old one: for no port in particular, when there was none.            *)
PortDescReply(s, m) ==
    LET Update(w, p) == After(w, LAMBDA x : update_phy_port(x, p, m, "MODIFY"))
        Delete(w, p) == After(w, LAMBDA x : update_phy_port(x, p, m, "DELETE"))
        Listed(t) == [t EXCEPT !.pw = FoldLeft(Update, @, SetToSortSeq(m.ports, <))]
        Rules(t) == [t EXCEPT !.chan =
            IF LOCAL_AUX \notin m.ports THEN @
            ELSE install_ehddp_rules(
                     install_drop_rules(@, get_pw_local_port_number_UAH(t.pw)))]
        Kept(t) == [t EXCEPT !.pw =
            FoldLeft(Delete, @, SetToSortSeq(@.ports \ m.ports, <))]
    IN After(After(After(After(s, Listed), Rules), Kept), call_local_port_changed_callbacks)

port_watcher_local_packet_cb(s, m) ==
    CASE m.type = "features" -> [s EXCEPT !.pw.got_feature_reply = TRUE]
      [] m.type = "desc" -> PortDescReply(s, m)
      [] OTHER -> s

(* The names it returns, one a call, until there are no more: those of     *)
(* ports it watches.  MaxEvents changes do not overflow its socket.        *)
netdev_monitor_poll(w) == w.changed \intersect w.ports

(* Interfaces that changed: the copy of the port is brought up to date and *)
(* the controller told.                                                    *)
Differs(w, p) == (p \in w.down) # (p \notin nics)
PollMonitor(s) ==
    LET told == {p \in netdev_monitor_poll(s.pw) : Differs(s.pw, p)}
    IN [s EXCEPT !.pw.changed = {},
                 !.pw.down = (@ \ told) \union (told \ nics),
                 !.ctl.told = @ \union {<<p, p \in nics>> : p \in told}]

(* An announcement of the datapath.  Once one has been handled, the time   *)
(* guard never lets another in: time_msec() only grows.  Asking for the    *)
(* ports ends with a turn of the watcher's periodic callback.              *)
ChangeLocalPort(s, m) ==
    LET port == get_pw_local_port_number_UAH(s.pw)
    IN IF s.inb.time_local_port_in_band THEN s
       ELSE [After([s EXCEPT !.chan = MakeRequests(@)], PollMonitor) EXCEPT
               !.chan = After(@, LAMBDA asked :
                   IF m.old # NO_PORT
                   THEN install_new_localport_rules_UAH(asked, m.new, m.old)
                   ELSE install_in_band_rules_UAH(asked, port)),
               !.inb.time_local_port_in_band = TRUE]

(* An ARP packet teaches the way back to the station that sent it.         *)
LearnFromArp(s, m) ==
    LET source == IF m.kind = "arp_own" THEN "own" ELSE "station"
    IN [s EXCEPT !.chan = queue_tx(@, make_add_simple_flow(
            [Arp EXCEPT !.dl_dst = source], m.port, RULE_PRIORITY))]

(* Of other packets nothing is learnt: the flows built for IP are not sent.*)
IgnoreOther(s) == s

(* What the hook does, and whether it swallows the message.  Until the     *)
(* local interface is open, everything passes.  An ARP packet of this      *)
(* switch also teaches a way back once an announcement named its address.  *)
in_band_local_packet_cb(s, m) ==
    LET packet == m.type = "packet" /\ s.inb.of_device # NO_PORT
        passed == [s EXCEPT !.ctl.got = @ \union
                      IF m.type = "packet" THEN {m.kind} ELSE {}]
    IN CASE m.type = "announce" -> ChangeLocalPort(s, m)
         [] packet /\ m.kind = "arp" -> LearnFromArp(s, m)
         [] packet /\ m.kind # "arp_own" -> IgnoreOther(s)
         [] packet /\ s.inb.time_local_port_in_band -> LearnFromArp(passed, m)
         [] OTHER -> passed

(* Asks every five seconds until the datapath has answered.                *)
AskAgain(s, due) ==
    IF s.pw.got_feature_reply \/ ~due THEN s
    ELSE [s EXCEPT !.chan = MakeRequests(@)]

port_watcher_periodic_cb(s, due) == After(AskAgain(s, due), PollMonitor)

(* A port-mod on its way to the datapath changes the copy and the          *)
(* interface.                                                              *)
port_watcher_remote_packet_cb(w, p, down) ==
    [w EXCEPT !.down = IF down THEN @ \union {p} ELSE @ \ {p}]

(***************************************************************************)
(* main(): the rules that lead to the controller are installed once, when  *)
(* the local port is known.                                                *)
(***************************************************************************)
InstallOnce(s) ==
    LET port == get_pw_local_port_number_UAH(s.pw)
    IN IF s.main.in_band_rules \/ port = NO_PORT THEN s
       ELSE [s EXCEPT !.main.in_band_rules = TRUE,
                      !.chan = install_OpenFlow_Controller_rules_UAH(
                          install_ARP_Controller_rules_UAH(@, port), port)]

NoteLocalPort(s) ==
    LET port == get_pw_local_port_number_UAH(s.pw)
        found == get_ofp_port_local_UAH(s.pw, port) # NO_PORT
    IN IF port \in {NO_PORT, s.main.local_port_ant} THEN s
       ELSE [s EXCEPT !.main.local_port_ant = port,
                      !.chan = IF found THEN install_drop_rules(@, port)
                               ELSE @]

(***************************************************************************)
(* Behaviour                                                               *)
(***************************************************************************)
port_watcher_start ==
    [ports |-> {}, down |-> {}, aux |-> NO_PORT, local_name |-> NO_PORT,
     got_feature_reply |-> FALSE, changed |-> {}]

InBandInit ==
    /\ dp = [local |-> NO_PORT, down |-> {}, rules |-> {}]
    /\ nics = Ports
    /\ chan = [down |-> <<>>, up |-> <<>>, txq |-> <<>>]
    /\ pw = port_watcher_start
    /\ inb = [of_device |-> NO_PORT, time_local_port_in_band |-> FALSE]
    /\ main = [in_band_rules |-> FALSE, local_port_ant |-> NO_PORT]
    /\ ctl = [events |-> 0, told |-> {}, got |-> {}]
    /\ slow \in Slow

State == [chan |-> chan, pw |-> pw, inb |-> inb, main |-> main, ctl |-> ctl]

(* One turn of the loop: the messages that have arrived, then the periodic *)
(* callbacks, then the local port.  The five seconds after a request are   *)
(* over only when the datapath has had the time to answer it.              *)
Hear(s, m) == After(s, LAMBDA x :
    After(port_watcher_local_packet_cb(x, m),
          LAMBDA t : in_band_local_packet_cb(t, m)))
Loop ==
    \E due \in BOOLEAN :
    \E heard \in {FoldLeft(Hear, [State EXCEPT !.chan.up = <<>>], chan.up)} :
    \E polled \in {port_watcher_periodic_cb(heard, due)} :
    \E s \in {After(InstallOnce(polled), NoteLocalPort)} :
        /\ due => chan.up = <<>> /\ chan.txq = <<>> /\ chan.down = <<>>
        /\ chan' = s.chan
        /\ pw' = s.pw
        /\ inb' = s.inb
        /\ main' = s.main
        /\ ctl' = s.ctl
        /\ UNCHANGED <<dp, nics, slow>>

Includes(match, fields) ==
    \A f \in DOMAIN fields : f \in DOMAIN match /\ match[f] = fields[f]

(* A flow mod: an addition replaces the rule with its match and priority.  *)
Modified(m) ==
    IF m.command = "DELETE" THEN {r \in dp.rules : ~Includes(r.match, m.match)}
    ELSE {r \in dp.rules : r.match # m.match \/ r.priority # m.priority}
         \union {[match |-> m.match, priority |-> m.priority, out |-> m.out]}

(* The datapath handles a request.                                         *)
Serve ==
    /\ chan.down # <<>>
    /\ LET m == Head(chan.down)
           all == Ports \union (IF dp.local = NO_PORT THEN {} ELSE {LOCAL_AUX})
           reply == CASE m.type = "features" -> <<m>>
                      [] m.type = "desc" ->
                            <<[type |-> "desc", ports |-> all,
                               down |-> dp.down, local |-> dp.local]>>
                      [] OTHER -> <<>>
       IN /\ chan' = [chan EXCEPT !.down = Tail(@), !.up = @ \o reply]
          /\ dp' = [dp EXCEPT
                !.rules = IF m.type = "flow_mod" THEN Modified(m) ELSE @,
                !.down = CASE m.type = "mod" /\ m.down -> @ \union {m.port}
                           [] m.type = "mod" -> @ \ {m.port}
                           [] OTHER -> @]
    /\ UNCHANGED <<nics, pw, inb, main, ctl, slow>>

create_ehddp_new_localport_packet_UAH(new, old) ==
    [type |-> "announce", new |-> new, old |-> old]
send_new_localport_packet_UAH(up, new, old) ==
    Append(up, create_ehddp_new_localport_packet_UAH(new, old))

(* The datapath makes port p its local port, and announces it twice: as it *)
(* adds the port, and when the port is configured.                         *)
Attach(p) ==
    /\ dp.local = NO_PORT
    /\ dp' = [dp EXCEPT !.local = p]
    /\ chan' = [chan EXCEPT !.up = send_new_localport_packet_UAH(
                    send_new_localport_packet_UAH(@, LOCAL_AUX, NO_PORT), p, NO_PORT)]
    /\ UNCHANGED <<nics, pw, inb, main, ctl, slow>>

(* Another packet-in: an ARP packet of this switch or of another one, or an *)
(* eHDDP packet.                                                           *)
PacketIn(p, kind) ==
    /\ ctl.events < MaxEvents
    /\ ctl' = [ctl EXCEPT !.events = @ + 1]
    /\ chan' = [chan EXCEPT !.up = Append(@, [type |-> "packet",
                                             kind |-> kind, port |-> p])]
    /\ UNCHANGED <<dp, nics, pw, inb, main, slow>>

(* The socket to the datapath has room again.                              *)
Flush ==
    /\ slow = "full"
    /\ chan' = [chan EXCEPT !.down = @ \o chan.txq, !.txq = <<>>]
    /\ slow' = "drained"
    /\ UNCHANGED <<dp, nics, pw, inb, main, ctl>>

(* The controller asks for the ports, through the relay.                   *)
Ask ==
    /\ ctl.events < MaxEvents
    /\ ctl' = [ctl EXCEPT !.events = @ + 1]
    /\ chan' = rconn_send(chan, [type |-> "desc"])
    /\ UNCHANGED <<dp, nics, pw, inb, main, slow>>

(* It changes a port it has seen in a reply.                               *)
PortMod(p, down) ==
    /\ ctl.events < MaxEvents
    /\ p \in Known
    /\ ctl' = [ctl EXCEPT !.events = @ + 1]
    /\ pw' = [port_watcher_remote_packet_cb(pw, p, down) EXCEPT
                !.changed = @ \union {p}]
    /\ nics' = IF down THEN nics \ {p} ELSE nics \union {p}
    /\ chan' = rconn_send(chan, [type |-> "mod", port |-> p, down |-> down])
    /\ UNCHANGED <<dp, inb, main, slow>>

(* Somebody else brings an interface up or down.                           *)
Flip(p) ==
    /\ ctl.events < MaxEvents
    /\ ctl' = [ctl EXCEPT !.events = @ + 1]
    /\ nics' = IF p \in nics THEN nics \ {p} ELSE nics \union {p}
    /\ pw' = [pw EXCEPT !.changed = @ \union {p}]
    /\ UNCHANGED <<dp, chan, inb, main, slow>>

InBandNext ==
    \/ Loop
    \/ Serve
    \/ Flush
    \/ Ask
    \/ \E p \in Ports :
        \/ Attach(p)
        \/ Flip(p)
        \/ \E down \in BOOLEAN : PortMod(p, down)
        \/ \E kind \in {"arp", "arp_own", "ehddp"} : PacketIn(p, kind)

-----------------------------------------------------------------------------
(* The traffic for the controller is sent where the datapath really has    *)
(* its local port: no rule that forwards it names another port, although   *)
(* main() reads the number from a copy of the port list that replies and   *)
(* announcements reach in any order.                                       *)
RulesFollowLocalPort ==
    \A r \in dp.rules : r.out \in Ports /\ r.priority = CTRL_PRIORITY => r.out = dp.local

(* Where the rules send a packet: what the best of those it matches say.   *)
Sends(packet) ==
    LET matching == {r \in dp.rules : Includes(packet, r.match)}
    IN {r.out : r \in {x \in matching : \A y \in matching : x.priority >= y.priority}}

(* Once the datapath has a local port, the watcher's copy names it and     *)
(* what other switches send to the controller leaves by it, whatever       *)
(* drop rules and ways back have been installed besides, as long as the    *)
(* socket to the datapath does not fill up: get_pw_local_port_number_UAH() *)
(* is what in-band control waits for.                                      *)
ControllerInReach ==
    dp.local \in Ports /\ slow = "never" =>
        /\ get_pw_local_port_number_UAH(pw) = dp.local
        /\ \A p \in Ports \ {dp.local}, flow \in {ArpForController, TcpForController} :
            Sends([flow EXCEPT !.in_port = p, !.dl_src = "station"]) = {dp.local}

=============================================================================
