------------------------------ MODULE Shutdown ------------------------------
(***************************************************************************)
(* What a program of the switch leaves behind when it ends: the flags of   *)
(* its network devices (lib/netdev.c), its pidfile (lib/daemon.c) and the  *)
(* hooks that clean up after a fatal signal or exit() (lib/fatal-signal.c).*)
(*                                                                         *)
(* A process does its calls in steps small enough for a signal to come     *)
(* between any two that matter; what the code does with fatal signals      *)
(* blocked is one step.  A process started with --detach forks a child,    *)
(* the daemon.  ioctl() on a device that is there succeeds, and nobody     *)
(* else changes the flags.                                                 *)
(***************************************************************************)
EXTENDS Integers, Sequences, SequencesExt, FiniteSetsExt

CONSTANTS
    Interfaces,   \* the network interfaces
    Names,        \* the programs started
    Programs,     \* the calls of the main() of each, one way or another
    Nested        \* whether another fatal signal may come while the hooks run

VARIABLES
    flags,   \* the flags of every interface, of IFF_UP and IFF_PROMISC
    fs,      \* the files: <<>> for none, or the pid in it and who locked it
    proc     \* the processes

Up == {"IFF_UP", "IFF_PROMISC"}
Started == {<<name, "main">> : name \in Names}
Child(p) == <<p[1], "child">>
Processes == Started \cup {Child(p) : p \in Started}
pidfile == <<"pidfile">>
tmpfile(p) == <<"tmp">> \o p
Op(op, arg) == <<[op |-> op, arg |-> arg]>>

\* A process: its state, what it has still to do, the hooks, the files to be
\* unlinked, the open devices, whether the handlers are installed, whether
\* hooks are off at exit and already running, and whether it got a signal.
Process(state, todo) ==
    [state |-> state, todo |-> todo, hooks |-> <<>>, files |-> {}, devices |-> <<>>,
     handled |-> FALSE, disabled |-> FALSE, recurse |-> FALSE, signalled |-> FALSE]

Alive(p) == proc[p].state = "runs"
Locked(file) == fs[file] # <<>> /\ fs[file].lock # <<>> /\ Alive(fs[file].lock)

-----------------------------------------------------------------------------
(* fatal-signal.c: r is a process.                                         *)

fatal_signal_add_hook(r, hook) ==
    IF \E k \in DOMAIN r.hooks : r.hooks[k] = hook THEN r
    ELSE [r EXCEPT !.hooks = Append(@, hook), !.handled = TRUE]

fatal_signal_add_file_to_unlink(r, file) ==
    [fatal_signal_add_hook(r, "unlink_files") EXCEPT !.files = @ \cup {file}]
fatal_signal_remove_file_to_unlink(r, file) == [r EXCEPT !.files = @ \ {file}]

restore_all_flags(r) == FlattenSeq([k \in DOMAIN r.devices |-> Op("restore", k)])
do_unlink_files(r) == FlattenSeq([k \in 1..Len(SetToSeq(r.files)) |->
                                     Op("unlink", SetToSeq(r.files)[k])])

\* The hooks are called once, by whoever comes first; then the process ends.
call_hooks(r) ==
    [r EXCEPT !.recurse = TRUE,
              !.todo = (IF r.recurse THEN <<>>
                        ELSE FlattenSeq([k \in DOMAIN r.hooks |->
                                 IF r.hooks[k] = "unlink_files" THEN do_unlink_files(r)
                                 ELSE restore_all_flags(r)]))
                       \o Op("gone", "")]

atexit_handler(r) == IF r.disabled THEN [r EXCEPT !.todo = Op("gone", "")] ELSE call_hooks(r)

\* A handler that finds the hooks running raises the signal at once.
fatal_signal_handler(r) ==
    IF r.handled THEN call_hooks(r) ELSE [r EXCEPT !.todo = Op("gone", "")]

-----------------------------------------------------------------------------
(* netdev.c.                                                               *)

init_netdev(r) == fatal_signal_add_hook(r, "restore_all_flags")

do_open_netdev(r, i) ==
    [init_netdev(r) EXCEPT
        !.devices = Append(@, [name |-> i, save_flags |-> flags[i], changed_flags |-> {}])]

\* do_update_flags: what it changes is written down before it is changed.
NotesBitsSet(r, k, new) ==
    [r EXCEPT !.devices[k].changed_flags = @ \cup (new \ flags[r.devices[k].name]),
              !.todo = Op("set_flags", [k |-> k, new |-> new]) \o Tail(@)]
do_update_flags(r, k, new) ==
    [r EXCEPT !.devices[k].changed_flags = @ \cup SymDiff(new, flags[r.devices[k].name]),
              !.todo = Op("set_flags", [k |-> k, new |-> new]) \o Tail(@)]

\* The flags an interface has after restore_flags(d).
restore_flags(d) ==
    (flags[d.name] \ d.changed_flags) \cup (d.save_flags \cap d.changed_flags)

RemoveDevice(r, k) == [r EXCEPT !.devices = RemoveAt(@, k)]

-----------------------------------------------------------------------------
(* The calls.  An operation on a device is about the one opened last.      *)

Now(p, op) == Alive(p) /\ proc[p].todo # <<>> /\ Head(proc[p].todo).op = op
Arg(p) == Head(proc[p].todo).arg
Done(r) == [r EXCEPT !.todo = Tail(@)]
Fails(r) == [r EXCEPT !.todo = Op("exit", "")]
Does(p, r) == proc' = [proc EXCEPT ![p] = r]

ShutInit ==
    /\ flags \in [Interfaces -> {{}, {"IFF_UP"}}]
    /\ fs = [f \in {pidfile} \cup {tmpfile(p) : p \in Processes} |-> <<>>]
    /\ \E main \in Programs :
           proc = [p \in Processes |-> IF p \in Started THEN Process("runs", main[p[1]])
                                       ELSE Process("none", <<>>)]

\* netdev_open() of an interface, or its failure, which is fatal.
netdev_open(p) ==
    /\ Now(p, "netdev_open")
    /\ \E r \in {Done(do_open_netdev(proc[p], Arg(p))), Fails(init_netdev(proc[p]))} : Does(p, r)
    /\ UNCHANGED <<flags, fs>>

netdev_set_flags(p) ==
    /\ Now(p, "netdev_set_flags")
    /\ Does(p, do_update_flags(proc[p], Len(proc[p].devices), Arg(p)))
    /\ UNCHANGED <<flags, fs>>

set_flags(p) ==
    /\ Now(p, "set_flags")
    /\ flags' = [flags EXCEPT ![proc[p].devices[Arg(p).k].name] = Arg(p).new]
    /\ Does(p, Done(proc[p]))
    /\ fs' = fs

\* netdev_close: the flags are restored with fatal signals blocked.
netdev_close(p) ==
    LET k == Len(proc[p].devices)
        d == proc[p].devices[k]
    IN  /\ Now(p, "netdev_close")
        /\ flags' = [flags EXCEPT ![d.name] = restore_flags(d)]
        /\ Does(p, Done(RemoveDevice(proc[p], k)))
        /\ fs' = fs

\* die_if_already_running, without --force.
die_if_already_running(p) ==
    /\ Now(p, "die_if_already_running")
    /\ Does(p, IF Locked(pidfile) THEN Fails(proc[p]) ELSE Done(proc[p]))
    /\ UNCHANGED <<flags, fs>>

\* make_pidfile, call by call; a call that fails is logged and ends it.
NamesTooLate ==
    FlattenSeq([k \in 1..4 |-> Op(<<"unlink_tmp", "create", "lock", "write">>[k], "")])
        \o Op("rename", "") \o Op("unlink_pidfile", "") \o Op("keep_tmp", "")
MakePidfile ==
    FlattenSeq([k \in 1..5 |-> Op(<<"unlink_tmp", "create", "lock", "write",
                                    "unlink_pidfile">>[k], "")])
        \o Op("rename", "") \o Op("keep_tmp", "")
GivesUp(r) == [r EXCEPT !.todo = SubSeq(@, CHOOSE k \in DOMAIN @ : @[k].op = "keep_tmp", Len(@))]

Closed(p) == IF fs[tmpfile(p)] = <<>> THEN fs ELSE [fs EXCEPT ![tmpfile(p)].lock = <<>>]

NamesFile(p) ==
    \/ /\ Now(p, "unlink_tmp")
       /\ Does(p, Done(fatal_signal_add_file_to_unlink(proc[p], tmpfile(p))))
       /\ UNCHANGED <<flags, fs>>
    \/ /\ Now(p, "unlink_pidfile")
       /\ Does(p, Done(fatal_signal_add_file_to_unlink(proc[p], pidfile)))
       /\ UNCHANGED <<flags, fs>>
    \/ /\ Now(p, "keep_tmp")
       /\ Does(p, Done(fatal_signal_remove_file_to_unlink(proc[p], tmpfile(p))))
       /\ UNCHANGED <<flags, fs>>

WritesFile(p, op, inode) ==
    /\ Now(p, op)
    /\ \/ fs' = [fs EXCEPT ![tmpfile(p)] = inode] /\ Does(p, Done(proc[p]))
       \/ fs' = Closed(p) /\ Does(p, GivesUp(proc[p]))
    /\ flags' = flags

Rename(p) ==
    /\ Now(p, "rename")
    /\ \/ /\ fs' = [fs EXCEPT ![pidfile] = fs[tmpfile(p)], ![tmpfile(p)] = <<>>]
          /\ Does(p, Done(proc[p]))
       \/ /\ fs' = Closed(p)
          /\ Does(p, GivesUp(fatal_signal_remove_file_to_unlink(proc[p], pidfile)))
    /\ flags' = flags

make_pidfile(p) ==
    \/ NamesFile(p)
    \/ WritesFile(p, "create", [pid |-> <<>>, lock |-> <<>>])
    \/ WritesFile(p, "lock", [fs[tmpfile(p)] EXCEPT !.lock = p])
    \/ WritesFile(p, "write", [fs[tmpfile(p)] EXCEPT !.pid = p])
    \/ Rename(p)

\* daemonize: the child makes the pidfile and tells the parent, which waits.
daemonize(p, detach) ==
    /\ Now(p, "daemonize") /\ p \in Started
    /\ IF detach
       THEN proc' = [proc EXCEPT
                        ![p].todo = Op("disable", "") \o Op("fatal_signal_fork", "")
                                    \o Op("await", "") \o Op("exit", ""),
                        ![Child(p)] = [proc[p] EXCEPT
                            !.todo = MakePidfile \o Op("tell", "") \o Tail(@), !.signalled = FALSE]]
       ELSE proc' = [proc EXCEPT ![p].todo = MakePidfile \o Tail(@)]
    /\ UNCHANGED <<flags, fs>>

HooksStay(p) ==
    /\ \/ Now(p, "disable") /\ Does(p, Done(proc[p]))
       \/ Now(p, "fatal_signal_fork") /\ Does(p, Done([proc[p] EXCEPT !.handled = FALSE]))
    /\ UNCHANGED <<flags, fs>>
fatal_signal_fork(p) ==
    /\ \/ Now(p, "disable") /\ Does(p, Done([proc[p] EXCEPT !.disabled = TRUE]))
       \/ Now(p, "fatal_signal_fork") /\ Does(p, Done([proc[p] EXCEPT !.handled = FALSE]))
    /\ UNCHANGED <<flags, fs>>

\* The child cannot tell a parent that a signal has ended.
Tell(p) ==
    /\ Now(p, "tell")
    /\ Does(p, IF Alive(<<p[1], "main">>) THEN Done(proc[p]) ELSE Fails(proc[p]))
    /\ UNCHANGED <<flags, fs>>
Await(p) ==
    LET child == proc[Child(p)] IN
    /\ Now(p, "await")
    /\ child.state = "gone" \/ ~\E k \in DOMAIN child.todo : child.todo[k].op = "tell"
    /\ Does(p, Done(proc[p]))
    /\ UNCHANGED <<flags, fs>>

\* exit(), a fatal signal, and what the hooks do.
Exit(p) == Now(p, "exit") /\ Does(p, atexit_handler(proc[p])) /\ UNCHANGED <<flags, fs>>
Signal(p) ==
    /\ Alive(p) /\ (proc[p].recurse => Nested)
    /\ Does(p, fatal_signal_handler([proc[p] EXCEPT !.signalled = TRUE]))
    /\ UNCHANGED <<flags, fs>>
Hook(p) ==
    \/ /\ Now(p, "restore")
       /\ LET d == proc[p].devices[Arg(p)] IN flags' = [flags EXCEPT ![d.name] = restore_flags(d)]
       /\ Does(p, Done(proc[p])) /\ fs' = fs
    \/ /\ Now(p, "unlink")
       /\ fs' = [fs EXCEPT ![Arg(p)] = <<>>]
       /\ Does(p, Done(proc[p])) /\ flags' = flags
    \/ Now(p, "gone") /\ Does(p, [proc[p] EXCEPT !.state = "gone", !.todo = <<>>])
       /\ UNCHANGED <<flags, fs>>

ShutNext ==
    \E p \in Processes :
        \/ netdev_open(p) \/ netdev_set_flags(p) \/ set_flags(p) \/ netdev_close(p)
        \/ die_if_already_running(p) \/ (\E detach \in BOOLEAN : daemonize(p, detach))
        \/ make_pidfile(p) \/ fatal_signal_fork(p) \/ Tell(p) \/ Await(p)
        \/ Exit(p) \/ Signal(p) \/ Hook(p)

-----------------------------------------------------------------------------
(* Properties.                                                             *)

\* Once every process has ended, by exit() or by a fatal signal wherever it
\* hits, each interface has the flags it had before ("they will be reverted
\* when 'netdev' is closed or the program exits"): first is what it had.
FlagsReverted(first) ==
    (\A p \in Processes : ~Alive(p)) => flags = first

\* make_pidfile promises that observers never see an empty or an unlocked
\* pidfile: as long as there is one it names a process that runs and holds
\* its lock, through failed calls, signals and two programs started at once.
PidfileNamesTheLiving ==
    fs[pidfile] # <<>> => fs[pidfile].pid = fs[pidfile].lock /\ Locked(pidfile)

\* The parent's exit runs none of the hooks it shares with the daemon: the
\* flags the daemon has set on its devices stay as long as it got no signal.
DaemonUndisturbed ==
    \A p \in Started :
        LET child == proc[Child(p)] IN
        /\ child.state = "runs" /\ child.todo = <<>> /\ child.devices # <<>>
        /\ proc[p].state = "gone" /\ ~proc[p].signalled
        => flags[Last(child.devices).name] = Up
=============================================================================
