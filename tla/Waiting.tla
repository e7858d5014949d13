------------------------------ MODULE Waiting -------------------------------
(***************************************************************************)
(* How a program of the switch sleeps without missing anything: the poll   *)
(* loop (lib/poll-loop.c, lib/timeval.c), subprocesses (lib/process.c) and *)
(* signals (lib/signals.c).  The program tests each subprocess and the     *)
(* signal, registers what it waits for and blocks; a signal handler may    *)
(* run between any two of its steps.  A callback serves the vlog socket.   *)
(* No deadline is set (time_alarm), and a pipe that is written to is       *)
(* either empty or not: that is all a reader of it can tell.               *)
(***************************************************************************)
EXTENDS Integers, Sequences, SequencesExt

CONSTANTS
    Procs,    \* the subprocesses
    Timeout   \* what the program gives to poll_timer_wait, if anything

VARIABLES
    todo,      \* the steps of this round of the program's loop
    child,     \* each subprocess: "none", "runs", "zombie" or "reaped"
    listed,    \* those in all_processes
    exited,    \* those whose flag is set
    noticed,   \* those process_exited has returned true for
    blocked,   \* whether SIGCHLD is blocked
    pending,   \* the signals that wait for delivery
    readable,  \* the pipes and sockets with something to read
    signaled,  \* signaled[SIGHUP]
    waiters,   \* the waiters: descriptor and whether it has a callback
    timeout,   \* poll-loop's timeout, or -1
    sleep      \* the time_poll that is under way

waitVars == <<todo, child, listed, exited, noticed, blocked, pending, readable, signaled,
              waiters, timeout, sleep>>

Pipe == "SIGCHLD pipe"
SigPipe == "signal pipe"
Vlog == "vlog socket"
Waiter(fd, callback) == [fd |-> fd, callback |-> callback]

\* In time_poll: the time passed since it began, how much of it the program
\* knows of, what is left of this poll(), and whether SIGALRM is blocked.
Awake == [elapsed |-> 0, seen |-> 0, left |-> -1, alarm_blocked |-> FALSE]
TimeLeft(seen) == IF timeout > 0 THEN timeout - seen ELSE timeout

Round(timed) ==
    FlattenSeq([k \in 1..Len(SetToSeq(Procs)) |-> <<<<"exited", SetToSeq(Procs)[k]>>>>])
        \o <<<<"signal_poll">>>> \o (IF timed THEN <<<<"timer_wait">>>> ELSE <<>>)
        \o FlattenSeq([k \in 1..Len(SetToSeq(Procs)) |-> <<<<"wait", SetToSeq(Procs)[k]>>>>])
        \o <<<<"signal_wait">>, <<"poll">>>>

WaitInit ==
    /\ todo = Round(FALSE)
    /\ child = [p \in Procs |-> "none"] /\ listed = {} /\ exited = {} /\ noticed = {}
    /\ blocked = FALSE /\ pending = {} /\ readable = {} /\ signaled = FALSE
    /\ waiters = {Waiter(Vlog, TRUE)} /\ timeout = -1
    /\ sleep = Awake

Now(op) == Head(todo)[1] = op
Arg == Head(todo)[2]
Go(next) == todo' = next \o Tail(todo)

-----------------------------------------------------------------------------
(* process.c                                                               *)

\* process_start, at the top of a round: fork with SIGCHLD blocked, and after
\* it the new process goes into the list.
ForksUnblocked(p) ==
    /\ Now("exited") /\ Arg = p /\ child[p] = "none"
    /\ child' = [child EXCEPT ![p] = "runs"]
    /\ todo' = <<<<"list", p>>>> \o todo
    /\ UNCHANGED <<listed, exited, noticed, pending, readable, signaled, waiters, timeout, sleep, blocked>>
process_start(p) ==
    /\ Now("exited") /\ Arg = p /\ child[p] = "none"
    /\ child' = [child EXCEPT ![p] = "runs"]
    /\ blocked' = TRUE
    /\ todo' = <<<<"list", p>>>> \o todo
    /\ UNCHANGED <<listed, exited, noticed, pending, readable, signaled, waiters, timeout, sleep>>
ProcessListed ==
    /\ Now("list")
    /\ listed' = listed \cup {Arg} /\ blocked' = FALSE
    /\ Go(<<>>)
    /\ UNCHANGED <<child, exited, noticed, pending, readable, signaled, waiters, timeout, sleep>>

\* process_exited; a process that has exited is destroyed.
process_exited ==
    /\ Now("exited")
    /\ IF Arg \in listed /\ Arg \in exited
       THEN /\ noticed' = noticed \cup {Arg}
            /\ listed' = listed \ {Arg}
            /\ Go(<<>>)
       ELSE /\ Go(IF Arg \in listed THEN <<<<"drain">>>> ELSE <<>>)
            /\ UNCHANGED <<noticed, listed>>
    /\ UNCHANGED <<child, exited, blocked, pending, readable, signaled, waiters, timeout, sleep>>
Drain ==
    /\ Now("drain")
    /\ readable' = readable \ {Pipe}
    /\ Go(<<>>)
    /\ UNCHANGED <<child, listed, exited, noticed, blocked, pending, signaled, waiters, timeout, sleep>>

poll_timer_wait(msec) ==
    timeout' = IF timeout < 0 \/ msec < timeout THEN msec ELSE timeout

WaitsForPipe ==
    /\ Now("wait")
    /\ Go(IF Arg \in listed THEN <<<<"fd_wait", Pipe>>>> ELSE <<>>)
    /\ UNCHANGED <<timeout, child, listed, exited, noticed, blocked, pending, readable, signaled, waiters, sleep>>
process_wait ==
    /\ Now("wait")
    /\ IF Arg \in listed /\ Arg \in exited
       THEN poll_timer_wait(0) /\ Go(<<>>)
       ELSE /\ Go(IF Arg \in listed THEN <<<<"fd_wait", Pipe>>>> ELSE <<>>)
            /\ UNCHANGED timeout
    /\ UNCHANGED <<child, listed, exited, noticed, blocked, pending, readable, signaled, waiters, sleep>>

-----------------------------------------------------------------------------
(* signals.c: the pipe is emptied before the flag is tested.               *)

signal_poll ==
    /\ \/ Now("signal_poll") /\ readable' = readable \ {SigPipe} /\ signaled' = signaled
          /\ Go(<<<<"signal_test">>>>)
       \/ Now("signal_test") /\ signaled' = FALSE /\ readable' = readable /\ Go(<<>>)
    /\ UNCHANGED <<child, listed, exited, noticed, blocked, pending, waiters, timeout, sleep>>
signal_wait ==
    /\ Now("signal_wait")
    /\ IF signaled THEN poll_timer_wait(0) /\ Go(<<>>)
       ELSE Go(<<<<"fd_wait", SigPipe>>>>) /\ UNCHANGED timeout
    /\ UNCHANGED <<child, listed, exited, noticed, blocked, pending, readable, signaled, waiters, sleep>>

-----------------------------------------------------------------------------
(* poll-loop.c and timeval.c                                               *)

TimerWait ==
    /\ Now("timer_wait") /\ poll_timer_wait(Timeout) /\ Go(<<>>)
    /\ UNCHANGED <<child, listed, exited, noticed, blocked, pending, readable, signaled, waiters, sleep>>

poll_fd_wait ==
    /\ Now("fd_wait")
    /\ waiters' = waiters \cup {Waiter(Arg, FALSE)}
    /\ Go(<<>>)
    /\ UNCHANGED <<child, listed, exited, noticed, blocked, pending, readable, signaled, timeout, sleep>>

\* time_poll refreshes the time and calls poll().
time_poll ==
    /\ Now("poll")
    /\ sleep' = [Awake EXCEPT !.left = TimeLeft(0)]
    /\ Go(<<<<"asleep">>>>)
    /\ UNCHANGED <<child, listed, exited, noticed, blocked, pending, readable, signaled, waiters, timeout>>

\* A signal interrupts poll(), which is called again with what is left.
FullTimeAgain(s) == [s EXCEPT !.left = TimeLeft(s.seen), !.alarm_blocked = TRUE]
Interrupted(s) == [s EXCEPT !.seen = s.elapsed, !.left = TimeLeft(s.elapsed), !.alarm_blocked = TRUE]

TimePasses ==
    /\ Now("asleep") /\ sleep.left > 0
    /\ readable \cap {w.fd : w \in waiters} = {}
    /\ sleep' = [sleep EXCEPT !.elapsed = @ + 1, !.left = @ - 1]
    /\ UNCHANGED <<todo, child, listed, exited, noticed, blocked, pending, readable, signaled, waiters, timeout>>

SIGALRM ==
    /\ Now("asleep") /\ ~sleep.alarm_blocked
    /\ sleep' = Interrupted(sleep)
    /\ UNCHANGED <<todo, child, listed, exited, noticed, blocked, pending, readable, signaled, waiters, timeout>>

\* poll_block after poll(): the callback of the vlog socket reads it and
\* registers again; a callback whose descriptor is not ready stays, and
\* every other waiter goes.
CancelsAll(ready) == {Waiter(Vlog, TRUE) : v \in ready \cap {Vlog}}
Dispatched(ready) == {w \in waiters : w.callback /\ w.fd \notin ready}
                     \cup {Waiter(Vlog, TRUE) : v \in ready \cap {Vlog}}
poll_block ==
    LET ready == readable \cap {w.fd : w \in waiters} IN
    /\ Now("asleep") /\ (ready # {} \/ sleep.left = 0)
    /\ waiters' = Dispatched(ready)
    /\ readable' = readable \ {Vlog}
    /\ timeout' = -1 /\ sleep' = Awake
    /\ \E timed \in BOOLEAN : todo' = Round(timed)
    /\ UNCHANGED <<child, listed, exited, noticed, blocked, pending, signaled>>

Main ==
    \/ ProcessListed \/ process_exited \/ Drain \/ process_wait \/ signal_poll \/ signal_wait
    \/ TimerWait \/ poll_fd_wait \/ time_poll \/ poll_block

-----------------------------------------------------------------------------
(* The handlers, each with its signal blocked, and the rest of the world.  *)

WakesPoll == sleep' = IF Now("asleep") THEN Interrupted(sleep) ELSE sleep

sigchld_handler ==
    LET reaped == {p \in listed \ exited : child[p] = "zombie"} IN
    /\ "SIGCHLD" \in pending /\ ~blocked
    /\ pending' = pending \ {"SIGCHLD"}
    /\ child' = [p \in Procs |-> IF p \in reaped THEN "reaped" ELSE child[p]]
    /\ exited' = exited \cup reaped
    /\ readable' = readable \cup {Pipe}
    /\ WakesPoll
    /\ UNCHANGED <<todo, listed, noticed, blocked, signaled, waiters, timeout>>

signal_handler ==
    /\ "SIGHUP" \in pending
    /\ pending' = pending \ {"SIGHUP"}
    /\ readable' = readable \cup {SigPipe}
    /\ signaled' = TRUE
    /\ WakesPoll
    /\ UNCHANGED <<todo, child, listed, exited, noticed, blocked, waiters, timeout>>

Exits(p) ==
    /\ child[p] = "runs"
    /\ child' = [child EXCEPT ![p] = "zombie"] /\ pending' = pending \cup {"SIGCHLD"}
    /\ UNCHANGED <<todo, listed, exited, noticed, blocked, readable, signaled, waiters, timeout, sleep>>
Hup ==
    /\ pending' = pending \cup {"SIGHUP"}
    /\ UNCHANGED <<todo, child, listed, exited, noticed, blocked, readable, signaled, waiters, timeout, sleep>>
VlogRequest ==
    /\ readable' = readable \cup {Vlog}
    /\ UNCHANGED <<todo, child, listed, exited, noticed, blocked, pending, signaled, waiters, timeout, sleep>>

WaitNext ==
    \/ Main \/ (\E p \in Procs : process_start(p) \/ Exits(p))
    \/ TimePasses \/ SIGALRM \/ sigchld_handler \/ signal_handler \/ Hup \/ VlogRequest

-----------------------------------------------------------------------------
(* Properties.                                                             *)

\* Nothing the program waits for is missed, wherever the signal comes in its
\* tests and registrations: a subprocess that ends is noticed, SIGHUP makes
\* signal_poll return true, and a request to vlog is read.
ExitNoticed(p) == child[p] \in {"none", "runs"} \/ p \in noticed
HupNoticed == ~signaled
RequestRead == Vlog \notin readable

\* time_poll "retries automatically until the original 'timeout' expires":
\* poll() is never called for longer than what is left, however many
\* signals interrupt it, and the vlog callback stays registered meanwhile.
NeverOversleeps ==
    /\ Now("asleep") /\ timeout >= 0 => sleep.elapsed + sleep.left <= timeout
    /\ Waiter(Vlog, TRUE) \in waiters
=============================================================================
