------------------------------ MODULE AppState ------------------------------
(***************************************************************************)
(* The graphical program's application state (gui/src/app.cpp): one client *)
(* and one server pointer, two flags, and the threads that share them.     *)
(*                                                                         *)
(* do_connect and do_start_server run on the GUI thread (do_connect on the *)
(* reconnect loop as well): they test the flags, replace the pointer by a  *)
(* new object and start a detached worker, which connects, sets the flag   *)
(* and then watches the session by reading the pointer again and again.    *)
(* do_disconnect and do_stop_server close and reset the same pointer.      *)
(* Nothing but the flags is atomic.  The two roles do the same steps and   *)
(* share their actions; where they differ the role is a guard.             *)
(*                                                                         *)
(* A use of the pointer is three steps: the test, the dereference, which   *)
(* enters the object, and the return from the call.  When a step would     *)
(* read a null pointer, free an object a thread is inside or destroy a     *)
(* joinable std::thread, `fault' says so and the program is over.  The     *)
(* screen shown, the status line and the lists copied for display are left *)
(* out.                                                                    *)
(***************************************************************************)
EXTENDS Naturals

CONSTANTS
    MaxTries,   \* bound on the calls of do_connect and do_start_server that pass their tests
    MaxSends    \* bound on the calls of send_file_gui and server_send_file

ASSUME AppAssumption == MaxTries \in Nat /\ MaxSends \in Nat

Roles == {"client", "server"}
Other(r) == IF r = "client" THEN "server" ELSE "client"
Tries == 1 .. MaxTries
Sends == 1 .. MaxSends

VARIABLES
    ptr,               \* AppState::client and ::server: 0, or the try whose object it is
    flag,              \* client_connected and server_running
    reconnect_running, \* AppState::reconnect_running
    cs_auto_reconnect, \* AppState::cs_auto_reconnect
    tries,             \* do_connect and do_start_server calls that passed their tests
    role,              \* role of each try
    obj,               \* the Client or Server each try made
    caller,            \* of each try: 0 the GUI thread, or the reconnect loop
    worker,            \* pc of the thread each try starts; "create": not started yet
    at,                \* the object a worker is, or was last, inside
    loop,              \* pc of the reconnect loop started by a try's worker
    gui,               \* pc of the GUI thread
    guiRole,           \* what its call is about
    guiAt,             \* the object it is, or was last, inside
    sender,            \* pc of the threads that send files
    senderRole,        \* whose file each sends
    senderAt,          \* the object each is inside
    fault,             \* what ended the program
    exited,            \* ~AppState has run
    overlapped,        \* history: a try passed its tests while an earlier one was unsettled
    dropped,           \* history: some session ended by itself
    released           \* history: the user disconnected or stopped the server

vars == <<ptr, flag, reconnect_running, cs_auto_reconnect, tries, role, obj, caller, worker,
          at, loop, gui, guiRole, guiAt, sender, senderRole, senderAt, fault, exited,
          overlapped, dropped, released>>
pointers == <<ptr, obj>>
calls    == <<tries, role, caller>>
window   == <<gui, guiRole, guiAt>>
senders  == <<sender, senderRole, senderAt>>
threads  == <<worker, at, loop, window, senders>>
settings == <<reconnect_running, cs_auto_reconnect>>
history  == <<overlapped, dropped, released>>

WorkerPCs == {"none", "create", "begin", "connecting", "lost", "won", "request", "requesting",
              "test", "deref", "polling", "ended", "after", "spawn", "done"}

\* Where a thread executes a member function of the object it has entered.
Inside == {"connecting", "requesting", "polling"}

Init ==
    /\ ptr = [r \in Roles |-> 0]
    /\ flag = [r \in Roles |-> FALSE]
    /\ reconnect_running = FALSE
    /\ cs_auto_reconnect = FALSE
    /\ tries = 0
    /\ role = [t \in Tries |-> "client"]
    /\ obj = [t \in Tries |-> "none"]
    /\ caller = [t \in Tries |-> 0]
    /\ worker = [t \in Tries |-> "none"]
    /\ at = [t \in Tries |-> 0]
    /\ loop = [t \in Tries |-> "none"]
    /\ gui = "idle"
    /\ guiRole = "client"
    /\ guiAt = 0
    /\ sender = [s \in Sends |-> "none"]
    /\ senderRole = [s \in Sends |-> "client"]
    /\ senderAt = [s \in Sends |-> 0]
    /\ fault = "none"
    /\ exited = FALSE
    /\ overlapped = FALSE
    /\ dropped = FALSE
    /\ released = FALSE

-----------------------------------------------------------------------------
(* Objects and pointers                                                    *)

\* A try between its tests and the setting of its flag, or its failure.
Unsettled(t) == worker[t] \in {"create", "begin", "connecting", "lost", "won"}

\* The GUI thread inside do_disconnect or do_stop_server.
Releasing == gui \in {"hangup", "hanging", "release"}

\* Some thread executes a member function of object o.
InUse(o) == \/ \E t \in Tries : worker[t] \in Inside /\ at[t] = o
            \/ gui \in {"calling", "hanging"} /\ guiAt = o
            \/ \E s \in Sends : sender[s] = "sending" /\ senderAt[s] = o

\* What the destructor of object o does: a session that is up is closed and
\* joined; one that ended by itself returns early from disconnect() and leaves
\* a joinable thread to ~thread(), which terminates the program.
DestroyFault(o) ==
    IF o = 0 THEN "none"
    ELSE IF obj[o] = "down" THEN "terminate"
    ELSE IF InUse(o) THEN "dangling" ELSE "none"

\* The pointer of role r becomes n, and the object it held is destroyed.
SetPointer(r, n) ==
    /\ fault' = DestroyFault(ptr[r])
    /\ obj' = [o \in Tries |-> IF o = n THEN "new"
                               ELSE IF o = ptr[r] THEN "gone" ELSE obj[o]]
    /\ ptr' = [ptr EXCEPT ![r] = n]

WorkerGoto(t, pc) == worker' = [worker EXCEPT ![t] = pc]

\* A worker calls a member function through the pointer as it is now.
Enter(t, pc) ==
    /\ at' = [at EXCEPT ![t] = ptr[role[t]]]
    /\ IF ptr[role[t]] = 0
       THEN fault' = "null" /\ UNCHANGED worker
       ELSE WorkerGoto(t, pc) /\ UNCHANGED fault

-----------------------------------------------------------------------------
(* do_connect and do_start_server                                          *)

\* The tests at the top of both functions.
MayStart_IgnoresServer(r) == ~flag[r] /\ (r = "client" \/ ~flag[Other(r)])
MayStart(r) == ~flag[r] /\ ~flag[Other(r)]

\* A caller passes the tests of do_connect or do_start_server.
PassTests_Reuses(r, c) ==
    /\ tries < MaxTries
    /\ MayStart(r)
    /\ tries' = tries
    /\ role' = [role EXCEPT ![tries + 1] = r]
    /\ caller' = [caller EXCEPT ![tries + 1] = c]
    /\ WorkerGoto(tries + 1, "create")
    /\ overlapped' = (overlapped \/ Releasing \/ \E t \in Tries : Unsettled(t))
PassTests(r, c) ==
    /\ tries < MaxTries
    /\ MayStart(r)
    /\ tries' = tries + 1
    /\ role' = [role EXCEPT ![tries + 1] = r]
    /\ caller' = [caller EXCEPT ![tries + 1] = c]
    /\ WorkerGoto(tries + 1, "create")
    /\ overlapped' = (overlapped \/ Releasing \/ \E t \in Tries : Unsettled(t))

\* The user presses Connect or Start Server.
Press(r) ==
    /\ gui = "idle"
    /\ PassTests(r, 0)
    /\ gui' = "create"
    /\ UNCHANGED <<pointers, flag, settings, at, loop, guiRole, guiAt, senders, fault,
                   exited, dropped, released>>

\* The caller makes the object, starts the worker and goes on.
Create(t) ==
    /\ worker[t] = "create"
    /\ SetPointer(role[t], t)
    /\ WorkerGoto(t, "begin")
    /\ \/ caller[t] = 0 /\ gui' = "idle" /\ UNCHANGED loop
       \/ caller[t] # 0 /\ loop' = [loop EXCEPT ![caller[t]] = "wait"] /\ UNCHANGED gui
    /\ UNCHANGED <<flag, settings, calls, at, guiRole, guiAt, senders, exited, history>>

-----------------------------------------------------------------------------
(* The worker of a try                                                     *)

\* self->client->connect(...) or self->server->start(...): the pointer is read
\* now, and need not be the object this try made.
Begin(t) ==
    /\ worker[t] = "begin"
    /\ Enter(t, "connecting")
    /\ UNCHANGED <<pointers, flag, settings, calls, loop, window, senders, exited, history>>

\* connect() or start() succeeds.  If the object has a thread already, assigning
\* another to it terminates the program.
Connected(t) ==
    /\ worker[t] = "connecting"
    /\ IF obj[at[t]] = "new"
       THEN obj' = [obj EXCEPT ![at[t]] = "up"] /\ UNCHANGED fault
       ELSE fault' = "terminate" /\ UNCHANGED obj
    /\ WorkerGoto(t, "won")
    /\ UNCHANGED <<ptr, flag, settings, calls, at, loop, window, senders, exited, history>>

\* It fails: no host, no port, time out.
ConnectFails(t) ==
    /\ worker[t] = "connecting"
    /\ WorkerGoto(t, "lost")
    /\ UNCHANGED <<pointers, flag, settings, calls, at, loop, window, senders, fault, exited,
                   history>>

\* client.reset() or server.reset() after the failure.
Discard(t) ==
    /\ worker[t] = "lost"
    /\ SetPointer(role[t], 0)
    /\ WorkerGoto(t, "done")
    /\ UNCHANGED <<flag, settings, calls, at, loop, window, senders, exited, history>>

\* client_connected or server_running is set.
SetFlag(t) ==
    /\ worker[t] = "won"
    /\ flag' = [flag EXCEPT ![role[t]] = TRUE]
    /\ WorkerGoto(t, IF role[t] = "client" THEN "request" ELSE "test")
    /\ UNCHANGED <<pointers, settings, calls, at, loop, window, senders, fault, exited,
                   history>>

\* self->client->request_client_list(), or my_id() in the polling loop, without a
\* test: the call ...
Request(t) ==
    /\ worker[t] = "request"
    /\ Enter(t, "requesting")
    /\ UNCHANGED <<pointers, flag, settings, calls, loop, window, senders, exited, history>>

\* ... and the return.
Requested(t) ==
    /\ worker[t] = "requesting"
    /\ WorkerGoto(t, "test")
    /\ UNCHANGED <<pointers, flag, settings, calls, at, loop, window, senders, fault, exited,
                   history>>

\* The condition of the polling loop of a client, or of the refreshing loop of
\* a server: what it reads before it dereferences the pointer.
PollTest(t) ==
    /\ worker[t] = "test"
    /\ LET goes_on == ptr[role[t]] # 0 /\ (role[t] = "server" => flag["server"])
       IN  WorkerGoto(t, IF goes_on THEN "deref"
                         ELSE IF role[t] = "client" THEN "ended" ELSE "done")
    /\ UNCHANGED <<pointers, flag, settings, calls, at, loop, window, senders, fault, exited,
                   history>>

\* refresh_server_clients looks at the pointer once more, and finds it null.
RefreshSkips(t) ==
    /\ worker[t] = "deref"
    /\ role[t] = "server" /\ ptr["server"] = 0
    /\ WorkerGoto(t, "test")
    /\ UNCHANGED <<pointers, flag, settings, calls, at, loop, window, senders, fault, exited,
                   history>>

\* is_connected() of the client, or get_clients_snapshot() of the server: the
\* call ...
PollDeref(t) ==
    /\ worker[t] = "deref"
    /\ Enter(t, "polling")
    /\ UNCHANGED <<pointers, flag, settings, calls, loop, window, senders, exited, history>>

\* ... and the return: the loop of a client ends with the session, or asks for
\* the id as long as it is not known; then the sleep until the next round.
Polled_Endless(t) ==
    /\ worker[t] = "polling"
    /\ \/ WorkerGoto(t, "test")
       \/ role[t] = "client" /\ WorkerGoto(t, "request")
    /\ UNCHANGED <<pointers, flag, settings, calls, at, loop, window, senders, fault, exited,
                   history>>
Polled(t) ==
    /\ worker[t] = "polling"
    /\ IF role[t] = "client" /\ obj[at[t]] # "up"
       THEN WorkerGoto(t, "ended")
       ELSE \/ WorkerGoto(t, "test")
            \/ role[t] = "client" /\ WorkerGoto(t, "request")
    /\ UNCHANGED <<pointers, flag, settings, calls, at, loop, window, senders, fault, exited,
                   history>>

\* The session has ended: clear the flag.  The pointer is left alone.
ClearFlag_Forgets(t) ==
    /\ worker[t] = "ended"
    /\ WorkerGoto(t, "after")
    /\ UNCHANGED <<flag, pointers, settings, calls, at, loop, window, senders, fault, exited,
                   history>>
ClearFlag(t) ==
    /\ worker[t] = "ended"
    /\ flag' = [flag EXCEPT !["client"] = FALSE]
    /\ WorkerGoto(t, "after")
    /\ UNCHANGED <<pointers, settings, calls, at, loop, window, senders, fault, exited,
                   history>>

\* Auto-reconnect on, no server, no reconnect loop yet?
RetryTest(t) ==
    /\ worker[t] = "after"
    /\ WorkerGoto(t, IF cs_auto_reconnect /\ ~flag["server"] /\ ~reconnect_running
                     THEN "spawn" ELSE "done")
    /\ UNCHANGED <<pointers, flag, settings, calls, at, loop, window, senders, fault, exited,
                   history>>

\* start_reconnect_loop after its test.
SpawnLoop(t) ==
    /\ worker[t] = "spawn"
    /\ reconnect_running' = TRUE
    /\ loop' = [loop EXCEPT ![t] = "test"]
    /\ WorkerGoto(t, "done")
    /\ UNCHANGED <<pointers, flag, cs_auto_reconnect, calls, at, window, senders, fault, exited,
                   history>>

Worker(t) ==
    \/ Begin(t) \/ Connected(t) \/ ConnectFails(t) \/ Discard(t) \/ SetFlag(t)
    \/ Request(t) \/ Requested(t) \/ PollTest(t) \/ PollDeref(t)
    \/ RefreshSkips(t) \/ Polled(t) \/ ClearFlag(t) \/ RetryTest(t) \/ SpawnLoop(t)

-----------------------------------------------------------------------------
(* The reconnect loop                                                      *)

LoopGoto(l, pc) == loop' = [loop EXCEPT ![l] = pc]

LoopTest(l) ==
    /\ loop[l] = "test"
    /\ LoopGoto(l, IF reconnect_running /\ ~flag["client"] THEN "sleep" ELSE "done")
    /\ UNCHANGED <<pointers, flag, settings, calls, worker, at, window, senders, fault, exited,
                   history>>

\* Five seconds later: cancelled meanwhile, or do_connect() refuses.
LoopWakes(l) ==
    /\ loop[l] = "sleep"
    /\ \/ ~reconnect_running /\ LoopGoto(l, "done")
       \/ reconnect_running /\ ~MayStart("client") /\ LoopGoto(l, "wait")
    /\ UNCHANGED <<pointers, flag, settings, calls, worker, at, window, senders, fault, exited,
                   history>>

\* Five seconds later: do_connect() passes its tests.
LoopConnects(l) ==
    /\ loop[l] = "sleep"
    /\ reconnect_running
    /\ PassTests("client", l)
    /\ LoopGoto(l, "create")
    /\ UNCHANGED <<pointers, flag, settings, at, window, senders, fault, exited, dropped,
                   released>>

\* Up to six seconds for the connection: it is there, or the wait runs out.
LoopWaited(l) ==
    /\ loop[l] = "wait"
    /\ \/ /\ flag["client"]
          /\ reconnect_running' = FALSE
          /\ LoopGoto(l, "done")
       \/ /\ ~flag["client"]
          /\ LoopGoto(l, "test")
          /\ UNCHANGED reconnect_running
    /\ UNCHANGED <<pointers, flag, cs_auto_reconnect, calls, worker, at, window, senders, fault,
                   exited, history>>

Loop(l) == LoopTest(l) \/ LoopWakes(l) \/ LoopConnects(l) \/ LoopWaited(l)

-----------------------------------------------------------------------------
(* The GUI thread: do_disconnect, do_stop_server, calls, files, exit       *)

\* do_disconnect or do_stop_server, pressed while the flag is seen set: the
\* early return, or the clearing of the flag.
Release_KeepsFlag(r) ==
    /\ gui = "idle"
    /\ flag[r]
    /\ reconnect_running' = (r # "client" /\ reconnect_running)
    /\ gui' = IF ptr[r] = 0 THEN gui ELSE "hangup"
    /\ guiRole' = r
    /\ released' = (released \/ ptr[r] # 0)
    /\ UNCHANGED <<pointers, flag, cs_auto_reconnect, calls, worker, at, loop, guiAt, senders,
                   fault, exited, overlapped, dropped>>
Release(r) ==
    /\ gui = "idle"
    /\ flag[r]
    /\ reconnect_running' = (r # "client" /\ reconnect_running)
    /\ IF ptr[r] = 0
       THEN UNCHANGED <<flag, gui, guiRole, released>>
       ELSE /\ flag' = [flag EXCEPT ![r] = FALSE]
            /\ gui' = "hangup" /\ guiRole' = r
            /\ released' = TRUE
    /\ UNCHANGED <<pointers, cs_auto_reconnect, calls, worker, at, loop, guiAt, senders, fault,
                   exited, overlapped, dropped>>

\* The GUI thread calls a member function through the pointer as it is now.
GuiEnter(pc) ==
    /\ guiAt' = ptr[guiRole]
    /\ IF ptr[guiRole] = 0
       THEN fault' = "null" /\ UNCHANGED gui
       ELSE gui' = pc /\ UNCHANGED fault
    /\ UNCHANGED guiRole

\* It returns from one.
GuiReturns(from, pc) ==
    /\ gui = from /\ gui' = pc
    /\ UNCHANGED <<pointers, flag, settings, calls, worker, at, loop, guiRole, guiAt, senders,
                   fault, exited, history>>

\* client->disconnect() or server->stop(): a session that is up is closed and
\* its thread joined.  disconnect() returns at once if it has ended by itself.
HangUp_KeepsThread ==
    /\ gui = "hangup"
    /\ GuiEnter("hanging")
    /\ obj' = [o \in Tries |-> IF o = ptr[guiRole] /\ obj[o] = "up" THEN "down" ELSE obj[o]]
    /\ UNCHANGED <<ptr, flag, settings, calls, worker, at, loop, senders, exited, history>>
HangUp ==
    /\ gui = "hangup"
    /\ GuiEnter("hanging")
    /\ obj' = [o \in Tries |-> IF o = ptr[guiRole] /\ obj[o] = "up" THEN "new" ELSE obj[o]]
    /\ UNCHANGED <<ptr, flag, settings, calls, worker, at, loop, senders, exited, history>>
HungUp == GuiReturns("hanging", "release")

\* client.reset() or server.reset().
Reset ==
    /\ gui = "release"
    /\ SetPointer(guiRole, 0)
    /\ gui' = "idle"
    /\ UNCHANGED <<flag, settings, calls, worker, at, loop, guiRole, guiAt, senders, exited,
                   history>>

\* send_chat, request_list, change_nick, kick_client (which looks at the pointer
\* only): the test ...
CallTest(r) ==
    /\ gui = "idle"
    /\ ptr[r] # 0 /\ (r = "client" => flag[r])
    /\ gui' = "call"
    /\ guiRole' = r
    /\ UNCHANGED <<pointers, flag, settings, calls, worker, at, loop, guiAt, senders, fault,
                   exited, history>>

\* ... the call ...
Call ==
    /\ gui = "call"
    /\ GuiEnter("calling")
    /\ UNCHANGED <<pointers, flag, settings, calls, worker, at, loop, senders, exited, history>>

\* ... and the return.
Called == GuiReturns("calling", "idle")

\* send_file_gui or server_send_file: the tests, and a detached thread.
SendFile_PointerOnly(r, s) ==
    /\ gui = "idle"
    /\ sender[s] = "none"
    /\ ptr[r] # 0
    /\ sender' = [sender EXCEPT ![s] = "begin"]
    /\ senderRole' = [senderRole EXCEPT ![s] = r]
    /\ UNCHANGED <<pointers, flag, settings, calls, worker, at, loop, window, senderAt, fault,
                   exited, history>>
SendFile(r, s) ==
    /\ gui = "idle"
    /\ sender[s] = "none"
    /\ ptr[r] # 0 /\ flag[r]
    /\ sender' = [sender EXCEPT ![s] = "begin"]
    /\ senderRole' = [senderRole EXCEPT ![s] = r]
    /\ UNCHANGED <<pointers, flag, settings, calls, worker, at, loop, window, senderAt, fault,
                   exited, history>>

\* The thread reads the pointer, and is inside the object until the transfer ends.
SenderBegins(s) ==
    /\ sender[s] = "begin"
    /\ IF ptr[senderRole[s]] = 0
       THEN fault' = "null" /\ UNCHANGED sender
       ELSE sender' = [sender EXCEPT ![s] = "sending"] /\ UNCHANGED fault
    /\ senderAt' = [senderAt EXCEPT ![s] = ptr[senderRole[s]]]
    /\ UNCHANGED <<pointers, flag, settings, calls, worker, at, loop, window, senderRole,
                   exited, history>>

SenderEnds(s) ==
    /\ sender[s] = "sending"
    /\ sender' = [sender EXCEPT ![s] = "done"]
    /\ UNCHANGED <<pointers, flag, settings, calls, worker, at, loop, window, senderRole,
                   senderAt, fault, exited, history>>

\* The user switches Connection > Client > Auto-reconnect.
ToggleAuto ==
    /\ gui = "idle"
    /\ cs_auto_reconnect' = ~cs_auto_reconnect
    /\ UNCHANGED <<pointers, flag, reconnect_running, calls, threads, fault, exited, history>>

\* ~AppState: sessions whose flags are set are closed, then both objects are
\* destroyed, with detached threads possibly inside.  What such threads do to
\* AppState itself before the process is gone is left out.
Quit ==
    /\ gui = "idle"
    /\ exited' = TRUE
    /\ reconnect_running' = FALSE
    /\ LET faults == {DestroyFault(ptr[r]) : r \in Roles} IN
       fault' = CASE "terminate" \in faults -> "terminate"
                  [] "terminate" \notin faults /\ "dangling" \in faults -> "dangling"
                  [] OTHER -> "none"
    /\ UNCHANGED <<pointers, flag, cs_auto_reconnect, calls, threads, history>>

\* The server at the other end closes, kicks or vanishes: recv_loop ends by itself.
SessionDrops(o) ==
    /\ role[o] = "client"
    /\ obj[o] = "up"
    /\ obj' = [obj EXCEPT ![o] = "down"]
    /\ dropped' = TRUE
    /\ UNCHANGED <<ptr, flag, settings, calls, threads, fault, exited, overlapped, released>>

Gui ==
    \/ \E r \in Roles : Press(r) \/ Release(r) \/ CallTest(r)
    \/ \E r \in Roles, s \in Sends : SendFile(r, s)
    \/ HangUp \/ HungUp \/ Reset \/ Call \/ Called \/ ToggleAuto \/ Quit

Step ==
    \/ Gui
    \/ \E t \in Tries : Create(t) \/ Worker(t) \/ Loop(t) \/ SessionDrops(t)
    \/ \E s \in Sends : SenderBegins(s) \/ SenderEnds(s)

Running == fault = "none" /\ ~exited
Next == Running /\ Step

Spec == Init /\ [][Next]_vars

\* The operating system runs every ready thread; a connection attempt ends, by
\* its time out if not before.
FairSpec == Spec /\ \A t \in Tries : WF_vars(Running /\ Worker(t))

-----------------------------------------------------------------------------
(* Properties                                                              *)

\* Every field and every thread keeps its type, and every call that passes its
\* tests makes an object and a thread of its own.  (app.hpp:119-134)
TypeOK ==
    /\ ptr \in [Roles -> 0 .. MaxTries]
    /\ flag \in [Roles -> BOOLEAN]
    /\ reconnect_running \in BOOLEAN
    /\ cs_auto_reconnect \in BOOLEAN
    /\ tries \in 0 .. MaxTries
    /\ role \in [Tries -> Roles]
    /\ obj \in [Tries -> {"none", "new", "up", "down", "gone"}]
    /\ caller \in [Tries -> 0 .. MaxTries]
    /\ worker \in [Tries -> WorkerPCs]
    /\ at \in [Tries -> 0 .. MaxTries]
    /\ loop \in [Tries -> {"none", "test", "sleep", "create", "wait", "done"}]
    /\ gui \in {"idle", "create", "hangup", "hanging", "release", "call", "calling"}
    /\ guiRole \in Roles
    /\ guiAt \in 0 .. MaxTries
    /\ sender \in [Sends -> {"none", "begin", "sending", "done"}]
    /\ senderRole \in [Sends -> Roles]
    /\ senderAt \in [Sends -> 0 .. MaxTries]
    /\ fault \in {"none", "null", "dangling", "terminate"}
    /\ exited \in BOOLEAN
    /\ overlapped \in BOOLEAN
    /\ dropped \in BOOLEAN
    /\ released \in BOOLEAN
    /\ \A t \in Tries : worker[t] = "none" <=> t > tries

\* The program is client or server, never both (app.cpp:9), as long as nobody
\* starts a connection or a server while an earlier attempt is under way or a
\* session is being released: the flags that exclude them are set late.
ModesExclude == flag["client"] /\ flag["server"] => overlapped

\* A set flag means what every caller takes it to mean (app.cpp:328, 384, 569):
\* the pointer holds an object whose session was opened and not closed since.
\* The same reservation applies.
FlagsTruthful ==
    \A r \in Roles : flag[r] /\ ~overlapped
        => ptr[r] # 0 /\ role[ptr[r]] = r /\ obj[ptr[r]] \in {"up", "down"}

\* While client_connected is set some worker still watches the session, however
\* attempts, drops and releases crossed: the flag cannot be left set for good.
Watched ==
    flag["client"] => \E t \in Tries : /\ role[t] = "client"
                                       /\ worker[t] \in {"request", "requesting", "test", "deref",
                                                         "polling", "ended"}

\* The program is never aborted by a joinable thread unless some session ended
\* by itself or two attempts overlapped.  And drops, reconnects and attempts that
\* fail never free an object that a worker, a file thread or a call of the client
\* is inside, in whatever order they come: that takes attempts that overlap, a
\* disconnect or stop by the user, who waits for none of these, the exit, or a
\* call of the GUI to a server that is only starting.
CrashCauses ==
    /\ fault = "terminate" => dropped \/ overlapped
    /\ fault = "dangling" => \/ overlapped \/ released \/ exited
                             \/ gui = "calling" /\ guiRole = "server"

\* A session that ends by itself is noticed: its worker clears the flag, or the
\* user or a crash was faster.  (app.cpp:295-312)
DropNoticed ==
    \A t \in Tries :
        (flag["client"] /\ ptr["client"] = t /\ obj[t] = "down")
            ~> (~flag["client"] \/ ~Running)

\* BUILD.md:69 lists auto-reconnect as complete: after a drop the loop may make
\* its next attempt, and with no other attempt under way that must not end the
\* program.  (Violated: do_connect destroys the old Client at app.cpp:233.)
RetrySurvives ==
    ~overlapped /\ (\E l \in Tries : loop[l] = "wait") => fault # "terminate"
=============================================================================
