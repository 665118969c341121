# SafeSocket in TLA+

SafeSocket (`src/`) is a C++11 TCP chat and file-transfer program: a
multi-threaded server, a command-line client, and an ImGui front end that runs
either of them. This directory holds TLA+ models of its logic, TLC
configurations that check them, and proofs checked by TLAPS. Paths below are
relative to the repository's parent: `src/src/server.cpp` is the server.

## 1. Inventory

| Component | Source | State it keeps | Operations |
|---|---|---|---|
| Server sessions | `src/src/server.cpp`, `server.hpp` | `m_running`, `m_listen_sock`, `m_next_id`, the map `m_clients` of `ClientInfo` under `m_clients_mutex`, one thread per client, an accept and a keepalive thread | `start`, `stop`, `accept_loop`, `client_loop`, `remove_client`, `kick_client`, `keepalive_loop` |
| Server messages | `src/src/server.cpp` | nickname, authenticated flag of each client; counters | `handle_packet`, `broadcast_text`, `send_text`, `send_client_list`, `distribute_packet` (never called) |
| Framing | `src/src/network.cpp`, `protocol.hpp` | none but the byte streams | `net_send_packet`, `net_recv_packet`, `net_connect`, `net_listen` |
| Client | `src/src/client.cpp`, `client.hpp` | `m_connected`, `m_running`, `m_my_id`, `m_peers` under `m_peers_mutex`, a receive thread | `connect`, `disconnect`, `recv_loop`, `handle_packet`, `parse_client_list` |
| File transfer | `server.cpp` 537-762, `client.cpp` 451-663 | open files, one conversation on a shared socket | `handle_file_transfer`, `send_file_to_client`, `handle_incoming_file`, `do_send_file` |
| Ciphers | `src/src/crypto.cpp` | RC4 permutation | `xor_crypt`, `vigenere_*`, `rc4_crypt`, `crypto_encrypt/decrypt` |
| Configuration | `src/src/config.cpp`, `main.cpp` | `g_config`, a text file | `set`, `get`, `load`, `save`, command-line overrides |
| GUI application state | `src/gui/src/app.cpp` | `server_running`, `client_connected`, message and log buffers, worker threads | `do_connect`, `do_disconnect`, `start_reconnect_loop`, `do_start_server`, `do_stop_server`, `send_file_gui` |
| GUI app lock | `src/gui/src/security.cpp`, the gate and the menu in `main_gui.cpp` | `SecurityState`, the file `local.enc` | setup wizard, login screen, lock, change of password, export, reset |
| GUI copies of the core | `src/gui/src/{server,client,network,crypto,config}.cpp` | as above, plus callbacks | as above |
| GUI windows, ImGui | `src/gui/src/window_*.cpp`, `src/gui/imgui` | widgets | rendering |

How they interact. A client and the server share one TCP stream, written by
several threads of each side with no lock of the stream's own. Inside the
server every thread meets at `m_clients_mutex`; the handler reads and writes
its own `ClientInfo` without it. `kick_client`, `remove_client` and `stop`
close descriptors that other threads are blocked on. The GUI starts a server or
a client on a background thread and polls flags from the render loop.

What is hard. Descriptor numbers that are closed twice and reused; a `stop`
that races `accept`; detached handlers outliving what they point to; two
threads reading or writing one stream; a whole transfer under the mutex that
every other thread needs; a peer that vanishes without a word; a check of a
flag that another thread sets only later (GUI start and connect).

For each component, what makes it correct:

- *Server sessions.* The map never exceeds `max_clients`; an id is in it exactly
  while its handler serves it; every open descriptor can still be reached and
  closed; nobody's descriptor is closed under somebody else; departures are
  announced; dead peers are removed; `stop` ends everything.
- *Server messages.* Clients see common messages in one order; a connected
  client knows every other connected client and no departed one; every packet
  is handled to its end; what is meant for a nickname reaches only somebody who has
  or had it, and every cache ends with the newest.
- *File transfer.* What a receiver reports saved is one whole file, exactly
  when the sender reports it sent; a transfer ends whatever its peer does.
- *Client.* However the connection ends, the threads are joined, the socket is
  closed, and `/quit` returns.
- *Framing.* As long as callers keep their calls apart, a packet arrives whole,
  unchanged, once and in order, however `send` and `recv` split it, and a full
  buffer and a held mutex do not stop one another.
- *GUI application state.* Server and client modes exclude each other; a set
  flag means a session; a session that drops is noticed; no object is used
  after its reset, and none destroyed that still has a thread.
- *Ciphers.* Decryption inverts encryption.
- *Configuration.* A saved configuration loads back; applying the settings
  changes only what the user changed.
- *GUI app lock.* The password shown once opens the lock; who is in can change
  it; nobody is locked out for good.

## 2. Modules

| Module | Models | Checked with | Proved in |
|---|---|---|---|
| `Registry` | what the server promises of its clients, abstractly | (refined by the next) | |
| `ServerSessions` | sessions: threads, descriptors, kick, stop | `MCServerSessions` | `ServerSessionsProofs` |
| `ServerMessages` | `handle_packet`, broadcasts, lists, the mutex | `MCServerMessages` | `ServerMessagesProofs` |
| `FileTransfer` | pushes and uploads on shared streams | `MCFileTransfer` | `FileTransferProofs` |
| `ClientSession` | the command-line client's two threads | `MCClientSession` | `ClientSessionProofs` |
| `AppState` | the GUI's client and server pointers, flags and worker threads | `MCAppState` | `AppStateProofs` |
| `PeerNames` | nicknames: renaming, lists, peer caches, the commands that go by nickname | `MCPeerNames` | `PeerNamesProofs` |
| `Ciphers` | XOR, Vigenère and RC4, as operators | (used by `Wire`) | `WireProofs` |
| `Channel` | what framing promises, abstractly | (refined by the next) | |
| `Wire` | `net_send_packet` and `net_recv_packet` on one byte stream | `MCWire` | `WireProofs` |
| `AppLock` | the lock: wizard, login, `local.enc` | (composed in the last) | |
| `Settings` | `g_config`, the settings form, `safesocket.conf` | (composed in the last) | |
| `GuiWindow` | lock and settings behind one window, and its relaunch | `MCGuiWindow` | `GuiWindowProofs` |

The modules are views of one program at different grain. `ServerSessions` treats
a section under `m_clients_mutex` as one step, because the map and the
descriptors in it are only touched under it and nothing there waits;
`ServerMessages` and `FileTransfer` open the sections up, because their
questions are about the packets written inside one and about who waits for the
mutex. `FileTransfer` has the handler and the receive thread of the other
modules, reduced to what they do to a transfer. `ClientSession` has the server
only as something that sends, closes, hangs or vanishes. `AppState` takes a
`Client` or `Server` as an object that is new, up, down or gone, which is what
`ClientSession` and `ServerSessions` say of it: a client whose session ended by
itself still has a joinable thread (`ClientSession`), a server's `stop` joins
its own (`ServerSessions`). The server modules and `ClientSession` assume
whole packets in order; `Wire` says until when they may.

### ServerSessions

| State | In the code |
|---|---|
| `m_running`, `m_listen_sock`, `m_next_id`, `m_clients` | fields of `Server`; of the map only the keys |
| `sock`, `ip`, `alive`, `freed` | fields of each `ClientInfo`, and whether it was deleted |
| `acceptPc`, `cs`, `peer_ip`; `handlerPc`, `rx`; `keepalivePc`; `operatorPc` | where each thread is, and its locals |
| `fdTable`, `conn`, `backlog`, `inbox` | the process's descriptor table, the TCP connections, what awaits `accept`, an unread packet |
| `kicked`, `announced` | history variables |

Each `Accept…`, `Handler…`, `Keepalive…`, `Kick…`, `Stop…` action is the stretch
of the function of that name between two points where another thread may get
in between. Two facts of the operating system carry most of the weight:

- *Descriptor numbers.* `close` frees a number and the next `accept` may return
  it. An entry that keeps a closed number denotes whatever the number denotes
  now; `Denotes` is that lookup.
- *`CloseWakes`.* A thread blocked in `accept` or `recv` holds the socket
  itself. `closesocket` on Windows wakes it, `close` on Linux does not. The
  code calls one or the other (`sock_close`), so both builds are checked.

`Send` to a silently vanished peer starts TCP's retransmissions, which end in
`TcpGiveUp`: this is how the keepalive pings work in the program, and why they
matter.

### ServerMessages

A handler turns a packet into a short program of *sections*. A section is a
critical section that writes one message to some clients in the order of the
map, or the erase of `remove_client`, or, outside the mutex, the assignment of a
nickname or a reply. `SectionBegin` takes the mutex and fixes recipients and
content, `SectionSend` writes to one recipient. `stream[i]` is everything written
to client `i`. The byte and message counters and the texts are left out; sends
are assumed not to block for ever.

### FileTransfer

`up` and `down` are the two directions of each session's stream, `push` the
threads that run `send_file` (the operator's, or those of
`AppState::server_send_file` in the GUI), `handlerPc` and `upfile` the session's
handler inside and outside `handle_file_transfer`, `opened` the nested
activations of `handle_incoming_file` (a second `MSG_FILE_START` inside a
transfer re-enters it through `handle_packet`), `upload` the threads in
`do_send_file`. A file is named by its sender and a number, so a chunk of the
wrong file is visible although the protocol itself does not name files. The
mutex is held by a push from beginning to end. Nothing says whose an answer is:
pusher and handler both have an action that takes the next packet of the same
stream, and likewise uploader and receive thread.

### ClientSession

`mainPc` and `recvPc` step through `connect`, `run_cli`, `disconnect`, `~Client`
and `recv_loop`, with every access to `m_connected`, `m_running` and `m_sock`
separate, as those are read and written without a lock. `m_sock` is "stale"
between `sock_close` and the assignment after it. Destroying a joinable
`std::thread` is `std::terminate`, the state "terminated".

### PeerNames

`nickname` is `ci->nickname`, `m_nickname` and `peers` are the clients' own name and
the cache of `parse_client_list`, `up` and `down` the packets on the way. `scan` is the
walk of whoever holds the mutex through the map, in `send_client_list` or
`find_client_by_nick`: entries are read one at a time, because nicknames are assigned
by handlers that do not hold it. `order` is the operator's command and the id it
found, on which `send_text` or `kick_client` acts in a later section. `reached` and `bore` are
histories: what was meant for whom, by whose entry it went and who got it; and which
nicknames each session has had.

The server writes to, reads from and closes `ci->sock`, a number. `sock` is that number and
`fdTable` the connection under it, as in `ServerSessions`: `kick_client` closes the
number and leaves it in the entry, so a newcomer may be accepted under it while the
entry is in the map. From then on what is sent to the kicked id goes to the newcomer
(`MSG_PRIVATE`, `send_text`, the lists, a second kick), the kicked client's handler may
read the newcomer's packets as its own client's, and `remove_client`, or the second kick,
closes the newcomer's socket. `crossed` is who was accepted like that; the properties are about
the others, the *clean* ones, and say of the crossed only that they, and nobody else, may
get what was meant for a kicked client. A handler takes a packet whole: that two readers of one
socket can also tear one apart would change only what a client that is not clean sees.

A list is delivered in one step when the section ends (`ServerMessages` has one step
per packet). Texts, error answers, access keys and `m_my_id`, which is only displayed,
are left out, as are `stop()` and the limit of clients, which is not reached;
`MSG_DISCONNECT` is the end of the stream; a program that reads
`MSG_KICK` ends; ids are found by a client in its cache or by the operator in the map, so
`/msg <id>` is not there.

### AppState

`ptr` and `flag` are `AppState::client`, `::server` and the two atomic flags.
A *try* is a call of `do_connect` or `do_start_server` that passed its tests; it
makes one object and one detached worker. The two functions do the same steps
and share their actions, with the role as a parameter: `Press`, `Create` on the
caller's thread; `Begin`, `Connected` or `ConnectFails`, `Discard` or `SetFlag`,
then `Request`, the loop of `PollTest` and `PollDeref`, `ClearFlag`, `RetryTest` and
`SpawnLoop` on the worker. A worker reads the pointer, not the object its try
made, and nothing but the flags is atomic, so every use of a pointer is three
steps: the test; the dereference, which enters the object the pointer holds then
(`Enter`, `GuiEnter`: `at`, `guiAt`, `senderAt`); and the return from the call
(`Requested`, `Polled`, `HungUp`, `Called`, `SenderEnds`). In between the other threads go on,
and `InUse` counts whoever is inside. `Loop…` is `start_reconnect_loop`; `Release`,
`HangUp`, `HungUp`, `Reset` are `do_disconnect` and `do_stop_server`; `CallTest`, `Call`,
`Called` stand for the calls of the windows, `SendFile`, `SenderBegins`, `SenderEnds`
for the file threads, `Quit` for `~AppState` and the destruction of both objects.
`fault` is what ends the program: a null pointer read, an object freed while a
thread is inside it, a joinable thread destroyed. `overlapped`, `dropped` and
`released` are histories. The screen shown, the status line and the lists copied
for display are left out; without the screen the model lets the GUI thread call a
server that is only starting, whose failure then frees it under the call: the last
of the causes in `CrashCauses`.

### Ciphers, Channel and Wire

`crypto_encrypt` and `crypto_decrypt` are operators over sequences of bytes
`0..N-1`, with the two loops of RC4 as recursive functions over the turns that remain. In `Wire`
a header is two units, the magic and the rest, and a payload byte is one;
`Write` and `Read` move any number of units that fit, as one `send` or `recv`
does. `Begin` is the call of `net_send_packet`, where a writer in `Locked` holds
a mutex of its caller for the whole packet and another does not. `CheckHeader` is
the comparison with the magic, `Deliver` the decryption and return. Nothing is
assumed of the callers: `mixed` is a history of whether two calls have overlapped
that no mutex keeps apart (a writer began while another was writing and not both lock,
or a reader read while another was within a packet), and the properties promise
something until then. `Channel` has a queue of whole packets and a close, and `Break`,
after which anything may become of the packets; `Wire` implements it for every mix of
callers.

### AppLock, Settings and GuiWindow

`AppLock` has `local.enc` as nothing, a bad file, or the credentials it was
written from (it is encrypted with its own password, so a name and password
either fit it or do not), and `SecurityState` with the wizard's fields and flags.
A write may be cut short, a `remove` may fail. `WizardShown`, `LoginShown` and
`MenusShown` are the gate of `draw_host_window`. `mishaps` is a history of what
went wrong and still matters.

`Settings` has two of the settings: a text, `download_dir`, and a number,
`max_file_size`, in three places: `g_config`, the widgets, the file. Conversions
are what they are in C++: `stoi` with its default, `int` and `size_t` wrap, megabytes
are truncated, `load` takes off spaces and comments, and `strncpy` cuts a text to the
buffer of the form (`Cut`, any function that leaves alone what it has cut). `saved` and `touched` are
histories. `GuiWindow` composes the two: the menus and settings only behind the
gate, a reconnect that applies the settings whether the screen is locked or
not, and a relaunch of both.

## 3. Runs

| Run | Instance | What it shows |
|---|---|---|
| `server_sessions` | 2 connections, 2 descriptors, 1 slot, Linux build, all packets, keepalive, kicks, stop | Capacity, agreement of map and threads, reachable descriptors, own sockets until the first kick, announced departures; and that `ServerSessions` implements `Registry` |
| `server_liveness` | 2 connections, 1 descriptor, 1 slot, Windows build, keepalive | closed and vanished peers are removed, `stop` returns, handlers end |
| `messages_order` | 2 clients with their connect and one further packet each, 1 operator command | one order of messages, no unknown peer |
| `messages_liveness` | 2 clients, all kinds of packet, keys required | every packet is handled to its end |
| `files_pushed` | 2 pushers, 2 clients, 2 chunks, 2 rounds of pings | saved files are whole, and are exactly those reported sent |
| `files_leave` | a push, two uploads and a chat message of 1 client | a dead client releases the push; everybody leaves, the mutex is free |
| `files_push_hangs` (violation) | 1 client, 1 push, nothing else | the handler eats the answer, the push waits with the mutex held |
| `names` | 2 clients, 2 nicknames, 2 descriptors, 2 commands, typed or of the operator | once traffic settles, every peer cache has the one name a client gave itself; what is meant for a nickname is sent to a client that has or had it, with lookups of the operator, kicks, second kicks, messages to kicked ids, and newcomers under a kicked client's number |
| `client` | 3 packets, 2 typed lines, every deed of the server, Linux build | clean end, closes noticed, `/quit` returns |
| `app_roles` | 2 tries, 1 file thread | roles exclude each other and flags mean sessions while no attempts overlap; a set flag is always watched; each crash has its cause; a drop is noticed |
| `wire` | 2 writers that lock, 1 that does not, 1 reader, a buffer of 2 units, 2 packets, every cipher, 4 byte values | until two calls overlap that no mutex keeps apart, packets arrive intact, and all do; `Wire` implements `Channel` |
| `gui_window` | 1 user, 1 chosen and 1 generated password, 3 texts, ints to 7, sizes to 255, megabytes of 2 bytes | the password shown works, who is in can change it, lock-outs have three causes; a whole file is loaded as it was saved, applying settings keeps the untouched ones |

Bounds and why they are enough. Every race in the session code is between the
acceptor, one or two handlers, and the operator: two connections over one slot
give rejection at capacity, and two connections over two descriptors the reuse
of a number; a third adds permutations (and the theorems of section 5 cover every
number of each). `MaxId` bounds the ids handed out, `inbox` holds one unread
packet per connection. In `ServerMessages` an order can only be violated by two
messages to two common recipients: two clients and the operator give three
senders. In `FileTransfer` two chunks tell a missing, duplicated or foreign
chunk from a whole file, `MaxPushes`, `MaxPings` and `MaxChats` bound the traffic.
In `ClientSession`, `MaxPackets` = 3 puts a ping, a kick and a text in front of
a close. In `PeerNames` two
clients with one command each are enough for a lookup, a rename or departure, and a newcomer
in between, two commands of one for two renames whose lists overlap, two of the operator for
a kick and what is done to the kicked id afterwards, one of each for a rename behind the
operator's lookup; two descriptors let a number be reused or not. In `AppState` two tries give an overlap, a drop with the reconnect behind
it, and one role after the other; without file threads three tries were
checked too, with the same result (seven million states). In `Wire` two packets and
three writers, of which two lock, give a packet alone, two in turn, and two that overlap; payloads of
0 and 3 bytes over a buffer of 2 units split headers and payloads and fill it, and the key is
shorter than the longer one. Two readers with one writer, and keys that are absent or of one byte, over a
buffer of 3 units were checked for `Intact` too (`Writers = {w1}`, `Locked = {}`, `Readers = {r1, r2}`). In `GuiWindow` ints of
three bits and sizes of eight let every conversion overflow, `Numbers` has a
negative, the largest, which is odd, and one too large, the texts are the default, one with a comment and one
that is cut; a second user
adds nothing that is only compared, and more than the time allows. The theorems of section 5
take the bounds away. Symmetry is used in safety runs only, over values that are only
compared. Deadlock is not checked: each of these programs may stop (after `stop`,
after `/quit`, when no traffic is left, after a fault), and what must not stop early is
stated as a liveness property. In `gui_window` it is checked: the program can
always be used or started again.

Fairness. Each thread is weakly fair: it is scheduled when it can run. The start
of a push, chat, kicks, the operator's `stop`, the user's typing, and a peer's
closing or dying are not fair. TCP's giving up on a silent peer is. A server
that is up reads what it is sent (`ServerReacts`). In `ServerMessages` threads
are strongly fair on their sections: the mutex is free again and again, and the
property would otherwise be refuted by a scheduler that never gives it to one
waiting thread. `FileTransfer` needs no such assumption. In `AppState` the workers
are fair (a connection attempt ends, by its time-out if not before), the user and
the network are not. In `Wire` each thread's blocked call returns when it can;
that a thread begins a packet and that somebody closes are not fair.

## 4. Where code and comments disagree

The violation run is a finding in `PROJECT.json`, with the lines quoted. The
following further properties are defined in the modules, at their end, and are
refuted too. No run is kept for them; to see one, put it in the named
configuration in place of its properties.

| Property | Configuration | What happens |
|---|---|---|
| `OwnsSocketForLifetime` | `ServerSafety` with `MaxClients = 2`, `Keepalive = FALSE`, `Packet = {}` | a kicked client's descriptor is closed a second time by its handler, when its number may be another's (`server.cpp:946`); "Each instance owns the client's socket and receive thread for its lifetime" (`server.hpp:44`) |
| `FreedAfterHandler` | the same | handlers are detached (`server.cpp:290`), so `stop` deletes a `ClientInfo` (`:239`) that its handler still reads; the comment says it joins them (`:207`) |
| `StopReleasesSockets` | the same | a connection accepted while `stop` closes the clients is registered afterwards and never closed (`server.cpp:268`) |
| `KickedHandlerExits` | the same with `FairSpec`, without `SYMMETRY` | on Linux the kicked handler stays in `recv` until the peer closes; the comment says it "will subsequently detect the closed socket" (`server.cpp:928`) |
| `StopTerminates` | `ServerLiveness` with `CloseWakes = FALSE` | on Linux closing the listening socket does not "unblock the accept thread" (`server.cpp:205`): `stop` waits for one more connection |
| `NoGhostPeer` | `MessagesOrder` with `MaxPackets = 0`, `Kind = {}`, `MaxOperator = 0` | "left the server" is sent before `remove_client` (`server.cpp:350`), so a list made in between names the departed; the comment: "Notify remaining clients that this peer has left" (`:348`) |
| `SenderSeesOwnText` | `MessagesOrder` with `Kind = {"TEXT"}` | the relay skips the sender, the comment says it does not (`server.cpp:433`) |
| `NicknamesReadAlone` | `MessagesOrder` | `ci->nickname` is assigned without the mutex under which others read it (`server.cpp:393`, `:483`; `server.hpp:92`) |
| `UploadIsStored` | `FilesPushed` with `NumClients = 1`, `Pusher = {p}`, `Uploader <- OneUpload`, `Chunks = 1`, `MaxPushes = 0`, `MaxPings = 1` | an upload that the client reports sent (`client.cpp:660`) is stored nowhere: `handle_file_transfer` is entered by a first `MSG_FILE_START` and waits for a second one (`server.cpp:546`) |
| `RefusedNotSent` | `FilesPushed` with `Refusing = {2}` | a `MSG_PONG` in front of `MSG_FILE_REJECT` is taken for acceptance (`server.cpp:684`; comment at `:635`) |
| `ReportedIsSaved` | `FilesPushed` with `Unwritable = {2}` | a client accepts before it opens the file (`client.cpp:491`), and cannot take it back |
| `SavedIntact` | `FilesPushed` with `Uploader <- OneUpload` | the uploading thread takes a chunk of an incoming file for its answer (`client.cpp:624`) |
| `DestructorJoins` | `Client` with `Spec`, `ServerMay = {"close"}`, `MaxPackets = 0`, `MaxLines = 0` | after a close by the server `disconnect` returns early (`client.cpp:233`) and `~Client` destroys a joinable thread; it is said to join it (`:112`) |
| `KicksBearer` | `Names` without `SYMMETRY` | "Kick a client by nickname" (`server.cpp:1111`) kicks a client that took another nickname between `find_client_by_nick` and `kick_client` (`server.cpp:1250`) |
| `RetrySurvives` | `AppRoles` with `Spec`, `MaxSends = 0` | after a drop the poll thread leaves `AppState::client` in place (`app.cpp:302`), and the reconnect loop's `do_connect` assigns a new one over it (`:233`): destroying the old one, whose thread was never joined, aborts the program, where "Auto-reconnect" is listed as complete (`src/gui/BUILD.md:69`) |
| `IntactAnyway` | `Wire` with `Spec`, also with `Writers = {w1}`, `Readers = {r1, r2}` | two writers that no mutex keeps apart put their packets into one another; two readers share out one packet; while `protocol.hpp:84` wants the header sent "as a complete atomic unit" |

The last row is what the program is exposed to: the server's replies to the sender
(`server.cpp:316`, `:322`, `:403`, `:468`, `:492`, `:575`, `:614`, `:669`, `:694`, `:711`) and the client's
main, upload and receive threads write without a mutex, and an upload and the
receive loop read one socket. `IntactAnyway` is `Intact` without
its escape; what `Wire` shows and `WireProofs` proves is that nothing else than such an overlap
breaks a packet. The receiver sees it as a bad magic number and ends the session
(the `ELSE` of `CheckHeader`, which is reached only after an overlap), or not at
all.

`files_pushed` therefore assumes what its properties need: no uploads at the same
time, and clients that accept files and can write them. Without any of these
the properties fail, as the table says. (A ping's answer taken for an acceptance
does no harm when the client does accept.) `files_leave` has two uploads because
the server enters `handle_file_transfer` only on a second `MSG_FILE_START`.

`AppState` shows more than that, each visible in a few steps of
the module:

- `do_connect` and `do_start_server` test flags that a worker sets much later
  (`app.cpp:206`, `:210`; set at `:277`, `:545`), so client and server, or two clients, can be started together although
  they are "mutually exclusive" (`app.cpp:9`). `ModesExclude` therefore speaks of
  attempts that do not overlap, and `CrashCauses` names the overlap as a cause.
- `do_disconnect` and `do_stop_server` reset a pointer (`app.cpp:334`, `:574`) while a worker may
  be inside `request_client_list`, `is_connected` or `get_clients_snapshot` of the
  object (`:291`, `:294`, `:591`), or a file thread inside a transfer, and nobody
  waits for either; `~AppState` the same. `CrashCauses` therefore names a release and the exit;
  what it does promise is that drops, reconnects and failed attempts alone free nothing in use.
- `do_disconnect` ends the reconnecting (`app.cpp:328`), and a worker that has just
  seen a drop starts it again (`:315`): a disconnect need not be the end of it.
- A worker of an earlier try that sleeps while its object is replaced goes on
  with the new one: two pollers and two reconnect loops, or two refreshing threads
  after a stop and a start within a second. Its reading of a null pointer in between
  ends its loop instead, and it may clear the flag of the session that follows (`:302`).
- After a drop, closing the window aborts as well (`~AppState` destroys the
  client, whose thread is joinable).

`AppLock` and `Settings`, likewise:

- "Enable App Lock" in the menu asks for no `local.enc` (`main_gui.cpp:902`): without one nobody
  passes the login screen until the program is restarted (`LockOutCauses`).
- `sec_write_file` does not look at what `fwrite` returns, and exporting `local.enc` onto
  itself empties it before it is read: both lock the user out for good. Reset
  does not look at `remove`; its failure brings the lock back at the next start.
- After a reset, "Run Setup Wizard" shows nothing in a process that has been
  through the wizard, as `wiz_password_shown` stays set. Disabling the lock lasts until
  the next start.
- `max_file_size = -1` becomes the largest `size_t`, is saved as such, and loads as 0, which
  is "unlimited"; a limit under a megabyte becomes 0 once the form is applied;
  sizes over `INT_MAX` load as 0. A text with a space and a hash loses its tail.
- `/set` in the GUI changes `g_config` only (`README.md:252`), and the next connect,
  reconnect or apply undoes it, as `touched` says.
- A `download_dir` of 512 characters or more is cut when the form is filled
  (`app.cpp:178`), and the next apply, connect or reconnect puts the cut one into
  the configuration: another folder, which nobody chose. `ApplyKeepsUntouched` excepts it (`Shows`).
- `Config::save` returns true when a write failed; its comment promises a file that was
  "created and written successfully".

Seen in the code and not modelled: `handle_file_transfer` never looks at the
target id, so a file "routed through the server" (`client.cpp:558`) stays there;
a partly received file is closed but not removed.

## 5. Theorems

All are checked by TLAPS, for every value of the constants that satisfies the
named assumptions (`ServerAssumption`, `MessagesAssumption`, `ClientAssumption`,
`TransferAssumption`, `NamesAssumption`, `AppAssumption`, `CipherAssumption`, `WireAssumption`, `LockAssumption`,
`SettingsAssumption`). They give types, tell the special values from the others, and
say two things more: that an exclusive or of bytes is a byte and undoes itself, and that a
`size_t` has room for an `int` of megabytes.

`ServerSessionsProofs`:

- `TypeCorrect`: `Spec => []TypeOK`.
- `CapacityHolds`, `ServedHolds`, `ReachableHolds`, `OwnSocketsHold`,
  `DeparturesHold`: the safety properties of the run `server_sessions`.
- `Refinement`: `Spec => R!Spec`, the sessions implement `Registry`.

They rest on one inductive invariant, `IInv`. The properties alone are not
inductive: that an id is in the map exactly while served needs the ids to be
handed out in order (`IdsInOrder`: the next id has no thread yet); that a
descriptor stays reachable while it travels from `accept` to the map needs
`AcceptorPhase` (the acceptor holds a descriptor exactly while registering, and
has ended once joined); that departures are announced needs `ByeBeforeRemove`;
and that clients own their descriptors needs them to be pairwise distinct and
distinct from the one being registered (`OwnSockets`). The proof has one lemma
for each part, and under it one step per action that can disturb it; the
refinement maps `AcceptRegister` to `Admit`, `HandlerRemove` to `Leave`,
`StopFree` to `Shutdown` and every other step to a stutter, where
`AcceptorPhase` shows that nothing is admitted after the shutdown.

`ClientSessionProofs`:

- `TypeCorrect`: `Spec => []TypeOK`.
- `EndsCleanHolds`: `Spec => []EndsClean`. The receive thread is joinable from
  `connect` until it is joined, which only `disconnect` does, after it reset the
  socket and the flag; the invariant says so for each stage of `disconnect`.

`ServerMessagesProofs`:

- `TypeCorrect`: `Spec => []TypeOK`.
- `OrderKept`: `Spec => []SameOrder`, for any number of clients and packets. When
  a packet is written to its next recipient, it may only come behind packets that no
  other recipient of it has after it. That is `LastWord`: behind a packet that is still
  owed to somebody there are only answers, which a single client gets, because
  whoever owes one holds the mutex (`Sending`). It needs `Unsent`, that a section not
  yet begun has not written its packet before, and so `Programs`, that no two
  sections of a program write the same type of packet.
- `PeersKnown`: `Spec => []NoUnknownPeer`. The invariant, `Presence`, says of every two
  connected clients that the first knows the second from its stream, or that the handler of
  the second still *owes* it the message of joining, or its own handler the list
  (`Informed`): one of the two is under way whoever registered first, because a list
  has everybody who was in the map when it was begun and the map cannot change while
  it is written (`Lists`), and who is not in it registers later and announces itself. What
  is written once stays known, as nothing behind it denies a client that is
  connected: only a program of a client that has left says goodbye or erases it (`Contents`).

`FileTransferProofs`:

- `TypeCorrect`: `Spec => []TypeOK`, uploads included.
- `SavedIntactHolds`: `Spec => []SavedIntact` under `NoUploads`, whichever clients
  refuse files, cannot write them or leave. The hypothesis is needed: an uploading thread
  takes packets that were on their way to `recv_loop` (section 4).
- `ReportedHolds`: `Spec => []ReportedIsSaved` under `NoUploads` and `AllWilling`. A
  client that refuses is counted as served when another of its packets is taken for
  the answer (`RefusedNotSent`, section 4).

The client is always some packets behind the server, and the invariant, `Follows`, says what
is between them: a succession of states (inside so many chunks of a file, or between two
files, after so many) that starts where the client is, ends where the server is, and
in which each packet under way leads from one state to the next. A packet sent makes it longer at
one end, a packet taken shortens it at the other, and a chunk of another file, a missing
or a repeated one would have no place in it. `Holder` (who pushes holds the mutex) keeps
a second push out of an open file; `NoRefusal` shows that a file the client accepted is
not given up half-way.

`AppStateProofs`:

- `TypeCorrect`, `RolesExclude`, `FlagsMeanSessions`, `AlwaysWatched`,
  `CausesOfCrashes`: the invariants of the run `app_roles`, for any number of tries and
  files. The strengthening is `Single` (one unsettled try at a time, unless attempts
  overlapped), `Own` (it keeps its pointer and its object) and `Drops` (a session that
  is down has dropped). That nothing in use is freed rests on two more, which speak of the time
  before any overlap or release: `Settled` (a worker that watches a session belongs to
  the flag and the pointer of its role) and `Held` (file threads and calls of the
  client are inside an object that was opened, and is still the pointer's).
  A try replaces a pointer only while it is unsettled; both flags are down then, so
  nobody watches, and what the pointer holds is new, or down, which ends the program by its
  joinable thread before anybody is hurt by the freeing (`DestroyCauses`).

`PeerNamesProofs`:

- `TypeCorrect`: `Spec => []TypeOK`.
- `ReachesBearerHolds`: `Spec => []ReachesBearer`. A *claim* is an id with a nickname:
  the id has been given out, and whoever has it has had the nickname. A claim once
  true stays true, as ids are never reused and histories only grow (`ClaimsKept`);
  everything under way is a claim (`Told`): entries of lists and caches, requests
  made from them, the operator's order. For that an entry must be a claim when it is
  read, which `Identities` says. That the packet arrives at the bearer is `Descriptors`: the entry of
  a clean client names its own connection and no other entry names that number, so
  only a kicked client's entry, or that of a client crossed with one, leads to somebody else.
- `RenameKnown`: `Spec => []PeersKnowRename`, of clean clients; no kick, reuse or second
  close of other clients' numbers touches their streams (`Descriptors`). `Settled` looks at one moment only; `News`, the
  invariant, says what is between that and the moment the name was typed, in three
  parts. `Intended`: the name a client gave itself is the last it has asked for and is still
  to be answered, or else the one the server has; which also takes that MSG_CONNECT comes before
  any MSG_NICK_SET, or the handshake would assign the old name again. `Walked`: who walks through
  the map has met everybody or has still to, and what it read of a *steady* name, one that no
  handler is about to assign, is the name; a handler's own name is steady while
  it holds the mutex. `Informed`: when the name is steady, the last list that a client has got, or
  has still to read, has it, and nothing else under the id. Two lists of different handlers
  may be written in any order; the later one has read what was steady then.

`WireProofs`, of `Ciphers`:

- `RoundTrip`: `crypto_decrypt` undoes `crypto_encrypt`, for each type, every buffer
  and key, 256 or any other number of byte values. For RC4 it takes that every byte
  of the key stream is one (`KeyStreamIsByte`), along both loops. They are recursive
  functions over the turns that remain; `LoopRuns` shows that such a definition has a
  value and `UpTo`, an induction over a set of numbers, that every turn leaves a state.

`WireProofs`, of `Wire`, for any writers, any of them locking, and any readers:

- `TypeCorrect`, `PacketsIntact`: `Spec => []Intact`.
- `Implements`: `Spec => ImplementsChannel`.

The invariant has a part about the callers, which always holds (`CallsInv`: a writer that
locks holds the mutex as long as it writes), and one about the wire, which holds until two
calls overlap: the packets sent are serialized, one behind the other from the places in
`starts` (`WrittenInv`), of which the last may be unfinished and is then its writer's `out`; and
at most one reader is within a packet, and stands where its `got` says (`ReadInv`). A completed payload is then the
next packet's, and `RoundTrip` says what it decrypts to.

`GuiWindowProofs`:

- `TypeCorrect`, `PasswordShownWorks`, `MenusKnowUser`, `LockOuts`, `FileKeeps`,
  `ApplyKeeps`: the properties of the run `gui_window`, for all widths of the integers,
  whatever the form's buffers cut, and any users and passwords. `LockInv` adds what the wizard's fields hold at each stage, and that a
  lock that is on has a file or a mishap; `SettingsInv` that the file is the one
  `saved` unless it was cut short, and that untouched fields of form and
  configuration agree wherever the form can show them.

The type invariants of `ClientSession`, `Wire` and `PeerNames` are left to their proofs; the
runs keep to what is harder. Every invariant and every action property of a passing run
is the statement of a theorem, or of one under the hypotheses given. Model-checked only: what must
eventually happen, for which the provers have no rules of fairness.

## 6. Not modelled

- ImGui (`src/gui/imgui`) is vendored and is most of the repository's code, 59,000 of
  74,000 lines; no property of SafeSocket lives there. Rendering (`window_*.cpp`, the
  drawing in `main_gui.cpp`) turns state into widgets; what its widgets do to the state is in
  `AppState`, `AppLock` and `Settings`.
- The GUI's copies of the core differ from `src/src` by callbacks,
  `send_nick_change` and `get_clients_snapshot` only.
- The client's `m_my_id`, which the server never reads; the byte and message counters;
  the wrap of `m_next_id` after 2^32 connections. The counters are listed as a hazard with
  the reason.
- Of the configuration: the settings that are copied at the start of a session only
  (`app.cpp:215`, `:494`). Most are copied as the two modelled are, but not all: `cs_port` and
  `sv_port` share `g_config.port`, and `cs_host` and `sv_host` `g_config.host`; and
  both starts erase the access key when its box is not ticked. Further the command line's overrides; changes of cipher while a session
  is up (`Wire` has both ends agree); parsing of text that is not a number; a
  `/loadconfig` of another path; and profiles, whose loading skips empty values.
- Of the lock: how `local.enc` is derived from its password, and user names that look like a
  line of the file.
- Name resolution, logging, formatting.

Only configuration, credentials and received files are persisted; a crash or restart
between writing and reading them is `Relaunch` of `GuiWindow`.
