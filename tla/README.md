# Models of the Computer Networks assignments

The repository is a collection of small networked programs in C and C++: each
assignment and each exam answer is a system of its own, of a few processes
that talk over Unix and TCP sockets, pipes, message queues, shared memory and
signals.  The programs have no tests; `src/README.md` states what each of them
is to do.  This directory models the systems whose processes interact, checks
the models with TLC, and proves with TLAPS every safety property that the passing runs
check and the safety part of both refinements.

## 1. Inventory

### Systems that are modelled

**Svayambhoo server with tracer** (assignment 20,
`RAW_Sockets_Assignment_20/Swyamabhoo_server_with_tracer`).  Service servers
(`service.c`) register with the super server ISS (`iss.c`) and accept their
first client themselves.  The tracer T (`tracer.c`) watches the loopback device
and reports every port it sees over a named pipe.  ISS then signals the
service, whose signal handler passes its *listening socket* to ISS; from then
on ISS accepts the clients of that service and passes the connections back.
- State: ISS's tables (`nusfd`, `pids`, `map`, `ports`, `sfd`), T's `sent`, the
  service's `sfd`, flag `f` and table of clients; the pipe, the Unix sockets in
  both directions, pending signals, the listen backlogs.
- Hard: two processes accept on one socket; a port is reported before its
  service is registered; a signal handler uses a global that is not set yet;
  ISS blocks until a signalled process answers; T may end.
- Correct if: every connection ends up in one place, every answer belongs to
  the report being handled, ISS never waits for an answer that does not come, and a client that a service holds is served.

**Nitnetd and N2** (end semester exam, `End_lab_exam/ques_1`).  Nitnetd
(`nitnetd.c`) listens on the ports of a configuration file, accepts, forks and
execs a service process (`capitalize.c`, `math.cpp`) and waits for it; a
counter per service limits the clients, and a client beyond the limit is passed
to N2 (`n2.c`).  SIGUSR1 makes Nitnetd read further lines of its configuration.
- State: the loop's index and descriptor set, two counters, the configured
  services; the queues of the sockets; the processes; N2's table.
- Hard: the signal handler changes `readset` between `select` and its use; a
  process that is ended by a signal does not give back its slot; N2 and a
  service process read the same connection.
- Correct if: a counter is exactly the number of free slots, nobody waits for
  input that cannot come except where it is named, queued clients are accepted.

**All in one server** (mid semester exam, `Mid_exam/Q1`).  AOS (`aos.c`)
accepts four services (`s1.c`..`s4.c`), then one client on each of four ports in
turn, and passes each client to its service; S4 is to be told by SIGUSR1.
- State: AOS's progress, the descriptors under way, the processes of S2 and S4.
- Hard: the signal overtakes the installation of its handler; `c==fork()`
  compares instead of assigning, so parent and child do the same work on the
  same connection.
- Correct if: accepted clients reach their service and requests are answered.

**Group chat** (assignment 10, `chat_server_group:Assignment_10`).  Six clients
in two groups and a server with three threads, over three message queues that
carry requests and copies alike.
- State: the queues; the message each server thread is copying; what each
  reader has seen.
- Hard: the only reader of requests writes into the same bounded queue.
- Correct if: every client sees what is addressed to it once and in order.

**Programs that pass turns** (assignments 1, 2 and 8).  Processes that take turns
through two semaphores (`q3`, `q4`, `q1`..`q3_p2`), or through the types of the
messages in one queue (`q2`..`q4_series_transfer`).
- Hard: who ends first and what the other one then waits for; a semaphore that is
  unlinked before the peer opens it; the last sender read after the receive.
- Correct if: nobody speaks out of turn, turns do not overlap, both sides end.

**Chat over message queues** (assignment 8, `q5_chat_server`).  The server reads
requests of any type and answers into the queue it reads from.
- State: two queues, the table `pids`, what each client has seen.
- Hard: server and client race for an answer; queues fill with unread messages.

**Everything till now** (assignment 7).  S has four children in two process groups,
one of which is stopped; D's signals make S switch groups and write to the
children's fifos from inside the handler; C1 and C2 write to S.
- Hard: nested handlers, stopped readers, SIGPIPE, signals before set-up.

**Signals and shared memory** (assignment 5, `sig_shm_*`), and the **table of ports**
of assignment 20 (`service.c:66-99`, `tracer.c:82-142`): flags, pids and an index in
shared segments, without locks, with contents left by earlier processes.  The table of
ports is never removed, since both calls of `IPC_RMID` stand behind an endless loop: it
holds what all runs of all services have entered.

**Connection oriented servers** (assignments 13 and 21): iterative, fork, fork and
exec, threads, threads on a range of ports.
- Hard: a thread gets the *address* of the descriptor; a child whose exec failed
  runs on as a second server.

**Descriptor passing** (assignments 16 and 17): a file with a shared offset
(`Handover`), a server that is handed two connections and a UDP socket (`FdPass`), the
editor that hands its reporters' pipes to a document process (`News`).
- Hard: closed descriptors that stay in the set, two processes that read one pipe,
  an array of three.

**inetd** (assignment 18) with its evaluator of expressions, and the **Hamming code**
programs (assignment 19).

**Servers that multiplex with `select`**: the chat (14) and the simple Svayambhoo
server (20), four UDP servers (15), the placement server (mid exam, question 2).
- Hard: the end of a connection is taken for a message, writes to clients that have
  gone, a circle of programs that connect to each other at start-up.

### Not modelled

`PROJECT.json` lists every component with its status.  Left out, and why:
- pipes (3), `readv`/`writev` (9), `q1_basic` (8), `q1` and `q2` of assignment 1: one
  writer and one reader, or processes that share nothing;
- single system calls: assignment 6, the rest of assignment 5, the poll programs of
  assignment 4;
- the fifo chat of assignment 4: a client reads the 2048 bytes of a delivery into a
  buffer of 1024, so nothing is defined after the first one;
- packet construction and printing (20, 22), kernel modules (11), code generated by
  `rpcgen` (19), course notes;
- the minor exam: `kill()` with swapped arguments, the exchange never happens;
- `dynamic_inetd` is a copy of `inetd`; its `notify.c` only opens a file;
- the rounds' and J's loops of the placement system: never entered (theorem `RoundsNeverStart`);
- telecaster and screen of NITW News: the news readers they serve are empty files;
- messages that an earlier session left in a queue made with `IPC_CREAT` (`MsgRing`,
  `ChatQueue`, `GroupChat`): each model starts with empty queues, as after `ipcrm`;
- SIGINT to a client of `ChatQueue` before its `signal()`: it ends the client;
- `maxfdp1` of the editor, which grows by one in every pass (`editor.c:145`): `select` looks
  at more descriptors than are set, until it exceeds the limit of a set.

## 2. Modules

| module | models | composed of |
|---|---|---|
| `Swayambhoo` | ISS, T, services, clients | |
| `Nitnetd` | Nitnetd, service processes, N2, clients | |
| `AllInOne` | AOS, S1..S4, clients | |
| `Broadcast` | what a group chat promises (abstract) | |
| `GroupChat` | server and clients of the group chat | instantiates `Broadcast` |
| `TokenRing` | what passing turns promises (abstract) | |
| `MsgRing` | relay programs over one message queue (8) | instantiates `TokenRing` |
| `ChatQueue` | chat over two message queues (8) | |
| `KillGroups` | S, its children, D, C1, C2 (7) | |
| `Alternation` | turns by semaphores (1, 2) | |
| `SigShm` | P1 and P2 of sig_shm (5) | |
| `PortDirectory` | table of ports, T's `func2`, queries (20) | |
| `Calculator` | the evaluator math.cpp (18) | |
| `Hamming` | generator and checker (19) | |
| `ConnServers` | five connection oriented servers (13, 21) | |
| `FdPass` | server, alt_server and clients (17) | |
| `Inetd` | supserver and clients (18) | |
| `Handover` | sender and receiver (16) | |
| `UdpServers` | four UDP servers (15) | |
| `SelectChat` | chat servers (14, 20) | |
| `Placement` | AT and the rounds (mid exam) | |
| `News` | editor, document, reporters (17) | |
| `MCSwayambhoo`, `MCNitnetd`, `MCAllInOne`, `MCGroupChat` | instances for TLC | extend the module |
| `MCCore` | one of `Nitnetd`, `AllInOne`, `GroupChat` in each behaviour | extends their instances |
| `MCIpc`, `MCServers`, `MCChats` | suites of the small systems | extend their modules |
| `QueueTheorems` | lemmas about sequences as queues and stacks, and about recursive functions of a number | |
| `SwayambhooProofs`, `NitnetdProofs`, `AllInOneProofs`, `GroupChatProofs` | theorems about the module | extend it and `QueueTheorems` |
| `IpcProofs`, `ServersProofs`, `ChatsProofs` | theorems about the small systems | extend the suite and `QueueTheorems` |

The small systems share nothing.  A suite starts one of them in each behaviour
(`Init` chooses; the others are in their `Idle...` state, in which no action of theirs is
enabled), so that one TLC run and one set of bounds checks them all.  Each module has
its own `Init...` and `Next...`, and `Fair...` where a liveness property needs it; the
suite's `Spec` is their sum.  `MCCore` does the same for the three larger servers with a
variable `started` that says which one runs.

Conventions.  Operators named `M_...` are wrong variants of the operator that
follows them (a dropped guard, a missing reset, an off-by-one); none is used by
a specification, they exist to show that the properties can fail.  One
action stands for the code from one blocking or shared operation to the next.
`UNCHANGED` groups are named after the process that owns the variables.

### Swayambhoo
`issPc` walks through ISS's loop: `select` (iss.c:93), accept and registration
(`IssRegister`), report (`IssReport`), `recvmsg` of the descriptor
(`IssRecvFd`), then one `IssAccept` for each ready descriptor.  `Target(p)` is
`nusfd[map[p]]`: `map` is a zeroed global, so an unregistered port stands for the
first service.  `Report` also covers the end of file that a dead T leaves in the
pipe, which ISS reads as port 0.  `SvcSigusr1` is the handler of service.c, enabled
whenever the signal is pending, whatever the service's main loop is doing, so it
passes `Stdin` (descriptor 0) when `sfd` is not set yet.  `SvcLoop` is the
service's `select` loop.  `Emit` is the loopback device as pcap shows it: SYN-ACK
and reset, acknowledgements and answers are packets from the port.  Left out:
clients that close (service.c serves a closed connection by writing to it), the
shared table of ports with T's second thread and the client's query (module
`PortDirectory`), and input on a `Stdin` that was passed.

### Nitnetd
`Select`, `Skip`, `Accept`, `Fork`, `Waitpid`, `ServeUdp` and `ScanDone` are the
loop of nitnetd.c:255-355 with its index `i` and the in/out set `readset`; `Reload`
is the SIGUSR1 handler and may happen between any two of them.  `top` stands for the
`m + 1` given to `select`, which is evaluated before `select` is entered: `Reload` may leave it
behind.  `count` is unbounded below: `semaphore_wait` does not stop at 0.  A child ends by exit,
by a failed `execv`, or by a signal (`ChildCrash`, for services in `Crashing`).
N2's loop is `N2Select`, `N2Recv`, `N2Serve`, `N2PassDone`.  Left out: what `math`
computes, and the garbage descriptor that N2's `recv_fd` makes of the end of file
after Nitnetd has ended.

### AllInOne
`k` is the service or port AOS is at.  `Processes(n)` lists what an uninitialised
`c` in `c==fork()` can lead to: both processes serve, only one exists because fork
failed, or none serves.  `left` counts the reads left to each process.  A pending
SIGUSR1 is delivered before S4 executes another instruction, hence the
guard `~(n = 4 /\ sig)` on S4's steps.

### GroupChat and Broadcast
A message is its number in the `log` of its queue; the log and `last` are what
`Broadcast` speaks about, so the refinement mapping is the identity on them.
`LocalCopies` and `GlobalCopies` are the lists of `msgsnd` calls in s.cpp, including
the list for A3 that differs from the others.  `Free` is the kernel's test against
`msg_qbytes`; `msgsnd` blocks otherwise, also when a reader of that type waits.

### MsgRing, TokenRing
`prog` says which set of programs runs.  `Send` and `Receive` are `msgsnd` and `msgrcv` with
the type that `Before` gives; `get_queue_ds` is the separate `IPC_STAT` call.  `Turn` is
the refinement mapping: the process at its prompt, or the one whose message is under way.

### ChatQueue
A message is its type and the number of a line.  `msgrcv_any` takes the head of the
server's queue, its own answers included; `is_there` registers and answers; `relay` sends
one copy at a time and blocks at `Cap`.  `NumPids` stands for the 100 entries of `pids`.
Pids are chosen so that two clients are neighbours, since an answer has type `pid + 1`.
The SIGINT handler is three steps, entered (`sigint`), its user has typed (`sigint_fgets`), the
line is sent (`sigint_msgsnd`); a client in its handler does not read.

### KillGroups
`frames` is the stack of S's handlers: SIGUSR1 and SIGUSR2 interrupt each other, and one is
never interrupted by itself.  Each `killpg`, `open` and `write` is a step.  `runs` is the set
of groups that are not stopped, `fifo` and `heard` what was written and read, `overlap`
records that a handler interrupted another one.  Left out: the counter of kill calls,
which is only printed, and the text in `buff_c1`.

### Alternation
`Open`, `Wait`, `Begin`, `Finish`, `AfterLoop` are the calls all ten programs share; `aprog`
selects the pair, `len` is the number of lines in the file, `LastPost` tells the programs
that post once more after the loop from those that do not.

### SigShm, PortDirectory
One action per access to the segment.  `InitShm` covers fresh segments and segments an
earlier pair left behind.  `enter_read`, `enter_store`, `enter_load`, `enter_add` are the
two reads and two writes of `ports[ind] = port; ind++`; T's thread reads `ind` anew for
each port it sends.  `Svcs` are the *runs* of service.c: several may have the same port (a
service that was restarted), and `svc_end` ends a run at any point, so that the table of
a later session is one in which some runs have ended.  `ports[Room]` is `ind` itself, as in
`struct shmstr`.  `t_end` ends T, whose clients then wait for ever.

### Calculator, Hamming
Pure algorithms.  Loops are recursive functions of the number of turns.  `ReduceWhile` is
the inner loop of math.cpp, at most one turn for each operator on the stack; `evaluate` is the
outer one, whose body is `Step`; the reference is the value (`Worth`) of the syntax tree that was
printed (`Shown`).  In `Hamming`, `process_string` fills the parity bits one after the other and
`correction` adds up the parities; `Pow2` is the `pow(2,n)` and `1<<n` of both programs.
`gen_main` and `check_main` are the two programs; the user flips bits between them.

### ConnServers
`kind` selects the server.  `up` is the set of processes in the accept loop, more than one
after a failed `execvp`.  `slot` holds the `nsfd` variables whose addresses the threads
get; `thread_start` reads them.  `share` is the compiler's choice whether the two blocks'
`nsfd` share a stack slot.

### FdPass, Handover, News
The position of a process in its loop, the descriptors it has, and what waits behind each.
`select` with a closed descriptor fails with EBADF and leaves the set as it is.
`ReadFile` moves the one offset both processes share.  A pipe in `News` is the sequence
of its reports, "/d" or text; both readers consume from its head.

### Inetd
As `Nitnetd` without counters and N2: `select_call` narrows `readset`, `accept_fork`,
`encrypt_udp` and `put_back` walk through it, `Sigusr1` is the handler between any two
of them.  `seen` remembers `used` at the last `select`, `top` what `m + 1` was when `select` was
called.

### UdpServers
`uprog` selects the server.  `dgrams` is the socket's buffer; a datagram to a full buffer or
an unbound port is dropped (`lostd`).  A TCP connection gets a child (`kid`).

### SelectChat
`cprog` selects the server.  `smsg` is the one `msg` the server uses for everything: at the
end of a connection `ReadFrom` leaves it as it was.  `WriteTo` blocks on a full socket; the
first write after a client has gone resets the connection, the next one is SIGPIPE.  A
client that types (`sel_type`) is in `write` until its socket has room (`sel_write`) and reads nothing
meanwhile.  `owed` is a history variable for `ChatDelivered`.

### Placement
A start-up is a sequence of `conn`, `listen` and `accept` calls with the names as they are
spelled in each file (`AT_script`, `R1_script`, ...); one action per kind of call.  The
rounds pass an uninitialised length to `accept`, which may fail.  `R3_main` is the start-up of
R3 with its `listen` and `accept` calls, which it never reaches.

## 3. Runs

| run | states | what it shows |
|---|---|---|
| `swayambhoo` | 636 000 | descriptors, signals and clients of ISS and the services are never mixed up but for the zeroed `map[]`; ISS leaves `recvmsg`; held clients are served |
| `swayambhoo_passed_to_owner` | | **violated**: a client is handed to a service it did not call |
| `core` | 320 000 | `Nitnetd`: types, meaning of the counters, who blocks whom, queued clients are accepted but for named causes; `AllInOne`: S2's two processes answer 3 or 6 requests in all, accepted clients reach their service; `GroupChat`: the server implements `Broadcast`, and below the capacity of the queues nothing stays under way |
| `nitnetd_rejected` | | **violated**: a client passed to N2 also gets a process |
| `nitnetd_below_limit` | | **violated**: a second client of S1 waits for ever although the limit is 2 |
| `all_in_one_s4` | | **violated**: S4 is ended by the signal that tells it to serve |
| `group_chat_global` | | **violated**: A3's global message does not reach B1 |
| `group_chat_local` | | **violated**: a queue full of requests stops the group for ever |
| `ipc` | 541 000 | `MsgRing` (implements `TokenRing`), `ChatQueue`, `KillGroups`, `Alternation`, `SigShm`, `PortDirectory`, `Calculator`, `Hamming` |
| `servers` | 314 000 | `ConnServers`, `FdPass`, `Inetd`, `Handover` |
| `chats` | 2.3 million | `UdpServers`, `SelectChat`, `Placement`, `News` |
| `chats_rounds` | | **violated**: a round does not receive the student AT passes to it |

The violated runs check what the repository says of its programs; `findings` in
`PROJECT.json` quotes the lines.  Of the tracer `src/README.md:118` also says that its code
is not completed.  Three of these runs fail in every order of events, which is proved:
`OneProcessAtATime` is why `nitnetd_below_limit` fails (`waitpid` follows each `fork`, so N2 gets
clients only after slots were lost to processes that ended by a signal and to failed forks),
`S4NeverAnswers` why `all_in_one_s4` does (the signal is sent before the descriptor, its handler
installed after it), and `NoRoundStarts` why `chats_rounds` does (a name is spelled in two
ways).

What the passing properties say about behaviour that differs from what the programs are
for, without a run of its own (most name the exact condition under which a fault occurs):
- `MisroutedOnlyFromFirst`: only clients of the service that registered first can
  be handed to a wrong one.
- ISS can take the very first client of a service: a SYN-ACK is a packet too.
- `LeftWaitingOnlyByTheft`: the chat server of assignment 8 takes its own answers for
  requests, which is the only way a client is left waiting (but for consecutive pids).
- `HandlersEnd`: S stays in its handlers only when one interrupted the other between its
  calls.
- `ListWrongOnlyAfterRace`: what T tells differs from what was entered only after two services
  were between reading and writing `ind` together, or after more services than the table has
  room for.  A service that was restarted is in the table twice, and no port is
  ever taken out, so T also tells the ports of services that have ended.
- `QueuedIsAccepted`, `WaitingIsServed`: a service that SIGUSR1 adds just before `select` is
  entered is not looked at until `select` returns for another one.
- `RelayEnds`: the chat server of assignment 8 stops when one client does not read, which a
  client in its SIGINT handler does not.
- `ThreadsServeLater`: a thread of assignment 13 may serve a later connection than its own,
  never an earlier one; those of assignment 21 never do.
- `BacklogIsAccepted`: after a failed `execvp` of the exec server several processes accept on the
  same port; a client is left waiting when all that have its port open sit in the `accept` of
  a port whose connection another one took.
- `BlockedOnlyAfterClose`: after its first `close` the alternative server no longer
  multiplexes, and a silent TCP client stops the UDP service.
- `BlockedOnlyOnNew`: inetd blocks only on a service its handler has just added.
- `FaultsOnlyAfterLeave`: the chats repeat nothing and do not end until the first client leaves.
- `ChatDelivered`: before that, a line fails to arrive only if the server and a client wait for
  each other in `write`.
- `ThirdStudentKills`: while R1, R2 and the students stay, nothing ends AT before its third
  student; that one can, since R3 has exited.
- `CaughtOnlyOnPassed`: the editor of NITW News keeps reading pipes it has passed on.
- `OneFlipIsRepaired`: one wrong bit is always repaired; two can make the checker write
  past the word, but not in a word of full length.

## 4. Bounds

- `Swayambhoo`: two services and one client, or one service and two clients
  (`MaxParties` 3), in any start order.  Two services are needed for misrouting, two clients
  for the competing accepts; the four invariants are proved for any number of both.  `MaxInd` (2)
  bounds the end-of-file reports of a dead T, which are unbounded in the code (its arrays
  have 255 entries).  The violated run has two services and two clients.
- `Nitnetd`: four services, two of them added by SIGUSR1, one of them UDP; two
  connections (three in `nitnetd_rejected`); limits scaled from 2 and 3 to 1 and 2, so the
  connections can use one up.  A connection is one turn of a client's loop.  The proofs
  cover any number of connections.  `nitnetd_below_limit` has the limits of the code.
- `AllInOne`: four clients and every choice of their ports, up to renaming.  `MaxAsk` is 7
  for S2 (one more than its two processes can answer), 1 for the others.
- `GroupChat`: all six clients, `MaxLines` 2, `Capacity` 3 (146 for the kernel's default),
  which two lines cannot fill up for good; the deadlock run has a capacity of 2 and three
  lines.
- `ipc`: `Cap` 2 lets the queues fill up; three clients, two of them with neighbouring pids;
  `NumPids` 4 lets the table overflow.  Two signals of D are what it takes to nest the
  handlers.  Files of up to five lines, four rounds, for the parity at the end.  `MaxLines` 2
  (a request and one line) cannot show a line skipped between two others; theorem
  `LinesComeInOrder` covers any number.  Trees of depth two over the leaves 0, 2 and 12
  (a two-digit number, a division by zero).  With numbers of at most two digits
  (`LeavesAssumption`) no value at that depth reaches 10^8, so an `int` never overflows; deeper
  expressions, whose values could, are outside the model.  Data words of one to six bits, which covers
  both sides of a power of two, with up to two flips.
  The table of ports sees three runs of services, two of them with the same port, so that
  a service can be restarted while another one runs; one client; room for two ports, so that
  the third run overruns the table (255 in the code).
- `servers`: three clients, of which two can share a stack slot and overtake each other;
  three datagrams, so that one arrives before, between and after the closes; four lines of
  configuration, two loaded at the start; three users.
- `chats`: three UDP clients for a buffer of two datagrams, two TCP clients; sockets that hold
  one message so that writes block; one client that leaves.  `MaxSaid` (8) bounds the lines of the
  chatters, each of whom counts for two: three chatters type two lines, two chatters four, which
  fill the sockets between the server and a client in both directions.  Three
  students, since AT goes round by threes; three reporters with four reports in all,
  the number that overruns the table of three.
- Symmetry is used in `nitnetd_rejected` and `swayambhoo_passed_to_owner`, which check one
  invariant each; no run of a liveness property uses it.

Deadlock checking is off: all these systems stop when no client does anything.

## 5. Fairness

Weak fairness of each process (or thread): the kernel runs a process that can
run, and delivers pending signals.  No fairness for starting a process, typing a
line (also the one a SIGINT handler waits for), connecting, ending a client, SIGINT or SIGUSR1.
There are two exceptions.  `FairRing` makes the processes of `MsgRing` type when it is their
turn: `TokenRing` promises that the turn goes round, which it does only if nobody stops
typing.  `FairPl` lets the programs of the placement system go through their start-up
once they are started; its students do as they like.  `PortDirectory`, `FdPass`, `Handover`,
`UdpServers` and `News` are checked for safety only.  `Delivered` needs weak
fairness only because the lines are bounded: with writers that never pause, a blocked
`msgsnd` relies on the kernel's wake-up order.

Several liveness properties have the form "again and again nobody is waiting".  The
requests of these models are bounded, so this says of every single one that it is
served; it is a stronger claim than needed only for programs that are never idle.

## 6. Proofs

Each theorem holds for every value of the constants that its assumption admits, the
bounds of section 4 included: any number of clients, services, lines and signals, queues
of any length.

| module | theorem | states |
|---|---|---|
| `SwayambhooProofs` | `ReportHasOneAnswer` | `OneAnswerPerReport` |
| | `OneHolderOnly` | `OneHolder` |
| | `ServiceBlockedOnlyByIss` | `BlockedOnlyByIss` |
| | `OnlyFirstIsMisrouted` | `MisroutedOnlyFromFirst` |
| `NitnetdProofs` | `TypeCorrect` | `TypeOK` |
| | `CountersCorrect` | `CountIsFreeSlots` |
| | `SerialService` | `OneProcessAtATime` |
| | `AcceptNeverBlocks` | `InitialNeverBlocksAccept` |
| | `N2WaitsOnlyForTaken` | `N2BlockedOnlyByProcess` |
| `AllInOneProofs` | `S2Answers` | `S2Budget` |
| | `S4AnswersNobody` | `S4NeverAnswers` |
| `GroupChatProofs` | `ImplementsBroadcast` | `Ordered`: the refinement of `Broadcast` |
| `ServersProofs` | `MessageOrdersReads` | `AckOrdersReads` (16) |
| | `CloseComesFirst` | `BlockedOnlyAfterClose` (17) |
| | `OnlyNewServiceBlocks` | `BlockedOnlyOnNew` (18) |
| | `ThreadsServeNoEarlier` | `ThreadsServeLater` (13, 21) |
| `ChatsProofs` | `AnswersReachAskers` | `AnswersMatch` (15) |
| | `FaultsNeedLeave` | `FaultsOnlyAfterLeave` (14, 20) |
| | `RoundsNeverStart`, `OnlyThirdStudentKills` | `NoRoundStarts`, `ThirdStudentKills` (mid exam) |
| | `EditorCaughtOnPassed` | `CaughtOnlyOnPassed` (17) |
| `IpcProofs` | `ListWrongNeedsRace` | `ListWrongOnlyAfterRace` (20) |
| | `FirstMessageIsRead` | `FirstMessageArrives` (7) |
| | `WaitingOnlyByTheft` | `LeftWaitingOnlyByTheft` (8) |
| | `LinesComeInOrder` | `LinesInOrder` (8) |
| | `OneFlipRepaired` | `OneFlipIsRepaired` (19) |
| | `PrintsTheValue` | `EvaluatesTree` (18) |
| | `ImplementsTokenRing` | the safety part of `TakesTurns`: the refinement of `TokenRing` (8) |

`SerialService`, `S4AnswersNobody` and `RoundsNeverStart` state facts that no passing run
checks: they explain the violated runs `nitnetd_below_limit`, `all_in_one_s4` and `chats_rounds`
(section 3).

### Assumptions
- `NitnetdAssumption`, `AllInOneAssumption`, `GroupChatAssumption` and the `PortsAssumption`
  of `Swayambhoo`: the types of the constants; `Conns` of `Nitnetd` is finite.
- `PeersAssumption` (`ConnServers`): clients are positive numbers, finitely many; 0 stands
  for a variable that holds no descriptor.
- `LinesAssumption` (`Inetd`), `FileAssumption` (`Handover`): the numbers of lines and bytes are numbers.
- `NewsAssumption`: three reporters, as many as `popen` calls in the editor.
- `PortsAssumption` (`PortDirectory`): port numbers are greater than the length of the table
  (255 in tracer.c:32), so that an index that was overwritten with a port lies behind the segment.
- `ChatAssumption` (`ChatQueue`): processes that run at the same time have different pids.
- `LeavesAssumption` (`Calculator`): the numbers of an expression have one or two digits (section 4).

### The inductive invariants
None of the properties is inductive as it stands.  What has to be added, and why:

**Swayambhoo** (`Inv`).  `RegInv`: a service connects once, so it waits or is registered
once, and `map[]` is its index or the first one's; `AnswerInv`: a service answers with its own
descriptor or `Stdin`.  From these two follows `TabInv`: a stored descriptor is the first
service's or the port's own; and from that `RouteInv`: a connection that was handed over is
for its receiver or for the first service.  `HolderInv` says that backlogs, Unix sockets
and tables of clients, taken as one family of queues, hold each established connection at one
position; a step moves the head of one queue to the end of another
(`QueueTheorems!MoveKeeps`).  `OneHolder` counts the
positions.  `ReadyInv` keeps the indices that a `select` reported inside the tables.

**Nitnetd** (`Inv`).  `Waitpid` releases a slot of service `i`, so the process that ended
must belong to `i`, and `Fork` must not take a slot for a connection that has one.
`CursorInv`: from accept to the end of `waitpid`, `cur` is a connection of service `i` and the
only one with a process that was not waited for; `QueueInv`: a queued connection waits once,
on its service, has no process and is not `cur`; `N2Inv`: N2 calls `recv_fd` only when
something was sent.  Each step's effect on `Holding(k)` is to add or to remove one element,
and the cardinality lemmas give the arithmetic.  The two later theorems add `ReportedInv`
(what `select` reported about an initial service is still there: SIGUSR1 only appends) and
`PassedInv`, `N2ReadyInv` (a connection that N2 sees as ready and cannot read was taken by a
process).

**AllInOne** (`Inv`).  `SignalInv`: the signal is pending, or S4 dead, as soon as a descriptor for S4
is under way; `BudgetInv`: what was answered and what S2's one or two processes have left
are 3 or 6 together.  Both need `RouteInv`, that a client is only where its port is served.

**GroupChat** (`Inv`, one `ChannelInv` for each queue).  `OrderInv`: copies under way are older than
the message the thread copies, and that is older than what it has not received, so that a reader that
takes the first message of its type takes the next one in the log's order; `ReaderInv`: every message
addressed to a reader that it has not seen is under way, as a request, as a copy, or in the thread's list.
The steps are lemmas about one queue (a sequence, the thread, the log, what was seen), and the proof that
every step is one of `Broadcast` uses that what a reader takes is exactly the next message addressed to it.

**The suites.**  Each invariant is a conjunction of one part for each system, each
preserved by its own steps.
- `Handover` (`HandInv`): how far the two programs have come together; the receiver is before its read
  only if the sender has read once.
- `FdPass` (`FdInv`): which sets of descriptors can be open where in the loop; the set stays full after a
  close, hence one late datagram at most.
- `Inetd` (`InetdInv`): what is left of `readset` behind `i` is readable, if it was there at the last `select`.
- `ConnServers` (`ConnInv`): a connection is in one backlog or accepted once (`PlaceInv`); a
  variable holds the connection it was given or a later one of the same variable (`SlotInv`).
- `UdpServers` (`UdpInv`): a waiting client has one datagram in the buffer or in the server's hands.
- `SelectChat` (`SelInv`): until somebody leaves, every line that a client has written is in one place on its way to each client.  A line not
  read by the server has reached nobody (`Upstream`), a client's socket holds different typed lines that
  it has not printed (`Downstream`), and those to whom the line in hand is still to be written
  have not got it (`Relay`).  `Marks` keeps `read` away from an empty socket.
- `Placement` (`PlInv`): the place each program cannot get beyond, and why its peer does not come.
- `News` (`NewsInv`): a pipe that `select` has marked stays readable unless the document process has it too.
- `PortDirectory` (`DirInv`): while no two services have met and the table is not overrun, at most one
  service is between the lines (`Alone`), the first `ind` places are the ports entered, in order, the
  service inside has read the current `ind` (`Listed`), and a client has been told a beginning of
  the list, in the end one at least as long as the list was when it asked (`ToldList`).
- `KillGroups` (`KillInv`): *every* frame of the stack that is about to write, also an interrupted one, aims at
  a child that has its end open to read or to which something was written (`WritesSafely`).
- `ChatQueue` (`ChatInv`): a waiting client's request or its answer is somewhere, or the answer has been
  registered; for that, a pid of a client that is not in yet is registered only by the step that goes on to
  answer it (`Waits`), and the server answers only what it has registered (`AckRegistered`).
- `ChatQueue` again (`LineInv`), for the order of lines: for each pair of clients, one with a pid
  next to nobody's, the lines of that one that the server has not read, the one in the server's
  hands, the copies under way to the other and the last one the other has seen follow one another
  without a gap (`LinesFlow`).  The first copy of a type is then always the next line.  The gap before the
  first line a client sees is the lines that were relayed before it was registered.
- `Hamming` (`HamInv`): the word is the generator's with the bits in `flipped` turned over
  (`Carried`), and the checker turns over the bit at the sum of the parities (`Repaired`).  A parity bit stands at a power of two, so
  filling one leaves the parities filled before it even; turning over one bit turns exactly the
  parities whose positions contain it, so that the sum of their powers of two is the bit's
  position.  Both programs get the same number of parity bits because of how `find_length` and
  `find_redun_len` bracket the length of the word between two powers of two.
- `Calculator` (`CalcInv`): what is printed is the tree's value.  The argument is about texts: a text
  is `Understood` with a value if reading it, whatever the stacks hold below and whatever is read
  next, leaves a machine that reduces as if the value lay on the stack (`Pending`).  A number is; if two
  texts are, so is the text with an operator between them, provided that the operators still
  pending on the right of a text bind as strongly as `Shown` leaves unparenthesised; parentheses
  close a text.  The trees of depth two follow from the leaves up.
- `MsgRing` (`RingInv`): one process has the floor, or the one message in the queue is for it (`Floor`); that
  process is the `Turn` of the refinement mapping, and `lspid` is the sender until it is printed.

`QueueTheorems` holds what these need of sequences: minima of sets of positions, queues as
a family (`OneSpot`, `Somewhere`), an element appended (`More`), taken from the front
(`WithoutFirst`) or out of the middle (`Rest`), a stack's top exchanged (`FirstChanged`), three
sequences end to end.

What a recursive function computes is proved by induction, too, but not with the library's
induction theorems, whose operator parameter none of the installed provers can instantiate:
`NatSet` is induction for a *set* of numbers, and a proof takes the set of the numbers for which the
statement holds.  A recursive definition is a `CHOOSE` of a function that satisfies its equation, so
`RecursionOnNat` shows that there is one; `SameRecursion`, that two of them agree.

A proof has corrected a model once: the alternatives of `Step` in `Calculator` overlapped for a
crashed process, where `CASE` may choose any of them; the crash is now tested first.

### Only model-checked
Every liveness property, since fairness and `ENABLED` are out of the prover's reach:
`QueuedIsAccepted`, `ReportAnswered`, `HeldIsServed`, `PassedIsReceived`, `Delivered`, `RelayEnds`,
`HandlersEnd`, `BothEnd`, `LastLineShown`, `BacklogIsAccepted`, `WaitingIsServed`, `ChatDelivered`, and the
fairness part of `TakesTurns`.

## 7. Plan

Done: all systems modelled that section 1 lists, every safety property of a passing run proved,
both refinements proved as far as safety goes.

Liveness that the models could carry further: that every datagram kept by `UdpServers` is
answered, that `Handover`'s sender ends, that T answers every query.
