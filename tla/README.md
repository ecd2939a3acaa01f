# A verification of the distributed-systems exercises

The repository holds four small distributed programs in C and Python. Three of
them (`ejercicio_evaluable_1` to `_3`) offer the same service, a store of tuples
`<key, value1, V_value2, value3>`, over POSIX message queues, over TCP sockets
and over Sun RPC. The fourth (`Práctica_Final`) is a peer-to-peer file exchange:
a directory server in C and clients in Python. There are no tests besides the
demonstration clients `app-cliente*.c`; the promises are in the comments of
`claves.h`, `proxy-mq.c` and `servidor-mq.c`.

This directory states what these programs are meant to do, models how they do
it in TLA+, has TLC check the two against each other on small instances, and
has TLAPS prove what matters most for every instance.

## 1. Inventory

| Component | State | Operations | Talks to |
|---|---|---|---|
| `claves.h`, the interface | the set of tuples | `destroy`, `set_value`, `get_value`, `modify_value`, `delete_key`, `exist` | the applications |
| `claves.c`, the files | `data.txt`, `temp.txt`, open streams | the same six, each a sequence of file operations | called by three servers |
| `servidor-mq.c` (E1) | `pr`, `mensaje_no_copiado`, mutex, condition, queue `/SERVIDOR` | receive, hand over to a thread, execute, reply | `proxy-mq.c` |
| `proxy-mq.c` (E1) | queue `/CLIENTE_<pid>` | `d_send_receive` | the server |
| `servidor-sock.c` (E2) | `socket_ocupado`, mutex, condition, one socket per thread | accept, hand over, parse, execute, reply | `proxy-sock.c` |
| `proxy-sock.c`, `sockets.c` (E2) | one connection per call | text lines ended by `\0` | the server |
| `servidor-rpc.c`, `claves-rpc_svc.c` (E3) | mutex `m`, connections | dispatch, handler, reply | `proxy-rpc.c` |
| `proxy-rpc.c`, `claves-rpc_clnt.c` (E3) | globals `result_1` to `result_6`, one connection per call | `clnt_create`, `clnt_call` (25 s), `clnt_destroy` | the server |
| `server.c`, `logic.c` (final) | `users.txt`, `contents_<user>.txt`, three temporary files | nine commands, a thread for each | `client.py` |
| `client.py` (final) | listener thread and socket, current user | the commands, `GET_FILE` from another client | server, other clients, date service |
| `servicio_web.py` (final) | none | the current date and time | `client.py` |

What is hard about each, and what makes it correct:

- **`claves.c`** does every change in several file operations and takes no lock.
  `delete_key` copies to the one name `temp.txt`, removes `data.txt`, renames;
  `modify_value` is a `delete_key` and a `set_value`. Under what callers is a
  call atomic? What does a failed step, or a dead process, leave behind?
- **The RPC server** puts a mutex around each call. Clients give up calls after
  25 s that the server still executes, so that even one client has several calls
  in progress. Correct: every call takes effect once, at one instant, with the
  result of that instant; no key is on two lines; every request is answered.
- **The message-queue server** hands one buffer from `main` to a thread with a
  flag, a mutex and a condition variable; `mq_receive` writes the buffer without
  the mutex. Correct: a thread works on the request it was created for, every
  request is executed once and its reply reaches its sender, nobody waits for
  ever. Its threads then call `claves.c` without a lock.
- **The TCP server** has a like handoff with another flag, which `main` and the
  thread write in either order, and does not check `pthread_create`. A call is
  lines without length or tag on a connection that may end anywhere. Correct:
  `main` never sleeps without a thread to wake it; what arrived whole is run and
  answered as it was asked; an error is not taken for an answer.
- **The directory server** has the same accept loop and rewrites `users.txt`
  through three temporary names from threads without a lock; `CONNECT` is two
  such rewrites, `UNREGISTER` a rewrite and a removal. Correct: a command takes
  effect at one instant with the code of that instant, and a user who was told
  that he is connected is in the list.
- **The clients** register a port before they listen on it, fetch a file from an
  address that was right when the server gave it, and stop their listener with
  an event and a `join`. Correct: who has connected can be reached until he
  disconnects; `GET_FILE` says OK only of a whole file; no command waits for ever.

`PROJECT.json` lists each of these hazards at its line.

## 2. Modules

```
 ClavesInterface ─────────── TupleStore       what claves.h promises
        │                        ▲
        │    DataFile            ┊ refines
        └──┬────┘                ┊
         Claves ──────────── ServidorRpc      E3: mutex m, svc_run, clients
           │                     └─ ServidorRpc_proofs ── ServidorRpc_refinement
      ClavesThreads ── ClavesThreads_proofs   E1, E2: no lock

 ServidorMq ── ServidorMq_proofs              E1: the handoff and the queues

 AcceptLoop                                   E2 and final: the accept loop
     │
 ServidorSock ── ServidorSock_proofs          E2: a call, line by line

 UserDirectory                                final: what the commands promise
     ▲      └───────────── Peers ── Peers_proofs      client.py
     ┊ refines
 Directory ── Directory_proofs                final: server.c over logic.c
     │
 DataFile ── DataFile_proofs                  files as sequences of lines
```

A solid line is `EXTENDS` (the proofs about `Claves` and `Directory` also extend
`DataFile_proofs`); `ServidorRpc` and `Directory` take the specification
that they refine by `INSTANCE ... WITH`. Each `MC` module and its configurations
are an instance of the module whose name it has.

- `ClavesInterface`: requests, results and the effect of printing a value.
  `Printed` is what `"%lf"` leaves of a value: it is idempotent and in general
  not the identity.
- `TupleStore`: the abstract specification. A call is invoked, performed at one
  instant on a function from keys to values, and returned. `Crash` says what a
  server that dies may cost: at most the calls in progress, and, only if a
  `delete_key` or a `modify_value` was among them, the tuple being modified or
  the whole store.
- `DataFile`: the lines of a file. `Pick`, with `Without`, is the copying loop of
  `delete_key` (and, in `Directory`, of `unregisterUser` and `deleteContent`),
  written without recursion so that it can be proved about; `MCServidorRpc` has
  TLC compare it with `SelectSeq`.
- `Claves`: one action per file operation that others can observe. `pc[t]` names
  the next operation, `fn[t]` the function thread `t` is in (`modify_value` calls
  two others), `rd[t]` and `wr[t]` the open streams. Names and inodes are apart,
  so that a stream goes on writing to a file that was removed or renamed.
- `ServidorRpc`: connections, dispatcher, mutex, replies, timeouts, deaths. Its
  `Spec` refines `TupleStore` under `StoreImage` and `CallImage`. The linear point
  of `delete_key` and of `modify_value` is `remove("data.txt")`: from there to
  the `rename`, `temp.txt` is the store, and from there to the end of
  `modify_value` the new tuple counts as stored.
- `ClavesThreads`: the same `Claves` under threads without a lock, with two
  history variables (`acked`, `before`) for what the callers were told.
- `ServidorMq`: `main`, threads, both kinds of queue. What a call does to
  `data.txt` is left to `ClavesThreads`; a reply carries its request, as the C
  struct does. `Execute` is the whole switch. `dropped` and `given` are history. The
  server may die and start again on the queue that is left (`ServerRestarts`).
- `AcceptLoop`: the accept loop of `servidor-sock.c` and of `server.c`, which have
  the same text: backlog, `main`, `mutex_socket`, `socket_ocupado`, and how far
  each connection has come. `failed` says whether the last `pthread_create` has
  failed. `Hung` is what may come of it: `main` waits, or is about to, for a raised
  flag, and no thread is left to lower it. A failed creation while the flag is down
  is not a hang, since `main` goes on.
- `ServidorSock`: a call of `proxy-sock.c` and the thread that serves it, over
  `AcceptLoop`. A request or reply is a sequence of lines (`RequestLines`,
  `ReplyLines`); `Read` is what repeated calls of `readLine` leave in the one
  buffer, also after the end of the connection; `Decoded` and `ReadReply` are
  what either side makes of it. `cut` is the set of connections that ended early,
  `overrun` those on which a side stored past the end of `V_value2`. A `get_value`
  that failed leaves any `N_value2`, negative or above `MAXVEC` (`Stray`): the server
  sends as many lines as it says and the proxy stores as many. A `value1` is one or
  more lines, since `readLine` ends a line at `'\n'` too.
- `UserDirectory`: the abstract specification of the directory server: users,
  their address and whether they are connected, and what each has published. A
  command is invoked, performed at one instant, returned. The codes are those that
  `server.c` sends; where its comments or `client.py` say otherwise, see section 4.
  `Crash` bounds what the end of the server may cost. `MakesList` is there because the first
  `REGISTER` makes an empty `users.txt` before it appends to it, which a
  `LIST_USERS` can notice.
- `Directory`: the nine commands as sequences of phases (`Phases`), a phase being
  a function of `logic.c`, and one action per file operation. The five functions
  that rewrite a file share their actions (`RewriteOpen` to `RewriteRename`) and
  differ in file, temporary name, copy and code. `UsersImage`, `ContentsImage`
  and `CallImage` map it to `UserDirectory`: between `remove` and `rename` the
  copy is the file, and a user who is connecting becomes connected when the
  second rewrite removes `users.txt`. `raced` is history: the lines (file and name)
  that two commands at work at the same time have contended for (`Contended`), both
  adding the line, or one adding to a list that the other empties or rewrites.
- `Peers`: the clients over `UserDirectory` as the server. `shell[u]` is where the
  shell of u's client is; `socket`, `stop`, `current` are its attributes; `bound`,
  `thread` and `backlog` belong to the ports; `conn[u]` is the connection of u's
  `getfile`, with the thread of the other client that serves it.

Correspondence to the code: each action carries the name of its function and
step (`DelRename`, `MqReceive`), and the `map` of `PROJECT.json` has its lines.
The line numbers of `Claves` are those of `ejercicio_evaluable_3`; the copy in
`ejercicio_evaluable_2` is the same text, the one in `ejercicio_evaluable_1`
differs in `get_value`, which does not begin with `exist` (`GetChecksExist`).

Abstractions, all of them:

- in `Claves`, a line is a record, a file holds less than one stdio block, so a scan is one
  `read` and the output of a call one `write` at `fclose`. Value strings are one
  word and `N_value2` is in 1..32, as in the demonstration clients (other strings
  do not survive `"%s"`);
- the two names `data.txt` and `temp.txt` are the only ones in the directory;
- an overlay of two writers of `temp.txt` replaces whole lines;
- in `ServidorRpc` the output arguments of a `get_value` that returns -1 are
  `NoValue`: nobody assigned them. That `rpc_get_value_1_svc` then copies an
  unassigned number of doubles can kill the server (`Crash`); it has no other effect
  in the model. (`ServidorSock` has any such values: `Stray`.)
- a thread of `servidor-mq.c` opens the client's queue and sends in one step; a
  call whose `mq_open` fails returns -2 and changes nothing, and is not a step;
- a process that is killed is followed by one with the same pid;
- in `ServidorSock` a line is the integer that `atoi` reads from it, and a double
  the integer number of its last digits (`%lf` sends six decimals; the rest of a
  `V_value2` is lost on the way). The lines of one side travel at once unless that
  side dies, and are then cut between two lines. The results of `claves.c` are any
  that its interface allows, with any `Stray` value if it failed (what it does to the
  file is `ClavesThreads`). A side that stores past `V_value2` may go on with
  anything (`Garbage`, `Stray`) or end; what it overwrites of other threads is left
  out;
- in `Directory` a line is a record, ip and port are one value, descriptions are
  left out, and an `fopen` fails only if it is for reading and there is no file;
- in `Peers` there is one client for each user (README.txt: "Cada usuario debe
  ejecutar el archivo client.py en una terminal diferente"), a port is an
  address, a file is sent in two pieces, each client saves under one name, which is
  not that of a file that is being sent, and a command that finds no server is not
  a step.

`...Without`, `...Leaking`, `...Appending` and the other operators whose comment
says *Mutant* are not part of the specifications. Each is a wrong version of the
definition after it, and shows that the property it is listed with in
`PROJECT.json` would notice.

## 3. Runs

| Run | Instance | Shows |
|---|---|---|
| `rpc_overlap` | 2 connections, 1 client, 2 handlers at a time, 2 keys, 2 values | the steps of `claves.c` under `m` implement `TupleStore`; `IInv` and `RInv` are invariants; keys are unique |
| `rpc_crash` | 1 handler, 2 deaths, 2 keys, 2 values | the same, the server dying between any two steps and starting again; every request is answered, unless its client has gone |
| `threads_inserts` | 3 threads, E1's `get_value` | insertions and readers never lose an acknowledged tuple |
| `threads_faults` | 1 thread, any `fopen` or write may fail | a call that returns -1 changed nothing and left no stream open |
| `threads_deletes` | 2 threads, 3 keys | **violated**: concurrent deletes and insertions lose other tuples |
| `mq_handoff` | 2 clients, 2 threads, queues of 1, one death of a client or of the server, creations and sends fail | the handoff; each request in one place, also across a restart; replies reach their sender; calls return |
| `sock_calls` | 2 connections, backlog 1, one client killed, creations fail, the server ends, a `value1` with `'\n'`, an `N_value2` of -1 and of `MAXVEC` + 1 left by `get_value` | the accept loop; both sides agree on every line of what arrives whole; who stores past `V_value2` has one of three causes; calls return |
| `sock_error` | 1 connection, all six operations, the server ends | **violated**: an error of communications is returned as a result |
| `directory` | 2 threads, 2 users, also two commands of one user name, 1 file, one end of the server | until two commands contend for a line, `Directory` implements `UserDirectory`; no line twice but those |
| `directory_overlap` | 2 threads, 2 users that register and connect | **violated**: `CONNECT` answered 0 and the user is not in `users.txt` |
| `peers` | 2 clients, 2 ports, senders that break off, one death of a client or of the server | `GET_FILE` keeps its word; who has connected is reachable |
| `peers_live` | 2 clients, 2 ports, nobody dies | commands return; who has disconnected stops listening |

Why the bounds are enough. One client makes any number of calls at a time,
because it may give each up at once: two connections are two calls in progress,
with every pair of operations in every interleaving. Two keys let one call
disturb the tuple of another. Two values tell what was written from what was
there before; a value which printing changes (`%lf` keeps six decimals) is in
`rpc_crash`. A store of two keys has files of up to two lines, and three
inodes are `data.txt`, `temp.txt` and a removed file still open. `TypeOK` is the
first conjunct of `IInv` and is checked with it. `MCView` hides the lines of
inodes that no name and no stream refers to: they are emptied before they can be
read, so states that differ in them only behave alike. Symmetry is used in the
runs without liveness. `threads_inserts` bounds the file with `MaxLines`. Queues
of one message fill with two clients. In `mq_handoff` all clients may come to
wait for requests that were dropped, and that run does not check deadlock.

In `sock_calls` a backlog of one is full while `main` waits, and two connections
let a thread that is late meet the flag of the next one. `get_value` has the reply
of many lines and `modify_value` the request of many; `destroy` and `exist` have
short ones; `set_value` sends the lines of `modify_value`, and `delete_key` those of
`exist`. All six are in `sock_error`, and in the proof. The numbers of one call all
differ, so that two lines read in the other order show: operation, key, `value1`,
the elements of `V_value2`, x and y. `MaxVec` is 2, one `Stray` value has a negative
`N_value2` (no lines) and one an `N_value2` of 3 (one store too many). A store past
the end needs a connection that was cut, a `value1` with a `'\n'`, or such an
`N_value2` (`OverrunsHaveACause`); of a call to which one of these happened nothing
else is claimed, and of the others everything. Calls on a connection that was lost
stay there.

In `directory` the commands that are given at the same time are bounded by
`MayOverlap`, because without a bound the server does not implement anything:
`Compatible` lets two commands overlap if neither rewrites `users.txt`, they are not
two `DELETE`s, and neither reads the list that the other replaces. They may be of
one user name: `client.py` waits for each reply, but any number of terminals may
give the same name, and the server has no lock. Then two `REGISTER`s of a name, two
`PUBLISH`es of a content, or one of them beside a command that replaces the list, do
contend, and do put a line twice or lose it; the model has them, `raced` records the
line, `NoLineTwice` says that no other line is ever twice, and
`ImplementsUserDirectory` is claimed of every step before the first contention
(commands that have begun run to their end after it; with `MaxRaced` = 0 no new one
begins). `directory_overlap` has any two commands of two users (`OfTwoUsers`).
Twelve inodes are the seven names, two streams of
either thread and one more, so that there is always a free one; that is what
`DirectoryAssumption` asks of any finite `Inode`.
`MCView` leaves out the numbers of inodes and the content of temporary files that
no thread will read: `fopen("w")` empties them first. `GET_FILE` is, for the
server, `LIST_USERS`.

In `peers` two clients are enough for each to fetch from the other, two ports for
a client to connect again elsewhere while its first listener is still there.
`Sharers` is one client, so that both answers to a request for a file occur;
`Leavers` bounds who unregisters. The runs of `Peers` do not check deadlock: a
client whose commands have all failed, and both ports taken, is at its prompt.

Fairness. `rpc_crash`: `svc_run` serves all connections that `select` reports
before it selects again (strong fairness of `Dispatch`), and a running handler
runs on. Nothing is assumed of clients. `mq_handoff`: `main` and the threads run
on, a process inside `d_send_receive` runs on; who waits for the mutex or for
room in a queue is served in turn (strong fairness of `ThreadLocks`, `MainLocks`,
`ClientSends`: without it a wait that wakes up for nothing could take the mutex
from the thread for ever). A call is not required to return if there was no
thread for its request (`servidor-mq.c:108`) or the server died with it: nobody
tells the client.
`sock_calls`: the same for `main`, the threads and the clients that are inside a
call; a call need not return if its client was killed, there was no memory for its
thread, `main` is `Hung`, or its `value1` had a `'\n'`. `peers_live`: the server answers, the shell of a client goes on with a
command that was given (one weak fairness per client, since it is always at one
step), and so does each listener thread; connections are accepted in their order.
Who types commands owes nothing.

## 4. Findings

The three violations are disagreements between what a comment promises and what
the code does; `PROJECT.json` quotes both.

- `threads_deletes`: with E1's and E2's threads `claves.c` loses tuples that
  nobody deleted.
- `sock_error`: `claves.h` says that an error of communications is an error;
  `proxy-sock.c` does not look at the result of `readLine` and returns what is in
  a buffer that nothing was read into.
- `directory_overlap`: `CONNECT` of two users at the same time is answered "OK" to
  both, and `users.txt` has lost one of them, or is gone.

Met while modelling, without a run of their own:

- Two threads of E1 or E2 insert a key twice; `modify_value` returns 0 whatever its
  two halves returned.
- The queue `/CLIENTE_<pid>` of a killed client is used, with the late reply in it,
  by the next process of that pid.
- A failed `get_value` of E2 sends as many numbers as an unassigned `N_value2` says,
  and the proxy stores them without looking (`servidor-sock.c:93-107`,
  `proxy-sock.c:136-139`); in `sock_calls` this is the third cause of an overrun.
- Two terminals that `REGISTER` one name at once are both told 0, and `users.txt` has
  the name twice (`logic.c:60-66`); likewise two `PUBLISH`es (`logic.c:217-233`). Later
  rewrites treat both lines alike, `exist` and `client.py` take the first.
- The codes of the directory server. `PUBLISH` and `DELETE` of a user who is not
  connected are done, with code 0: the 2 that `server.c:143` and `163` call "no user
  connected", and for which `client.py:332` and `372` have a message, is sent by no
  path. `LIST_USERS` answers anybody, with the disconnected users too; its 2 means
  that there is no `users.txt`, which `client.py:416` prints as "USER NOT CONNECTED",
  and the 1 of `client.py:414` is never sent. `UserDirectory` has the codes that are
  sent: `ImplementsUserDirectory` is about atomicity and crashes, and does not say
  that these codes are the ones that were meant.
- `client.py` prints CONNECT OK before it binds its port (`client.py:213-217`). When
  the bind fails (`BindFails`) the directory has the user as connected at a port where
  he does not listen. `ReachableUntilUndone` is about a bind that succeeds.

What the passing runs allow, so that nobody takes it for excluded: the loss of
`data.txt` or `users.txt` when the server dies between `remove` and `rename`
(`Crash` of `TupleStore` and of `UserDirectory`), the list of contents that goes with
an `UNREGISTER` of a user who is not registered (`Unregisters`), and requests for
which there was no thread (`dropped`, `lost`, `Hung`). What they keep out: a rewrite
of `users.txt` beside any other command, and two `DELETE`s (`MayOverlap`; the first is
what `directory_overlap` is about), and deletions in `threads_inserts` (they are in
`threads_deletes`).

## 5. Proofs

The proofs are for any sets and any bounds, finite or infinite, but where a
theorem or an `ASSUME` says otherwise. `IInv`, `RInv`, `HandoffInv`, `AcceptInv` and
`SockInv` are invariants of runs as well.

- `ServidorRpc_proofs`: `Spec => []IInv`, and from it `TypeOK` and
  `NoDuplicateKeys`, assuming `Faults = FALSE` (the file system works; with it
  TRUE a failed write leaves a `temp.txt` that nobody looks at). That keys are
  unique is not inductive: `SetFlush` appends a line because of a test some steps
  before. `IInv` says what each step still knows: the mutex holder is the only
  thread inside `claves.c` (`MutexInv`), it is in the function its request leads
  to (`CallOK`), its streams are the ones the names refer to, its key is absent
  when it is about to append, and what it has copied has no key twice
  (`FrameOK`). The proof has a lemma per action; the facts on files come from
  `DataFile_proofs` (`WithoutLines`: the copying loop keeps the other lines, in
  order; `AppendLine`; `SameLinesSameTuples`). Deaths are covered: `CrashStep`.
- `ServidorRpc_refinement`: `Spec => ImplementsTupleStore` under the same
  assumption, and `RInv` on the way. The refinement needs more than `IInv`: that
  what is renamed over `data.txt` is `data.txt` without the key, that
  `modify_value` deletes a key that is there and inserts one that is not, that the
  values on the file are values that printing leaves as they are. That is `RInv`.
  With the mutex held, the image depends on the holder's frame alone
  (`HolderView`), without it on `data.txt` alone (`FreeView`); a step is `Quiet`,
  and then the image stays, or one of the few at which a call `TakesEffect`, and
  then the image makes the step `Perform` of the store. `Crash` maps to the
  store's `Crash`: the only call inside the files is the mutex holder's.
- `ServidorMq_proofs`: `MqSpec => []HandoffInv`, and from it that every thread
  works on its own request and that the signal is never lost. The argument:
  while `main` is between `pthread_create` and the end of its wait, there is at
  most one thread that has not signalled, and the flag says whether there is;
  elsewhere the flag is up and there is none, so `mq_receive` may overwrite `pr`.
  A restart brings it all back to where it began, but for the queue.
  Then `MqSpec => []OnePlace` and `MqSpec => []RepliesAreOwnWithoutReuse`.
  `OnePlace` counts the places of a request; `PlacesInv` says instead that it has
  at least one if it is awaited, at most one in any case, and that what lies in a
  client's queue is what that client waits for. `HandoffInv` is needed because a
  thread that has not copied has its request in `pr`, where it must still be.
- `ServidorSock_proofs`: first the accept loop by itself, `LoopSpec => []AcceptInv`.
  Here `main` sets the flag for the *next* connection after it has gone on, and a
  thread may lower it before or after: away from the flag at most one thread has
  still to lower it, and none if it is down; at the flag there may be one more
  (`FlagInv`). So, until a creation fails, a raised flag that `main` meets is one
  that a thread will lower (`NoHang`). Then `SockSpec => LoopSpec`, so that
  `AcceptInv` holds of the server with its calls as well; `SockSpec => []SockInv`;
  and from it `CallsAreRunAsAsked`, for every length of `V_value2`. The lemmas on
  sequences say that `ReadValue` undoes `ValueLines` wherever in the lines the value
  begins; the invariant says that on a connection that nobody cut short, with a
  `value1` of one line (`OneLine`) and no store past `V_value2`, the lines under way
  are those of the request, or of the result, and nothing was lost between. Keys,
  coordinates and numbers are any integers, and what a failed `get_value` leaves is
  any value of any `N_value2` (`Stray \subseteq AnyValue`). The condition on stores
  is not left at that: `OverrunsHaveACause` is proved of the same specification, by
  what `is_N_value2_valid` lets through.
- `ClavesThreads_proofs`: `ThreadsSpec => []StreamsClosed` and
  `ThreadsSpec => []ThreadsTypeOK`, for any set of threads, with or without
  `Faults`; assuming that `Thread` has one member,
  `ThreadsSpec => []FailedCallsChangeNothing`; and assuming `Faults = FALSE` and
  calls that remove no tuple, `ThreadsSpec => []AckedTuplesStay`. `StreamsInv`
  says at which labels a call has each stream open, `TypeInv` adds what `fn` and
  `req` are at each. `FailureInv` says that a call can still fail only where it has
  changed nothing: from the first change on it returns 0, and so does
  `modify_value` once it is inside `delete_key` or `set_value`. `AckedInv` says that
  `data.txt` is one file that only grows: whoever has it open for appending has
  that file, and the line of a call about to return 0 is on it. With deletions
  this is false, which `threads_deletes` shows.
- `Directory_proofs`: `DirSpec => []DirTypeOK`, whatever commands overlap, and
  `DirSpec => []NoLineTwice` as long as no command runs beside one that rewrites
  `users.txt` and two `DELETE`s do not overlap (`TakeTurns`; the run's `Compatible` is
  stronger). Commands of one user name may overlap in both. `TypeInv` says which
  phases a command may have
  left (`Todo`), which steps a phase has (`StepsOf`) and which streams a step
  (`StreamsOK`); that `fopen` finds a free inode follows by counting the names and
  the streams. `NoLineTwice` is not inductive: the append relies on a scan some
  steps before, in another function and through another stream, and the rename on
  what was copied. `DirInv` says that what a thread has seen is still so
  (`Holds`: the stream it scans is of the file that has the name, the line it is
  going to append is not there unless it was contended for, its temporary file is
  empty, or is a copy in which no line is twice but for those in `raced`: `Once`),
  that no file has two names (`Distinct`), and that of the commands at work none
  rewrites `users.txt` beside another and what two of them contend for is in `raced`
  (`InTurn`). A step changes files of one or two names (`Touches`), and no other
  thread watches these (`Beside`, `OthersHold`), but for the appends of several
  commands to one file (`OthersHoldAppends`): of different lines, or of a line that
  is in `raced`. An append to a list that another command has replaced meanwhile goes
  to a file without a name, and no name gets that file back (`Links`).
- `Peers_proofs`: `PeersSpec => []GetFileKeepsItsWord`,
  `PeersSpec => ReachableUntilUndone`, an action property, and
  `PeersSpec => []PeersTypeOK`. What `GET_FILE` returns
  depends on what was written steps before, so the invariant (`GetFileInv`) adds
  that there is no part of a file from the command until there is a size; a client
  that is killed leaves one, and the next client says nothing of it. That a client
  stays reachable needs that its request about itself is the only one under way
  (`CallInv`: the address in the directory is the one it is about to bind, or has
  bound) and that nobody closes its socket but itself, after the listener thread
  it told to stop has stopped (`ListenInv`). `PeersTypeOK` says where the
  connection of a `GET_FILE` leads; `ConnInv` adds that a backlog has exactly the
  clients whose connection is queued there, each once.
- `DataFile_proofs`: the operators on files. `PickLines` says which lines the
  copying loops keep; the rest follows from it.

Only model-checked: the refinement `ImplementsUserDirectory` of `Directory`, and
all liveness (`RequestsAreAnswered`, `CallsReturn`, `CommandsReturn`,
`StopsListening`), which is out of the provers' reach, as are `ENABLED` and the
equality of `Pick` with the recursive `SelectSeq`.

## 6. Plan

Done: the tuple store and its three servers, the accept loop, the directory
server, the clients, and a proof of every invariant that a run checks. Left:

1. The proof that `Directory` implements `UserDirectory` up to the first contention,
   under `TakeTurns` and the run's condition on readers: `UsersImage` and `ContentsImage` are functions
   of the files that `DirInv` describes.
2. The results of the RPC proxy after an error (`proxy-rpc.c:133`).

## 7. Not modelled

- What `proxy-rpc.c` returns after an RPC error, from a global of an earlier call.
- The checks of the proxies on their arguments. (`is_value1_valid` and
  `is_N_value2_valid` end without a `return` when the argument is right; their
  callers compare with -1.)
- In `client.py`: `PUBLISH`, `DELETE` and the two `LIST` commands, which change no
  state there; two users in one client; the date service.
- Generated XDR code, the demonstration clients, the text format of a line, the
  service `servicio_web.py` (one function without state), `ejercicio_evaluable_4`
  (a report).
