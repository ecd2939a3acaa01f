----------------------------- MODULE AcceptLoop -----------------------------
(***************************************************************************)
(* The accept loop of the two TCP servers: servidor-sock.c of              *)
(* ejercicio_evaluable_2 and server.c of the final project have the same   *)
(* text.  main accepts a connection, creates a detached thread for it and  *)
(* then waits until socket_ocupado is false, under mutex_socket and        *)
(* cond_socket; the thread copies its descriptor and sets socket_ocupado   *)
(* to false.  main sets it to true again when it goes on, so thread and    *)
(* main may write it in either order.                                      *)
(*                                                                         *)
(* A connection and the thread that serves it are one element of Conn; a   *)
(* thread's descriptor is in a cell of its own (malloc), so that the       *)
(* thread of connection c works on c.  What it does there is Finishes here *)
(* and the body of tratar_peticion in ServidorSock and Directory.  An      *)
(* accept that fails changes nothing.                                      *)
(***************************************************************************)
EXTENDS Naturals, Sequences

CONSTANTS Conn,         \* bound: slots for connections
          Main, Nobody, \* main as a holder of the mutex; the mutex free
          Backlog,      \* the queue of listen (MAX_CLIENTS, 10)
          CreateFails   \* whether malloc and pthread_create may fail

ASSUME AcceptLoopAssumption ==
  /\ Main \notin Conn /\ Nobody \notin Conn /\ Main # Nobody
  /\ Backlog \in Nat \ {0}
  /\ CreateFails \in BOOLEAN

VARIABLES backlog,  \* the connections that main has not accepted yet
          main,     \* where main is
          mutex,    \* the holder of mutex_socket
          ocupado,  \* socket_ocupado
          st,       \* st[c]: how far the server has come with connection c
          failed    \* pthread_create made no thread for the last connection

mainVars == <<backlog, main, failed>>
loopVars == <<backlog, main, mutex, ocupado, st, failed>>

Stage == {"closed",    \* no such connection
          "pending",   \* in the backlog
          "accepted",  \* main's sc, without a thread yet
          "start",     \* the thread is created, before pthread_mutex_lock
          "copy",      \* it holds the mutex
          "serve",     \* it has its descriptor and has released the mutex
          "lost"}      \* no thread was created; nobody closes the socket

Busy == main \in {"lock", "test", "waiting", "woken"}
Backlogs == {s \in Seq(Conn) : Len(s) <= Backlog}

LoopTypeOK ==
  /\ backlog \in Backlogs
  /\ main \in {"accept", "create", "lock", "test", "waiting", "woken", "exited"}
  /\ mutex \in Conn \cup {Main, Nobody}
  /\ ocupado \in BOOLEAN
  /\ st \in [Conn -> Stage]
  /\ failed \in BOOLEAN

LoopInit ==
  /\ backlog = <<>>
  /\ main = "accept"
  /\ mutex = Nobody
  /\ ocupado = FALSE
  /\ st = [c \in Conn |-> "closed"]
  /\ failed = FALSE

-----------------------------------------------------------------------------
\* A client connects; the kernel queues the connection.
Arrives(c) ==
  /\ st[c] = "closed"
  /\ main # "exited" /\ Len(backlog) < Backlog
  /\ backlog' = Append(backlog, c)
  /\ st' = [st EXCEPT ![c] = "pending"]
  /\ UNCHANGED <<main, mutex, ocupado, failed>>

Accept ==
  /\ main = "accept"
  /\ backlog # <<>>
  /\ backlog' = Tail(backlog)
  /\ st' = [st EXCEPT ![Head(backlog)] = "accepted"]
  /\ main' = "create"
  /\ UNCHANGED <<mutex, ocupado, failed>>

\* "continue" without a close: the client is never answered.
MallocFails(c) ==
  /\ st[c] = "accepted"
  /\ CreateFails
  /\ st' = [st EXCEPT ![c] = "lost"]
  /\ main' = "accept"
  /\ UNCHANGED <<backlog, mutex, ocupado, failed>>

PthreadCreate(c) ==
  /\ st[c] = "accepted"
  /\ st' = [st EXCEPT ![c] = "start"]
  /\ main' = "lock"
  /\ failed' = FALSE
  /\ UNCHANGED <<backlog, mutex, ocupado>>

\* Nobody looks at the result of pthread_create.
PthreadCreateFails(c) ==
  /\ st[c] = "accepted"
  /\ CreateFails
  /\ st' = [st EXCEPT ![c] = "lost"]
  /\ main' = "lock"
  /\ failed' = TRUE
  /\ UNCHANGED <<backlog, mutex, ocupado>>

\* pthread_mutex_lock, or the return of pthread_cond_wait.
MainLocks ==
  /\ main \in {"lock", "woken"}
  /\ mutex = Nobody
  /\ mutex' = Main
  /\ main' = "test"
  /\ UNCHANGED <<backlog, ocupado, st, failed>>

MainWaits ==
  /\ main = "test"
  /\ ocupado
  /\ mutex' = Nobody
  /\ main' = "waiting"
  /\ UNCHANGED <<backlog, ocupado, st, failed>>

\* POSIX lets pthread_cond_wait return without a signal.
SpuriousWakeup ==
  /\ main = "waiting"
  /\ main' = "woken"
  /\ UNCHANGED <<backlog, mutex, ocupado, st, failed>>

\* (Mutant: main does not raise the flag again.)
MainGoesOnUnflagged ==
  /\ main = "test"
  /\ ~ocupado
  /\ mutex' = Nobody
  /\ main' = "accept"
  /\ UNCHANGED <<backlog, ocupado, st, failed>>

MainGoesOn ==
  /\ main = "test"
  /\ ~ocupado
  /\ ocupado' = TRUE
  /\ mutex' = Nobody
  /\ main' = "accept"
  /\ UNCHANGED <<backlog, st, failed>>

ThreadLocks(c) ==
  /\ st[c] = "start"
  /\ mutex = Nobody
  /\ mutex' = c
  /\ st' = [st EXCEPT ![c] = "copy"]
  /\ UNCHANGED <<mainVars, ocupado>>

\* (Mutant: the thread does not signal.)
ThreadCopiesSilently(c) ==
  /\ st[c] = "copy"
  /\ ocupado' = FALSE
  /\ mutex' = Nobody
  /\ st' = [st EXCEPT ![c] = "serve"]
  /\ UNCHANGED mainVars

\* The copy of the descriptor, free, the flag, the signal and the unlock.
ThreadCopies(c) ==
  /\ st[c] = "copy"
  /\ ocupado' = FALSE
  /\ main' = IF main = "waiting" THEN "woken" ELSE main
  /\ mutex' = Nobody
  /\ st' = [st EXCEPT ![c] = "serve"]
  /\ UNCHANGED <<backlog, failed>>

\* close(s_local), pthread_exit.
Finishes(c) ==
  /\ st[c] = "serve"
  /\ st' = [st EXCEPT ![c] = "closed"]
  /\ UNCHANGED <<mainVars, mutex, ocupado>>

\* The process ends at any moment: SIGINT (stop_server calls exit), or SIGPIPE
\* when a thread writes to a connection whose client has gone.
StopServer ==
  /\ main # "exited"
  /\ main' = "exited"
  /\ backlog' = <<>>
  /\ mutex' = Nobody
  /\ st' = [c \in Conn |-> "closed"]
  /\ UNCHANGED <<ocupado, failed>>

-----------------------------------------------------------------------------
MainStep ==
  \/ Accept
  \/ \E c \in Conn : MallocFails(c) \/ PthreadCreate(c) \/ PthreadCreateFails(c)
  \/ MainLocks \/ MainWaits \/ SpuriousWakeup \/ MainGoesOn

HandoffStep(c) == ThreadLocks(c) \/ ThreadCopies(c)

LoopNext ==
  \/ MainStep \/ StopServer
  \/ \E c \in Conn : Arrives(c) \/ HandoffStep(c) \/ Finishes(c)

LoopSpec == LoopInit /\ [][LoopNext]_loopVars

-----------------------------------------------------------------------------
\* The threads that have not lowered the flag yet.
Uncopied == {c \in Conn : st[c] \in {"start", "copy"}}

AtMostOne(S) == \A a, b \in S : a = b
AtMostTwo(S) == \A a, b, d \in S : a = b \/ a = d \/ b = d

HolderInv ==
  /\ mutex = Main <=> main = "test"
  /\ \A c \in Conn : mutex = c <=> st[c] = "copy"

\* server.c, 385-391: main sets the flag for the next connection, and a thread
\* may lower it before or after.  While main is away from the flag, at most
\* one thread has still to lower it, and none if it is down; while main is at
\* the flag, there may be one more.
FlagInv ==
  /\ ~Busy => AtMostOne(Uncopied) /\ (~ocupado => Uncopied = {})
  /\ Busy => AtMostTwo(Uncopied) /\ (~ocupado => AtMostOne(Uncopied))

\* main waits, or is about to, for a flag that no thread is left to lower.
Hung == Busy /\ ocupado /\ Uncopied = {}

\* The only way to hang is a pthread_create that fails while the flag is up;
\* main waits for a raised flag only.
NoHang ==
  /\ main = "waiting" => ocupado
  /\ Hung => failed

\* Each connection is where main and the backlog say.
PlaceInv ==
  /\ \A i, j \in DOMAIN backlog : backlog[i] = backlog[j] => i = j
  /\ \A c \in Conn : st[c] = "pending" <=> \E i \in DOMAIN backlog : backlog[i] = c
  /\ \A a, b \in Conn : st[a] = "accepted" /\ st[b] = "accepted" => a = b
  /\ main = "create" <=> \E c \in Conn : st[c] = "accepted"

AcceptInv ==
  /\ LoopTypeOK
  /\ HolderInv
  /\ FlagInv
  /\ NoHang
  /\ PlaceInv
=============================================================================
