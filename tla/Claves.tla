------------------------------- MODULE Claves -------------------------------
(***************************************************************************)
(* claves.c: the tuple store kept in data.txt, with temp.txt as the copy   *)
(* that delete_key renames over it.  The module has one action per step    *)
(* of the code that other threads can observe (opening, reading, flushing, *)
(* removing, renaming a file), for any set of threads that call the six    *)
(* functions at the same time: claves.c takes no lock.  What serialises    *)
(* the calls, if anything, is the server that includes it.                 *)
(*                                                                         *)
(* Abstractions: a line is a tuple [key, val] (DataFile); a file is no     *)
(* longer than one stdio block, so a scan is one read(2) and the output of *)
(* a call is one write(2) made by fclose.                                  *)
(***************************************************************************)
EXTENDS ClavesInterface, DataFile

CONSTANTS Thread,          \* the threads that call claves.c
          Inode, NoInode,  \* the files of the file system, and no file
          GetChecksExist,  \* get_value starts with exist: yes in
                           \* ejercicio_evaluable_2 and _3, no in _1
          Faults           \* fopen and the write of fclose may fail (EMFILE,
                           \* ENOSPC, EACCES)

ASSUME ClavesAssumption ==
  /\ NoInode \notin Inode
  /\ GetChecksExist \in BOOLEAN
  /\ Faults \in BOOLEAN

VARIABLES dir,      \* dir[n]: the inode of file name n, or NoInode
          content,  \* content[i]: the lines of inode i
          pc,       \* pc[t]: the next step of thread t
          req,      \* req[t]: the call that t executes
          fn,       \* fn[t]: the function of claves.c that t is in: req[t].op,
                    \* or delete_key or set_value called by modify_value
          rd, wr,   \* the inodes that t has open for reading and for writing
          buf,      \* buf[t]: the lines in the stdio buffer of stream temp
          ret       \* ret[t]: what the call of t returned

fileVars == <<dir, content>>
frameVars == <<pc, req, fn, rd, wr, buf, ret>>
clavesVars == <<dir, content, pc, req, fn, rd, wr, buf, ret>>

Data == "data.txt"
Temp == "temp.txt"
FileName == {Data, Temp}

Line == [key : Key, val : Value]

Label ==
  {"idle", "exist_open", "exist_scan", "get_open", "get_scan", "destroy",
   "set_open", "set_flush", "del_open", "del_temp", "del_scan", "del_flush",
   "del_remove", "del_rename", "done"}

ClavesTypeOK ==
  /\ dir \in [FileName -> Inode \cup {NoInode}]
  /\ content \in [Inode -> Seq(Line)]
  /\ pc \in [Thread -> Label]
  /\ req \in [Thread -> Request \cup {NoRequest}]
  /\ fn \in [Thread -> Op \cup {"none"}]
  /\ rd \in [Thread -> Inode \cup {NoInode}]
  /\ wr \in [Thread -> Inode \cup {NoInode}]
  /\ buf \in [Thread -> Seq(Line)]
  /\ ret \in [Thread -> Reply]

ClavesInit ==
  /\ dir = [n \in FileName |-> NoInode]
  /\ content = [i \in Inode |-> <<>>]
  /\ pc = [t \in Thread |-> "idle"]
  /\ req = [t \in Thread |-> NoRequest]
  /\ fn = [t \in Thread |-> "none"]
  /\ rd = [t \in Thread |-> NoInode]
  /\ wr = [t \in Thread |-> NoInode]
  /\ buf = [t \in Thread |-> <<>>]
  /\ ret = [t \in Thread |-> Result(0)]

-----------------------------------------------------------------------------
(* The file system.                                                        *)

\* Inodes that no name and no open stream refers to.
FreeInode ==
  {i \in Inode : /\ \A n \in FileName : dir[n] # i
                 /\ \A t \in Thread : rd[t] # i /\ wr[t] # i}

Exists(n) == dir[n] # NoInode

\* The inode that fopen(n, "w") or fopen(n, "a") gives: the one that has the
\* name, or a new one that takes it.
Opened(n) == IF Exists(n) THEN {dir[n]} ELSE FreeInode

\* fopen(n, "w"): creates or truncates.
Truncates(n, i) ==
  /\ i \in Opened(n)
  /\ dir' = [dir EXCEPT ![n] = i]
  /\ content' = [content EXCEPT ![i] = <<>>]

\* fopen(n, "a"): creates, never truncates.
Appends(n, i) ==
  /\ i \in Opened(n)
  /\ dir' = [dir EXCEPT ![n] = i]
  /\ content' = [content EXCEPT ![i] = IF Exists(n) THEN @ ELSE <<>>]

\* The write that fclose makes: inode i holds lines s, or nothing was written
\* and fclose said so to nobody.
Writes(i, s) ==
  \/ content' = [content EXCEPT ![i] = s]
  \/ Faults /\ UNCHANGED content

-----------------------------------------------------------------------------
(* Control.                                                                *)

At(t, l) == pc[t] = l
Goto(t, l) == pc' = [pc EXCEPT ![t] = l] /\ UNCHANGED <<fn, ret>>

\* (Mutant: modify_value returns what set_value returns.)
ReturnsPropagating(t, x) ==
  IF req[t].op = "modify_value" /\ fn[t] = "delete_key"
    THEN /\ fn' = [fn EXCEPT ![t] = "set_value"]
         /\ pc' = [pc EXCEPT ![t] = "exist_open"]
         /\ UNCHANGED ret
    ELSE /\ ret' = [ret EXCEPT ![t] = x]
         /\ pc' = [pc EXCEPT ![t] = "done"]
         /\ UNCHANGED fn

\* The function that t is in returns x: to modify_value, which ignores the
\* result of delete_key and that of set_value, or to the caller of the call.
Returns(t, x) ==
  LET nested == req[t].op = "modify_value"
  IN IF nested /\ fn[t] = "delete_key"
       THEN /\ fn' = [fn EXCEPT ![t] = "set_value"]
            /\ pc' = [pc EXCEPT ![t] = "exist_open"]
            /\ UNCHANGED ret
       ELSE /\ ret' = [ret EXCEPT ![t] =
                         IF nested /\ fn[t] = "set_value" THEN Result(0) ELSE x]
            /\ pc' = [pc EXCEPT ![t] = "done"]
            /\ UNCHANGED fn

\* Where the first step of a function is.
Entry(op) ==
  CASE op = "destroy" -> "destroy"
    [] op = "get_value" /\ ~GetChecksExist -> "get_open"
    [] OTHER -> "exist_open"

\* Thread t calls the function r.op.
Begin(t, r) ==
  /\ At(t, "idle")
  /\ req' = [req EXCEPT ![t] = r]
  /\ fn' = [fn EXCEPT ![t] = r.op]
  /\ pc' = [pc EXCEPT ![t] = Entry(r.op)]
  /\ UNCHANGED <<dir, content, rd, wr, buf, ret>>

\* The caller has the result; the frame of the call is gone.
End(t) ==
  /\ At(t, "done")
  /\ pc' = [pc EXCEPT ![t] = "idle"]
  /\ req' = [req EXCEPT ![t] = NoRequest]
  /\ fn' = [fn EXCEPT ![t] = "none"]

\* exist(key) returns to the function t is in, which tests its result.
ExistReturns(t, found) ==
  \/ /\ fn[t] = "exist"
     /\ Returns(t, Result(IF found THEN 1 ELSE 0))
  \/ /\ fn[t] = "get_value"
     /\ IF found THEN Goto(t, "get_open") ELSE Returns(t, Result(-1))
  \/ /\ fn[t] = "set_value"
     /\ IF found THEN Returns(t, Result(-1)) ELSE Goto(t, "set_open")
  \/ /\ fn[t] = "delete_key"
     /\ IF found THEN Goto(t, "del_open") ELSE Returns(t, Result(-1))
  \/ /\ fn[t] = "modify_value"
     /\ IF found
          THEN /\ fn' = [fn EXCEPT ![t] = "delete_key"]
               /\ pc' = [pc EXCEPT ![t] = "exist_open"]
               /\ UNCHANGED ret
          ELSE Returns(t, Result(-1))

-----------------------------------------------------------------------------
(* exist, and the call of it in every other function but destroy.          *)

ExistOpen(t) ==
  /\ At(t, "exist_open")
  /\ \/ /\ Exists(Data)
        /\ rd' = [rd EXCEPT ![t] = dir[Data]]
        /\ Goto(t, "exist_scan")
     \/ /\ Faults \/ ~Exists(Data)      \* fopen = NULL: "No existe"
        /\ ExistReturns(t, FALSE)
        /\ UNCHANGED rd
  /\ UNCHANGED <<dir, content, req, wr, buf>>

\* (Mutant: exist returns how many lines it found.)
ExistScanCounting(t) ==
  LET s == content[rd[t]]
      found == {n \in DOMAIN s : s[n].key = req[t].key}
  IN /\ At(t, "exist_scan")
     /\ rd' = [rd EXCEPT ![t] = NoInode]
     /\ IF fn[t] = "exist" THEN Returns(t, Result(Cardinality(found)))
                           ELSE ExistReturns(t, found # {})
     /\ UNCHANGED <<dir, content, req, wr, buf>>

ExistScan(t) ==
  /\ At(t, "exist_scan")
  /\ rd' = [rd EXCEPT ![t] = NoInode]
  /\ ExistReturns(t, req[t].key \in KeysOf(content[rd[t]]))
  /\ UNCHANGED <<dir, content, req, wr, buf>>

(* get_value.                                                              *)

GetOpen(t) ==
  /\ At(t, "get_open")
  /\ \/ /\ Exists(Data)
        /\ rd' = [rd EXCEPT ![t] = dir[Data]]
        /\ Goto(t, "get_scan")
     \/ /\ Faults \/ ~Exists(Data)
        /\ Returns(t, Result(-1))
        /\ UNCHANGED rd
  /\ UNCHANGED <<dir, content, req, wr, buf>>

GetScan(t) ==
  LET k == req[t].key
      s == content[rd[t]]
  IN /\ At(t, "get_scan")
     /\ rd' = [rd EXCEPT ![t] = NoInode]
     /\ Returns(t, IF k \in KeysOf(s) THEN [res |-> 0, val |-> Lookup(s, k)]
                                      ELSE Result(-1))
     /\ UNCHANGED <<dir, content, req, wr, buf>>

(* destroy: one fopen(., "w").                                             *)

Destroy(t) ==
  /\ At(t, "destroy")
  /\ \/ (\E i \in Inode : Truncates(Data, i)) /\ Returns(t, Result(0))
     \/ Faults /\ UNCHANGED fileVars /\ Returns(t, Result(-1))
  /\ UNCHANGED <<req, rd, wr, buf>>

(* set_value, once exist has returned 0.                                   *)

\* (Mutant: "w" instead of "a".)
SetOpenTruncating(t) ==
  /\ At(t, "set_open")
  /\ \E i \in Inode : Truncates(Data, i) /\ wr' = [wr EXCEPT ![t] = i]
  /\ Goto(t, "set_flush")
  /\ UNCHANGED <<req, rd, buf>>

SetOpen(t) ==
  /\ At(t, "set_open")
  /\ \/ /\ \E i \in Inode : Appends(Data, i) /\ wr' = [wr EXCEPT ![t] = i]
        /\ Goto(t, "set_flush")
     \/ Faults /\ UNCHANGED <<dir, content, wr>> /\ Returns(t, Result(-1))
  /\ UNCHANGED <<req, rd, buf>>

\* O_APPEND: the line goes where the file ends at that moment.
SetFlush(t) ==
  LET l == [key |-> req[t].key, val |-> Printed[req[t].val]]
  IN /\ At(t, "set_flush")
     /\ Writes(wr[t], Append(content[wr[t]], l))
     /\ wr' = [wr EXCEPT ![t] = NoInode]
     /\ Returns(t, Result(0))
     /\ UNCHANGED <<dir, req, rd, buf>>

(* delete_key, once exist has returned 1.                                  *)

DelOpen(t) ==
  /\ At(t, "del_open")
  /\ \/ /\ Exists(Data)
        /\ rd' = [rd EXCEPT ![t] = dir[Data]]
        /\ Goto(t, "del_temp")
     \/ /\ Faults \/ ~Exists(Data)
        /\ Returns(t, Result(-1))
        /\ UNCHANGED rd
  /\ UNCHANGED <<dir, content, req, wr, buf>>

\* (Mutant: "a" instead of "w".)
DelTempAppending(t) ==
  /\ At(t, "del_temp")
  /\ \E i \in Inode : Appends(Temp, i) /\ wr' = [wr EXCEPT ![t] = i]
  /\ Goto(t, "del_scan")
  /\ UNCHANGED <<req, rd, buf>>

\* (Mutant: no fclose(file) when temp.txt cannot be opened.)
DelTempLeaking(t) ==
  /\ At(t, "del_temp")
  /\ \/ /\ \E i \in Inode : Truncates(Temp, i) /\ wr' = [wr EXCEPT ![t] = i]
        /\ Goto(t, "del_scan")
     \/ /\ Faults
        /\ Returns(t, Result(-1))
        /\ UNCHANGED <<dir, content, wr>>
  /\ UNCHANGED <<req, rd, buf>>

DelTemp(t) ==
  /\ At(t, "del_temp")
  /\ \/ /\ \E i \in Inode : Truncates(Temp, i) /\ wr' = [wr EXCEPT ![t] = i]
        /\ Goto(t, "del_scan")
        /\ UNCHANGED rd
     \/ /\ Faults
        /\ Returns(t, Result(-1))
        /\ rd' = [rd EXCEPT ![t] = NoInode]
        /\ UNCHANGED <<dir, content, wr>>
  /\ UNCHANGED <<req, buf>>

\* The copying loop; each number goes through "%lf" once more.
Reprinted(s) ==
  [n \in DOMAIN s |-> [key |-> s[n].key, val |-> Printed[s[n].val]]]

\* (Mutant: no fclose(file) after the loop.)
DelScanLeaking(t) ==
  /\ At(t, "del_scan")
  /\ buf' = [buf EXCEPT ![t] = Reprinted(Without(content[rd[t]], req[t].key))]
  /\ Goto(t, "del_flush")
  /\ UNCHANGED <<dir, content, req, rd, wr>>

DelScan(t) ==
  /\ At(t, "del_scan")
  /\ buf' = [buf EXCEPT ![t] = Reprinted(Without(content[rd[t]], req[t].key))]
  /\ rd' = [rd EXCEPT ![t] = NoInode]
  /\ Goto(t, "del_flush")
  /\ UNCHANGED <<dir, content, req, wr>>

\* fclose(temp): the stream is at offset 0, whatever the file holds by now.
DelFlush(t) ==
  /\ At(t, "del_flush")
  /\ Writes(wr[t], Overlay(content[wr[t]], buf[t]))
  /\ wr' = [wr EXCEPT ![t] = NoInode]
  /\ buf' = [buf EXCEPT ![t] = <<>>]
  /\ Goto(t, "del_remove")
  /\ UNCHANGED <<dir, req, rd>>

\* remove("data.txt"), whose result nobody looks at.
DelRemove(t) ==
  /\ At(t, "del_remove")
  /\ dir' = [dir EXCEPT ![Data] = NoInode]
  /\ Goto(t, "del_rename")
  /\ UNCHANGED <<content, req, rd, wr, buf>>

\* rename("temp.txt", "data.txt"), which fails if temp.txt is gone.
DelRename(t) ==
  /\ At(t, "del_rename")
  /\ dir' = IF Exists(Temp)
              THEN [n \in FileName |-> IF n = Data THEN dir[Temp] ELSE NoInode]
              ELSE dir
  /\ Returns(t, Result(0))
  /\ UNCHANGED <<content, req, rd, wr, buf>>

-----------------------------------------------------------------------------
\* One step of the function that t executes.
ClavesStep(t) ==
  \/ ExistOpen(t) \/ ExistScan(t)
  \/ GetOpen(t) \/ GetScan(t)
  \/ Destroy(t)
  \/ SetOpen(t) \/ SetFlush(t)
  \/ DelOpen(t) \/ DelTemp(t) \/ DelScan(t)
  \/ DelFlush(t) \/ DelRemove(t) \/ DelRename(t)
=============================================================================
