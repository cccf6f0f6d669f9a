------------------------------ MODULE FsServer ------------------------------
(***************************************************************************)
(* The file server (fs/serv.c) and the library of its clients (lib/file.c, *)
(* lib/fd.c).                                                              *)
(*                                                                         *)
(* An open file is a page with a struct Fd that the server shares with the *)
(* clients that have it open; the server tells from the reference count of *)
(* the page whether its table entry is in use.  Clients map and unmap the  *)
(* page without telling the server: by dup, close, fork, and by dying.     *)
(* What an operation does to its file is not modelled (FileSys): an        *)
(* operation is the file it acts on.                                       *)
(***************************************************************************)
EXTENDS Naturals, FiniteSets

CONSTANTS
  Client, Born,  \* environments, and those that exist at the start
  Nobody,
  File, NoFile,
  MAXOPEN,       \* entries of the server's table
  MAXFD,         \* descriptors of a client
  MaxOpens,      \* bound on the calls of open; ids wrap much later in the code
  Forgers        \* clients that send any id they ever saw, not only open ones

ASSUME FsServerAssumption ==
  /\ IsFiniteSet(Client) /\ Born \subseteq Client /\ Forgers \subseteq Client
  /\ Nobody \notin Client /\ NoFile \notin File
  /\ MAXOPEN \in Nat \ {0} /\ MAXFD \in Nat \ {0} /\ MaxOpens \in Nat

Slot == 0..MAXOPEN-1
Closed == MAXOPEN           \* an fd number that is not mapped
Fd == 0..MAXFD-1
NoFd == MAXFD
\* A file id, entry + generation * MAXOPEN in the code.
FileId == Slot \X (0..MaxOpens)
NoId == <<0, 0>>
NoRequest == [op |-> "none", file |-> NoFile, id |-> NoId]

VARIABLES
  fd,        \* fd[c][n]: the entry whose page client c has mapped at n
  pageId,    \* pageId[s]: fd_file.id in the page of entry s
  gen,       \* gen[s]: generation in o_fileid of entry s
  file,      \* file[s]: o_file of entry s
  mapped,    \* entries whose page the server has allocated
  at,        \* at[c]: where client c is in fsipc
  req,       \* req[c]: its request
  num,       \* num[c]: the descriptor the request is for
  after,     \* after[c]: what c does when it has the answer
  srv,       \* where the server is
  whom,      \* the client it serves
  job,       \* the request, in a page it shares with the client
  scan,      \* the entry openfile_alloc looks at
  answer,    \* "ok" or an error
  used,      \* the file the operation acted on, or the one it opened
  issued,    \* history: issued[i]: the file that was opened as id i
  full,      \* history: every entry was in use when the request came
  opens      \* calls of open so far

clientVars == <<at, req, num, after>>
tableVars == <<pageId, gen, file, mapped, issued>>
serverVars == <<srv, whom, job, scan, answer, used, full>>
vars == <<fd, clientVars, tableVars, serverVars, opens>>

\* Where a client is: it runs, in the loop of ipc_send, between ipc_send and
\* ipc_recv, in ipc_recv; or it is gone.
At == {"run", "send", "sent", "recv", "unborn", "dead"}
After == {"none", "unmap", "dup", "exit"}

Init ==
  /\ fd = [c \in Client |-> [n \in Fd |-> Closed]]
  /\ pageId = [s \in Slot |-> NoId] /\ gen = [s \in Slot |-> 0]
  /\ file = [s \in Slot |-> NoFile] /\ mapped = {}
  /\ at = [c \in Client |-> IF c \in Born THEN "run" ELSE "unborn"]
  /\ req = [c \in Client |-> NoRequest]
  /\ num = [c \in Client |-> NoFd] /\ after = [c \in Client |-> "none"]
  /\ srv = "recv" /\ whom = Nobody
  /\ job = NoRequest /\ opens = 0
  /\ scan = 0 /\ answer = "ok" /\ used = NoFile /\ full = FALSE
  /\ issued = [i \in FileId |-> NoFile]

PageRef(s) == Cardinality({x \in Client \X Fd : fd[x[1]][x[2]] = s})
              + (IF s \in mapped THEN 1 ELSE 0)
\* Mutant: an entry is taken for in use when only the server has its page.
InUse_Mapped(s) == PageRef(s) > 0
InUse(s) == PageRef(s) > 1

\* A panic is a breakpoint, which enters the monitor of the kernel; that keeps
\* the big kernel lock, and nobody makes another step.  The panics here: of
\* ipc_send because the server has no memory to map the request, because the
\* client is gone or because it has no memory to map its descriptor; and of the
\* file system in an operation (no memory for the block cache, for example).
Panics == {"requestUnmapped", "clientDied", "fdUnmapped", "operation"}
Up == srv \notin Panics

-----------------------------------------------------------------------------
(* Clients.                                                                *)

Ask(c, r, n, then) ==
  /\ at' = [at EXCEPT ![c] = "send"]
  /\ req' = [req EXCEPT ![c] = r]
  /\ num' = [num EXCEPT ![c] = n]
  /\ after' = [after EXCEPT ![c] = then]
  /\ UNCHANGED <<fd, tableVars, serverVars>>

Running(c) == at[c] = "run" /\ after[c] = "none"
Opened(c, n) == fd[c][n] # Closed

\* fd_alloc: the lowest number that is not mapped.
Open(c, f) ==
  /\ Running(c)
  /\ \E n \in Fd :
       /\ ~Opened(c, n) /\ \A k \in 0..n-1 : Opened(c, k)
       /\ Ask(c, [op |-> "open", file |-> f, id |-> NoId], n, "none")
  /\ opens < MaxOpens /\ opens' = opens + 1

OnFile(c, n) == [op |-> "use", file |-> NoFile, id |-> pageId[fd[c][n]]]

\* read, write, ftruncate, fstat: the id is the one in the page.
Use(c, n) == Running(c) /\ Opened(c, n) /\ Ask(c, OnFile(c, n), NoFd, "none")

\* A program that calls the server with an id of its own.
Forge(c) ==
  /\ Running(c) /\ c \in Forgers
  /\ \E i \in FileId :
       issued[i] # NoFile /\ Ask(c, [op |-> "use", file |-> NoFile, id |-> i], NoFd, "none")

\* close: devfile_flush, then unmap.
Close(c, n) == Running(c) /\ Opened(c, n) /\ Ask(c, OnFile(c, n), n, "unmap")

SetFd(c, n, s) == fd' = [fd EXCEPT ![c][n] = s]

\* dup(old, new) with the lowest open old: close new if it is open, then map.
Source(c, n) == {m \in Fd \ {n} : Opened(c, m) /\ \A k \in 0..m-1 : k = n \/ ~Opened(c, k)}
Dup(c, n) ==
  /\ Running(c)
  /\ \E m \in Source(c, n) :
       IF Opened(c, n) THEN Ask(c, OnFile(c, n), n, "dup")
       ELSE SetFd(c, n, fd[c][m]) /\ UNCHANGED <<clientVars, tableVars, serverVars>>

\* exit: close_all, one descriptor after the other, then the environment ends.
Gone(c) ==
  /\ fd' = [fd EXCEPT ![c] = [n \in Fd |-> Closed]]
  /\ at' = [at EXCEPT ![c] = "dead"]
  /\ req' = [req EXCEPT ![c] = NoRequest]
  /\ num' = [num EXCEPT ![c] = NoFd]
  /\ after' = [after EXCEPT ![c] = "none"]
  /\ UNCHANGED <<tableVars, serverVars>>
Exit(c) ==
  /\ at[c] = "run" /\ after[c] \in {"none", "exit"}
  /\ IF \E n \in Fd : Opened(c, n)
     THEN \E n \in Fd : /\ Opened(c, n) /\ \A k \in 0..n-1 : ~Opened(c, k)
                        /\ Ask(c, OnFile(c, n), n, "exit")
     ELSE Gone(c)

\* A fault, or its parent destroys it.
Die(c) == at[c] \notin {"unborn", "dead"} /\ Gone(c)

\* The child shares the pages: they are mapped PTE_SHARE.
Fork(c, d) ==
  /\ Running(c) /\ at[d] = "unborn"
  /\ fd' = [fd EXCEPT ![d] = fd[c]]
  /\ at' = [at EXCEPT ![d] = "run"]
  /\ UNCHANGED <<req, num, after, tableVars, serverVars>>

\* sys_ipc_try_send maps the request and wakes the server, when that is in
\* ipc_recv.  The server needs memory for the page table of the first request.
Send(c) ==
  /\ at[c] = "send" /\ srv = "recv"
  /\ \/ /\ at' = [at EXCEPT ![c] = "sent"]
        /\ srv' = "serve" /\ whom' = c /\ job' = req[c]
        /\ full' = (req[c].op = "open" /\ \A s \in Slot : InUse(s))
     \/ mapped = {} /\ srv' = "requestUnmapped" /\ UNCHANGED <<at, whom, job, full>>
  /\ UNCHANGED <<fd, req, num, after, tableVars, scan, answer, used>>

Recv(c) ==
  /\ at[c] = "sent"
  /\ at' = [at EXCEPT ![c] = "recv"]
  /\ UNCHANGED <<fd, req, num, after, tableVars, serverVars>>

-----------------------------------------------------------------------------
(* The server.                                                             *)

Answer(a, f) == srv' = "reply" /\ answer' = a /\ used' = f

\* Mutant: the generation of the id is not compared.
Names_AnyGeneration(s, i) == TRUE
Names(s, i) == gen[s] = i[2]

\* Mutant: a request that names no open file is not answered.
Refuse_Silently == srv' = "recv" /\ UNCHANGED <<answer, used>>
Refuse == Answer("inval", NoFile)

\* The operation panics.
Fail == srv' = "operation" /\ UNCHANGED <<answer, used>>

\* openfile_lookup and the operation.
ServeUse ==
  /\ srv = "serve" /\ job.op = "use"
  /\ LET i == job.id
         s == i[1]
     IN IF InUse(s) /\ Names(s, i) THEN Answer("ok", file[s]) \/ Fail ELSE Refuse
  /\ UNCHANGED <<fd, clientVars, tableVars, whom, job, scan, full>>

StartOpen ==
  /\ srv = "serve" /\ job.op = "open"
  /\ srv' = "scan" /\ scan' = 0
  /\ UNCHANGED <<fd, clientVars, tableVars, whom, job, answer, used, full>>

\* Mutant: an entry with one client is taken.
Available_OneClient(s) == PageRef(s) <= 2
\* Mutant: an entry is used only once.
Available_OnlyNew(s) == PageRef(s) = 0
Available(s) == PageRef(s) <= 1

\* One turn of the loop of openfile_alloc, and what serve_open does with the
\* entry it finds.  The file may be missing or the disk full: the entry is then
\* left with its new generation.
Scan ==
  /\ srv = "scan"
  /\ \/ /\ scan = MAXOPEN
        /\ Answer("max_open", NoFile)
        /\ UNCHANGED <<tableVars, scan>>
     \/ /\ scan < MAXOPEN /\ ~Available(scan)
        /\ scan' = scan + 1
        /\ UNCHANGED <<tableVars, srv, answer, used>>
     \/ /\ scan < MAXOPEN /\ PageRef(scan) = 0    \* no memory for the page
        /\ Answer("error", NoFile)
        /\ UNCHANGED <<tableVars, scan>>
     \/ /\ scan < MAXOPEN /\ Available(scan) /\ gen[scan] < MaxOpens
        /\ gen' = [gen EXCEPT ![scan] = @ + 1]
        /\ mapped' = mapped \cup {scan}
        /\ \/ /\ pageId' = [pageId EXCEPT ![scan] = NoId]
              /\ Answer("error", NoFile) \/ Fail
              /\ UNCHANGED <<file, issued>>
           \/ LET f == job.file
                  i == <<scan, gen[scan] + 1>>
              IN /\ pageId' = [pageId EXCEPT ![scan] = i]
                 /\ file' = [file EXCEPT ![scan] = f]
                 /\ issued' = [issued EXCEPT ![i] = f]
                 /\ Answer("opened", f)
        /\ UNCHANGED scan
  /\ UNCHANGED <<fd, clientVars, whom, job, full>>

\* ipc_send waits until the client is in ipc_recv.  It panics when the client is
\* gone, or has no page table for the page of its first descriptor and no memory.
Reply ==
  /\ srv = "reply"
  /\ \/ /\ at[whom] = "dead"
        /\ srv' = "clientDied"
        /\ UNCHANGED <<fd, clientVars>>
     \/ /\ at[whom] = "recv" /\ answer = "opened"
        /\ \A n \in Fd : ~Opened(whom, n)
        /\ srv' = "fdUnmapped"
        /\ UNCHANGED <<fd, clientVars>>
     \/ /\ at[whom] = "recv"
        /\ srv' = "recv"
        /\ at' = [at EXCEPT ![whom] = "run"]
        /\ req' = [req EXCEPT ![whom] = NoRequest]
        /\ num' = [num EXCEPT ![whom] = NoFd]
        /\ LET n == num[whom] IN
           CASE answer = "opened" -> SetFd(whom, n, scan)
             [] after[whom] \in {"unmap", "exit"} -> SetFd(whom, n, Closed)
             [] after[whom] = "dup" ->
                  \E m \in Source(whom, n) : SetFd(whom, n, fd[whom][m])
             [] OTHER -> UNCHANGED fd
        /\ after' = [after EXCEPT ![whom] = IF @ = "exit" THEN @ ELSE "none"]
  /\ answer' = "ok" /\ used' = NoFile /\ scan' = 0 /\ full' = FALSE
  /\ job' = NoRequest /\ whom' = Nobody
  /\ UNCHANGED tableVars

-----------------------------------------------------------------------------
Program(c) ==
  /\ Up
  /\ \/ \E n \in Fd : Use(c, n) \/ Close(c, n) \/ Dup(c, n)
     \/ \E d \in Client : Fork(c, d)
     \/ Forge(c) \/ Exit(c) \/ Die(c)
Library(c) == Up /\ (Send(c) \/ Recv(c))
Server == ServeUse \/ StartOpen \/ Scan \/ Reply

Next ==
  \/ \E c \in Client, f \in File : Up /\ Open(c, f)
  \/ (Server \/ \E c \in Client : Program(c) \/ Library(c)) /\ UNCHANGED opens

Spec == Init /\ [][Next]_vars

\* The scheduler starves nobody (Kernel!NoStarvation); what programs do is up
\* to them.
FairSpec == Spec /\ WF_vars(Server /\ UNCHANGED opens) /\ \A c \in Client : WF_vars(Library(c) /\ UNCHANGED opens)

-----------------------------------------------------------------------------
(* Properties.                                                             *)

\* A client that has a descriptor open reaches the file it opened, whoever
\* opened, closed, forked or died in between: the entry was not given away and
\* the id in the page is the entry's.
FdNamesItsFile == \A c \in Client, n \in Fd : Opened(c, n) =>
  LET s == fd[c][n] IN
  /\ pageId[s] = <<s, gen[s]>>
  /\ file[s] = issued[pageId[s]] /\ file[s] # NoFile

\* An operation is granted only while some client has a descriptor with its id,
\* and it acts on the file that was opened under that id.  So an id that is
\* closed everywhere is refused, whether its entry was given out again or not.
StaleIdRefused ==
  [][srv = "serve" /\ job.op = "use" /\ srv' = "reply" /\ answer' = "ok" =>
       /\ used' = issued[job.id]
       /\ \E c \in Client, n \in Fd : Opened(c, n) /\ pageId[fd[c][n]] = job.id]_vars

\* open fails for want of an entry only if all were in use when it was called:
\* failed opens and dead clients keep none.
FullMeansFull == srv = "reply" /\ answer = "max_open" => full

\* A client whose request was taken gets its answer, or is destroyed, unless a
\* panic stops the machine: of the server, in the operation or because the
\* client it answers is gone or short of memory, or of a client that cannot send.
Answered == \A c \in Client :
  at[c] \in {"sent", "recv"} ~> (at[c] \in {"run", "dead"} \/ srv \in Panics)
=============================================================================
