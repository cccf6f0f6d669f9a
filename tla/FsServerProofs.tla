--------------------------- MODULE FsServerProofs ---------------------------
(***************************************************************************)
(* The file server and its clients, for any number of clients, descriptors *)
(* and entries: a descriptor names the file it was opened for, an id that  *)
(* nobody has a descriptor for is refused, and open fails only if every    *)
(* entry is in use.                                                        *)
(*                                                                         *)
(* All three rest on what the reference count of a page tells the server   *)
(* about the descriptors of its clients.                                   *)
(***************************************************************************)
EXTENDS FsServer, FiniteSetTheorems, TLAPS

Request == [op : {"none", "open", "use"}, file : File \cup {NoFile}, id : FileId]

TableType ==
  /\ fd \in [Client -> [Fd -> 0..MAXOPEN]]
  /\ pageId \in [Slot -> FileId] /\ gen \in [Slot -> 0..MaxOpens]
  /\ file \in [Slot -> File \cup {NoFile}]
  /\ mapped \subseteq Slot
  /\ issued \in [FileId -> File \cup {NoFile}]
RequestType ==
  /\ at \in [Client -> At] /\ after \in [Client -> After]
  /\ req \in [Client -> Request]
  /\ num \in [Client -> 0..MAXFD]
ServerType ==
  /\ srv \in {"recv", "serve", "scan", "reply"} \cup Panics
  /\ whom \in Client \cup {Nobody} /\ job \in Request
  /\ scan \in 0..MAXOPEN /\ used \in File \cup {NoFile}
  /\ answer \in {"ok", "inval", "max_open", "error", "opened"}
  /\ full \in BOOLEAN
TypeInv == TableType /\ RequestType /\ ServerType

\* An open asks for a file.
OpenNamesFile ==
  /\ \A c \in Client : req[c].op = "open" => req[c].file \in File
  /\ job.op = "open" => job.file \in File

\* The server has the page of every descriptor.
FdMapped == \A c \in Client, n \in Fd : Opened(c, n) => fd[c][n] \in mapped

\* What the table must say of an entry that a client has.
Valid(s) ==
  /\ pageId[s] = <<s, gen[s]>>
  /\ file[s] = issued[pageId[s]] /\ file[s] # NoFile

\* The entry the server is about to hand out is one.
GrantValid == srv = "reply" /\ answer = "opened" =>
  scan \in Slot /\ scan \in mapped /\ Valid(scan)

Unreferenced(s) == \A c \in Client, n \in Fd : fd[c][n] # s

\* While the server looks for an entry, one that was free when it began to
\* look, and that it has not looked at, is still free.
ScanFinds ==
  /\ srv = "serve" /\ job.op = "open" => full \/ \E s \in Slot : Unreferenced(s)
  /\ srv = "scan" => job.op = "open"
       /\ (full \/ \E s \in Slot : s >= scan /\ Unreferenced(s))

IInv == /\ TypeInv /\ OpenNamesFile /\ FdMapped /\ FdNamesItsFile
        /\ GrantValid /\ ScanFinds /\ FullMeansFull

-----------------------------------------------------------------------------
(* What a reference count tells.                                           *)

\* pageref at most 1: no client has the page.
LEMMA RefTells ==
  ASSUME TableType, FdMapped, NEW s \in Slot
  PROVE  PageRef(s) \in Nat /\ (PageRef(s) <= 1 <=> Unreferenced(s))
<1> DEFINE R == {x \in Client \X Fd : fd[x[1]][x[2]] = s}
<1>1. IsFiniteSet(Client \X Fd)
  <2>1. IsFiniteSet(Client) BY FsServerAssumption
  <2>2. IsFiniteSet(Fd)
    <3>1. 0 \in Int /\ MAXFD - 1 \in Int BY FsServerAssumption
    <3> QED BY <3>1, FS_Interval, Zenon DEF Fd
  <2> QED BY <2>1, <2>2, FS_Product
<1>2. IsFiniteSet(R) /\ R \in SUBSET (Client \X Fd)
  BY <1>1, FS_Subset
<1>3. Cardinality(R) \in Nat /\ (Cardinality(R) = 0 <=> R = {})
  BY <1>2, FS_EmptySet, FS_CardinalityType
<1>4. R = {} <=> Unreferenced(s)
  <2>1. ASSUME R = {}, NEW c \in Client, NEW n \in Fd, fd[c][n] = s PROVE FALSE
    <3>1. <<c, n>> \in R BY <2>1
    <3> QED BY <2>1, <3>1
  <2>2. ASSUME Unreferenced(s), NEW x \in R PROVE FALSE
    BY <2>2 DEF Unreferenced
  <2> QED BY <2>1, <2>2 DEF Unreferenced
<1>5. ~Unreferenced(s) => s \in mapped
  <2>1. s # Closed BY FsServerAssumption DEF Slot, Closed
  <2> QED BY <2>1 DEF Unreferenced, FdMapped, Opened
<1>6. PageRef(s) = Cardinality(R) + (IF s \in mapped THEN 1 ELSE 0)
  BY DEF PageRef
<1> QED BY <1>3, <1>4, <1>5, <1>6

-----------------------------------------------------------------------------
(* Steps of clients.                                                       *)

\* A descriptor after the step is one that somebody had before it.
FdFrom == \A c \in Client, n \in Fd :
  fd'[c][n] = Closed \/ \E d \in Client, m \in Fd : fd'[c][n] = fd[d][m]

\* Whatever clients do to descriptors, the table keeps its promises.
LEMMA ClientsKeepTable ==
  ASSUME IInv, TypeInv', OpenNamesFile', FdFrom, UNCHANGED <<tableVars, serverVars>>
  PROVE  IInv'
<1> USE FsServerAssumption
<1>1. UNCHANGED <<pageId, gen, file, mapped, issued, srv, whom, job, scan, answer, used, full>>
  BY DEF tableVars, serverVars
<1>2. \A s : Valid(s)' <=> Valid(s)
  BY <1>1, Zenon DEF Valid
<1>3. FdMapped' /\ FdNamesItsFile'
  <2> SUFFICES ASSUME NEW c \in Client, NEW n \in Fd, NEW s, s = fd'[c][n], s # Closed
               PROVE  s \in mapped' /\ Valid(s)'
    BY DEF FdMapped, FdNamesItsFile, Opened, Valid
  <2>1. PICK d \in Client, m \in Fd : s = fd[d][m]
    BY DEF FdFrom
  <2>2. s \in mapped /\ Valid(s)
    BY <2>1 DEF IInv, FdMapped, FdNamesItsFile, Opened, Valid
  <2> QED BY <2>2, <1>1, <1>2
<1>4. GrantValid' /\ FullMeansFull'
  BY <1>1, <1>2 DEF IInv, GrantValid, FullMeansFull
<1>5. \A s \in Slot : Unreferenced(s) => Unreferenced(s)'
  <2> SUFFICES ASSUME NEW s \in Slot, Unreferenced(s), NEW c \in Client, NEW n \in Fd
               PROVE  fd'[c][n] # s
    BY DEF Unreferenced
  <2>1. s # Closed BY DEF Slot, Closed
  <2> QED BY <2>1 DEF FdFrom, Unreferenced
<1>6. ScanFinds'
  BY <1>1, <1>5 DEF IInv, ScanFinds
<1> QED BY <1>3, <1>4, <1>6 DEF IInv

\* What is to be shown of the descriptors after a step, for a descriptor s.
LEMMA DescriptorsAfter ==
  ASSUME \A c \in Client, n \in Fd : \A s : s = fd'[c][n] /\ s # Closed => s \in mapped' /\ Valid(s)'
  PROVE  FdMapped' /\ FdNamesItsFile'
BY DEF FdMapped, FdNamesItsFile, Opened, Valid

\* A step that leaves the descriptors alone.
LEMMA SameFd == ASSUME UNCHANGED fd PROVE FdFrom
  BY DEF FdFrom

\* A request to the server changes nothing but the client.
LEMMA AskKeeps ==
  ASSUME IInv, NEW c \in Client, NEW r \in Request, NEW n \in 0..MAXFD, NEW then \in After,
         Ask(c, r, n, then), r.op = "open" => r.file \in File
  PROVE  IInv'
<1>1. RequestType'
  BY DEF Ask, IInv, TypeInv, RequestType, At
<1>2. TableType' /\ ServerType'
  BY DEF Ask, IInv, TypeInv, TableType, ServerType, tableVars, serverVars
<1>3. OpenNamesFile'
  BY DEF Ask, IInv, OpenNamesFile, TypeInv, RequestType, serverVars
<1> QED BY <1>1, <1>2, <1>3, SameFd, ClientsKeepTable DEF Ask, TypeInv

\* What a library function asks of its descriptor is a request.
LEMMA OnFileType ==
  ASSUME TypeInv, NEW c \in Client, NEW n \in Fd, Opened(c, n)
  PROVE  OnFile(c, n) \in Request /\ OnFile(c, n).op = "use"
<1>1. fd[c][n] \in Slot
  BY FsServerAssumption DEF TypeInv, TableType, Opened, Closed, Slot
<1> QED BY <1>1 DEF OnFile, Request, TypeInv, TableType

\* The number of no descriptor, and the id of no entry.
LEMMA NumType == NoFd \in 0..MAXFD /\ Fd \subseteq 0..MAXFD /\ NoId \in FileId
  BY FsServerAssumption DEF NoFd, Fd, NoId, FileId, Slot

\* The environment is gone, and its descriptors with it.
LEMMA GoneKeeps == ASSUME IInv, NEW c \in Client, Gone(c) PROVE IInv'
<1> USE FsServerAssumption, NumType
<1>1. TypeInv'
  <2>1. TableType'
    <3>1. fd' \in [Client -> [Fd -> 0..MAXOPEN]]
      BY DEF Gone, IInv, TypeInv, TableType, Closed
    <3> QED BY <3>1 DEF Gone, IInv, TypeInv, TableType, tableVars
  <2>2. RequestType'
    BY DEF Gone, IInv, TypeInv, RequestType, At, After, NoRequest, Request
  <2>3. ServerType'
    BY DEF Gone, IInv, TypeInv, ServerType, serverVars
  <2> QED BY <2>1, <2>2, <2>3 DEF TypeInv
<1>2. OpenNamesFile'
  BY DEF Gone, IInv, OpenNamesFile, TypeInv, RequestType, serverVars, NoRequest
<1>3. FdFrom
  <2> SUFFICES ASSUME NEW d \in Client, NEW n \in Fd
               PROVE  fd'[d][n] = Closed \/ fd'[d][n] = fd[d][n]
    BY DEF FdFrom
  <2> QED BY DEF Gone, IInv, TypeInv, TableType
<1> QED BY <1>1, <1>2, <1>3, ClientsKeepTable DEF Gone

\* sys_page_map of a descriptor's page at another number of the same client.
LEMMA SetFdType ==
  ASSUME TypeInv, NEW c \in Client, NEW n, NEW s \in 0..MAXOPEN, SetFd(c, n, s)
  PROVE  /\ fd' \in [Client -> [Fd -> 0..MAXOPEN]]
         /\ \A d \in Client, k \in Fd :
              fd'[d][k] = IF d = c /\ k = n THEN s ELSE fd[d][k]
BY DEF SetFd, TypeInv, TableType

\* open() asks for a descriptor page the client does not use yet.
LEMMA OpenKeeps == ASSUME IInv, NEW c \in Client, NEW f \in File, Open(c, f) PROVE IInv'
<1> DEFINE r == [op |-> "open", file |-> f, id |-> NoId]
<1>1. r \in Request /\ r.op = "open" /\ r.file \in File /\ "none" \in After
  BY NumType DEF Request, After
<1>2. PICK n \in Fd : Ask(c, r, n, "none")
  BY DEF Open
<1> QED BY <1>1, <1>2, NumType, AskKeeps

\* Every other step of a program or of its library.
LEMMA ProgramKeeps == ASSUME IInv, NEW c \in Client, Program(c) PROVE IInv'
<1> USE FsServerAssumption, NumType DEF After
<1>t. TypeInv BY DEF IInv
<1>1. ASSUME NEW n \in Fd, Use(c, n) \/ Close(c, n) PROVE IInv'
  <2>1. OnFile(c, n) \in Request /\ OnFile(c, n).op = "use"
    BY <1>1, <1>t, OnFileType DEF Use, Close
  <2>2. Ask(c, OnFile(c, n), NoFd, "none") \/ Ask(c, OnFile(c, n), n, "unmap")
    BY <1>1 DEF Use, Close
  <2> QED BY <2>1, <2>2, AskKeeps
<1>2. ASSUME NEW n \in Fd, Dup(c, n) PROVE IInv'
  <2>1. CASE Opened(c, n)
    <3>1. OnFile(c, n) \in Request /\ OnFile(c, n).op = "use"
      BY <2>1, <1>t, OnFileType
    <3>2. Ask(c, OnFile(c, n), n, "dup")
      BY <1>2, <2>1 DEF Dup
    <3> QED BY <3>1, <3>2, AskKeeps
  <2>2. CASE ~Opened(c, n)
    <3>1. PICK m \in Fd : /\ SetFd(c, n, fd[c][m])
                          /\ UNCHANGED <<clientVars, tableVars, serverVars>>
      BY <1>2, <2>2 DEF Dup, Source
    <3>2. fd[c][m] \in 0..MAXOPEN
      BY <1>t DEF TypeInv, TableType
    <3>3. /\ fd' \in [Client -> [Fd -> 0..MAXOPEN]]
          /\ \A d \in Client, k \in Fd :
               fd'[d][k] = IF d = c /\ k = n THEN fd[c][m] ELSE fd[d][k]
      BY <3>1, <3>2, <1>t, SetFdType
    <3>4. FdFrom
      BY <3>3 DEF FdFrom
    <3>5. TypeInv' /\ OpenNamesFile'
      BY <3>1, <3>3, <1>t
      DEF IInv, TypeInv, TableType, RequestType, ServerType, OpenNamesFile,
          clientVars, tableVars, serverVars
    <3> QED BY <3>1, <3>4, <3>5, ClientsKeepTable
  <2> QED BY <2>1, <2>2
<1>3. ASSUME NEW d \in Client, Fork(c, d) PROVE IInv'
  <2>1. fd' \in [Client -> [Fd -> 0..MAXOPEN]] /\ at' \in [Client -> At]
    BY <1>3, <1>t DEF Fork, TypeInv, TableType, RequestType, At
  <2>2. TypeInv' /\ OpenNamesFile'
    BY <1>3, <2>1, <1>t
    DEF Fork, IInv, TypeInv, TableType, RequestType, ServerType, OpenNamesFile,
        tableVars, serverVars
  <2>3. FdFrom
    <3> SUFFICES ASSUME NEW e \in Client, NEW n \in Fd
                 PROVE  fd'[e][n] = fd[c][n] \/ fd'[e][n] = fd[e][n]
      BY DEF FdFrom
    <3> QED BY <1>3, <1>t DEF Fork, TypeInv, TableType
  <2> QED BY <1>3, <2>2, <2>3, ClientsKeepTable DEF Fork
<1>4. CASE Forge(c)
  <2>1. PICK i \in FileId : Ask(c, [op |-> "use", file |-> NoFile, id |-> i], NoFd, "none")
    BY <1>4 DEF Forge
  <2>2. [op |-> "use", file |-> NoFile, id |-> i] \in Request
    BY DEF Request
  <2> QED BY <2>1, <2>2, AskKeeps
<1>5. CASE Exit(c)
  <2>1. ASSUME NEW n \in Fd, Opened(c, n), Ask(c, OnFile(c, n), n, "exit") PROVE IInv'
    <3>1. OnFile(c, n) \in Request /\ OnFile(c, n).op = "use"
      BY <2>1, <1>t, OnFileType
    <3> QED BY <2>1, <3>1, AskKeeps
  <2> QED BY <1>5, <2>1, GoneKeeps DEF Exit
<1>6. CASE Die(c)
  BY <1>6, GoneKeeps DEF Die
<1> QED BY <1>1, <1>2, <1>3, <1>4, <1>5, <1>6 DEF Program

\* The server takes a request only between two others; it saw every entry in
\* use, or one is free.
LEMMA LibraryKeeps == ASSUME IInv, NEW c \in Client, Library(c) PROVE IInv'
<1> USE FsServerAssumption, NumType
<1>t. TypeInv BY DEF IInv
<1>1. CASE Recv(c)
  <2>1. TypeInv' /\ OpenNamesFile'
    BY <1>1, <1>t
    DEF Recv, IInv, TypeInv, TableType, RequestType, ServerType, OpenNamesFile,
        At, tableVars, serverVars
  <2> QED BY <1>1, <2>1, SameFd, ClientsKeepTable DEF Recv
<1>2. ASSUME srv' = "requestUnmapped", UNCHANGED <<at, whom, job, full>>,
             UNCHANGED <<fd, req, num, after, tableVars, scan, answer, used>>
      PROVE  IInv'
  <2>1. UNCHANGED <<pageId, gen, file, mapped, issued>> /\ srv' \in Panics
    BY <1>2 DEF tableVars, Panics
  <2>2. TypeInv' /\ OpenNamesFile'
    BY <1>2, <1>t, <2>1
    DEF IInv, TypeInv, TableType, RequestType, ServerType, OpenNamesFile
  <2>3. FdMapped' /\ FdNamesItsFile'
    BY <1>2, <2>1 DEF IInv, FdMapped, FdNamesItsFile, Opened
  <2> QED BY <1>2, <2>2, <2>3 DEF IInv, GrantValid, ScanFinds, FullMeansFull
<1>3. ASSUME /\ srv' = "serve" /\ whom' = c /\ job' = req[c]
             /\ at' = [at EXCEPT ![c] = "sent"]
             /\ full' = (req[c].op = "open" /\ \A s \in Slot : InUse(s))
             /\ UNCHANGED <<fd, req, num, after, tableVars, scan, answer, used>>
      PROVE  IInv'
  <2>1. UNCHANGED <<pageId, gen, file, mapped, issued>>
    BY <1>3 DEF tableVars
  <2>2. TypeInv' /\ OpenNamesFile'
    BY <1>3, <1>t, <2>1
    DEF IInv, TypeInv, TableType, RequestType, ServerType, OpenNamesFile, At
  <2>3. FdMapped' /\ FdNamesItsFile'
    BY <1>3, <2>1 DEF IInv, FdMapped, FdNamesItsFile, Opened
  <2>4. job'.op = "open" => full' \/ \E s \in Slot : Unreferenced(s)
    <3>1. ASSUME NEW s \in Slot, ~InUse(s) PROVE Unreferenced(s)
      <4>1. PageRef(s) \in Nat => PageRef(s) <= 1
        BY <3>1 DEF InUse
      <4>2. PageRef(s) \in Nat
        BY <1>t, RefTells DEF TypeInv, IInv
      <4> QED BY <4>1, <4>2, <1>t, RefTells DEF TypeInv, IInv
    <3> QED BY <1>3, <3>1
  <2>5. ScanFinds'
    BY <1>3, <2>4 DEF ScanFinds, Unreferenced
  <2> QED BY <1>3, <2>2, <2>3, <2>5 DEF IInv, GrantValid, FullMeansFull
<1> QED BY <1>1, <1>2, <1>3 DEF Library, Send

-----------------------------------------------------------------------------
(* Steps of the server.                                                    *)

\* openfile_lookup: an entry in use has a client, whose descriptor is valid.
LEMMA InUseValid ==
  ASSUME IInv, NEW s \in Slot, InUse(s)
  PROVE  Valid(s)
<1>1. ~Unreferenced(s)
  BY RefTells DEF IInv, TypeInv, InUse
<1>2. PICK c \in Client, n \in Fd : fd[c][n] = s
  BY <1>1 DEF Unreferenced
<1>3. s # Closed
  BY FsServerAssumption DEF Slot, Closed
<1> QED BY <1>2, <1>3 DEF IInv, FdNamesItsFile, Opened, Valid

\* A request that names an entry: it is refused or served.
LEMMA ServeUseKeeps == ASSUME IInv, ServeUse PROVE IInv'
<1> USE FsServerAssumption, NumType
<1> DEFINE i == job.id
           s == job.id[1]
<1>t. TypeInv BY DEF IInv
<1>1. /\ UNCHANGED <<fd, at, req, num, after, pageId, gen, file, mapped, issued>>
      /\ UNCHANGED <<whom, job, scan, full>>
      /\ srv = "serve" /\ job.op = "use" /\ srv' \in {"reply"} \cup Panics
  BY DEF ServeUse, clientVars, tableVars, Answer, Refuse, Fail, Panics
<1>2. s \in Slot /\ i \in FileId /\ i = <<s, i[2]>>
  BY <1>t DEF TypeInv, ServerType, Request, FileId
<1>3. \/ answer' = "ok" /\ used' = file[s]
      \/ answer' = "inval" /\ used' = NoFile
      \/ UNCHANGED <<answer, used>> /\ srv' \in Panics
  BY DEF ServeUse, Answer, Refuse, Fail, Panics
<1>5. file[s] \in File \cup {NoFile}
  BY <1>2, <1>t DEF TypeInv, TableType
<1>6. TypeInv' /\ OpenNamesFile'
  BY <1>1, <1>3, <1>5, <1>t
  DEF IInv, TypeInv, TableType, RequestType, ServerType, OpenNamesFile
<1>7. FdMapped' /\ FdNamesItsFile'
  BY <1>1 DEF IInv, FdMapped, FdNamesItsFile, Opened
<1> QED BY <1>1, <1>3, <1>6, <1>7
    DEF IInv, GrantValid, ScanFinds, FullMeansFull, Panics

\* An operation is granted to the id of a descriptor that somebody has.
LEMMA GrantedToHolder ==
  ASSUME IInv, ServeUse, answer' = "ok", srv' = "reply"
  PROVE  /\ used' = issued[job.id]
         /\ \E c \in Client, n \in Fd : Opened(c, n) /\ pageId[fd[c][n]] = job.id
<1> DEFINE s == job.id[1]
<1>1. InUse(s) /\ gen[s] = job.id[2] /\ used' = file[s]
  BY DEF ServeUse, Answer, Refuse, Fail, Names
<1>2. s \in Slot /\ job.id = <<s, job.id[2]>>
  BY DEF IInv, TypeInv, ServerType, Request, FileId
<1>3. Valid(s) /\ pageId[s] = job.id
  BY <1>1, <1>2, InUseValid DEF Valid
<1>4. ~Unreferenced(s)
  BY <1>1, <1>2, RefTells DEF IInv, TypeInv, InUse
<1>5. PICK c \in Client, n \in Fd : fd[c][n] = s
  BY <1>4 DEF Unreferenced
<1>6. Opened(c, n)
  BY <1>2, <1>5, FsServerAssumption DEF Slot, Opened, Closed
<1> QED BY <1>1, <1>3, <1>5, <1>6 DEF Valid

\* Only openfile_lookup and its caller answer a request that names an entry.
LEMMA OnlyServeUse ==
  ASSUME Next, srv = "serve", job.op = "use", srv' = "reply"
  PROVE  ServeUse
<1>1. ASSUME NEW c \in Client, NEW f \in File, Up /\ Open(c, f) PROVE FALSE
  BY <1>1 DEF Open, Ask, serverVars
<1>2. ASSUME NEW c \in Client, Program(c) PROVE FALSE
  <2>1. srv' = srv
    BY <1>2 DEF Program, Use, Close, Dup, Fork, Forge, Exit, Die, Ask, Gone, serverVars
  <2> QED BY <2>1
<1>3. ASSUME NEW c \in Client, Library(c) PROVE FALSE
  BY <1>3 DEF Library, Send, Recv, serverVars
<1>4. CASE StartOpen \/ Scan \/ Reply
  BY <1>4 DEF StartOpen, Scan, Reply
<1> QED BY <1>1, <1>2, <1>3, <1>4 DEF Next, Server

\* The server begins to look for an entry.
LEMMA StartOpenKeeps == ASSUME IInv, StartOpen PROVE IInv'
<1>1. /\ UNCHANGED <<fd, at, req, num, after, pageId, gen, file, mapped, issued>>
      /\ UNCHANGED <<whom, job, answer, used, full>>
      /\ srv = "serve" /\ job.op = "open" /\ srv' = "scan" /\ scan' = 0
  BY DEF StartOpen, clientVars, tableVars
<1>2. TypeInv' /\ OpenNamesFile'
  BY <1>1, FsServerAssumption
  DEF IInv, TypeInv, TableType, RequestType, ServerType, OpenNamesFile
<1>3. FdMapped' /\ FdNamesItsFile'
  BY <1>1 DEF IInv, FdMapped, FdNamesItsFile, Opened
<1>4. ScanFinds'
  BY <1>1 DEF IInv, ScanFinds, Unreferenced, Slot
<1> QED BY <1>1, <1>2, <1>3, <1>4 DEF IInv, GrantValid, FullMeansFull

\* openfile_alloc takes only an entry no client has, so no descriptor notices.
LEMMA TakeKeeps ==
  ASSUME IInv, srv = "scan", scan \in Slot, Unreferenced(scan),
         UNCHANGED <<fd, at, req, num, after, whom, job, scan, full>>,
         srv' \in {"reply"} \cup Panics, TypeInv',
         mapped' = mapped \cup {scan},
         \A s \in Slot \ {scan} : pageId'[s] = pageId[s] /\ gen'[s] = gen[s]
                                  /\ file'[s] = file[s],
         \A s \in Slot \ {scan}, g \in 0..MaxOpens : issued'[<<s, g>>] = issued[<<s, g>>],
         \/ answer' = "error"
         \/ answer' = "opened" /\ Valid(scan)'
         \/ srv' \in Panics
  PROVE  IInv'
<1> USE FsServerAssumption
<1>1. ASSUME NEW s \in Slot \ {scan}, Valid(s) PROVE Valid(s)'
  <2>1. gen[s] \in 0..MaxOpens
    BY DEF IInv, TypeInv, TableType
  <2>2. pageId'[s] = <<s, gen[s]>> /\ issued'[<<s, gen[s]>>] = issued[<<s, gen[s]>>]
    BY <1>1, <2>1 DEF Valid
  <2> QED BY <1>1, <2>2 DEF Valid
<1>2. FdMapped' /\ FdNamesItsFile'
  <2> SUFFICES ASSUME NEW c \in Client, NEW n \in Fd, NEW s, s = fd[c][n], s # Closed
               PROVE  s \in mapped' /\ Valid(s)'
    BY DEF FdMapped, FdNamesItsFile, Opened, Valid
  <2>1. s \in mapped /\ Valid(s) /\ s # scan
    BY DEF IInv, FdMapped, FdNamesItsFile, Opened, Valid, Unreferenced
  <2>2. s \in Slot
    BY <2>1 DEF IInv, TypeInv, TableType
  <2> QED BY <2>1, <2>2, <1>1
<1>3. OpenNamesFile' /\ ScanFinds' /\ FullMeansFull'
  BY DEF IInv, OpenNamesFile, ScanFinds, FullMeansFull, Panics
<1>4. GrantValid'
  BY DEF GrantValid, Panics
<1> QED BY <1>2, <1>3, <1>4 DEF IInv

\* The server looks at one entry.
LEMMA ScanKeeps == ASSUME IInv, Scan PROVE IInv'
<1> USE FsServerAssumption, NumType
<1>t. TypeInv BY DEF IInv
<1>0. srv = "scan" /\ UNCHANGED <<fd, at, req, num, after, whom, job, full>>
      /\ job.op = "open" /\ job.file \in File /\ scan \in 0..MAXOPEN
  BY <1>t DEF Scan, clientVars, IInv, ScanFinds, OpenNamesFile, TypeInv, ServerType
<1>r. ASSUME scan < MAXOPEN
      PROVE  scan \in Slot /\ (Available(scan) <=> Unreferenced(scan))
  <2>1. scan \in Slot BY <1>r, <1>0 DEF Slot
  <2> QED BY <2>1, <1>t, RefTells DEF IInv, TypeInv, Available
<1>1. ASSUME UNCHANGED tableVars, scan' = scan, srv' = "reply", used' = NoFile,
             \/ answer' = "max_open" /\ scan = MAXOPEN
             \/ answer' = "error"
      PROVE  IInv'
  <2>1. TypeInv' /\ OpenNamesFile' /\ FdMapped' /\ FdNamesItsFile'
    BY <1>0, <1>1, <1>t
    DEF IInv, TypeInv, TableType, RequestType, ServerType, OpenNamesFile, FdMapped,
        FdNamesItsFile, Opened, tableVars
  <2>2. FullMeansFull'
    BY <1>0, <1>1 DEF IInv, ScanFinds, FullMeansFull, Slot
  <2> QED BY <1>0, <1>1, <2>1, <2>2 DEF IInv, GrantValid, ScanFinds
<1>2. ASSUME scan < MAXOPEN, ~Available(scan), scan' = scan + 1,
             UNCHANGED <<tableVars, srv, answer, used>>
      PROVE  IInv'
  <2>1. TypeInv' /\ OpenNamesFile' /\ FdMapped' /\ FdNamesItsFile'
    BY <1>0, <1>2, <1>t
    DEF IInv, TypeInv, TableType, RequestType, ServerType, OpenNamesFile, FdMapped,
        FdNamesItsFile, Opened, tableVars
  <2>2. ASSUME NEW s \in Slot, s >= scan, Unreferenced(s) PROVE s >= scan + 1
    BY <2>2, <1>0, <1>2, <1>r DEF Slot
  <2>3. ScanFinds'
    BY <1>0, <1>2, <2>2 DEF IInv, ScanFinds, Unreferenced
  <2> QED BY <1>0, <1>2, <2>1, <2>3 DEF IInv, GrantValid, FullMeansFull
<1>3. ASSUME scan < MAXOPEN, Available(scan), gen[scan] < MaxOpens, scan' = scan,
             gen' = [gen EXCEPT ![scan] = @ + 1], mapped' = mapped \cup {scan}
      PROVE  /\ pageId' = [pageId EXCEPT ![scan] = NoId] /\ UNCHANGED <<file, issued>>
                /\ (Answer("error", NoFile) \/ Fail) => IInv'
             /\ srv' = "reply" /\ pageId' = [pageId EXCEPT ![scan] = <<scan, gen[scan] + 1>>]
                /\ file' = [file EXCEPT ![scan] = job.file]
                /\ issued' = [issued EXCEPT ![<<scan, gen[scan] + 1>>] = job.file]
                /\ answer' = "opened" /\ used' = job.file => IInv'
  <2>1. scan \in Slot /\ Unreferenced(scan)
    BY <1>3, <1>r
  <2>2. gen[scan] + 1 \in 0..MaxOpens /\ gen' \in [Slot -> 0..MaxOpens]
    BY <1>3, <2>1, <1>t DEF TypeInv, TableType
  <2>3. <<scan, gen[scan] + 1>> \in FileId /\ gen'[scan] = gen[scan] + 1
    BY <1>3, <2>1, <2>2, <1>t DEF FileId, TypeInv, TableType
  <2>4. RequestType'
    BY <1>0, <1>t DEF TypeInv, RequestType
  <2>5. ASSUME pageId' = [pageId EXCEPT ![scan] = NoId], UNCHANGED <<file, issued>>,
               Answer("error", NoFile) \/ Fail
        PROVE  IInv'
    <3>0. \/ srv' = "reply" /\ answer' = "error" /\ used' = NoFile
          \/ srv' \in Panics /\ UNCHANGED <<answer, used>>
      BY <2>5 DEF Answer, Fail, Panics
    <3>1. TypeInv'
      BY <1>0, <1>3, <2>1, <2>2, <2>4, <2>5, <3>0, <1>t DEF TypeInv, TableType, ServerType
    <3>2. \A s \in Slot \ {scan} : pageId'[s] = pageId[s] /\ gen'[s] = gen[s]
                                   /\ file'[s] = file[s]
      BY <1>3, <2>5, <1>t DEF TypeInv, TableType
    <3> QED BY <1>0, <1>3, <2>1, <2>5, <3>0, <3>1, <3>2, TakeKeeps
  <2>6. ASSUME srv' = "reply", pageId' = [pageId EXCEPT ![scan] = <<scan, gen[scan] + 1>>],
               file' = [file EXCEPT ![scan] = job.file],
               issued' = [issued EXCEPT ![<<scan, gen[scan] + 1>>] = job.file],
               answer' = "opened", used' = job.file
        PROVE  IInv'
    <3>0. pageId' \in [Slot -> FileId] /\ file' \in [Slot -> File \cup {NoFile}]
          /\ issued' \in [FileId -> File \cup {NoFile}]
      BY <1>0, <2>3, <2>6, <1>t DEF TypeInv, TableType
    <3>1. TypeInv'
      BY <1>0, <1>3, <2>1, <2>2, <2>4, <2>6, <3>0, <1>t DEF TypeInv, TableType, ServerType
    <3>2. \A s \in Slot \ {scan} : pageId'[s] = pageId[s] /\ gen'[s] = gen[s]
                                   /\ file'[s] = file[s]
      BY <1>3, <2>6, <1>t DEF TypeInv, TableType
    <3>3. \A s \in Slot \ {scan}, g \in 0..MaxOpens : issued'[<<s, g>>] = issued[<<s, g>>]
      BY <2>6, <1>t DEF TypeInv, TableType, FileId
    <3>4. Valid(scan)'
      <4>1. pageId'[scan] = <<scan, gen[scan] + 1>> /\ file'[scan] = job.file
            /\ issued'[<<scan, gen[scan] + 1>>] = job.file
        BY <2>1, <2>3, <2>6, <1>t DEF TypeInv, TableType
      <4> QED BY <4>1, <2>3, <1>0, <1>3 DEF Valid
    <3> QED BY <1>0, <1>3, <2>1, <2>6, <3>1, <3>2, <3>3, <3>4, TakeKeeps
  <2> QED BY <2>5, <2>6
<1> QED BY <1>1, <1>2, <1>3 DEF Scan, Answer

\* The client maps the page of its new descriptor, or does what it asked for.
LEMMA ReplyKeeps == ASSUME IInv, Reply PROVE IInv'
<1> USE FsServerAssumption, NumType
<1>t. TypeInv BY DEF IInv
<1>0. /\ answer' = "ok" /\ used' = NoFile /\ scan' = 0 /\ full' = FALSE
      /\ job' = NoRequest /\ whom' = Nobody /\ srv = "reply"
      /\ UNCHANGED <<pageId, gen, file, mapped, issued>>
      /\ srv' \in {"recv"} \cup Panics
  BY DEF Reply, tableVars, Panics
<1>n. NoRequest \in Request
  BY DEF NoRequest, Request
<1>1. ServerType'
  <2>1. job' \in Request
    BY <1>0, <1>n
  <2>2. full' \in BOOLEAN
    BY <1>0
  <2>3. scan' \in 0..MAXOPEN /\ answer' \in {"ok", "inval", "max_open", "error", "opened"}
    BY <1>0
  <2>4. srv' \in {"recv", "serve", "scan", "reply"} \cup Panics /\ used' \in File \cup {NoFile}
        /\ whom' \in Client \cup {Nobody}
    BY <1>0
  <2> QED BY <2>1, <2>2, <2>3, <2>4 DEF ServerType
<1>2. ASSUME fd' \in [Client -> [Fd -> 0..MAXOPEN]], RequestType',
             \A c \in Client : req'[c] = req[c] \/ req'[c] = NoRequest,
             \A c \in Client, n \in Fd : fd'[c][n] = Closed
               \/ (answer = "opened" /\ fd'[c][n] = scan)
               \/ \E d \in Client, m \in Fd : fd'[c][n] = fd[d][m]
      PROVE  IInv'
  <2>1. TypeInv'
    BY <1>0, <1>1, <1>2, <1>t DEF TypeInv, TableType
  <2>2. OpenNamesFile'
    BY <1>0, <1>2 DEF IInv, OpenNamesFile, NoRequest
  <2>3. \A s : Valid(s)' <=> Valid(s)
    BY <1>0, Zenon DEF Valid
  <2>4. FdMapped' /\ FdNamesItsFile'
    <3>1. ASSUME NEW s, s = scan, answer = "opened" PROVE s \in mapped' /\ Valid(s)'
      BY <3>1, <1>0, <2>3 DEF IInv, GrantValid
    <3>2. ASSUME NEW s, s # Closed, NEW d \in Client, NEW m \in Fd, s = fd[d][m]
          PROVE  s \in mapped' /\ Valid(s)'
      <4>1. s \in mapped /\ Valid(s)
        BY <3>2 DEF IInv, FdMapped, FdNamesItsFile, Opened, Valid
      <4> QED BY <4>1, <1>0, <2>3
    <3>3. ASSUME NEW c \in Client, NEW n \in Fd, NEW s, s = fd'[c][n], s # Closed
          PROVE  s \in mapped' /\ Valid(s)'
      BY <3>1, <3>2, <3>3, <1>2
    <3> QED BY <3>3, DescriptorsAfter, Zenon
  <2>5. GrantValid' /\ ScanFinds' /\ FullMeansFull'
    BY <1>0 DEF GrantValid, ScanFinds, FullMeansFull, Panics
  <2> QED BY <2>1, <2>2, <2>4, <2>5 DEF IInv
<1>3. CASE UNCHANGED <<fd, clientVars>>
  BY <1>2, <1>3, <1>t DEF clientVars, TypeInv, TableType, RequestType
<1>4. CASE at[whom] = "recv" /\ ~UNCHANGED <<fd, clientVars>>
  <2> DEFINE n == num[whom]
  <2>0. /\ at' = [at EXCEPT ![whom] = "run"] /\ req' = [req EXCEPT ![whom] = NoRequest]
        /\ num' = [num EXCEPT ![whom] = NoFd]
        /\ after' = [after EXCEPT ![whom] = IF @ = "exit" THEN @ ELSE "none"]
        /\ \/ answer = "opened" /\ SetFd(whom, n, scan)
           \/ SetFd(whom, n, Closed)
           \/ \E m \in Source(whom, n) : SetFd(whom, n, fd[whom][m])
           \/ UNCHANGED fd
    BY <1>4 DEF Reply
  <2>1. RequestType' /\ \A c \in Client : req'[c] = req[c] \/ req'[c] = NoRequest
    BY <1>n, <2>0, <1>t DEF TypeInv, RequestType, At, After
  <2>2. ASSUME NEW s \in 0..MAXOPEN, SetFd(whom, n, s),
               \/ s = Closed
               \/ answer = "opened" /\ s = scan
               \/ \E m \in Fd : s = fd[whom][m] /\ whom \in Client
        PROVE  IInv'
    <3>1. /\ fd' \in [Client -> [Fd -> 0..MAXOPEN]]
          /\ \A d \in Client, k \in Fd : fd'[d][k] = s \/ fd'[d][k] = fd[d][k]
      BY <2>2, <1>t DEF SetFd, TypeInv, TableType
    <3> QED BY <3>1, <2>1, <2>2, <1>2
  <2>3. CASE answer = "opened" /\ SetFd(whom, n, scan)
    BY <2>3, <2>2, <1>t DEF TypeInv, ServerType
  <2>4. CASE SetFd(whom, n, Closed)
    BY <2>4, <2>2 DEF Closed
  <2>5. ASSUME NEW m \in Source(whom, n), SetFd(whom, n, fd[whom][m]) PROVE IInv'
    <3>1. m \in Fd BY DEF Source
    <3>2. CASE whom \in Client
      <4>1. fd[whom][m] \in 0..MAXOPEN
        BY <3>1, <3>2, <1>t DEF TypeInv, TableType
      <4> QED BY <2>5, <3>1, <3>2, <4>1, <2>2
    <3>3. CASE whom \notin Client
      <4>1. fd' = fd
        BY <2>5, <3>3, <1>t DEF SetFd, TypeInv, TableType
      <4> QED BY <4>1, <2>1, <1>2, <1>t DEF TypeInv, TableType
    <3> QED BY <3>2, <3>3
  <2>6. CASE UNCHANGED fd
    BY <2>6, <2>1, <1>2, <1>t DEF TypeInv, TableType
  <2> QED BY <2>0, <2>3, <2>4, <2>5, <2>6
<1>5. CASE at[whom] = "dead"
  <2>1. UNCHANGED <<fd, clientVars>>
    BY <1>5 DEF Reply
  <2> QED BY <2>1, <1>3
<1> QED BY <1>3, <1>4, <1>5 DEF Reply

-----------------------------------------------------------------------------

\* The invariant holds after serve_init.
LEMMA InitIInv == Init => IInv
<1> SUFFICES ASSUME Init PROVE IInv
  OBVIOUS
<1> USE FsServerAssumption, NumType
<1>n. NoRequest \in Request
  BY DEF NoRequest, Request
<1>c. Closed \in 0..MAXOPEN /\ 0 \in 0..MaxOpens
  BY DEF Closed
<1>1. TypeInv
  <2>1. TableType
    BY <1>c DEF Init, TableType
  <2>2. RequestType
    <3>1. at \in [Client -> At] BY DEF Init, At
    <3>2. after \in [Client -> After] BY DEF Init, After
    <3> QED BY <1>n, <3>1, <3>2 DEF Init, RequestType
  <2>3. ServerType
    <3>1. job \in Request BY <1>n DEF Init
    <3>2. full \in BOOLEAN BY DEF Init
    <3>3. scan \in 0..MAXOPEN /\ answer \in {"ok", "inval", "max_open", "error", "opened"}
      BY DEF Init
    <3>4. srv \in {"recv", "serve", "scan", "reply"} \cup Panics /\ used \in File \cup {NoFile}
          /\ whom \in Client \cup {Nobody}
      BY DEF Init
    <3> QED BY <3>1, <3>2, <3>3, <3>4 DEF ServerType
  <2> QED BY <2>1, <2>2, <2>3 DEF TypeInv
<1>2. OpenNamesFile /\ FdMapped /\ FdNamesItsFile
  BY DEF Init, OpenNamesFile, FdMapped, FdNamesItsFile, Opened, NoRequest
<1>3. GrantValid /\ ScanFinds /\ FullMeansFull
  BY DEF Init, GrantValid, ScanFinds, FullMeansFull
<1> QED BY <1>1, <1>2, <1>3 DEF IInv

\* The invariant is inductive.
LEMMA NextIInv == IInv /\ [Next]_vars => IInv'
<1> SUFFICES ASSUME IInv, [Next]_vars PROVE IInv'
  OBVIOUS
<1>1. CASE UNCHANGED vars
  <2>1. TypeInv' /\ OpenNamesFile' /\ FdFrom /\ UNCHANGED <<tableVars, serverVars>>
    BY <1>1 DEF IInv, TypeInv, TableType, RequestType, ServerType, OpenNamesFile,
       FdFrom, vars, clientVars, tableVars, serverVars
  <2> QED BY <2>1, ClientsKeepTable
<1>2. CASE Next
  BY <1>2, OpenKeeps, ProgramKeeps, LibraryKeeps, ServeUseKeeps, StartOpenKeeps,
     ScanKeeps, ReplyKeeps DEF Next, Server
<1> QED BY <1>1, <1>2

\* What the table, the descriptors and the server's place in its loop agree on,
\* in every reachable state.
THEOREM Invariant == Spec => []IInv
BY InitIInv, NextIInv, PTL DEF Spec

\* A client that has a descriptor open reaches the file it opened, whoever
\* opened, closed, forked or died in between.
THEOREM FdNamesItsFileHolds == Spec => []FdNamesItsFile
<1>1. IInv => FdNamesItsFile BY DEF IInv
<1> QED BY <1>1, Invariant, PTL

\* openfile_lookup refuses an id that is closed everywhere, also if its entry
\* was not given out again and if the client made the id up: who is granted an
\* operation names a descriptor that somebody has, and the file opened as that.
THEOREM StaleIdRefusedHolds == Spec => StaleIdRefused
<1>1. IInv /\ [Next]_vars =>
        [srv = "serve" /\ job.op = "use" /\ srv' = "reply" /\ answer' = "ok" =>
          /\ used' = issued[job.id]
          /\ \E c \in Client, n \in Fd : Opened(c, n) /\ pageId[fd[c][n]] = job.id]_vars
  <2> SUFFICES ASSUME IInv, Next, srv = "serve", job.op = "use", srv' = "reply", answer' = "ok"
               PROVE  /\ used' = issued[job.id]
                      /\ \E c \in Client, n \in Fd :
                           Opened(c, n) /\ pageId[fd[c][n]] = job.id
    BY DEF vars
  <2> QED BY GrantedToHolder, OnlyServeUse
<1> QED BY <1>1, Invariant, PTL DEF Spec, StaleIdRefused

\* openfile_alloc says E_MAX_OPEN only if every entry was in use when the
\* request came, though clients close and die while it looks.
THEOREM FullMeansFullHolds == Spec => []FullMeansFull
<1>1. IInv => FullMeansFull BY DEF IInv
<1> QED BY <1>1, Invariant, PTL
=============================================================================
