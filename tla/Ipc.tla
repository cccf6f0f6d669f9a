-------------------------------- MODULE Ipc --------------------------------
(***************************************************************************)
(* Messages between environments: ipc_send and ipc_recv of lib/ipc.c over  *)
(* sys_ipc_try_send and sys_ipc_recv of kern/syscall.c.  A system call is  *)
(* one step, the big kernel lock being held; ipc_recv reads the three      *)
(* fields of its struct Env one by one after it has been woken, while      *)
(* other environments go on sending.                                       *)
(***************************************************************************)
EXTENDS Naturals

CONSTANTS
  Env,        \* environment slots
  Value,      \* the values sent
  NoEnv,      \* env_ipc_from before the first message
  Senders, Receivers      \* the environments that call ipc_send, ipc_recv

ASSUME IpcAssumption ==
  NoEnv \notin Env /\ Senders \subseteq Env /\ Receivers \subseteq Env
  /\ Value # {}

VARIABLES
  recving,    \* env_ipc_recving
  wants,      \* env_ipc_dstva < UTOP
  value, from,
  perm,       \* env_ipc_perm # 0
  pc,         \* where e is in lib/ipc.c; "free": no environment in the slot
  call,       \* the arguments of ipc_send; live: toenv still exists
  ret,        \* the results of ipc_recv so far
  sent        \* history: what the last successful send gave to e

kernel == <<recving, wants, value, from, perm>>
vars == <<kernel, pc, call, ret, sent>>

\* srcva is at UTOP, mapped (sent with perm # 0, as all callers do), or the
\* checks of srcva and perm fail.
Page == {"none", "page", "bad"}
Msg == [from : Env, value : Value]

Reading == {"ready", "readPerm", "readValue"}   \* woken, not yet returned

Zero == CHOOSE v \in Value : TRUE
NoCall(e) == [to |-> e, value |-> Zero, page |-> "none", live |-> FALSE]
NoRet == [from |-> NoEnv, perm |-> FALSE, value |-> Zero]
NoSent == [from |-> NoEnv, value |-> Zero, page |-> FALSE]

Init ==
  /\ recving = [e \in Env |-> FALSE] /\ wants = [e \in Env |-> FALSE]
  /\ value = [e \in Env |-> Zero]
  /\ from = [e \in Env |-> NoEnv] /\ perm = [e \in Env |-> FALSE]
  /\ pc = [e \in Env |-> "idle"]
  /\ call = [e \in Env |-> NoCall(e)]
  /\ ret = [e \in Env |-> NoRet]
  /\ sent = [e \in Env |-> NoSent]

Goto(e, from_, to) == pc[e] = from_ /\ pc' = [pc EXCEPT ![e] = to]

-----------------------------------------------------------------------------
(* ipc_recv.                                                               *)

\* sys_ipc_recv: blocks the caller.
SysIpcRecv(e, pg) ==
  /\ Goto(e, "idle", "blocked")
  /\ recving' = [recving EXCEPT ![e] = TRUE]
  /\ wants' = [wants EXCEPT ![e] = pg]
  /\ UNCHANGED <<value, from, perm, call, ret, sent>>

\* The loads of env_ipc_from, env_ipc_perm and env_ipc_value.
ReadField(e) ==
  /\ \/ Goto(e, "ready", "readPerm") /\ ret' = [ret EXCEPT ![e].from = from[e]]
     \/ Goto(e, "readPerm", "readValue")
          /\ ret' = [ret EXCEPT ![e].perm = perm[e]]
     \/ Goto(e, "readValue", "got") /\ ret' = [ret EXCEPT ![e].value = value[e]]
  /\ UNCHANGED <<kernel, call, sent>>

Consume(e) ==
  /\ Goto(e, "got", "idle")
  /\ ret' = [ret EXCEPT ![e] = NoRet] /\ sent' = [sent EXCEPT ![e] = NoSent]
  /\ UNCHANGED <<kernel, call>>

-----------------------------------------------------------------------------
(* ipc_send.                                                               *)

StartSend(s, r, v, pg) ==
  /\ pc[r] # "free"
  /\ Goto(s, "idle", "send")
  /\ call' = [call EXCEPT ![s] =
                [to |-> r, value |-> v, page |-> pg, live |-> TRUE]]
  /\ UNCHANGED <<kernel, ret, sent>>

\* Mutant: the receiver stays open for the next sender.
Deliver_StillRecving(s, r, page) ==
  /\ value' = [value EXCEPT ![r] = call[s].value]
  /\ from' = [from EXCEPT ![r] = s]
  /\ sent' = [sent EXCEPT ![r] =
                [from |-> s, value |-> call[s].value, page |-> page]]
  /\ pc' = [pc EXCEPT ![s] = "idle",
                      ![r] = IF @ = "blocked" THEN "ready" ELSE @]
  /\ call' = [call EXCEPT ![s] = NoCall(s)]
  /\ UNCHANGED <<recving, wants, ret>>

\* Mutant: value and sender change places.
Deliver_Swapped(s, r, page) ==
  /\ recving' = [recving EXCEPT ![r] = FALSE]
  /\ value' = [value EXCEPT ![r] = s]
  /\ from' = [from EXCEPT ![r] = call[s].value]
  /\ sent' = [sent EXCEPT ![r] =
                [from |-> s, value |-> call[s].value, page |-> page]]
  /\ pc' = [pc EXCEPT ![s] = "idle", ![r] = "ready"]
  /\ call' = [call EXCEPT ![s] = NoCall(s)]
  /\ UNCHANGED <<wants, ret>>

\* Mutant: the receiver is not made runnable.
Deliver_NotWoken(s, r, page) ==
  /\ recving' = [recving EXCEPT ![r] = FALSE]
  /\ value' = [value EXCEPT ![r] = call[s].value]
  /\ from' = [from EXCEPT ![r] = s]
  /\ sent' = [sent EXCEPT ![r] =
                [from |-> s, value |-> call[s].value, page |-> page]]
  /\ pc' = [pc EXCEPT ![s] = "idle"]
  /\ call' = [call EXCEPT ![s] = NoCall(s)]
  /\ UNCHANGED <<wants, ret>>

\* The receiver's fields are filled in and it becomes runnable.
Deliver(s, r, page) ==
  /\ recving' = [recving EXCEPT ![r] = FALSE]
  /\ value' = [value EXCEPT ![r] = call[s].value]
  /\ from' = [from EXCEPT ![r] = s]
  /\ sent' = [sent EXCEPT ![r] =
                [from |-> s, value |-> call[s].value, page |-> page]]
  /\ pc' = [pc EXCEPT ![s] = "idle", ![r] = "ready"]
  /\ call' = [call EXCEPT ![s] = NoCall(s)]
  /\ UNCHANGED <<wants, ret>>

\* Mutant: env_ipc_perm keeps its reset value.
SetPerm_Zero(r, p) == perm' = [perm EXCEPT ![r] = FALSE]

SetPerm(r, p) == perm' = [perm EXCEPT ![r] = p]

\* sys_ipc_try_send that returns 0.  Without a page to send, env_ipc_perm
\* stays what it was.
SendOk(s) ==
  LET r == call[s].to IN
  /\ pc[s] = "send" /\ call[s].live /\ recving[r] /\ call[s].page # "bad"
  /\ IF call[s].page = "page" THEN SetPerm(r, wants[r]) ELSE UNCHANGED perm
  /\ Deliver(s, r, call[s].page = "page" /\ wants[r])

\* -E_IPC_NOT_RECV: sys_yield and try again.
SendRetry(s) ==
  /\ call[s].live /\ ~recving[call[s].to]
  /\ Goto(s, "send", "yield")
  /\ UNCHANGED <<kernel, call, ret, sent>>

Retry(s) ==
  /\ Goto(s, "yield", "send")
  /\ UNCHANGED <<kernel, call, ret, sent>>

\* -E_BAD_ENV, -E_INVAL, or -E_NO_MEM from page_insert: ipc_send panics.  A panic
\* is a breakpoint, which enters the monitor of the kernel; that keeps the big
\* kernel lock, and nobody sends or receives any more.
SendPanic(s) ==
  LET r == call[s].to
      noMem == call[s].live /\ recving[r] /\ call[s].page = "page" /\ wants[r]
  IN  /\ Goto(s, "send", "panic")
      /\ \/ ~call[s].live /\ UNCHANGED perm
         \/ call[s].live /\ recving[r] /\ call[s].page = "bad" /\ UNCHANGED perm
         \/ noMem /\ perm' = [perm EXCEPT ![r] = FALSE]
      /\ UNCHANGED <<recving, wants, value, from, call, ret, sent>>

-----------------------------------------------------------------------------
(* Environments come and go; an environment id is not used again.          *)

\* env_free, in any state of e.
Exit(e) ==
  /\ pc[e] # "free"
  /\ pc' = [pc EXCEPT ![e] = "free"]
  /\ call' = [s \in Env |->
       IF s = e THEN NoCall(e)
       ELSE IF call[s].to = e THEN [call[s] EXCEPT !.live = FALSE] ELSE call[s]]
  /\ ret' = [ret EXCEPT ![e] = NoRet] /\ sent' = [sent EXCEPT ![e] = NoSent]
  /\ UNCHANGED kernel

\* Mutant: env_alloc leaves env_ipc_recving alone.
EnvAlloc_KeepRecving(e) ==
  /\ Goto(e, "free", "idle")
  /\ UNCHANGED <<kernel, call, ret, sent>>

\* env_alloc clears env_ipc_recving, and nothing else of the message fields.
EnvAlloc(e) ==
  /\ Goto(e, "free", "idle")
  /\ recving' = [recving EXCEPT ![e] = FALSE]
  /\ UNCHANGED <<wants, value, from, perm, call, ret, sent>>

Step(e) ==
  ReadField(e) \/ Consume(e) \/ SendOk(e) \/ SendRetry(e) \/ Retry(e)

Up == \A e \in Env : pc[e] # "panic"

Next ==
  Up /\ \E e \in Env :
    \/ e \in Receivers /\ \E pg \in BOOLEAN : SysIpcRecv(e, pg)
    \/ e \in Senders /\ \E r \in Receivers, v \in Value, pg \in Page :
         StartSend(e, r, v, pg)
    \/ Step(e) \/ SendPanic(e) \/ Exit(e) \/ EnvAlloc(e)

Spec == Init /\ [][Next]_vars

\* Whoever is inside ipc_send or ipc_recv goes on executing.
FairSpec == Spec /\ \A e \in Env : WF_vars(Up /\ (Step(e) \/ SendPanic(e)))

-----------------------------------------------------------------------------
TypeOK ==
  /\ recving \in [Env -> BOOLEAN] /\ wants \in [Env -> BOOLEAN]
  /\ value \in [Env -> Value] /\ from \in [Env -> Env \cup {NoEnv}]
  /\ perm \in [Env -> BOOLEAN]
  /\ pc \in [Env -> Reading \cup {"idle", "blocked", "got", "send", "yield",
                                  "panic", "free"}]
  /\ call \in [Env -> [to : Env, value : Value, page : Page, live : BOOLEAN]]
  /\ ret \in [Env -> [from : Env \cup {NoEnv}, perm : BOOLEAN, value : Value]]
  /\ sent \in [Env -> [from : Env \cup {NoEnv}, value : Value, page : BOOLEAN]]

\* ipc_recv returns sender and value of one and the same send, the one that
\* woke it, although it reads them from memory other environments write.
MessageIntact ==
  \A e \in Env : pc[e] = "got" =>
    ret[e].from = sent[e].from /\ ret[e].value = sent[e].value

\* A live environment accepts messages exactly while it is blocked in
\* sys_ipc_recv: no message is dropped into a slot that does not wait.
OpenIffBlocked ==
  \A e \in Env : pc[e] # "free" => (recving[e] <=> pc[e] = "blocked")

\* A page that arrived is announced to the receiver.  (The converse fails:
\* env_ipc_perm is not cleared by a message without a page.)
PageAnnounced ==
  \A e \in Env : pc[e] = "got" /\ sent[e].page => ret[e].perm

Abstract == INSTANCE Rendezvous WITH
  open <- {e \in Env : pc[e] = "blocked" /\ recving[e]},
  box <- [e \in Env |-> IF pc[e] \in Reading
                        THEN {[from |-> from[e], value |-> value[e]]} ELSE {}]

\* Each receive takes what one send delivered, unchanged in between.
ImplementsRendezvous == Abstract!Spec

\* While s keeps trying to send to e ("This function keeps trying until it
\* succeeds"), e does not wait for ever, whoever else comes and goes, unless a
\* sender panics, which stops the machine.
Trying(s, e) == pc[s] \in {"send", "yield"} /\ call[s].to = e /\ call[s].live
ReceiverServed ==
  \A s \in Senders, e \in Receivers :
    (pc[e] = "blocked" /\ Trying(s, e)) ~> (pc[e] # "blocked" \/ ~Trying(s, e) \/ ~Up)
=============================================================================
