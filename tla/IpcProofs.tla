----------------------------- MODULE IpcProofs -----------------------------
(***************************************************************************)
(* The safety of IPC for any number of environments and values.  What the  *)
(* receiver has read so far, and what it has yet to read, agrees with the  *)
(* send that woke it, because the slot is closed from then on; and the     *)
(* slot is closed because it is open only while its owner is blocked.      *)
(***************************************************************************)
EXTENDS Ipc, TLAPS

\* The environment a live call names exists.
TargetLives == \A s \in Env : call[s].live => pc[call[s].to] # "free"

\* The sender's id is in its field until it is read, in ret afterwards.
FromAgrees ==
  \A e \in Env :
    /\ pc[e] = "ready" => from[e] = sent[e].from
    /\ pc[e] \in {"readPerm", "readValue", "got"} => ret[e].from = sent[e].from

\* Likewise the value.
ValueAgrees ==
  \A e \in Env :
    /\ pc[e] \in Reading => value[e] = sent[e].value
    /\ pc[e] = "got" => ret[e].value = sent[e].value

\* The announcement of a page.  A message without one may leave an old TRUE.
PermAgrees ==
  \A e \in Env : sent[e].page =>
    /\ pc[e] \in {"ready", "readPerm"} => perm[e]
    /\ pc[e] \in {"readValue", "got"} => ret[e].perm

IInv == TypeOK /\ OpenIffBlocked /\ TargetLives /\ FromAgrees /\ ValueAgrees /\ PermAgrees

\* A message field starts with a value.
LEMMA ZeroIsValue == Zero \in Value
  BY IpcAssumption DEF Zero

\* The initial states satisfy the invariant.
LEMMA InitIInv == Init => IInv
  BY ZeroIsValue DEF Init, IInv, TypeOK, OpenIffBlocked, TargetLives, FromAgrees,
    ValueAgrees, PermAgrees, Reading, NoCall, NoRet, NoSent, Page

\* Types are kept by every step.
LEMMA NextTypeOK == TypeOK /\ [Next]_vars => TypeOK'
<1> SUFFICES ASSUME TypeOK, [Next]_vars PROVE TypeOK'
  OBVIOUS
<1> USE ZeroIsValue, IpcAssumption
<1>1. ASSUME NEW e \in Env, NEW pg \in BOOLEAN, SysIpcRecv(e, pg) PROVE TypeOK'
  BY <1>1 DEF SysIpcRecv, TypeOK, Goto
<1>2. ASSUME NEW e \in Env, NEW r \in Env, NEW v \in Value, NEW pg \in Page,
             StartSend(e, r, v, pg) PROVE TypeOK'
  BY <1>2 DEF StartSend, TypeOK, Goto, kernel
<1>3. ASSUME NEW e \in Env, ReadField(e) PROVE TypeOK'
  <2>1. UNCHANGED <<recving, wants, value, from, perm, call, sent>>
    BY <1>3 DEF ReadField, kernel
  <2>2. CASE Goto(e, "ready", "readPerm") /\ ret' = [ret EXCEPT ![e].from = from[e]]
    BY <2>1, <2>2 DEF TypeOK, Goto, Reading
  <2>3. CASE Goto(e, "readPerm", "readValue")
             /\ ret' = [ret EXCEPT ![e].perm = perm[e]]
    BY <2>1, <2>3 DEF TypeOK, Goto, Reading
  <2>4. CASE Goto(e, "readValue", "got")
             /\ ret' = [ret EXCEPT ![e].value = value[e]]
    BY <2>1, <2>4 DEF TypeOK, Goto
  <2> QED BY <1>3, <2>2, <2>3, <2>4 DEF ReadField
<1>4. ASSUME NEW e \in Env, Consume(e) PROVE TypeOK'
  BY <1>4 DEF Consume, TypeOK, Goto, kernel, NoRet, NoSent
<1>5. ASSUME NEW e \in Env, SendOk(e) PROVE TypeOK'
  <2>1. call[e].to \in Env /\ call[e].value \in Value
    BY DEF TypeOK
  <2>2. perm' \in [Env -> BOOLEAN]
    BY <1>5, <2>1 DEF SendOk, SetPerm, TypeOK
  <2> QED BY <1>5, <2>1, <2>2 DEF SendOk, Deliver, TypeOK, NoCall, Page, Reading
<1>6. ASSUME NEW e \in Env, SendRetry(e) \/ Retry(e) PROVE TypeOK'
  BY <1>6 DEF SendRetry, Retry, TypeOK, Goto, kernel
<1>7. ASSUME NEW e \in Env, SendPanic(e) PROVE TypeOK'
  BY <1>7 DEF SendPanic, TypeOK, Goto
<1>8. ASSUME NEW e \in Env, Exit(e) PROVE TypeOK'
  <2>1. call' \in [Env -> [to : Env, value : Value, page : Page, live : BOOLEAN]]
    <3> SUFFICES ASSUME NEW s \in Env
                 PROVE call'[s] \in [to : Env, value : Value, page : Page, live : BOOLEAN]
      BY <1>8 DEF Exit
    <3>1. call[s] \in [to : Env, value : Value, page : Page, live : BOOLEAN]
      BY DEF TypeOK
    <3>2. NoCall(e) \in [to : Env, value : Value, page : Page, live : BOOLEAN]
      BY DEF NoCall, Page
    <3> QED BY <1>8, <3>1, <3>2 DEF Exit
  <2>2. NoRet \in [from : Env \cup {NoEnv}, perm : BOOLEAN, value : Value]
        /\ NoSent \in [from : Env \cup {NoEnv}, value : Value, page : BOOLEAN]
    BY DEF NoRet, NoSent
  <2> QED BY <1>8, <2>1, <2>2 DEF Exit, TypeOK, kernel
<1>9. ASSUME NEW e \in Env, EnvAlloc(e) PROVE TypeOK'
  BY <1>9 DEF EnvAlloc, TypeOK, Goto
<1>10. CASE UNCHANGED vars
  BY <1>10 DEF vars, kernel, TypeOK
<1> QED
  BY <1>1, <1>2, <1>3, <1>4, <1>5, <1>6, <1>7, <1>8, <1>9, <1>10 DEF Next, Step

\* A slot opens and closes together with its owner's sleep.
LEMMA NextOpen == IInv /\ [Next]_vars => OpenIffBlocked'
<1> SUFFICES ASSUME IInv, [Next]_vars, NEW f \in Env, pc'[f] # "free"
             PROVE recving'[f] <=> pc'[f] = "blocked"
  BY DEF OpenIffBlocked
<1> USE DEF IInv, OpenIffBlocked
<1>1. ASSUME NEW e \in Env, NEW pg \in BOOLEAN, SysIpcRecv(e, pg)
      PROVE recving'[f] <=> pc'[f] = "blocked"
  BY <1>1 DEF SysIpcRecv, TypeOK, Goto
<1>2. ASSUME NEW e \in Env, SendOk(e) PROVE recving'[f] <=> pc'[f] = "blocked"
  BY <1>2 DEF SendOk, Deliver, TypeOK, TargetLives
<1>3. ASSUME NEW e \in Env, Exit(e) \/ EnvAlloc(e)
      PROVE recving'[f] <=> pc'[f] = "blocked"
  BY <1>3 DEF Exit, EnvAlloc, TypeOK, Goto, kernel
<1>4. ASSUME NEW e \in Env, ReadField(e) \/ Consume(e) \/ SendRetry(e) \/ Retry(e)
      PROVE recving'[f] <=> pc'[f] = "blocked"
  BY <1>4 DEF ReadField, Consume, SendRetry, Retry, TypeOK, Goto, kernel
<1>5. ASSUME NEW e \in Env, SendPanic(e) PROVE recving'[f] <=> pc'[f] = "blocked"
  BY <1>5 DEF SendPanic, TypeOK, Goto
<1>6. ASSUME NEW e \in Env, NEW r \in Env, NEW v \in Value, NEW pg \in Page,
             StartSend(e, r, v, pg) PROVE recving'[f] <=> pc'[f] = "blocked"
  BY <1>6 DEF StartSend, TypeOK, Goto, kernel
<1>7. CASE UNCHANGED vars
  BY <1>7 DEF vars, kernel
<1> QED
  BY <1>1, <1>2, <1>3, <1>4, <1>5, <1>6, <1>7, IpcAssumption DEF Next, Step

\* A call stays live only while the slot it names is in use.
LEMMA NextTarget == IInv /\ [Next]_vars => TargetLives'
<1> SUFFICES ASSUME IInv, [Next]_vars, NEW s \in Env, call'[s].live
             PROVE pc'[call'[s].to] # "free"
  BY DEF TargetLives
<1> USE DEF IInv, TargetLives
<1>0. call[s].to \in Env
  BY DEF TypeOK
<1>1. ASSUME NEW e \in Env, NEW pg \in BOOLEAN, SysIpcRecv(e, pg)
      PROVE pc'[call'[s].to] # "free"
  BY <1>0, <1>1 DEF SysIpcRecv, TypeOK, Goto
<1>2. ASSUME NEW e \in Env, SendOk(e) PROVE pc'[call'[s].to] # "free"
  BY <1>0, <1>2 DEF SendOk, Deliver, TypeOK, NoCall
<1>3. ASSUME NEW e \in Env, Exit(e) PROVE pc'[call'[s].to] # "free"
  BY <1>0, <1>3 DEF Exit, TypeOK, NoCall
<1>4. ASSUME NEW e \in Env, EnvAlloc(e) PROVE pc'[call'[s].to] # "free"
  BY <1>0, <1>4 DEF EnvAlloc, TypeOK, Goto
<1>5. ASSUME NEW e \in Env, ReadField(e) \/ Consume(e) \/ SendRetry(e) \/ Retry(e)
      PROVE pc'[call'[s].to] # "free"
  BY <1>0, <1>5 DEF ReadField, Consume, SendRetry, Retry, TypeOK, Goto
<1>6. ASSUME NEW e \in Env, SendPanic(e) PROVE pc'[call'[s].to] # "free"
  BY <1>0, <1>6 DEF SendPanic, TypeOK, Goto
<1>7. ASSUME NEW e \in Env, NEW r \in Env, NEW v \in Value, NEW pg \in Page,
             StartSend(e, r, v, pg) PROVE pc'[call'[s].to] # "free"
  BY <1>0, <1>7 DEF StartSend, TypeOK, Goto
<1>8. CASE UNCHANGED vars
  BY <1>0, <1>8 DEF vars
<1> QED
  BY <1>1, <1>2, <1>3, <1>4, <1>5, <1>6, <1>7, <1>8, IpcAssumption DEF Next, Step

\* The receiver's copy of the sender's id.  The one step that writes the field
\* again, SendOk, needs an open slot, so its owner is blocked, not reading.
LEMMA NextFrom == IInv /\ [Next]_vars => FromAgrees'
<1> DEFINE Agrees(f) ==
      /\ pc[f] = "ready" => from[f] = sent[f].from
      /\ pc[f] \in {"readPerm", "readValue", "got"} => ret[f].from = sent[f].from
<1> SUFFICES ASSUME IInv, [Next]_vars, NEW f \in Env PROVE Agrees(f)'
  BY DEF FromAgrees
<1>0. Agrees(f)
  BY DEF IInv, FromAgrees
<1> USE DEF IInv, TypeOK
<1>1. ASSUME NEW e \in Env, NEW pg \in BOOLEAN, SysIpcRecv(e, pg) PROVE Agrees(f)'
  BY <1>0, <1>1 DEF SysIpcRecv, Goto
<1>2. ASSUME NEW e \in Env, SendOk(e) PROVE Agrees(f)'
  BY <1>0, <1>2 DEF SendOk, Deliver
<1>3. ASSUME NEW e \in Env, Exit(e) PROVE Agrees(f)'
  BY <1>0, <1>3 DEF Exit, kernel
<1>4. ASSUME NEW e \in Env, ReadField(e) PROVE Agrees(f)'
  BY <1>0, <1>4 DEF ReadField, Goto, kernel
<1>5. ASSUME NEW e \in Env, Consume(e) PROVE Agrees(f)'
  BY <1>0, <1>5 DEF Consume, Goto, kernel
<1>6. ASSUME NEW e \in Env, SendRetry(e) \/ Retry(e) \/ EnvAlloc(e) PROVE Agrees(f)'
  BY <1>0, <1>6 DEF SendRetry, Retry, EnvAlloc, Goto, kernel
<1>7. ASSUME NEW e \in Env, SendPanic(e) PROVE Agrees(f)'
  BY <1>0, <1>7 DEF SendPanic, Goto
<1>8. ASSUME NEW e \in Env, NEW r \in Env, NEW v \in Value, NEW pg \in Page,
             StartSend(e, r, v, pg) PROVE Agrees(f)'
  BY <1>0, <1>8 DEF StartSend, Goto, kernel
<1>9. CASE UNCHANGED vars
  BY <1>0, <1>9 DEF vars, kernel
<1> QED
  BY <1>1, <1>2, <1>3, <1>4, <1>5, <1>6, <1>7, <1>8, <1>9, IpcAssumption DEF Next, Step

\* The receiver's copy of the value.
LEMMA NextValue == IInv /\ [Next]_vars => ValueAgrees'
<1> DEFINE Agrees(f) ==
      /\ pc[f] \in Reading => value[f] = sent[f].value
      /\ pc[f] = "got" => ret[f].value = sent[f].value
<1> SUFFICES ASSUME IInv, [Next]_vars, NEW f \in Env PROVE Agrees(f)'
  BY DEF ValueAgrees
<1>0. Agrees(f)
  BY DEF IInv, ValueAgrees
<1> USE DEF IInv, TypeOK, Reading
<1>1. ASSUME NEW e \in Env, NEW pg \in BOOLEAN, SysIpcRecv(e, pg) PROVE Agrees(f)'
  BY <1>0, <1>1 DEF SysIpcRecv, Goto
<1>2. ASSUME NEW e \in Env, SendOk(e) PROVE Agrees(f)'
  <2>1. CASE f = call[e].to
    BY <1>0, <1>2, <2>1 DEF SendOk, Deliver
  <2>2. CASE f # call[e].to
    BY <1>0, <1>2, <2>2 DEF SendOk, Deliver
  <2> QED BY <2>1, <2>2
<1>3. ASSUME NEW e \in Env, Exit(e) PROVE Agrees(f)'
  BY <1>0, <1>3 DEF Exit, kernel
<1>4. ASSUME NEW e \in Env, ReadField(e) PROVE Agrees(f)'
  BY <1>0, <1>4 DEF ReadField, Goto, kernel
<1>5. ASSUME NEW e \in Env, Consume(e) PROVE Agrees(f)'
  BY <1>0, <1>5 DEF Consume, Goto, kernel
<1>6. ASSUME NEW e \in Env, SendRetry(e) \/ Retry(e) \/ EnvAlloc(e) PROVE Agrees(f)'
  BY <1>0, <1>6 DEF SendRetry, Retry, EnvAlloc, Goto, kernel
<1>7. ASSUME NEW e \in Env, SendPanic(e) PROVE Agrees(f)'
  BY <1>0, <1>7 DEF SendPanic, Goto
<1>8. ASSUME NEW e \in Env, NEW r \in Env, NEW v \in Value, NEW pg \in Page,
             StartSend(e, r, v, pg) PROVE Agrees(f)'
  BY <1>0, <1>8 DEF StartSend, Goto, kernel
<1>9. CASE UNCHANGED vars
  BY <1>0, <1>9 DEF vars, kernel
<1> QED
  BY <1>1, <1>2, <1>3, <1>4, <1>5, <1>6, <1>7, <1>8, <1>9, IpcAssumption DEF Next, Step

\* The announcement.  SendPanic clears env_ipc_perm too, of an open slot only.
LEMMA NextPerm == IInv /\ [Next]_vars => PermAgrees'
<1> DEFINE Agrees(f) == sent[f].page =>
      /\ pc[f] \in {"ready", "readPerm"} => perm[f]
      /\ pc[f] \in {"readValue", "got"} => ret[f].perm
<1> SUFFICES ASSUME IInv, [Next]_vars, NEW f \in Env PROVE Agrees(f)'
  BY DEF PermAgrees
<1>0. Agrees(f)
  BY DEF IInv, PermAgrees
<1> USE DEF IInv, TypeOK, Reading
<1>1. ASSUME NEW e \in Env, NEW pg \in BOOLEAN, SysIpcRecv(e, pg) PROVE Agrees(f)'
  BY <1>0, <1>1 DEF SysIpcRecv, Goto
<1>2. ASSUME NEW e \in Env, SendOk(e) PROVE Agrees(f)'
  <2> DEFINE r == call[e].to
  <2>1. /\ r \in Env /\ recving[r] /\ pc[e] = "send"
        /\ perm' = IF call[e].page = "page" THEN [perm EXCEPT ![r] = wants[r]] ELSE perm
        /\ sent' = [sent EXCEPT ![r] = [from |-> e, value |-> call[e].value,
                       page |-> call[e].page = "page" /\ wants[r]]]
        /\ pc' = [pc EXCEPT ![e] = "idle", ![r] = "ready"]
        /\ ret' = ret
    BY <1>2 DEF SendOk, Deliver, SetPerm
  <2>2. CASE f = r
    <3>1. sent'[f].page <=> call[e].page = "page" /\ wants[f]
      BY <2>1, <2>2
    <3>2. pc'[f] = "ready"
      BY <2>1, <2>2
    <3> QED BY <2>1, <2>2, <3>1, <3>2
  <2>3. CASE f # r
    BY <1>0, <2>1, <2>3
  <2> QED BY <2>2, <2>3
<1>3. ASSUME NEW e \in Env, Exit(e) PROVE Agrees(f)'
  BY <1>0, <1>3 DEF Exit, kernel, NoSent
<1>4. ASSUME NEW e \in Env, ReadField(e) PROVE Agrees(f)'
  BY <1>0, <1>4 DEF ReadField, Goto, kernel
<1>5. ASSUME NEW e \in Env, Consume(e) PROVE Agrees(f)'
  BY <1>0, <1>5 DEF Consume, Goto, kernel, NoSent
<1>6. ASSUME NEW e \in Env, SendRetry(e) \/ Retry(e) \/ EnvAlloc(e) PROVE Agrees(f)'
  BY <1>0, <1>6 DEF SendRetry, Retry, EnvAlloc, Goto, kernel
<1>7. ASSUME NEW e \in Env, SendPanic(e) PROVE Agrees(f)'
  <2>1. call[e].to \in Env /\ (call[e].live => pc[call[e].to] # "free")
    BY DEF TargetLives
  <2>2. perm'[f] = perm[f] \/ pc[f] = "blocked"
    BY <1>7, <2>1 DEF SendPanic, OpenIffBlocked
  <2> QED BY <1>0, <1>7, <2>2 DEF SendPanic, Goto
<1>8. ASSUME NEW e \in Env, NEW r \in Env, NEW v \in Value, NEW pg \in Page,
             StartSend(e, r, v, pg) PROVE Agrees(f)'
  BY <1>0, <1>8 DEF StartSend, Goto, kernel
<1>9. CASE UNCHANGED vars
  BY <1>0, <1>9 DEF vars, kernel
<1> QED
  BY <1>1, <1>2, <1>3, <1>4, <1>5, <1>6, <1>7, <1>8, <1>9, IpcAssumption DEF Next, Step

-----------------------------------------------------------------------------
\* The strengthened invariant holds in every reachable state, whatever the
\* number of environments and the set of values.
THEOREM Invariant == Spec => []IInv
<1>1. IInv /\ [Next]_vars => IInv'
  BY NextTypeOK, NextOpen, NextTarget, NextFrom, NextValue, NextPerm DEF IInv
<1> QED BY InitIInv, <1>1, PTL DEF Spec

\* The variables keep their types.
THEOREM TypesHold == Spec => []TypeOK
<1>1. IInv => TypeOK
  BY DEF IInv
<1> QED BY Invariant, <1>1, PTL

\* ipc_recv (lib/ipc.c) returns sender and value of one send.
THEOREM MessageIntactHolds == Spec => []MessageIntact
<1>1. IInv => MessageIntact
  BY DEF IInv, MessageIntact, FromAgrees, ValueAgrees
<1> QED BY Invariant, <1>1, PTL

\* A page that sys_ipc_try_send mapped is announced by env_ipc_perm.
THEOREM PageAnnouncedHolds == Spec => []PageAnnounced
<1>1. IInv => PageAnnounced
  BY DEF IInv, PageAnnounced, PermAgrees
<1> QED BY Invariant, <1>1, PTL

\* env_ipc_recving is set exactly while a live environment is blocked.
THEOREM OpenIffBlockedHolds == Spec => []OpenIffBlocked
<1>1. IInv => OpenIffBlocked
  BY DEF IInv
<1> QED BY Invariant, <1>1, PTL

-----------------------------------------------------------------------------
(* Refinement of Rendezvous.                                               *)

openBar == {e \in Env : pc[e] = "blocked" /\ recving[e]}
boxBar == [e \in Env |-> IF pc[e] \in Reading
                         THEN {[from |-> from[e], value |-> value[e]]} ELSE {}]

\* sys_ipc_recv opens the box.
LEMMA RecvOpens ==
  ASSUME IInv, NEW e \in Env, NEW pg \in BOOLEAN, SysIpcRecv(e, pg)
  PROVE  Abstract!Open(e)
<1> USE DEF IInv, TypeOK, SysIpcRecv, Goto
<1>1. e \notin openBar /\ boxBar[e] = {}
  BY DEF openBar, boxBar, Reading
<1>2. openBar' = openBar \cup {e}
  BY DEF openBar
<1>3. boxBar' = boxBar
  BY DEF boxBar, Reading
<1> QED BY <1>1, <1>2, <1>3 DEF Abstract!Open, openBar, boxBar

\* A successful sys_ipc_try_send fills it.
LEMMA SendDelivers ==
  ASSUME IInv, NEW s \in Env, SendOk(s), NEW r \in Env, r = call[s].to,
         NEW msg \in Msg, msg = [from |-> s, value |-> call[s].value]
  PROVE  Abstract!Deliver(r, msg)
<1>1. /\ r # s /\ recving[r] /\ pc[r] = "blocked" /\ pc[s] = "send"
      /\ recving' = [recving EXCEPT ![r] = FALSE]
      /\ value' = [value EXCEPT ![r] = call[s].value]
      /\ from' = [from EXCEPT ![r] = s]
      /\ pc' = [pc EXCEPT ![s] = "idle", ![r] = "ready"]
  BY DEF IInv, TypeOK, OpenIffBlocked, TargetLives, SendOk, Deliver
<1>2. r \in openBar
  BY <1>1 DEF openBar
<1>3. openBar' = openBar \ {r}
  BY <1>1 DEF openBar, IInv, TypeOK
<1>4. boxBar' = [boxBar EXCEPT ![r] = {msg}]
  <2>1. boxBar'[r] = {msg}
    BY <1>1 DEF boxBar, IInv, TypeOK, Reading
  <2>2. ASSUME NEW e \in Env, e # r PROVE boxBar'[e] = boxBar[e]
    BY <1>1, <2>2 DEF boxBar, IInv, TypeOK, Reading
  <2> QED
    <3> DEFINE B == boxBar
               C == boxBar'
    <3>1. B = [e \in Env |-> B[e]] /\ C = [e \in Env |-> C[e]]
      BY DEF boxBar
    <3> HIDE DEF B, C
    <3>2. C[r] = {msg} /\ \A e \in Env : e # r => C[e] = B[e]
      BY <2>1, <2>2 DEF B, C
    <3>3. C = [B EXCEPT ![r] = {msg}]
      BY <3>1, <3>2
    <3> QED BY <3>3 DEF B, C
<1> QED BY <1>2, <1>3, <1>4 DEF Abstract!Deliver, openBar, boxBar

\* The last load of ipc_recv takes the message out, the others change nothing.
LEMMA ReadTakes ==
  ASSUME IInv, NEW e \in Env, ReadField(e)
  PROVE  Abstract!Take(e) \/ UNCHANGED Abstract!vars
<1> USE DEF IInv, TypeOK, Reading
<1>1. UNCHANGED <<recving, value, from>>
  BY DEF ReadField, kernel
<1>2. CASE Goto(e, "readValue", "got")
  <2>1. boxBar[e] # {}
    BY <1>2 DEF boxBar, Goto
  <2>2. openBar' = openBar
    BY <1>1, <1>2 DEF openBar, Goto
  <2>3. boxBar' = [boxBar EXCEPT ![e] = {}]
    <3>1. boxBar'[e] = {}
      BY <1>2 DEF boxBar, Goto
    <3>2. ASSUME NEW f \in Env, f # e PROVE boxBar'[f] = boxBar[f]
      BY <1>1, <1>2, <3>2 DEF boxBar, Goto
    <3> QED BY <3>1, <3>2 DEF boxBar
  <2> QED BY <2>1, <2>2, <2>3 DEF Abstract!Take, openBar, boxBar
<1>3. CASE Goto(e, "ready", "readPerm") \/ Goto(e, "readPerm", "readValue")
  <2>1. openBar' = openBar
    BY <1>1, <1>3 DEF openBar, Goto
  <2>2. boxBar' = boxBar
    BY <1>1, <1>3 DEF boxBar, Goto
  <2> QED BY <2>1, <2>2 DEF Abstract!vars, openBar, boxBar
<1> QED BY <1>2, <1>3 DEF ReadField

\* env_free empties and closes it.
LEMMA ExitDestroys ==
  ASSUME IInv, NEW e \in Env, Exit(e)
  PROVE  Abstract!Destroy(e)
<1> USE DEF IInv, TypeOK, Exit, kernel, Reading
<1>1. openBar' = openBar \ {e}
  BY DEF openBar
<1>2. boxBar' = [boxBar EXCEPT ![e] = {}]
  <2>1. boxBar'[e] = {}
    BY DEF boxBar
  <2>2. ASSUME NEW f \in Env, f # e PROVE boxBar'[f] = boxBar[f]
    BY <2>2 DEF boxBar
  <2> QED BY <2>1, <2>2 DEF boxBar
<1> QED BY <1>1, <1>2 DEF Abstract!Destroy, openBar, boxBar

\* Every other step leaves box and openness alone.
LEMMA OthersStutter ==
  ASSUME IInv, NEW e \in Env,
         \/ Consume(e) \/ SendRetry(e) \/ Retry(e) \/ SendPanic(e) \/ EnvAlloc(e)
         \/ \E r \in Receivers, v \in Value, pg \in Page : StartSend(e, r, v, pg)
  PROVE  UNCHANGED Abstract!vars
<1> USE DEF IInv, TypeOK, Reading, Goto, kernel
<1>1. CASE EnvAlloc(e)
  <2>1. openBar' = openBar
    BY <1>1 DEF EnvAlloc, openBar
  <2>2. boxBar' = boxBar
    BY <1>1 DEF EnvAlloc, boxBar
  <2> QED BY <2>1, <2>2 DEF Abstract!vars, openBar, boxBar
<1>2. CASE ~EnvAlloc(e)
  <2>1. /\ UNCHANGED <<recving, value, from>>
        /\ \E to \in {"idle", "send", "yield", "panic"} : pc' = [pc EXCEPT ![e] = to]
        /\ pc[e] \in {"got", "send", "yield", "idle"}
    BY <1>2 DEF Consume, SendRetry, Retry, SendPanic, StartSend
  <2>2. openBar' = openBar
    BY <2>1 DEF openBar
  <2>3. boxBar' = boxBar
    BY <2>1 DEF boxBar
  <2> QED BY <2>2, <2>3 DEF Abstract!vars, openBar, boxBar
<1> QED BY <1>1, <1>2

\* JOS IPC implements the rendezvous: a receive takes what one send delivered,
\* and a message is delivered only to an environment that waits for one.
THEOREM Implements == Spec => ImplementsRendezvous
<1>1. Init => Abstract!Init
  BY DEF Init, Abstract!Init, Reading
<1>2. IInv /\ [Next]_vars => [Abstract!Next]_(Abstract!vars)
  <2> SUFFICES ASSUME IInv, [Next]_vars
               PROVE  Abstract!Next \/ UNCHANGED Abstract!vars
    OBVIOUS
  <2>1. ASSUME NEW e \in Env, NEW pg \in BOOLEAN, SysIpcRecv(e, pg)
        PROVE  Abstract!Next
    BY <2>1, RecvOpens DEF Abstract!Next
  <2>2. ASSUME NEW e \in Env, SendOk(e) PROVE Abstract!Next
    <3>1. call[e] \in [to : Env, value : Value, page : Page, live : BOOLEAN]
      BY DEF IInv, TypeOK
    <3>2. PICK r \in Env, v \in Value : r = call[e].to /\ v = call[e].value
      BY <3>1
    <3>3. PICK m \in Msg : m = [from |-> e, value |-> v]
      BY DEF Msg
    <3>4. Abstract!Deliver(r, m)
      BY <2>2, <3>2, <3>3, SendDelivers
    <3> QED BY <3>4 DEF Abstract!Next
  <2>3. ASSUME NEW e \in Env, ReadField(e)
        PROVE  Abstract!Next \/ UNCHANGED Abstract!vars
    BY <2>3, ReadTakes DEF Abstract!Next
  <2>4. ASSUME NEW e \in Env, Exit(e) PROVE Abstract!Next
    BY <2>4, ExitDestroys DEF Abstract!Next
  <2>5. CASE UNCHANGED vars
    BY <2>5 DEF vars, kernel, Abstract!vars
  <2> QED
    BY <2>1, <2>2, <2>3, <2>4, <2>5, OthersStutter DEF Next, Step
<1> QED
  BY <1>1, <1>2, Invariant, PTL DEF Spec, ImplementsRendezvous, Abstract!Spec
=============================================================================
