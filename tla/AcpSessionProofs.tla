-------------------------- MODULE AcpSessionProofs --------------------------
(***************************************************************************)
(* The life of a session id for any number of concurrent requests: a       *)
(* deleted session stays deleted, loads exclude one another and live       *)
(* sessions, prompts wait for the replay, and a cancel reaches the turn it *)
(* is meant for when the client sends one prompt at a time.                *)
(* The runner behind them, under the name Runner: its cache holds no       *)
(* half-reaped session.                                                    *)
(* The wire, under the name Replay: a load that reports success has shown  *)
(* the whole transcript.                                                   *)
(***************************************************************************)
EXTENDS AcpSession, FiniteSetTheorems, SequenceTheorems, TLAPS

CONSTANTS Id, MaxBuilds, NoId
VARIABLES sessions, built, inc, trackers, wakeInFlight, parked, lastSessionID, closer,
          down, toClose, ctxDone, served, exited

Runner == INSTANCE RunnerSessions

Past(l) == lpc[l] \in {"replay", "insert", "ready", "end"}

\* Every load past its guard has an incarnation of its own, made after all the
\* others, and there is one such load while the marker is up.
LoadInv ==
    /\ last = 1 + Cardinality({l \in Loader : lst[l] # 0})
    /\ \A l \in Loader :
         /\ lst[l] \in {0} \cup 2 .. last
         /\ lpc[l] \in {"idle", "guard"} => lst[l] = 0
         /\ Past(l) => lst[l] # 0 /\ loading /\ cur \in {0, lst[l]}
    /\ \A l, m \in Loader : lst[l] = lst[m] /\ lst[l] # 0 => l = m
    /\ \A l, m \in Loader : Past(l) /\ Past(m) => l = m
    /\ loading => \E l \in Loader : Past(l)

\* An incarnation is ready when its replay is over, and a prompt past the gate
\* is on a ready one.
ReadyInv ==
    /\ ready \subseteq 1 .. last
    /\ \A l \in Loader : lst[l] \in ready => lpc[l] \in {"end", "done"}
    /\ \A p \in Prompt : InFlight(p) => pst[p] \in ready

\* A handler past its lookup has found an incarnation.
HeldInv ==
    /\ \A p \in Prompt : InFlight(p) => pst[p] # 0
    /\ \A k \in Closer : kpc[k] \in {"cancel", "wait", "reap", "drop"} => kst[k] # 0
    /\ \A n \in Canceller : npc[n] = "found" => nst[n] # 0

\* With one prompt in flight at a time, st.cancel holds that prompt's func from
\* setCancel until the deferred clear.
SlotInv ==
    /\ \A p, q \in Prompt : InFlight(p) /\ InFlight(q) => p = q
    /\ \A p \in Prompt : ppc[p] \in {"armed", "added", "running"} => cancel[pst[p]] = p

OneAtATime == Overlap \/ SlotInv

SessionInv == /\ TypeOK /\ LoadInv /\ ReadyInv /\ HeldInv /\ OneAtATime
              /\ DeletedStaysDeleted

-----------------------------------------------------------------------------
\* The incarnations are numbered from 1, and 0 stands for none.
LEMMA Numbers ==
    ASSUME AcpAssumption
    PROVE  /\ MaxIncarnation \in Nat /\ MaxIncarnation >= 1
           /\ \A i \in 0 .. MaxIncarnation : i # 0 => i \in Incarnation
           /\ \A i \in Incarnation : i \in 1 .. MaxIncarnation
           /\ 1 \in Incarnation
  BY FS_CardinalityType DEF AcpAssumption, MaxIncarnation, Incarnation

\* One incarnation per load fits the range the model gives them.
LEMMA RoomForLoad ==
    ASSUME AcpAssumption, LoadInv, TypeOK, NEW l \in Loader, lst[l] = 0
    PROVE  /\ last + 1 \in Incarnation
           /\ last + 1 = 1 + Cardinality({m \in Loader : m = l \/ lst[m] # 0})
           /\ last \in Nat /\ MaxIncarnation \in Nat
<1> DEFINE S == {m \in Loader : lst[m] # 0}
<1>1. IsFiniteSet(Loader)
  BY DEF AcpAssumption
<1>2. IsFiniteSet(S) /\ Cardinality(S) \in Nat /\ Cardinality(Loader) \in Nat
  BY <1>1, FS_Subset, FS_CardinalityType
<1>3. Cardinality(S \cup {l}) = Cardinality(S) + 1
  BY <1>2, FS_AddElement
<1>4. Cardinality(S \cup {l}) <= Cardinality(Loader)
  BY <1>1, FS_Subset
<1>5. S \cup {l} = {m \in Loader : m = l \/ lst[m] # 0}
  OBVIOUS
<1>6. last = 1 + Cardinality(S)
  BY DEF LoadInv
<1> QED
  BY <1>2, <1>3, <1>4, <1>5, <1>6 DEF Incarnation, MaxIncarnation

\* What a step may leave alone of the load state.
LEMMA LoadsUntouched ==
    ASSUME LoadInv, UNCHANGED <<last, loading, loadVars>>, cur' \in {0, cur}
    PROVE  LoadInv'
  BY DEF LoadInv, Past, loadVars

\* A step that leaves the loads and the ready sessions alone keeps their invariant.
LEMMA ReadyUntouched ==
    ASSUME ReadyInv, UNCHANGED <<last, ready, loadVars>>,
           \A p \in Prompt : InFlight(p)' => pst'[p] \in ready
    PROVE  ReadyInv'
  BY DEF ReadyInv, InFlight, loadVars

\* The initial state: one ready incarnation, no request begun.
LEMMA InitSessionInv == AcpAssumption /\ Init => SessionInv
<1> SUFFICES ASSUME AcpAssumption, Init PROVE SessionInv
  OBVIOUS
<1> USE DEF Init
<1>1. Cardinality(Loader) \in Nat
  BY FS_CardinalityType DEF AcpAssumption
<1>2. {l \in Loader : lst[l] # 0} = {}
  OBVIOUS
<1>3. Cardinality({l \in Loader : lst[l] # 0}) = 0
  BY <1>2, FS_EmptySet
<1>4. TypeOK
  <2>1. 0 \in 0 .. MaxIncarnation /\ 1 \in 0 .. MaxIncarnation /\ 1 \in Incarnation
    BY Numbers
  <2> QED
    BY <2>1 DEF TypeOK
<1>5. LoadInv
  BY <1>3 DEF LoadInv, Past
<1>6. ReadyInv /\ HeldInv /\ OneAtATime /\ DeletedStaysDeleted
  BY DEF ReadyInv, HeldInv, OneAtATime, SlotInv, InFlight, DeletedStaysDeleted
<1> QED
  BY <1>4, <1>5, <1>6 DEF SessionInv

-----------------------------------------------------------------------------
\* handleSessionPrompt: whoever passes the gate is on a ready incarnation, and
\* no prompt touches the load state.
LEMMA PromptsStep ==
    ASSUME AcpAssumption, SessionInv, NEW p \in Prompt,
           \/ PromptGate(p) \/ SetCancel(p) \/ RegisterAdd(p)
           \/ RegisterCheck(p) \/ RunReturns(p) \/ ClearCancel(p)
    PROVE  SessionInv'
<1> USE DEF SessionInv, shared, loadVars, closeVars, cancelVars, PromptStep
<1>1. CASE PromptGate(p)
  <2> USE <1>1 DEF PromptGate
  <2>1. TypeOK'
    BY DEF TypeOK
  <2>2. \A q \in Prompt : InFlight(q)' => pst'[q] \in ready
    BY DEF TypeOK, ReadyInv, InFlight, Gate
  <2>3. HeldInv' /\ OneAtATime'
    BY DEF TypeOK, HeldInv, OneAtATime, SlotInv, InFlight, Gate
  <2> QED
    BY <2>1, <2>2, <2>3, LoadsUntouched, ReadyUntouched DEF DeletedStaysDeleted
<1>2. CASE SetCancel(p) \/ ClearCancel(p)
  <2> USE <1>2 DEF SetCancel, ClearCancel, CancelSlot
  <2>1. pst[p] \in Incarnation
    BY Numbers DEF TypeOK, HeldInv, InFlight
  <2>2. TypeOK'
    BY <2>1 DEF TypeOK
  <2>3. \A q \in Prompt : InFlight(q)' => pst'[q] \in ready
    BY DEF TypeOK, ReadyInv, InFlight
  <2>4. HeldInv' /\ OneAtATime'
    BY <2>1 DEF TypeOK, HeldInv, OneAtATime, SlotInv, InFlight
  <2> QED
    BY <2>2, <2>3, <2>4, LoadsUntouched, ReadyUntouched DEF DeletedStaysDeleted
<1>3. CASE RegisterAdd(p) \/ RegisterCheck(p) \/ RunReturns(p)
  <2> USE <1>3 DEF RegisterAdd, RegisterCheck, RunReturns
  <2>1. TypeOK'
    BY DEF TypeOK
  <2>2. \A q \in Prompt : InFlight(q)' => pst'[q] \in ready
    BY DEF TypeOK, ReadyInv, InFlight
  <2>3. HeldInv' /\ OneAtATime'
    BY DEF TypeOK, HeldInv, OneAtATime, SlotInv, InFlight
  <2> QED
    BY <2>1, <2>2, <2>3, LoadsUntouched, ReadyUntouched DEF DeletedStaysDeleted
<1> QED
  BY <1>1, <1>2, <1>3

\* session/cancel only adds to the cancelled prompts.
LEMMA CancelsStep ==
    ASSUME AcpAssumption, SessionInv, NEW n \in Canceller, CancelLookup(n) \/ CancelFire(n)
    PROVE  SessionInv'
<1> USE DEF SessionInv, shared, promptVars, loadVars, closeVars, CancelLookup, CancelFire
<1>1. npc[n] = "found" => nst[n] \in Incarnation
  BY Numbers DEF TypeOK, HeldInv
<1>2. TypeOK'
  BY <1>1 DEF TypeOK, CancelTurn, CancelFunc
<1>3. \A q \in Prompt : InFlight(q)' => pst'[q] \in ready
  BY DEF ReadyInv, InFlight
<1>4. HeldInv' /\ OneAtATime'
  BY DEF TypeOK, HeldInv, OneAtATime, SlotInv, InFlight
<1> QED
  BY <1>2, <1>3, <1>4, LoadsUntouched, ReadyUntouched DEF DeletedStaysDeleted

-----------------------------------------------------------------------------
\* session/close and session/delete: a handler ends only when it found no
\* incarnation or has just dropped it.
LEMMA ClosersStep ==
    ASSUME AcpAssumption, SessionInv, NEW k \in Closer,
           \/ CloseBegin(k) \/ DeleteBegin(k) \/ CloseLookup(k)
           \/ CloseCancel(k) \/ CloseDrained(k) \/ CloseForced(k)
           \/ CloseReap(k) \/ CloseDrop(k)
    PROVE  SessionInv'
<1> USE DEF SessionInv, shared, promptVars, loadVars, cancelVars, CloseStep
<1>1. UNCHANGED <<last, ready, loading, loadVars, promptVars, cancel, cancelVars, gpc>>
      /\ cur' \in {0, cur}
  BY DEF CloseBegin, DeleteBegin, CloseLookup, CloseCancel, CloseDrained, CloseForced,
         CloseReap, CloseDrop
<1>2. LoadInv' /\ ReadyInv'
  <2>1. \A q \in Prompt : InFlight(q)' => pst'[q] \in ready
    BY <1>1 DEF ReadyInv, InFlight
  <2> QED
    BY <1>1, <2>1, LoadsUntouched, ReadyUntouched
<1>3. OneAtATime'
  BY <1>1 DEF OneAtATime, SlotInv, InFlight
<1>4. CASE CloseBegin(k) \/ DeleteBegin(k)
  <2> USE <1>4 DEF CloseBegin, DeleteBegin
  <2>1. tombstone' \in BOOLEAN /\ deleting' \subseteq Closer
    BY DEF TypeOK
  <2>2. TypeOK'
    BY <2>1 DEF TypeOK
  <2>3. HeldInv'
    BY DEF TypeOK, HeldInv, InFlight
  <2>4. kpc'[k] = "lookup" /\ (\A j \in Closer \ {k} : kpc'[j] = kpc[j])
    BY DEF TypeOK
  <2>5. DeletedStaysDeleted'
    <3>1. CASE DeleteBegin(k)
      BY <2>4, <3>1 DEF DeletedStaysDeleted
    <3>2. CASE CloseBegin(k)
      BY <2>4, <3>2 DEF DeletedStaysDeleted, TypeOK
    <3> QED
      BY <3>1, <3>2
  <2> QED
    BY <1>2, <1>3, <2>2, <2>3, <2>5
<1>5. CASE CloseLookup(k)
  BY <1>2, <1>3, <1>5 DEF CloseLookup, TypeOK, HeldInv, InFlight, DeletedStaysDeleted
<1>6. CASE CloseCancel(k)
  <2>1. kst[k] \in Incarnation
    BY <1>6 DEF CloseCancel, TypeOK, HeldInv, Incarnation
  <2> QED
    BY <1>2, <1>3, <1>6, <2>1 DEF CloseCancel, CancelTurn, CancelFunc, TypeOK, HeldInv,
       InFlight, DeletedStaysDeleted
<1>7. CASE CloseDrained(k) \/ CloseForced(k) \/ CloseReap(k)
  BY <1>2, <1>3, <1>7 DEF CloseDrained, CloseForced, CloseReap, TypeOK, HeldInv,
     InFlight, DeletedStaysDeleted
<1>8. CASE CloseDrop(k)
  BY Numbers, <1>2, <1>3, <1>8 DEF CloseDrop, TypeOK, HeldInv, InFlight, DeletedStaysDeleted
<1> QED
  BY <1>4, <1>5, <1>6, <1>7, <1>8

\* Logout drops the incarnation and touches nothing else.
LEMMA LogoutStep ==
    ASSUME AcpAssumption, SessionInv, NEW g \in Logout, LogoutReap(g) \/ LogoutDrop(g)
    PROVE  SessionInv'
<1> USE DEF SessionInv, shared, promptVars, loadVars, closeVars, cancelVars, LogoutReap,
            LogoutDrop
<1>1. TypeOK'
  BY Numbers DEF TypeOK
<1>2. \A q \in Prompt : InFlight(q)' => pst'[q] \in ready
  BY DEF ReadyInv, InFlight
<1>3. HeldInv' /\ OneAtATime' /\ DeletedStaysDeleted'
  BY DEF HeldInv, OneAtATime, SlotInv, InFlight, DeletedStaysDeleted
<1> QED
  BY <1>1, <1>2, <1>3, LoadsUntouched, ReadyUntouched

-----------------------------------------------------------------------------
\* LoadSession: the guard admits one load and numbers its incarnation, the
\* insert looks at the tombstone again, and ready comes after the replay.
LEMMA LoadersStep ==
    ASSUME AcpAssumption, SessionInv, NEW l \in Loader,
           \/ LoadStat(l) \/ LoadGuard(l) \/ LoadReplay(l) \/ LoadFails(l)
           \/ LoadInsert(l) \/ LoadReady(l) \/ EndLoading(l)
    PROVE  SessionInv'
<1> USE DEF SessionInv, shared, promptVars, closeVars, cancelVars, LoadStep
<1>1. UNCHANGED <<promptVars, closeVars, gpc, cancelVars, cancel, tombstone, cancelled>>
  BY DEF LoadStat, LoadGuard, LoadReplay, LoadFails, LoadInsert, LoadReady, EndLoading
<1>2. HeldInv' /\ OneAtATime'
  BY <1>1 DEF HeldInv, OneAtATime, SlotInv, InFlight
<1>3. CASE LoadStat(l) \/ LoadReplay(l) \/ LoadFails(l)
  <2> USE <1>3 DEF LoadStat, LoadReplay, LoadFails
  <2>1. TypeOK' /\ DeletedStaysDeleted'
    BY DEF TypeOK, DeletedStaysDeleted
  <2>2. LoadInv'
    <3>1. UNCHANGED <<lst, last, loading, cur>>
      OBVIOUS
    <3>2. \A m \in Loader : Past(m)' <=> Past(m)
      BY DEF TypeOK, Past
    <3>3. \A m \in Loader : lpc'[m] \in {"idle", "guard"} => lpc[m] \in {"idle", "guard"}
      BY DEF TypeOK
    <3>4. {m \in Loader : lst'[m] # 0} = {m \in Loader : lst[m] # 0}
      BY <3>1
    <3> QED
      BY <3>1, <3>2, <3>3, <3>4 DEF LoadInv
  <2>3. ReadyInv'
    BY DEF TypeOK, ReadyInv, LoadInv, Past, InFlight
  <2> QED
    BY <1>2, <2>1, <2>2, <2>3
<1>4. CASE LoadGuard(l)
  <2> USE <1>4 DEF LoadGuard
  <2>1. CASE LoadGuardFree
    <3> USE <2>1 DEF LoadGuardFree
    <3>1. lst[l] = 0
      BY DEF LoadInv
    <3>2. /\ last + 1 \in Incarnation /\ last \in Nat /\ MaxIncarnation \in Nat
          /\ last + 1 = 1 + Cardinality({m \in Loader : m = l \/ lst[m] # 0})
      BY <3>1, RoomForLoad
    <3>3. lst' = [lst EXCEPT ![l] = last + 1] /\ last' = last + 1 /\ loading'
          /\ lpc' = [lpc EXCEPT ![l] = "replay"] /\ UNCHANGED <<cur, ready>>
      OBVIOUS
    <3>4. TypeOK' /\ DeletedStaysDeleted'
      <4>1. lst' \in [Loader -> 0 .. MaxIncarnation]
        BY <3>2, <3>3 DEF TypeOK, Incarnation
      <4> QED
        BY <1>1, <3>2, <3>3, <4>1 DEF TypeOK, DeletedStaysDeleted
    <3>5. {m \in Loader : lst'[m] # 0} = {m \in Loader : m = l \/ lst[m] # 0}
      BY <3>2, <3>3 DEF TypeOK
    <3>6. \A m \in Loader : ~Past(m)
      BY DEF LoadInv
    <3>7. LoadInv'
      <4>1. \A m \in Loader : /\ Past(m)' <=> m = l
                              /\ m # l => lpc'[m] = lpc[m] /\ lst'[m] = lst[m]
                              /\ m = l => lpc'[m] = "replay" /\ lst'[m] = last + 1
        BY <3>3, <3>6 DEF TypeOK, Past
      <4>2. last' = 1 + Cardinality({m \in Loader : lst'[m] # 0})
        BY <3>2, <3>3, <3>5
      <4>3. \A m \in Loader : /\ lst'[m] \in {0} \cup 2 .. last'
                              /\ lpc'[m] \in {"idle", "guard"} => lst'[m] = 0
                              /\ Past(m)' => lst'[m] # 0 /\ loading' /\ cur' \in {0, lst'[m]}
        BY <3>2, <3>3, <4>1 DEF TypeOK, LoadInv, Incarnation
      <4>4. \A m, n \in Loader : lst'[m] = lst'[n] /\ lst'[m] # 0 => m = n
        BY <3>2, <3>3, <4>1 DEF LoadInv
      <4> QED
        BY <3>3, <4>1, <4>2, <4>3, <4>4 DEF LoadInv
    <3>8. ReadyInv'
      BY <1>1, <3>1, <3>2, <3>3 DEF TypeOK, ReadyInv, InFlight
    <3> QED
      BY <1>2, <3>4, <3>7, <3>8
  <2>2. CASE ~LoadGuardFree
    BY <1>2, <2>2 DEF TypeOK, DeletedStaysDeleted, LoadInv, ReadyInv, Past, InFlight
  <2> QED
    BY <2>1, <2>2
<1>5. CASE LoadInsert(l)
  <2> USE <1>5 DEF LoadInsert, MayInsert
  <2>1. TypeOK' /\ DeletedStaysDeleted'
    BY DEF TypeOK, DeletedStaysDeleted
  <2>2. LoadInv'
    BY DEF TypeOK, LoadInv, Past
  <2>3. ReadyInv'
    BY DEF TypeOK, ReadyInv, LoadInv, Past, InFlight
  <2> QED
    BY <1>2, <2>1, <2>2, <2>3
<1>6. CASE LoadReady(l)
  <2> USE <1>6 DEF LoadReady
  <2>1. lst[l] \in 2 .. last /\ last \in Incarnation
    BY DEF TypeOK, LoadInv, Past
  <2>2. lst[l] \in Incarnation
    BY <2>1, Numbers DEF Incarnation
  <2>3. TypeOK' /\ DeletedStaysDeleted'
    BY <2>2 DEF TypeOK, DeletedStaysDeleted
  <2>4. LoadInv'
    BY DEF TypeOK, LoadInv, Past
  <2>5. \A m \in Loader : lst[m] \in ready' => lpc'[m] \in {"end", "done"}
    <3>1. lpc' = [lpc EXCEPT ![l] = "end"] /\ ready' = ready \cup {lst[l]}
      OBVIOUS
    <3>2. \A m \in Loader : lst[m] = lst[l] => m = l
      BY <2>1 DEF LoadInv
    <3> QED
      BY <3>1, <3>2 DEF TypeOK, ReadyInv
  <2>6. ReadyInv'
    <3>1. ready' \subseteq 1 .. last'
      <4>1. lst[l] \in 1 .. last
        BY <2>1, Numbers
      <4>2. ready' = ready \cup {lst[l]} /\ last' = last /\ ready \subseteq 1 .. last
        BY DEF ReadyInv
      <4> QED
        BY <4>1, <4>2
    <3>2. UNCHANGED <<lst, ppc, pst>>
      OBVIOUS
    <3> QED
      BY <2>5, <3>1, <3>2 DEF ReadyInv, InFlight
  <2> QED
    BY <1>2, <2>3, <2>4, <2>6
<1>7. CASE EndLoading(l)
  <2> USE <1>7 DEF EndLoading
  <2>1. TypeOK' /\ DeletedStaysDeleted'
    BY DEF TypeOK, DeletedStaysDeleted
  <2>2. LoadInv'
    BY DEF TypeOK, LoadInv, Past
  <2>3. ReadyInv'
    BY DEF TypeOK, ReadyInv, InFlight
  <2> QED
    BY <1>2, <2>1, <2>2, <2>3
<1> QED
  BY <1>3, <1>4, <1>5, <1>6, <1>7

-----------------------------------------------------------------------------
\* A step that changes nothing keeps the invariant.
LEMMA StutterStep == ASSUME SessionInv, UNCHANGED vars PROVE SessionInv'
<1> USE DEF vars, shared, promptVars, loadVars, closeVars, cancelVars, SessionInv
<1>1. TypeOK' /\ DeletedStaysDeleted'
  BY DEF TypeOK, DeletedStaysDeleted
<1>2. LoadInv' /\ ReadyInv'
  BY DEF LoadInv, ReadyInv, Past, InFlight
<1>3. HeldInv' /\ OneAtATime'
  BY DEF HeldInv, OneAtATime, SlotInv, InFlight
<1> QED
  BY <1>1, <1>2, <1>3

\* The inductive invariant of the session's life holds in every reachable state,
\* for any sets of concurrent requests.
THEOREM SessionInvariance == ASSUME AcpAssumption PROVE Spec => []SessionInv
<1>1. Init => SessionInv
  BY InitSessionInv
<1>2. SessionInv /\ [Next]_vars => SessionInv'
  BY PromptsStep, CancelsStep, ClosersStep, LogoutStep, LoadersStep, StutterStep DEF Next
<1> QED
  BY <1>1, <1>2, PTL DEF Spec

\* Deleted stays deleted, whatever loads race the delete: once the handlers of
\* session/delete whose marker is on disk have returned, the id is not live.
THEOREM DeletedStays == ASSUME AcpAssumption PROVE Spec => []DeletedStaysDeleted
<1>1. SessionInv => DeletedStaysDeleted
  BY DEF SessionInv
<1> QED
  BY <1>1, SessionInvariance, PTL

\* The mid-load marker admits one load, and never onto a live session.
THEOREM LoadsExclude == ASSUME AcpAssumption PROVE Spec => []LoadExclusive
<1>1. ASSUME LoadInv PROVE LoadExclusive
  <2> DEFINE past == {l \in Loader : lpc[l] \in {"replay", "insert", "ready", "end"}}
  <2>1. CASE loading
    <3>1. PICK l \in Loader : Past(l)
      BY <1>1, <2>1 DEF LoadInv
    <3>2. past = {l}
      BY <1>1, <3>1 DEF LoadInv, Past
    <3> QED
      BY <1>1, <2>1, <3>2, FS_Singleton DEF LoadInv, LoadExclusive, Past
  <2>2. CASE ~loading
    <3>1. past = {}
      BY <1>1, <2>2 DEF LoadInv, Past
    <3> QED
      BY <2>2, <3>1, FS_EmptySet DEF LoadExclusive
  <2> QED
    BY <1>1, <2>1, <2>2 DEF LoadInv
<1> QED
  BY <1>1, SessionInvariance, PTL DEF SessionInv

\* No prompt runs on an incarnation whose transcript is still being replayed.
THEOREM PromptsWait == ASSUME AcpAssumption PROVE Spec => []PromptsWaitForReplay
<1>1. SessionInv => PromptsWaitForReplay
  BY DEF SessionInv, ReadyInv, InFlight, PromptsWaitForReplay
<1> QED
  BY <1>1, SessionInvariance, PTL

\* When the client sends one prompt at a time, session/cancel reaches the turn
\* that runs on the incarnation it looked up.
THEOREM CancelReaches ==
    ASSUME AcpAssumption, ~Overlap PROVE Spec => CancelReachesTurn
<1> DEFINE Reaches ==
      \A n \in Canceller : npc[n] = "found" /\ npc'[n] = "done" =>
        \A p \in Prompt : ppc[p] = "running" /\ pst[p] = nst[n] => p \in cancelled'
<1>1. ASSUME SessionInv, Next PROVE Reaches
  <2> SUFFICES ASSUME NEW n \in Canceller, npc[n] = "found", npc'[n] = "done",
                      NEW p \in Prompt, ppc[p] = "running", pst[p] = nst[n]
               PROVE  p \in cancelled'
    OBVIOUS
  <2>1. \E m \in Canceller : CancelLookup(m) \/ CancelFire(m)
    BY <1>1 DEF Next, PromptGate, SetCancel, RegisterAdd, RegisterCheck, RunReturns,
       ClearCancel, PromptStep, CloseBegin, DeleteBegin, CloseLookup, CloseCancel,
       CloseDrained, CloseForced, CloseReap, CloseDrop, CloseStep, LogoutReap, LogoutDrop,
       LoadStat, LoadGuard, LoadReplay, LoadFails, LoadInsert, LoadReady, EndLoading,
       LoadStep, cancelVars
  <2>2. CancelFire(n)
    BY <1>1, <2>1 DEF SessionInv, TypeOK, CancelLookup, CancelFire
  <2>3. cancel[nst[n]] = p /\ p # NoPrompt
    BY <1>1 DEF SessionInv, OneAtATime, SlotInv, AcpAssumption
  <2> QED
    BY <2>2, <2>3 DEF CancelFire, CancelTurn, CancelFunc
<1>2. SessionInv /\ UNCHANGED vars => [Reaches]_vars
  OBVIOUS
<1>3. SessionInv /\ [Next]_vars => [Reaches]_vars
  BY <1>1, <1>2
<1> QED
  BY <1>3, SessionInvariance, PTL DEF Spec, CancelReachesTurn

(***************************************************************************)
(* The runner's cache behind those handlers (runtime.go): what it hands    *)
(* out is whole while the serve runs.                                      *)
(***************************************************************************)
Owned == {"id", "host", "toolkit", "writer", "forwarder", "turn", "ask", "closed"}
Hold == {"pc", "id", "n"}

\* What was built belongs to an id; what was not has nothing to do.  A closer past
\* its start has an id, and one that reaps an incarnation.
OwnersInv ==
  /\ DOMAIN inc = 1 .. MaxBuilds /\ DOMAIN closer = Closer
  /\ \A n \in 1 .. MaxBuilds :
       /\ DOMAIN inc[n] = Owned
       /\ n <= built => inc[n].id \in Id
       /\ n > built => ~inc[n].turn /\ ~inc[n].toolkit
  /\ \A i \in Id : sessions[i] <= built
  /\ \A c \in Closer :
       /\ DOMAIN closer[c] = Hold
       /\ closer[c].pc # "idle" => closer[c].id \in Id
       /\ closer[c].pc = "reap" => closer[c].n \in 1 .. built

\* What is in the cache was built for its id and is not closed; what a closer is
\* about to reap has left it; the shutdown waits for the context.
CacheInv ==
  ~ctxDone =>
    /\ down = "idle" /\ toClose = {}
    /\ \A i \in Id : sessions[i] # 0 =>
         /\ inc[sessions[i]].id = i /\ ~inc[sessions[i]].closed
         /\ inc[sessions[i]].writer /\ inc[sessions[i]].forwarder
    /\ \A c \in Closer : closer[c].pc = "reap" => \A i \in Id : sessions[i] # closer[c].n

RunnerInv == Runner!TypeOK /\ OwnersInv /\ CacheInv

\* An incarnation is built under an id that has none.
LEMMA RunnerBuilds ==
  ASSUME MaxBuilds \in Nat, RunnerInv, NEW i \in Id, NEW h \in Runner!Hosts, NEW t \in BOOLEAN,
         Runner!Build(i, h, t)
  PROVE  RunnerInv'
<1> DEFINE n == built + 1
           x == Runner!NewSession(i, h, t)
<1>1. /\ sessions[i] = 0 /\ built < MaxBuilds /\ built' = n
      /\ inc' = [inc EXCEPT ![n] = x] /\ sessions' = [sessions EXCEPT ![i] = n]
      /\ trackers' = (IF t THEN [trackers EXCEPT ![i] = n] ELSE trackers)
      /\ lastSessionID' = i
      /\ UNCHANGED <<wakeInFlight, parked, closer, ctxDone, down, toClose>>
  BY DEF Runner!Build, Runner!Serving, Runner!BindTracker
<1>2. /\ DOMAIN x = Owned /\ x.id = i /\ x.host \in {"nop", "live"} /\ ~x.closed
      /\ x.writer /\ x.forwarder /\ ~x.turn
  BY DEF Runner!NewSession, Owned, Runner!Hosts, Runner!Connects
<1> HIDE DEF x
<1>3. /\ n \in 1 .. MaxBuilds /\ built \in Nat
      /\ \A m \in 0 .. MaxBuilds : m <= n <=> m <= built \/ m = n
      /\ \A j \in Id : sessions[j] # n /\ sessions[j] \in 0 .. MaxBuilds
      /\ \A c \in Closer : closer[c].pc = "reap" => closer[c].n # n /\ closer[c].n \in 1 .. n
  BY <1>1 DEF RunnerInv, Runner!TypeOK, OwnersInv
<1> HIDE DEF n
<1>4. /\ inc'[n] = x /\ \A m \in 1 .. MaxBuilds : m # n => inc'[m] = inc[m]
      /\ sessions'[i] = n /\ \A j \in Id : j # i => sessions'[j] = sessions[j]
  BY <1>1, <1>3 DEF RunnerInv, OwnersInv, Runner!TypeOK
<1>5. Runner!TypeOK'
  BY <1>1, <1>2, <1>3, <1>4 DEF RunnerInv, Runner!TypeOK, Runner!Incarnation
<1>6. OwnersInv'
  <2>1. DOMAIN inc' = 1 .. MaxBuilds /\ DOMAIN closer' = Closer
    BY <1>1 DEF RunnerInv, OwnersInv
  <2>2. \A m \in 1 .. MaxBuilds :
          /\ DOMAIN inc'[m] = Owned
          /\ m <= built' => inc'[m].id \in Id
          /\ m > built' => ~inc'[m].turn /\ ~inc'[m].toolkit
    <3> SUFFICES ASSUME NEW m \in 1 .. MaxBuilds
                 PROVE  /\ DOMAIN inc'[m] = Owned
                        /\ m <= built' => inc'[m].id \in Id
                        /\ m > built' => ~inc'[m].turn /\ ~inc'[m].toolkit
      OBVIOUS
    <3>1. m <= n <=> m <= built \/ m = n
      BY <1>3
    <3>2. CASE m = n
      BY <1>1, <1>2, <1>3, <1>4, <3>2
    <3>3. CASE m # n
      BY <1>1, <1>3, <1>4, <3>1, <3>3 DEF RunnerInv, OwnersInv
    <3> QED
      BY <3>2, <3>3
  <2>3. \A j \in Id : sessions'[j] <= built'
    <3>1. \A j \in Id : sessions[j] <= n
      BY <1>3 DEF RunnerInv, OwnersInv
    <3> QED
      BY <1>1, <1>3, <1>4, <3>1
  <2> QED
    BY <1>1, <1>3, <2>1, <2>2, <2>3 DEF RunnerInv, OwnersInv
<1>7. CacheInv'
  BY <1>1, <1>2, <1>3, <1>4 DEF RunnerInv, CacheInv, OwnersInv, Runner!TypeOK
<1> QED
  BY <1>5, <1>6, <1>7 DEF RunnerInv

\* A field of one incarnation changes that the cache does not look at.
LEMMA RunnerSets ==
  ASSUME RunnerInv, NEW n \in 1 .. MaxBuilds, NEW f \in {"turn", "ask"}, NEW v \in BOOLEAN,
         Runner!SetInc(n, f, v), v => inc[n].id \in Id /\ n <= built, parked' \subseteq Id,
         UNCHANGED <<sessions, built, trackers, wakeInFlight, lastSessionID, closer, down,
                     toClose, ctxDone>>
  PROVE  RunnerInv'
<1>1. /\ DOMAIN inc' = 1 .. MaxBuilds
      /\ \A m \in 1 .. MaxBuilds :
           /\ DOMAIN inc'[m] = Owned /\ inc'[m].id = inc[m].id /\ inc'[m].host = inc[m].host
           /\ inc'[m].toolkit = inc[m].toolkit /\ inc'[m].writer = inc[m].writer
           /\ inc'[m].forwarder = inc[m].forwarder /\ inc'[m].closed = inc[m].closed
           /\ inc'[m].turn => inc[m].turn \/ (m = n /\ v)
  BY DEF RunnerInv, OwnersInv, Runner!SetInc, Owned
<1>2. Runner!TypeOK'
  BY <1>1 DEF RunnerInv, Runner!TypeOK, Runner!Incarnation
<1>3. OwnersInv'
  BY <1>1 DEF RunnerInv, OwnersInv, Runner!TypeOK
<1>4. CacheInv'
  BY <1>1 DEF RunnerInv, CacheInv, OwnersInv, Runner!TypeOK
<1> QED
  BY <1>2, <1>3, <1>4 DEF RunnerInv

\* Turns and their dialogs.
LEMMA RunnerTurns ==
  ASSUME MaxBuilds \in Nat, RunnerInv,
         \/ \E i \in Id : Runner!TurnStarts(i) \/ Runner!DrainAsks(i)
         \/ \E n \in Runner!Incarnation :
              \/ Runner!AskOpens(n) \/ Runner!AskAnswered(n) \/ Runner!TaskDone(n)
              \/ \E p \in BOOLEAN : Runner!TurnEnds(n, p)
  PROVE  RunnerInv'
<1>1. ASSUME NEW i \in Id, Runner!TurnStarts(i) \/ Runner!DrainAsks(i) PROVE RunnerInv'
  <2>1. /\ sessions[i] # 0 /\ parked' = parked
        /\ \/ Runner!SetInc(sessions[i], "turn", TRUE) \/ Runner!SetInc(sessions[i], "ask", FALSE)
        /\ UNCHANGED <<sessions, built, trackers, wakeInFlight, lastSessionID, closer, down,
                       toClose, ctxDone>>
    BY <1>1 DEF Runner!TurnStarts, Runner!DrainAsks, Runner!Aside, Runner!Serving
  <2>2. sessions[i] \in 0 .. MaxBuilds /\ sessions[i] <= built /\ parked \subseteq Id
    BY DEF RunnerInv, Runner!TypeOK, OwnersInv
  <2>3. sessions[i] \in 1 .. MaxBuilds /\ inc[sessions[i]].id \in Id
    BY <2>1, <2>2 DEF RunnerInv, OwnersInv
  <2> QED
    BY <2>1, <2>2, <2>3, RunnerSets
<1>2. ASSUME NEW n \in 1 .. MaxBuilds, Runner!AskOpens(n) \/ Runner!AskAnswered(n) PROVE RunnerInv'
  <2>1. /\ parked' = parked
        /\ \/ Runner!SetInc(n, "ask", TRUE) /\ inc[n].turn
           \/ Runner!SetInc(n, "ask", FALSE)
        /\ UNCHANGED <<sessions, built, trackers, wakeInFlight, lastSessionID, closer, down,
                       toClose, ctxDone>>
    BY <1>2 DEF Runner!AskOpens, Runner!AskAnswered, Runner!Aside, Runner!Serving
  <2>2. /\ parked \subseteq Id /\ built \in 0 .. MaxBuilds
        /\ inc[n].turn => n <= built /\ inc[n].id \in Id
    BY DEF RunnerInv, Runner!TypeOK, OwnersInv
  <2> QED
    BY <2>1, <2>2, RunnerSets
<1>3. ASSUME NEW n \in 1 .. MaxBuilds, NEW p \in BOOLEAN, Runner!TurnEnds(n, p) PROVE RunnerInv'
  <2>1. /\ parked' = (IF p THEN parked \union {inc[n].id} ELSE parked) /\ inc[n].turn
        /\ Runner!SetInc(n, "turn", FALSE)
        /\ UNCHANGED <<sessions, built, trackers, wakeInFlight, lastSessionID, closer, down,
                       toClose, ctxDone>>
    BY <1>3 DEF Runner!TurnEnds, Runner!Aside, Runner!Serving
  <2>2. /\ parked \subseteq Id /\ built \in 0 .. MaxBuilds
        /\ inc[n].turn => n <= built /\ inc[n].id \in Id
    BY DEF RunnerInv, Runner!TypeOK, OwnersInv
  <2> QED
    BY <2>1, <2>2, RunnerSets
<1>4. ASSUME NEW n \in 1 .. MaxBuilds, Runner!TaskDone(n) PROVE RunnerInv'
  BY <1>4 DEF RunnerInv, Runner!TypeOK, Runner!Incarnation, OwnersInv, CacheInv, Runner!TaskDone,
     Runner!Aside, Runner!Serving
<1> QED
  BY <1>1, <1>2, <1>3, <1>4 DEF Runner!Incarnation

\* What a reap leaves of an incarnation, and of the others.
LEMMA RunnerReaps ==
  ASSUME RunnerInv, NEW n \in 1 .. MaxBuilds, Runner!Reap(n)
  PROVE  /\ DOMAIN inc' = 1 .. MaxBuilds
         /\ \A m \in 1 .. MaxBuilds :
              /\ DOMAIN inc'[m] = Owned /\ inc'[m].id = inc[m].id /\ inc'[m].turn = inc[m].turn
              /\ inc'[m].toolkit => inc[m].toolkit
              /\ inc'[m].host \in {inc[m].host, "closed"}
         /\ \A m \in 1 .. MaxBuilds : m # n => inc'[m] = inc[m]
<1>1. CASE inc[n].closed
  BY <1>1 DEF Runner!Reap, RunnerInv, OwnersInv
<1>2. CASE ~inc[n].closed
  <2>1. inc' = [inc EXCEPT ![n] = Runner!OnClose(inc[n])]
    BY <1>2 DEF Runner!Reap, RunnerInv, OwnersInv
  <2>2. /\ DOMAIN Runner!OnClose(inc[n]) = Owned /\ Runner!OnClose(inc[n]).id = inc[n].id
        /\ Runner!OnClose(inc[n]).turn = inc[n].turn /\ ~Runner!OnClose(inc[n]).toolkit
        /\ Runner!OnClose(inc[n]).host \in {inc[n].host, "closed"}
    BY DEF Runner!OnClose, Runner!CloseHost, RunnerInv, OwnersInv, Owned
  <2> HIDE DEF Runner!OnClose
  <2> QED
    BY <2>1, <2>2 DEF RunnerInv, OwnersInv
<1> QED
  BY <1>1, <1>2

\* CloseSession, one step per lock.
LEMMA RunnerCloses ==
  ASSUME MaxBuilds \in Nat, RunnerInv, NEW c \in Closer,
         Runner!CloseStep(c) \/ \E i \in Id : Runner!CloseBegins(c, i)
  PROVE  RunnerInv'
<1>0. \A k \in Closer : DOMAIN closer[k] = Hold
  BY DEF RunnerInv, OwnersInv
<1>1. ASSUME NEW i \in Id, Runner!CloseBegins(c, i) PROVE RunnerInv'
  <2>1. /\ closer' = [closer EXCEPT ![c] = [pc |-> "evict", id |-> i, n |-> 0]]
        /\ parked' = parked \ {i}
        /\ UNCHANGED <<sessions, inc, trackers, wakeInFlight, built, lastSessionID, ctxDone, down, toClose>>
    BY <1>1 DEF Runner!CloseBegins, Runner!Else, Runner!Serving
  <2>2. /\ DOMAIN closer' = Closer /\ \A k \in Closer : k # c => closer'[k] = closer[k]
        /\ closer'[c] = [pc |-> "evict", id |-> i, n |-> 0]
    BY <2>1 DEF RunnerInv, OwnersInv
  <2> QED
    BY <2>1, <2>2 DEF RunnerInv, Runner!TypeOK, OwnersInv, CacheInv, Hold, Runner!Incarnation
<1>2. CASE Runner!CloseEvicts(c)
  <2> DEFINE i == closer[c].id
  <2>1. /\ sessions' = [sessions EXCEPT ![i] = 0] /\ closer[c].pc = "evict"
        /\ closer' = [closer EXCEPT ![c].pc = IF sessions[i] = 0 THEN "prune" ELSE "reap",
                                    ![c].n = sessions[i]]
        /\ UNCHANGED <<inc, trackers, wakeInFlight, parked, built, lastSessionID, ctxDone, down, toClose>>
    BY <1>2 DEF Runner!CloseEvicts, Runner!CloserAt, Runner!Else, Runner!Serving
  <2>2. i \in Id /\ sessions[i] \in 0 .. MaxBuilds /\ sessions[i] <= built /\ built \in 0 .. MaxBuilds
    BY <2>1 DEF RunnerInv, OwnersInv, Runner!TypeOK
  <2>3. /\ DOMAIN closer' = Closer /\ \A k \in Closer : k # c => closer'[k] = closer[k]
        /\ DOMAIN closer'[c] = Hold /\ closer'[c].id = i /\ closer'[c].n = sessions[i]
        /\ closer'[c].pc = (IF sessions[i] = 0 THEN "prune" ELSE "reap")
    BY <1>0, <2>1 DEF RunnerInv, OwnersInv, Hold
  <2>4. /\ sessions' \in [Id -> 0 .. MaxBuilds] /\ sessions'[i] = 0
        /\ \A j \in Id : j # i => sessions'[j] = sessions[j]
    BY <2>1, <2>2 DEF RunnerInv, Runner!TypeOK
  <2>5. Runner!TypeOK'
    BY <2>1, <2>3, <2>4 DEF RunnerInv, Runner!TypeOK, Runner!Incarnation
  <2> HIDE DEF i
  <2>6. OwnersInv'
    BY <2>1, <2>2, <2>3, <2>4 DEF RunnerInv, OwnersInv
  <2>7. ~ctxDone /\ sessions[i] # 0 => \A j \in Id : sessions'[j] # sessions[i]
    BY <2>2, <2>4 DEF RunnerInv, CacheInv
  <2>8. CacheInv'
    <3>1. \A k \in Closer \ {c} : closer[k].pc = "reap" => closer[k].n # 0
      BY <2>2 DEF RunnerInv, OwnersInv
    <3> QED
      BY <2>1, <2>2, <2>3, <2>4, <2>7, <3>1 DEF RunnerInv, CacheInv
  <2> QED
    BY <2>5, <2>6, <2>8 DEF RunnerInv
<1>3. CASE Runner!CloseReaps(c)
  <2> DEFINE n == closer[c].n
  <2>1. /\ Runner!Reap(n) /\ closer[c].pc = "reap" /\ closer' = [closer EXCEPT ![c].pc = "prune"]
        /\ UNCHANGED <<sessions, trackers, wakeInFlight, parked, built, lastSessionID, ctxDone, down, toClose>>
    BY <1>3 DEF Runner!CloseReaps, Runner!CloserAt, Runner!CloserTo, Runner!Else, Runner!Serving
  <2>2. n \in 1 .. built /\ n \in 1 .. MaxBuilds
    BY <2>1 DEF RunnerInv, OwnersInv, Runner!TypeOK
  <2>3. /\ DOMAIN closer' = Closer /\ \A k \in Closer : k # c => closer'[k] = closer[k]
        /\ DOMAIN closer'[c] = Hold /\ closer'[c].id = closer[c].id /\ closer'[c].pc = "prune"
    BY <1>0, <2>1 DEF RunnerInv, OwnersInv, Hold
  <2> HIDE DEF n
  <2>4. /\ DOMAIN inc' = 1 .. MaxBuilds
        /\ \A m \in 1 .. MaxBuilds :
             /\ DOMAIN inc'[m] = Owned /\ inc'[m].id = inc[m].id /\ inc'[m].turn = inc[m].turn
             /\ inc'[m].toolkit => inc[m].toolkit
             /\ inc'[m].host \in {inc[m].host, "closed"}
        /\ \A m \in 1 .. MaxBuilds : m # n => inc'[m] = inc[m]
    BY <2>1, <2>2, RunnerReaps
  <2>5. Runner!TypeOK'
    BY <2>1, <2>3, <2>4 DEF RunnerInv, Runner!TypeOK, Runner!Incarnation
  <2>6. OwnersInv'
    BY <2>1, <2>3, <2>4 DEF RunnerInv, OwnersInv
  <2>7. ~ctxDone => \A i \in Id : sessions[i] # n
    BY <2>1 DEF RunnerInv, CacheInv, n
  <2>8. CacheInv'
    BY <2>1, <2>3, <2>4, <2>7 DEF RunnerInv, CacheInv, Runner!TypeOK
  <2> QED
    BY <2>5, <2>6, <2>8 DEF RunnerInv
<1>4. CASE Runner!ClosePrunes(c)
  <2>1. /\ closer[c].pc = "prune" /\ closer' = [closer EXCEPT ![c].pc = "done"]
        /\ trackers' = [trackers EXCEPT ![closer[c].id] = 0]
        /\ wakeInFlight' = wakeInFlight \ {closer[c].id}
        /\ UNCHANGED <<sessions, inc, parked, built, lastSessionID, ctxDone, down, toClose>>
    BY <1>4 DEF Runner!ClosePrunes, Runner!CloserAt, Runner!CloserTo, Runner!Else, Runner!Serving
  <2>2. /\ DOMAIN closer' = Closer /\ \A k \in Closer : k # c => closer'[k] = closer[k]
        /\ DOMAIN closer'[c] = Hold /\ closer'[c].id = closer[c].id /\ closer'[c].pc = "done"
    BY <1>0, <2>1 DEF RunnerInv, OwnersInv, Hold
  <2>3. Runner!TypeOK'
    <3>1. closer[c].id \in Id
      BY <2>1 DEF RunnerInv, OwnersInv
    <3>2. trackers' \in [Id -> 0 .. MaxBuilds]
      BY <2>1, <3>1 DEF RunnerInv, Runner!TypeOK
    <3> QED
      BY <2>1, <2>2, <3>2 DEF RunnerInv, Runner!TypeOK, Runner!Incarnation
  <2> QED
    BY <2>1, <2>2, <2>3 DEF RunnerInv, OwnersInv, CacheInv
<1> QED
  BY <1>1, <1>2, <1>3, <1>4 DEF Runner!CloseStep

\* The end of the serve: once the context is done the cache promises nothing.
LEMMA RunnerEnds ==
  ASSUME RunnerInv, Runner!Signal \/ Runner!ServeReturns \/ Runner!Exit \/ Runner!CloseAll
  PROVE  RunnerInv'
<1>1. CASE Runner!Signal \/ Runner!ServeReturns
  BY <1>1 DEF RunnerInv, Runner!TypeOK, Runner!Incarnation, OwnersInv, CacheInv, Runner!Signal,
     Runner!ServeReturns, Runner!Rest
<1>2. CASE Runner!Exit
  BY <1>2 DEF RunnerInv, Runner!TypeOK, Runner!Incarnation, OwnersInv, CacheInv, Runner!Exit
<1>3. CASE Runner!DrainAllAsks
  <2>1. /\ ctxDone /\ down' = "drain"
        /\ UNCHANGED <<sessions, built, trackers, wakeInFlight, lastSessionID, closer, parked, toClose, ctxDone>>
    BY <1>3 DEF Runner!DrainAllAsks, Runner!Rest
  <2>2. /\ DOMAIN inc' = 1 .. MaxBuilds
        /\ \A n \in 1 .. MaxBuilds : inc'[n] = inc[n] \/ inc'[n] = [inc[n] EXCEPT !.ask = FALSE]
    BY <1>3 DEF Runner!DrainAllAsks, Runner!Incarnation
  <2>3. \A n \in 1 .. MaxBuilds :
          /\ DOMAIN inc'[n] = Owned /\ inc'[n].id = inc[n].id /\ inc'[n].turn = inc[n].turn
          /\ inc'[n].toolkit = inc[n].toolkit /\ inc'[n].host = inc[n].host
    BY <2>2 DEF RunnerInv, OwnersInv, Owned
  <2> QED
    BY <2>1, <2>2, <2>3 DEF RunnerInv, Runner!TypeOK, Runner!Incarnation, OwnersInv, CacheInv
<1>4. CASE Runner!CloseAllSnapshot
  BY <1>4 DEF RunnerInv, Runner!TypeOK, Runner!Incarnation, OwnersInv, CacheInv,
     Runner!CloseAllSnapshot, Runner!Rest
<1>5. CASE Runner!CloseAllParked
  BY <1>5 DEF RunnerInv, Runner!TypeOK, Runner!Incarnation, OwnersInv, CacheInv,
     Runner!CloseAllParked, Runner!Rest
<1>6. ASSUME NEW n \in Runner!Incarnation, Runner!CloseAllReaps(n) PROVE RunnerInv'
  <2>1. /\ Runner!Reap(n) /\ down = "close" /\ toClose' = toClose \ {n}
        /\ UNCHANGED <<sessions, built, trackers, wakeInFlight, lastSessionID, closer, parked, down, ctxDone>>
    BY <1>6 DEF Runner!CloseAllReaps, Runner!Rest
  <2>2. ctxDone
    BY <2>1 DEF RunnerInv, CacheInv
  <2>3. n \in 1 .. MaxBuilds
    BY <1>6 DEF Runner!Incarnation
  <2> QED
    BY <2>1, <2>2, <2>3, RunnerReaps DEF RunnerInv, Runner!TypeOK, Runner!Incarnation, OwnersInv, CacheInv
<1> QED
  BY <1>1, <1>2, <1>3, <1>4, <1>5, <1>6 DEF Runner!CloseAll

\* The cache keeps its types and, until the serve ends, never hands out a
\* half-reaped session, for any number of ids, closers and builds (runtime.go
\* CloseSession: "evict before Close").
THEOREM CacheIsWhole ==
  ASSUME MaxBuilds \in Nat
  PROVE  Runner!Spec => [](Runner!TypeOK /\ Runner!NeverHalfReaped)
<1>1. Runner!Init => RunnerInv
  BY DEF Runner!Init, Runner!Unbuilt, Runner!Incarnation, RunnerInv, Runner!TypeOK, OwnersInv,
     CacheInv, Owned, Hold
<1>2. RunnerInv /\ [Runner!Next]_(Runner!vars) => RunnerInv'
  <2> SUFFICES ASSUME RunnerInv, [Runner!Next]_(Runner!vars) PROVE RunnerInv'
    OBVIOUS
  <2>1. ASSUME NEW i \in Id, Runner!Adopt(i) PROVE RunnerInv'
    BY <2>1 DEF RunnerInv, Runner!TypeOK, Runner!Incarnation, OwnersInv, CacheInv, Runner!Adopt,
       Runner!Serving
  <2>2. CASE Runner!TickBuilds \/ \E i \in Id : Runner!ClientBuilds(i)
    <3>1. PICK i \in Id : \/ Runner!Adopt(i)
                          \/ \E h \in Runner!Hosts, t \in Runner!Toolkits : Runner!Build(i, h, t)
      BY <2>2 DEF Runner!TickBuilds, Runner!ClientBuilds, RunnerInv, Runner!TypeOK
    <3> QED
      BY <2>1, <3>1, RunnerBuilds DEF Runner!Toolkits
  <2>3. CASE UNCHANGED Runner!vars
    BY <2>3 DEF RunnerInv, Runner!TypeOK, Runner!Incarnation, OwnersInv, CacheInv, Runner!vars
  <2> QED
    BY <2>2, <2>3, RunnerTurns, RunnerCloses, RunnerEnds DEF Runner!Next
<1>3. RunnerInv => Runner!TypeOK /\ Runner!NeverHalfReaped
  BY DEF RunnerInv, CacheInv, Runner!NeverHalfReaped
<1> QED
  BY <1>1, <1>2, <1>3, PTL DEF Runner!Spec

-----------------------------------------------------------------------------
(***************************************************************************)
(* The replay of a transcript, for any number of lines and requests: which *)
(* lines a load has shown so far, and that an answer ends what is shown.   *)
(***************************************************************************)
CONSTANTS Call, Request, MaxLines
VARIABLES phase, live, message, busq, log, req, wire

Replay == INSTANCE AcpWire

Frames == [kind : Replay!Shown \cup Replay!Answer \cup {"commands"},
           id : Request \X (Call \cup {Replay!NoId}), text : Seq(Nat)]

\* Where the frames and the answers of a request are on the wire.
SentIn(w, r) == {i \in DOMAIN w : w[i].kind \notin Replay!Answer /\ w[i].id[1] = r}
AnswersIn(w, r) == {i \in DOMAIN w : w[i].kind \in Replay!Answer /\ w[i].id[1] = r}

\* The lines of l up to n that have a frame are shown at the places at gives,
\* in order.
ShownOf(l, n) == {k \in 1..n : Replay!Framed(l[k])}
Follows(w, l, r, n, at) ==
  /\ \A j, k \in ShownOf(l, n) : j < k => at[j] < at[k]
  /\ \A k \in ShownOf(l, n) : w[at[k]] = Replay!Addressed(r, Replay!ReplayLineFrame(l[k]))

\* The request has shown these lines and nothing else, or the whole transcript
\* and the commands after it.
ShownUpTo(w, l, r, n) ==
  \E at \in [ShownOf(l, n) -> SentIn(w, r)] :
    Follows(w, l, r, n, at) /\ SentIn(w, r) = {at[k] : k \in ShownOf(l, n)}
Complete(w, l, r) ==
  \E at \in [ShownOf(l, Len(l)) -> SentIn(w, r)], final \in SentIn(w, r) :
    /\ Follows(w, l, r, Len(l), at)
    /\ \A k \in ShownOf(l, Len(l)) : at[k] < final
    /\ w[final] = Replay!Addressed(r, Replay!CommandsUpdate)
    /\ SentIn(w, r) = {at[k] : k \in ShownOf(l, Len(l))} \cup {final}

\* Before the restart nobody asks and nothing is on the wire.
LiveInv == phase = "live" => wire = <<>> /\ \A r \in Request : req[r].pc = "none"

\* What a request has put on the wire w, given its place x and the transcript l.
SoundAt(x, w, l, r) ==
  /\ x.pc = "none" => x.method = "none"
  /\ x.pc \in {"none", "handler", "panic"} => SentIn(w, r) = {}
  /\ x.pc \notin {"slot", "done"} => AnswersIn(w, r) = {}
  /\ x.pc \in {"replay", "advertise"} => x.method = "session/load" /\ ~x.err
  /\ x.pc = "replay" => x.cursor \in 1..(Len(l) + 1) /\ ShownUpTo(w, l, r, x.cursor - 1)
  /\ x.pc = "advertise" => ShownUpTo(w, l, r, Len(l))
  /\ x.pc \in {"none", "handler"} => ~x.err
  /\ x.pc = "respond" /\ x.method = "session/load" /\ ~x.err => Complete(w, l, r)
  /\ x.slot => x.method = "session/new" /\ x.pc \in {"respond", "slot"}
  /\ x.pc = "respond" /\ x.method = "session/new" => SentIn(w, r) = {}
  /\ x.pc = "slot" /\ x.method = "session/new" => AnswersIn(w, r) # {}
  /\ x.method = "session/new" => \A i \in SentIn(w, r) : \E j \in AnswersIn(w, r) : j < i
  /\ x.method = "session/load" /\ (\E i \in AnswersIn(w, r) : w[i].kind = "result") => Complete(w, l, r)

WireInv ==
  /\ Replay!TypeOK /\ LiveInv
  /\ \A r \in Request : SoundAt(req[r], wire, log, r)

-----------------------------------------------------------------------------
\* A frame more on the wire.
LEMMA OneMore ==
  ASSUME NEW w \in Seq(Frames), NEW f \in Frames
  PROVE  LET w2 == Append(w, f)  n == Len(w) + 1 IN
         /\ n \in Nat /\ w2 \in Seq(Frames) /\ w2[n] = f /\ n \notin DOMAIN w
         /\ \A i \in DOMAIN w : i < n /\ w2[i] = w[i]
         /\ \A r : f.id[1] # r => SentIn(w2, r) = SentIn(w, r) /\ AnswersIn(w2, r) = AnswersIn(w, r)
         /\ f.kind \notin Replay!Answer =>
              SentIn(w2, f.id[1]) = SentIn(w, f.id[1]) \cup {n} /\ AnswersIn(w2, f.id[1]) = AnswersIn(w, f.id[1])
         /\ f.kind \in Replay!Answer =>
              SentIn(w2, f.id[1]) = SentIn(w, f.id[1]) /\ AnswersIn(w2, f.id[1]) = AnswersIn(w, f.id[1]) \cup {n}
<1> DEFINE w2 == Append(w, f)
           n == Len(w) + 1
<1>1. /\ n \in Nat /\ w2 \in Seq(Frames) /\ w2[n] = f /\ n \notin DOMAIN w
      /\ \A i \in DOMAIN w : i < n /\ w2[i] = w[i]
      /\ DOMAIN w2 = DOMAIN w \cup {n}
  OBVIOUS
<1> HIDE DEF w2, n
<1>2. \A r : f.id[1] # r => SentIn(w2, r) = SentIn(w, r) /\ AnswersIn(w2, r) = AnswersIn(w, r)
  BY <1>1 DEF SentIn, AnswersIn
<1>3. f.kind \notin Replay!Answer =>
        SentIn(w2, f.id[1]) = SentIn(w, f.id[1]) \cup {n} /\ AnswersIn(w2, f.id[1]) = AnswersIn(w, f.id[1])
  BY <1>1 DEF SentIn, AnswersIn
<1>4. f.kind \in Replay!Answer =>
        SentIn(w2, f.id[1]) = SentIn(w, f.id[1]) /\ AnswersIn(w2, f.id[1]) = AnswersIn(w, f.id[1]) \cup {n}
  BY <1>1 DEF SentIn, AnswersIn
<1> QED
  BY <1>1, <1>2, <1>3, <1>4 DEF w2, n

\* What a request has shown depends on its own frames only.
LEMMA SameSent ==
  ASSUME NEW w, NEW w2, NEW l, NEW r, SentIn(w2, r) = SentIn(w, r), \A i \in SentIn(w, r) : w2[i] = w[i]
  PROVE  /\ \A n : ShownUpTo(w, l, r, n) => ShownUpTo(w2, l, r, n)
         /\ Complete(w, l, r) => Complete(w2, l, r)
<1>1. \A n, at : at \in [ShownOf(l, n) -> SentIn(w, r)] /\ Follows(w, l, r, n, at) => Follows(w2, l, r, n, at)
  BY DEF Follows
<1>2. ASSUME NEW n, ShownUpTo(w, l, r, n) PROVE ShownUpTo(w2, l, r, n)
  BY <1>1, <1>2 DEF ShownUpTo
<1>3. ASSUME Complete(w, l, r) PROVE Complete(w2, l, r)
  <2>1. PICK at \in [ShownOf(l, Len(l)) -> SentIn(w, r)], final \in SentIn(w, r) :
          /\ Follows(w, l, r, Len(l), at)
          /\ \A k \in ShownOf(l, Len(l)) : at[k] < final
          /\ w[final] = Replay!Addressed(r, Replay!CommandsUpdate)
          /\ SentIn(w, r) = {at[k] : k \in ShownOf(l, Len(l))} \cup {final}
    BY <1>3 DEF Complete
  <2>2. Follows(w2, l, r, Len(l), at) /\ w2[final] = Replay!Addressed(r, Replay!CommandsUpdate)
    BY <1>1, <2>1
  <2> QED
    BY <2>1, <2>2 DEF Complete
<1> QED
  BY <1>2, <1>3

\* So does what is sound of it.
LEMMA SameSound ==
  ASSUME NEW x, NEW w, NEW w2, NEW l, NEW r, SoundAt(x, w, l, r),
         SentIn(w2, r) = SentIn(w, r), AnswersIn(w2, r) = AnswersIn(w, r),
         \A i \in SentIn(w, r) \cup AnswersIn(w, r) : w2[i] = w[i]
  PROVE  SoundAt(x, w2, l, r)
<1>1. /\ \A n : ShownUpTo(w, l, r, n) => ShownUpTo(w2, l, r, n)
      /\ Complete(w, l, r) => Complete(w2, l, r)
  BY SameSent
<1> QED
  BY <1>1 DEF SoundAt

\* A request nobody made shows nothing, whatever the transcript.
LEMMA NotAskedSound ==
  ASSUME NEW x, NEW w, NEW l, NEW l2, NEW r, SoundAt(x, w, l, r), x.pc = "none"
  PROVE  SoundAt(x, w, l2, r)
BY DEF SoundAt

\* The next line, shown when it has a frame.
LEMMA NextLine ==
  ASSUME NEW w \in Seq(Frames), NEW l \in Seq(Replay!Lines), NEW r \in Request, NEW n \in 1..Len(l),
         ShownUpTo(w, l, r, n - 1)
  PROVE  LET f == Replay!Addressed(r, Replay!ReplayLineFrame(l[n])) IN
         /\ Replay!Framed(l[n]) /\ f \in Frames /\ f.kind \notin Replay!Answer /\ f.id[1] = r
              => ShownUpTo(Append(w, f), l, r, n)
         /\ ~Replay!Framed(l[n]) => ShownUpTo(w, l, r, n)
<1> DEFINE f == Replay!Addressed(r, Replay!ReplayLineFrame(l[n]))
           w2 == Append(w, f)
           top == Len(w) + 1
<1>1. PICK at \in [ShownOf(l, n - 1) -> SentIn(w, r)] :
        Follows(w, l, r, n - 1, at) /\ SentIn(w, r) = {at[k] : k \in ShownOf(l, n - 1)}
  BY DEF ShownUpTo
<1>2. \A k \in 1..n : k \in 1..(n - 1) \/ k = n
  OBVIOUS
<1>3. 1..(n - 1) \subseteq 1..n /\ n \in 1..n /\ \A k \in 1..(n - 1) : k < n
  OBVIOUS
<1>4. CASE ~Replay!Framed(l[n])
  <2>1. ShownOf(l, n) = ShownOf(l, n - 1)
    BY <1>2, <1>3, <1>4 DEF ShownOf
  <2> QED
    BY <1>1, <1>4, <2>1 DEF ShownUpTo, Follows
<1>5. CASE Replay!Framed(l[n]) /\ f \in Frames /\ f.kind \notin Replay!Answer /\ f.id[1] = r
  <2>1. /\ ShownOf(l, n) = ShownOf(l, n - 1) \cup {n} /\ n \notin ShownOf(l, n - 1)
        /\ \A k \in ShownOf(l, n - 1) : k < n
    BY <1>2, <1>3, <1>5 DEF ShownOf
  <2>2. /\ SentIn(w2, r) = SentIn(w, r) \cup {top} /\ w2[top] = f /\ top \notin SentIn(w, r)
        /\ \A i \in SentIn(w, r) : i < top /\ w2[i] = w[i]
    BY <1>5, OneMore DEF SentIn
  <2> HIDE DEF f, w2, top
  <2> DEFINE at2 == [k \in ShownOf(l, n) |-> IF k = n THEN top ELSE at[k]]
  <2>3. at2 \in [ShownOf(l, n) -> SentIn(w2, r)] /\ at2[n] = top /\ \A k \in ShownOf(l, n - 1) : at2[k] = at[k]
    BY <2>1, <2>2
  <2> HIDE DEF at2
  <2>4. \A j, k \in ShownOf(l, n) : j < k => at2[j] < at2[k]
    <3> SUFFICES ASSUME NEW j \in ShownOf(l, n), NEW k \in ShownOf(l, n), j < k PROVE at2[j] < at2[k]
      OBVIOUS
    <3>1. j \in ShownOf(l, n - 1)
      <4>1. j \in 1..n /\ k \in 1..n /\ n \in Int
        BY DEF ShownOf
      <4>2. j # n
        BY <4>1
      <4> QED
        BY <2>1, <4>2
    <3>2. CASE k = n
      BY <2>2, <2>3, <3>1, <3>2
    <3>3. CASE k \in ShownOf(l, n - 1)
      BY <1>1, <2>3, <3>1, <3>3 DEF Follows
    <3> QED
      BY <2>1, <3>2, <3>3
  <2>5. \A k \in ShownOf(l, n) : w2[at2[k]] = Replay!Addressed(r, Replay!ReplayLineFrame(l[k]))
    BY <1>1, <2>1, <2>2, <2>3 DEF Follows, f
  <2>6. SentIn(w2, r) = {at2[k] : k \in ShownOf(l, n)}
    BY <1>1, <2>1, <2>2, <2>3
  <2>7. ShownUpTo(w2, l, r, n)
    BY <2>3, <2>4, <2>5, <2>6 DEF ShownUpTo, Follows
  <2> QED
    BY <1>5, <2>7 DEF w2, f
<1> QED
  BY <1>4, <1>5

\* The commands after the last line complete the transcript.
LEMMA CommandsComplete ==
  ASSUME NEW w \in Seq(Frames), NEW l \in Seq(Replay!Lines), NEW r \in Request, ShownUpTo(w, l, r, Len(l)),
         Replay!Addressed(r, Replay!CommandsUpdate) \in Frames
  PROVE  Complete(Append(w, Replay!Addressed(r, Replay!CommandsUpdate)), l, r)
<1> DEFINE f == Replay!Addressed(r, Replay!CommandsUpdate)
           w2 == Append(w, f)
           final == Len(w) + 1
<1>1. PICK at \in [ShownOf(l, Len(l)) -> SentIn(w, r)] :
        Follows(w, l, r, Len(l), at) /\ SentIn(w, r) = {at[k] : k \in ShownOf(l, Len(l))}
  BY DEF ShownUpTo
<1>2. f.kind \notin Replay!Answer /\ f.id[1] = r
  BY DEF Replay!Addressed, Replay!CommandsUpdate, Replay!Answer
<1>3. /\ SentIn(w2, r) = SentIn(w, r) \cup {final} /\ w2[final] = f
      /\ \A i \in SentIn(w, r) : i < final /\ w2[i] = w[i]
  BY <1>2, OneMore DEF SentIn
<1> HIDE DEF w2, final, f
<1>4. at \in [ShownOf(l, Len(l)) -> SentIn(w2, r)] /\ final \in SentIn(w2, r)
  BY <1>3
<1>5. Follows(w2, l, r, Len(l), at) /\ \A k \in ShownOf(l, Len(l)) : at[k] < final
  BY <1>1, <1>3 DEF Follows
<1>6. SentIn(w2, r) = {at[k] : k \in ShownOf(l, Len(l))} \cup {final}
  BY <1>1, <1>3
<1>7. Complete(w2, l, r)
  BY <1>3, <1>4, <1>5, <1>6 DEF Complete, f
<1> QED
  BY <1>7 DEF w2, f

\* A request moves: it takes a place y that is sound, and at most one frame of
\* its own goes on the wire.
LEMMA RequestMoves ==
  ASSUME WireInv, UNCHANGED <<phase, live, message, busq, log>>, phase = "serving",
         NEW r \in Request, NEW y \in Replay!Requests, req' = [req EXCEPT ![r] = y],
         wire' = wire \/ \E f \in Frames : f.id[1] = r /\ wire' = Append(wire, f),
         SoundAt(y, wire', log, r)
  PROVE  WireInv'
<1>1. wire \in Seq(Frames) /\ req \in [Request -> Replay!Requests]
  BY DEF WireInv, Replay!TypeOK, Frames
<1>2. \A s \in Request : req'[s] = IF s = r THEN y ELSE req[s]
  BY <1>1
<1>3. wire' \in Seq(Frames) /\ \A s \in Request \ {r} : SoundAt(req[s], wire', log, s)
  <2>1. CASE wire' = wire
    BY <1>1, <2>1 DEF WireInv
  <2>2. CASE wire' # wire
    <3>1. PICK f \in Frames : f.id[1] = r /\ wire' = Append(wire, f)
      BY <2>2
    <3>2. /\ wire' \in Seq(Frames)
          /\ \A i \in DOMAIN wire : wire'[i] = wire[i]
          /\ \A s : s # r => SentIn(wire', s) = SentIn(wire, s) /\ AnswersIn(wire', s) = AnswersIn(wire, s)
      BY <1>1, <3>1, OneMore
    <3>3. ASSUME NEW s \in Request \ {r} PROVE SoundAt(req[s], wire', log, s)
      <4>1. SoundAt(req[s], wire, log, s)
        BY DEF WireInv
      <4>2. \A i \in SentIn(wire, s) \cup AnswersIn(wire, s) : i \in DOMAIN wire
        BY DEF SentIn, AnswersIn
      <4> QED
        BY <3>2, <3>3, <4>1, <4>2, SameSound
    <3> QED
      BY <3>2, <3>3
  <2> QED
    BY <2>1, <2>2
<1>4. \A s \in Request : SoundAt(req'[s], wire', log, s)
  BY <1>2, <1>3
<1>5. req' \in [Request -> Replay!Requests]
  BY <1>1
<1>6. Replay!TypeOK'
  BY <1>3, <1>5 DEF WireInv, Replay!TypeOK, Frames
<1>7. LiveInv'
  BY DEF LiveInv
<1> QED
  BY <1>4, <1>6, <1>7 DEF WireInv, SoundAt

\* Before the restart the transcript grows, and nobody reads it.
LEMMA LiveMoves ==
  ASSUME WireInv, phase = "live", UNCHANGED <<req, wire>>, Replay!TypeOK' PROVE WireInv'
<1>1. wire' = <<>> /\ \A r \in Request : req'[r].pc = "none"
  BY DEF WireInv, LiveInv
<1>2. \A r \in Request : SoundAt(req[r], wire, log', r)
  BY <1>1, NotAskedSound DEF WireInv
<1>3. \A r \in Request : SoundAt(req'[r], wire', log', r)
  BY <1>2
<1>4. LiveInv'
  BY <1>1 DEF LiveInv
<1> QED
  BY <1>3, <1>4 DEF WireInv

\* Each step of the live turn, and the crash that ends it.
LEMMA LiveKeeps ==
  ASSUME Replay!WireAssumption, WireInv, Replay!LiveNext PROVE WireInv'
<1>1. phase = "live" /\ UNCHANGED <<req, wire>>
  BY DEF Replay!LiveNext, Replay!LiveChunk, Replay!WriterAppends, Replay!AssistantMessage, Replay!SessionLine,
         Replay!Restart
<1>2. /\ log \in Seq(Replay!Lines) /\ Len(log) + Len(busq) <= MaxLines /\ busq \in Seq(Seq(Nat))
      /\ message \in Seq(Nat)
      /\ live \in Seq([kind : Replay!Shown, id : Call \cup {Replay!NoId}, text : Seq(Nat)])
      /\ Len(log) \in Nat /\ Len(busq) \in Nat /\ MaxLines \in Nat
  BY DEF WireInv, Replay!TypeOK, Replay!WireAssumption
<1>3. ASSUME NEW t \in Seq(Nat), NEW i \in Call \cup {Replay!NoId}
      PROVE  /\ \A type \in {"agent_message_chunk", "assistant_message", "tool_call", "tool_result", "error",
                             "boundary", "oversized", "torn"} : Replay!Line(type, i, t) \in Replay!Lines
             /\ Replay!Chunk(t) \in [kind : Replay!Shown, id : Call \cup {Replay!NoId}, text : Seq(Nat)]
             /\ \A kind \in {"tool_call", "tool_call_update"} :
                  Replay!Card(kind, i) \in [kind : Replay!Shown, id : Call \cup {Replay!NoId}, text : Seq(Nat)]
  BY <1>3 DEF Replay!Line, Replay!Lines, Replay!Chunk, Replay!Card, Replay!Shown
<1>4. Replay!TypeOK'
  <2>1. CASE Replay!LiveChunk
    <3> DEFINE piece == Len(message) + 1
    <3>1. /\ live' = Append(live, Replay!Chunk(<<piece>>)) /\ message' = Append(message, piece)
          /\ busq' = Append(busq, <<piece>>) /\ UNCHANGED <<phase, log, req, wire>>
          /\ Len(log) + Len(busq) < MaxLines
      BY <2>1 DEF Replay!LiveChunk, Replay!Room
    <3>2. piece \in Nat /\ <<piece>> \in Seq(Nat)
      BY <1>2
    <3> HIDE DEF piece
    <3>3. /\ live' \in Seq([kind : Replay!Shown, id : Call \cup {Replay!NoId}, text : Seq(Nat)])
          /\ message' \in Seq(Nat)
      <4>1. PICK frame \in [kind : Replay!Shown, id : Call \cup {Replay!NoId}, text : Seq(Nat)] :
              live' = Append(live, frame)
        BY <1>3, <3>1, <3>2
      <4>2. message' \in Seq(Nat)
        BY <1>2, <3>1, <3>2
      <4> QED
        BY <1>2, <4>1, <4>2
    <3>4. busq' \in Seq(Seq(Nat)) /\ Len(log') + Len(busq') <= MaxLines
      BY <1>2, <3>1, <3>2
    <3> QED
      BY <3>1, <3>3, <3>4 DEF WireInv, Replay!TypeOK
  <2>2. CASE Replay!WriterAppends
    <3>1. /\ log' = Append(log, Replay!Line("agent_message_chunk", Replay!NoId, Head(busq)))
          /\ busq' = Tail(busq) /\ busq # <<>> /\ UNCHANGED <<phase, live, message, req, wire>>
      BY <2>2 DEF Replay!WriterAppends
    <3>2. Head(busq) \in Seq(Nat) /\ Tail(busq) \in Seq(Seq(Nat)) /\ Len(Tail(busq)) = Len(busq) - 1
      BY <1>2, <3>1, HeadTailProperties
    <3>3. PICK line \in Replay!Lines : log' = Append(log, line)
      BY <1>3, <3>1, <3>2
    <3>4. log' \in Seq(Replay!Lines) /\ Len(log') = Len(log) + 1
      BY <1>2, <3>3
    <3>5. Len(log') + Len(busq') <= MaxLines
      BY <1>2, <3>1, <3>2, <3>4
    <3> QED
      BY <3>1, <3>2, <3>4, <3>5 DEF WireInv, Replay!TypeOK
  <2>3. CASE Replay!AssistantMessage
    <3>1. /\ log' = Append(log, Replay!Line("assistant_message", Replay!NoId, message))
          /\ message' = <<>> /\ UNCHANGED <<phase, live, busq, req, wire>> /\ Len(log) + Len(busq) < MaxLines
      BY <2>3 DEF Replay!AssistantMessage, Replay!Room
    <3>3. PICK line \in Replay!Lines : log' = Append(log, line)
      BY <1>2, <1>3, <3>1
    <3>4. log' \in Seq(Replay!Lines) /\ Len(log') = Len(log) + 1
      BY <1>2, <3>3
    <3>5. Len(log') + Len(busq') <= MaxLines /\ message' \in Seq(Nat)
      BY <1>2, <3>1, <3>4
    <3> QED
      BY <3>1, <3>4, <3>5 DEF WireInv, Replay!TypeOK
  <2>4. ASSUME NEW type \in {"tool_call", "tool_result", "error", "boundary", "oversized"},
               NEW id \in Call \cup {Replay!NoId}, Replay!SessionLine(type, id)
        PROVE  Replay!TypeOK'
    <3>1. /\ log' = Append(log, Replay!Line(type, id, <<>>)) /\ Len(log) + Len(busq) < MaxLines
          /\ UNCHANGED <<phase, message, busq, req, wire>>
          /\ \/ live' = live
             \/ \E kind \in {"tool_call", "tool_call_update"} : live' = Append(live, Replay!Card(kind, id))
             \/ live' = Append(live, Replay!Chunk(<<>>))
      BY <2>4 DEF Replay!SessionLine, Replay!Room
    <3>2. <<>> \in Seq(Nat)
      OBVIOUS
    <3>3. PICK line \in Replay!Lines : log' = Append(log, line)
      BY <1>3, <3>1, <3>2
    <3>4. log' \in Seq(Replay!Lines) /\ Len(log') = Len(log) + 1
      BY <1>2, <3>3
    <3>5. Len(log') + Len(busq') <= MaxLines
      BY <1>2, <3>1, <3>4
    <3>6. live' \in Seq([kind : Replay!Shown, id : Call \cup {Replay!NoId}, text : Seq(Nat)])
      <4>1. CASE live' = live
        BY <1>2, <4>1
      <4>2. CASE live' # live
        <5>1. PICK frame \in [kind : Replay!Shown, id : Call \cup {Replay!NoId}, text : Seq(Nat)] :
                live' = Append(live, frame)
          BY <1>3, <3>1, <3>2, <4>2
        <5> QED
          BY <1>2, <5>1
      <4> QED
        BY <4>1, <4>2
    <3> QED
      BY <3>1, <3>4, <3>5, <3>6 DEF WireInv, Replay!TypeOK
  <2>5. CASE Replay!Restart
    <3>1. /\ phase' = "serving" /\ busq' = <<>> /\ message' = <<>> /\ UNCHANGED <<live, req, wire>>
          /\ log' = log \/ (log # <<>> /\ log' = Append(SubSeq(log, 1, Len(log) - 1),
                                                        Replay!Line("torn", Replay!NoId, <<>>)))
      BY <2>5 DEF Replay!Restart, Replay!Front
    <3>2. log' \in Seq(Replay!Lines) /\ Len(log') <= Len(log)
      <4>1. CASE log' = log
        BY <1>2, <4>1
      <4>2. CASE log # <<>> /\ log' = Append(SubSeq(log, 1, Len(log) - 1), Replay!Line("torn", Replay!NoId, <<>>))
        <5>1. PICK line \in Replay!Lines : line = Replay!Line("torn", Replay!NoId, <<>>)
          <6>1. <<>> \in Seq(Nat)
            OBVIOUS
          <6> QED
            BY <1>3, <6>1
        <5>2. Len(log) \in Nat \ {0}
          BY <1>2, <4>2, EmptySeq
        <5>3. /\ Len(log) - 1 \in Int /\ 1 \in Int
              /\ \A k \in 1..(Len(log) - 1) : log[k] \in Replay!Lines
          BY <1>2, <5>2
        <5>5. /\ SubSeq(log, 1, Len(log) - 1) \in Seq(Replay!Lines)
              /\ Len(SubSeq(log, 1, Len(log) - 1)) = IF 1 <= Len(log) - 1 THEN (Len(log) - 1) - 1 + 1 ELSE 0
          BY <5>3, SubSeqProperties
        <5>4. /\ SubSeq(log, 1, Len(log) - 1) \in Seq(Replay!Lines)
              /\ Len(SubSeq(log, 1, Len(log) - 1)) = Len(log) - 1
          <6>1. \A n \in Nat \ {0} : (IF 1 <= n - 1 THEN (n - 1) - 1 + 1 ELSE 0) = n - 1
            OBVIOUS
          <6> QED
            BY <5>2, <5>5, <6>1
        <5> QED
          BY <1>2, <4>2, <5>1, <5>2, <5>4
      <4> QED
        BY <3>1, <4>1, <4>2
    <3>3. Len(log') + Len(busq') <= MaxLines
      <4>1. Len(busq') = 0 /\ Len(log') \in Nat
        BY <3>1, <3>2
      <4> QED
        BY <1>2, <3>2, <4>1
    <3>4. message' \in Seq(Nat) /\ busq' \in Seq(Seq(Nat))
      BY <3>1
    <3> QED
      BY <3>1, <3>2, <3>3, <3>4 DEF WireInv, Replay!TypeOK
  <2> QED
    BY <2>1, <2>2, <2>3, <2>4, <2>5 DEF Replay!LiveNext
<1> QED
  BY <1>1, <1>4, LiveMoves

\* Nothing is on the wire at first.
LEMMA WireInit == ASSUME Replay!WireAssumption, Replay!Init PROVE WireInv
<1>1. /\ phase = "live" /\ live = <<>> /\ message = <<>> /\ busq = <<>> /\ log = <<>> /\ wire = <<>>
      /\ req = [r \in Request |-> [method |-> "none", pc |-> "none", cursor |-> 0, err |-> FALSE, slot |-> FALSE]]
      /\ MaxLines \in Nat
  BY DEF Replay!Init, Replay!WireAssumption
<1>2. [method |-> "none", pc |-> "none", cursor |-> 0, err |-> FALSE, slot |-> FALSE] \in Replay!Requests
  BY <1>1 DEF Replay!Requests
<1>3. Replay!TypeOK
  BY <1>1, <1>2 DEF Replay!TypeOK
<1>4. \A r \in Request : /\ req[r].pc = "none" /\ req[r].method = "none" /\ req[r].slot = FALSE /\ ~req[r].err
                         /\ SentIn(wire, r) = {} /\ AnswersIn(wire, r) = {}
  BY <1>1 DEF SentIn, AnswersIn
<1>5. \A r \in Request : SoundAt(req[r], wire, log, r)
  BY <1>4 DEF SoundAt
<1> QED
  BY <1>1, <1>3, <1>4, <1>5 DEF WireInv, LiveInv

\* The frames of one request, and the kinds they have.
LEMMA FrameTypes ==
  ASSUME NEW r \in Request
  PROVE  /\ \A l \in Replay!Lines : LET f == Replay!Addressed(r, Replay!ReplayLineFrame(l)) IN
              f \in Frames /\ f.kind \notin Replay!Answer /\ f.id[1] = r
         /\ LET f == Replay!Addressed(r, Replay!CommandsUpdate) IN
              f \in Frames /\ f.kind \notin Replay!Answer /\ f.id[1] = r
         /\ \A kind \in Replay!Answer : LET f == [kind |-> kind, id |-> <<r, Replay!NoId>>, text |-> <<>>] IN
              f \in Frames /\ f.id[1] = r /\ f.kind = kind
<1>1. <<>> \in Seq(Nat) /\ Replay!NoId \in Call \cup {Replay!NoId}
  OBVIOUS
<1>2. ASSUME NEW l \in Replay!Lines
      PROVE  LET f == Replay!Addressed(r, Replay!ReplayLineFrame(l)) IN
              f \in Frames /\ f.kind \notin Replay!Answer /\ f.id[1] = r
  <2>1. PICK kind \in Replay!Shown, id \in Call \cup {Replay!NoId}, text \in Seq(Nat) :
          Replay!ReplayLineFrame(l) = [kind |-> kind, id |-> id, text |-> text]
    BY <1>1 DEF Replay!ReplayLineFrame, Replay!Card, Replay!Chunk, Replay!Lines, Replay!Shown
  <2>2. Replay!Addressed(r, Replay!ReplayLineFrame(l)) = [kind |-> kind, id |-> <<r, id>>, text |-> text]
    BY <2>1 DEF Replay!Addressed
  <2>3. kind \notin Replay!Answer
    BY DEF Replay!Shown, Replay!Answer
  <2> QED
    BY <2>2, <2>3 DEF Frames
<1>3. LET f == Replay!Addressed(r, Replay!CommandsUpdate) IN
        f \in Frames /\ f.kind \notin Replay!Answer /\ f.id[1] = r
  BY <1>1 DEF Replay!Addressed, Replay!CommandsUpdate, Frames, Replay!Answer
<1>4. \A kind \in Replay!Answer : LET f == [kind |-> kind, id |-> <<r, Replay!NoId>>, text |-> <<>>] IN
        f \in Frames /\ f.id[1] = r /\ f.kind = kind
  BY <1>1 DEF Frames
<1> QED
  BY <1>2, <1>3, <1>4

\* Before the first line nothing is shown.
LEMMA NothingShown ==
  ASSUME NEW w, NEW l, NEW r, SentIn(w, r) = {} PROVE ShownUpTo(w, l, r, 1 - 1)
<1>1. ShownOf(l, 1 - 1) = {}
  BY DEF ShownOf
<1>2. [k \in ShownOf(l, 1 - 1) |-> 0] \in [ShownOf(l, 1 - 1) -> SentIn(w, r)]
  BY <1>1
<1> QED
  BY <1>1, <1>2 DEF ShownUpTo, Follows

\* The steps of a handler that put nothing on the wire.
LEMMA HandlerKeeps ==
  ASSUME Replay!WireAssumption, WireInv, NEW r \in Request,
         \/ \E m \in Replay!Method : Replay!Dispatch(r, m)
         \/ Replay!MethodNotFound(r) \/ Replay!HandleSessionNew(r) \/ Replay!ReplayOpen(r)
         \/ Replay!ReplayEnds(r) \/ Replay!HandlerPanics(r)
  PROVE  WireInv'
<1> DEFINE x == req[r]
<1>1. /\ x \in Replay!Requests /\ SoundAt(x, wire, log, r) /\ Len(log) \in Nat /\ Len(log) <= MaxLines
      /\ MaxLines \in Nat /\ 1 \in 0..(MaxLines + 1) /\ log \in Seq(Replay!Lines)
  BY DEF WireInv, Replay!TypeOK, Replay!WireAssumption
<1>2. /\ UNCHANGED <<phase, live, message, busq, log, wire>> /\ phase = "serving"
      /\ x.pc \in {"none", "handler", "replay"}
  BY DEF WireInv, LiveInv, Replay!TypeOK, Replay!Dispatch, Replay!MethodNotFound, Replay!HandleSessionNew,
         Replay!ReplayOpen, Replay!ReplayEnds, Replay!HandlerPanics, Replay!To
<1> SUFFICES \E y \in Replay!Requests : req' = [req EXCEPT ![r] = y] /\ SoundAt(y, wire, log, r)
  BY <1>2, RequestMoves
<1>3. ASSUME NEW m \in Replay!Method, Replay!Dispatch(r, m)
      PROVE  \E y \in Replay!Requests : req' = [req EXCEPT ![r] = y] /\ SoundAt(y, wire, log, r)
  <2> DEFINE y == [x EXCEPT !.method = m, !.pc = "handler"]
  <2>1. x.pc = "none" /\ req' = [req EXCEPT ![r] = y]
    BY <1>3 DEF Replay!Dispatch, WireInv, Replay!TypeOK
  <2>2. y \in Replay!Requests /\ y.method = m /\ y.pc = "handler" /\ y.err = x.err /\ y.slot = x.slot
    BY <1>1 DEF Replay!Requests
  <2>3. ~x.err
    BY <1>1, <2>1 DEF SoundAt
  <2> HIDE DEF y
  <2> QED
    BY <1>1, <2>1, <2>2, <2>3 DEF SoundAt
<1>4. ASSUME Replay!MethodNotFound(r)
      PROVE  \E y \in Replay!Requests : req' = [req EXCEPT ![r] = y] /\ SoundAt(y, wire, log, r)
  <2> DEFINE y == [x EXCEPT !.pc = "respond", !.err = TRUE]
  <2>1. x.pc = "handler" /\ x.method = "unknown" /\ req' = [req EXCEPT ![r] = y]
    BY <1>4 DEF Replay!MethodNotFound, WireInv, Replay!TypeOK
  <2>2. y \in Replay!Requests /\ y.method = x.method /\ y.pc = "respond" /\ y.err = TRUE /\ y.slot = x.slot
    BY <1>1 DEF Replay!Requests
  <2> HIDE DEF y
  <2> QED
    BY <1>1, <2>1, <2>2 DEF SoundAt
<1>5. ASSUME Replay!HandleSessionNew(r)
      PROVE  \E y \in Replay!Requests : req' = [req EXCEPT ![r] = y] /\ SoundAt(y, wire, log, r)
  <2> DEFINE y == [x EXCEPT !.pc = "respond", !.slot = TRUE]
  <2>1. x.pc = "handler" /\ x.method = "session/new" /\ req' = [req EXCEPT ![r] = y]
    BY <1>5 DEF Replay!HandleSessionNew, WireInv, Replay!TypeOK
  <2>2. y \in Replay!Requests /\ y.method = x.method /\ y.pc = "respond" /\ y.err = x.err /\ y.slot = TRUE
    BY <1>1 DEF Replay!Requests
  <2> HIDE DEF y
  <2> QED
    BY <1>1, <2>1, <2>2 DEF SoundAt
<1>6. ASSUME Replay!ReplayOpen(r)
      PROVE  \E y \in Replay!Requests : req' = [req EXCEPT ![r] = y] /\ SoundAt(y, wire, log, r)
  <2>1. x.pc = "handler" /\ x.method = "session/load"
    BY <1>6 DEF Replay!ReplayOpen
  <2>2. CASE req' = [req EXCEPT ![r].pc = "replay", ![r].cursor = 1]
    <3> DEFINE y == [x EXCEPT !.pc = "replay", !.cursor = 1]
    <3>1. req' = [req EXCEPT ![r] = y]
      BY <2>2 DEF WireInv, Replay!TypeOK
    <3>2. y \in Replay!Requests /\ y.method = x.method /\ y.pc = "replay" /\ y.cursor = 1 /\ y.err = x.err
          /\ y.slot = x.slot
      BY <1>1 DEF Replay!Requests
    <3>3. ShownUpTo(wire, log, r, 1 - 1) /\ 1 \in 1..(Len(log) + 1)
      BY <1>1, <2>1, NothingShown DEF SoundAt
    <3> HIDE DEF y
    <3> QED
      BY <1>1, <2>1, <3>1, <3>2, <3>3 DEF SoundAt
  <2>3. CASE req' = [req EXCEPT ![r].pc = "respond", ![r].err = TRUE]
    <3> DEFINE y == [x EXCEPT !.pc = "respond", !.err = TRUE]
    <3>1. req' = [req EXCEPT ![r] = y]
      BY <2>3 DEF WireInv, Replay!TypeOK
    <3>2. y \in Replay!Requests /\ y.method = x.method /\ y.pc = "respond" /\ y.err = TRUE /\ y.slot = x.slot
      BY <1>1 DEF Replay!Requests
    <3> HIDE DEF y
    <3> QED
      BY <1>1, <2>1, <3>1, <3>2 DEF SoundAt
  <2> QED
    BY <1>6, <2>2, <2>3 DEF Replay!ReplayOpen
<1>7. ASSUME Replay!ReplayEnds(r)
      PROVE  \E y \in Replay!Requests : req' = [req EXCEPT ![r] = y] /\ SoundAt(y, wire, log, r)
  <2> DEFINE y == [x EXCEPT !.pc = "advertise"]
  <2>1. x.pc = "replay" /\ x.cursor > Len(log) /\ req' = [req EXCEPT ![r] = y]
    BY <1>7 DEF Replay!ReplayEnds, Replay!To, WireInv, Replay!TypeOK
  <2>2. y \in Replay!Requests /\ y.method = x.method /\ y.pc = "advertise" /\ y.err = x.err /\ y.slot = x.slot
    BY <1>1 DEF Replay!Requests
  <2>3. x.cursor \in 1..(Len(log) + 1) /\ ShownUpTo(wire, log, r, x.cursor - 1)
    BY <1>1, <2>1 DEF SoundAt
  <2>4. x.cursor - 1 = Len(log)
    BY <1>1, <2>1, <2>3
  <2>5. ShownUpTo(wire, log, r, Len(log))
    BY <2>3, <2>4
  <2> HIDE DEF y
  <2> QED
    BY <1>1, <2>1, <2>2, <2>5 DEF SoundAt
<1>8. ASSUME Replay!HandlerPanics(r)
      PROVE  \E y \in Replay!Requests : req' = [req EXCEPT ![r] = y] /\ SoundAt(y, wire, log, r)
  <2> DEFINE y == [x EXCEPT !.pc = "panic"]
  <2>1. x.pc = "handler" /\ req' = [req EXCEPT ![r] = y]
    BY <1>8 DEF Replay!HandlerPanics, Replay!To, WireInv, Replay!TypeOK
  <2>2. y \in Replay!Requests /\ y.method = x.method /\ y.pc = "panic" /\ y.err = x.err /\ y.slot = x.slot
    BY <1>1 DEF Replay!Requests
  <2> HIDE DEF y
  <2> QED
    BY <1>1, <2>1, <2>2 DEF SoundAt
<1> QED
  BY <1>3, <1>4, <1>5, <1>6, <1>7, <1>8

\* One line of the transcript: the scanner gives up, or the line is shown.
LEMMA ReplayKeeps ==
  ASSUME Replay!WireAssumption, WireInv, NEW r \in Request, Replay!ReplayStep(r) PROVE WireInv'
<1> DEFINE x == req[r]
           line == log[x.cursor]
           f == Replay!Addressed(r, Replay!ReplayLineFrame(line))
<1>1. /\ x \in Replay!Requests /\ SoundAt(x, wire, log, r) /\ Len(log) \in Nat /\ Len(log) <= MaxLines
      /\ MaxLines \in Nat /\ log \in Seq(Replay!Lines) /\ wire \in Seq(Frames)
  BY DEF WireInv, Replay!TypeOK, Replay!WireAssumption, Frames
<1>2. UNCHANGED <<phase, live, message, busq, log>> /\ phase = "serving" /\ x.pc = "replay" /\ x.cursor <= Len(log)
  BY DEF WireInv, LiveInv, Replay!TypeOK, Replay!ReplayStep
<1>3. /\ x.cursor \in 1..Len(log) /\ ShownUpTo(wire, log, r, x.cursor - 1)
      /\ x.method = "session/load" /\ AnswersIn(wire, r) = {} /\ x.slot = FALSE
  BY <1>1, <1>2 DEF SoundAt, Replay!Requests
<1>4. line \in Replay!Lines /\ f \in Frames /\ f.kind \notin Replay!Answer /\ f.id[1] = r
  BY <1>1, <1>3, FrameTypes
<1>5. CASE line.type = "oversized"
  <2> DEFINE y == [x EXCEPT !.pc = "respond", !.err = TRUE]
  <2>1. req' = [req EXCEPT ![r] = y] /\ wire' = wire
    BY <1>5 DEF Replay!ReplayStep, Replay!ScanFails, WireInv, Replay!TypeOK
  <2>2. y \in Replay!Requests /\ y.method = x.method /\ y.pc = "respond" /\ y.err = TRUE /\ y.slot = x.slot
    BY <1>1 DEF Replay!Requests
  <2> HIDE DEF y
  <2>3. SoundAt(y, wire, log, r)
    BY <1>3, <2>2 DEF SoundAt
  <2> QED
    BY <1>2, <2>1, <2>2, <2>3, RequestMoves
<1>6. CASE line.type # "oversized"
  <2> DEFINE y == [x EXCEPT !.cursor = x.cursor + 1]
  <2>1. /\ req' = [req EXCEPT ![r] = y]
        /\ IF Replay!Framed(line) THEN wire' = Append(wire, f) ELSE wire' = wire
    BY <1>6 DEF Replay!ReplayStep, Replay!Update, WireInv, Replay!TypeOK
  <2>2. /\ y \in Replay!Requests /\ y.method = x.method /\ y.pc = "replay" /\ y.err = x.err /\ y.slot = x.slot
        /\ y.cursor = x.cursor + 1
    <3>1. x.cursor + 1 \in 0..(MaxLines + 1)
      BY <1>1, <1>3
    <3> QED
      BY <1>1, <1>2, <3>1 DEF Replay!Requests
  <2> HIDE DEF y
  <2>3. ~x.err /\ x.cursor + 1 \in 1..(Len(log) + 1) /\ (x.cursor + 1) - 1 = x.cursor
    BY <1>1, <1>2, <1>3 DEF SoundAt
  <2>4. CASE Replay!Framed(line)
    <3>1. wire' = Append(wire, f) /\ ShownUpTo(Append(wire, f), log, r, x.cursor)
      BY <1>1, <1>3, <1>4, <2>1, <2>4, NextLine
    <3>2. AnswersIn(wire', r) = {}
      BY <1>1, <1>3, <1>4, <3>1, OneMore
    <3>3. SoundAt(y, wire', log, r)
      BY <1>3, <2>2, <2>3, <3>1, <3>2 DEF SoundAt
    <3> QED
      BY <1>2, <1>4, <2>1, <2>2, <3>1, <3>3, RequestMoves
  <2>5. CASE ~Replay!Framed(line)
    <3>1. wire' = wire /\ ShownUpTo(wire, log, r, x.cursor)
      BY <1>1, <1>3, <2>1, <2>5, NextLine
    <3>3. SoundAt(y, wire', log, r)
      BY <1>3, <2>2, <2>3, <3>1 DEF SoundAt
    <3> QED
      BY <1>2, <2>1, <2>2, <3>1, <3>3, RequestMoves
  <2> QED
    BY <2>4, <2>5
<1> QED
  BY <1>5, <1>6

\* The commands after the last line, or after the answer to session/new.
LEMMA CommandsKeep ==
  ASSUME WireInv, NEW r \in Request, Replay!LoadAdvertise(r) \/ Replay!SlotRun(r) PROVE WireInv'
<1> DEFINE x == req[r]
           f == Replay!Addressed(r, Replay!CommandsUpdate)
<1>1. /\ x \in Replay!Requests /\ SoundAt(x, wire, log, r)
      /\ log \in Seq(Replay!Lines) /\ wire \in Seq(Frames)
  BY DEF WireInv, Replay!TypeOK, Frames
<1>2. UNCHANGED <<phase, live, message, busq, log>> /\ phase = "serving"
  BY DEF WireInv, LiveInv, Replay!TypeOK, Replay!LoadAdvertise, Replay!SlotRun
<1>3. f \in Frames /\ f.kind \notin Replay!Answer /\ f.id[1] = r
  BY FrameTypes
<1>4. CASE Replay!LoadAdvertise(r)
  <2> DEFINE y == [x EXCEPT !.pc = "respond"]
  <2>1. x.pc = "advertise" /\ req' = [req EXCEPT ![r] = y] /\ wire' = Append(wire, f)
    BY <1>4 DEF Replay!LoadAdvertise, Replay!Update, Replay!To, WireInv, Replay!TypeOK
  <2>2. y \in Replay!Requests /\ y.method = x.method /\ y.pc = "respond" /\ y.err = x.err /\ y.slot = x.slot
    BY <1>1 DEF Replay!Requests
  <2> HIDE DEF y
  <2>3. ShownUpTo(wire, log, r, Len(log)) /\ x.method = "session/load" /\ AnswersIn(wire, r) = {} /\ ~x.slot
    BY <1>1, <2>1 DEF SoundAt
  <2>4. Complete(wire', log, r)
    BY <1>1, <1>3, <2>1, <2>3, CommandsComplete
  <2>5. AnswersIn(wire', r) = {}
    BY <1>1, <1>3, <2>1, <2>3, OneMore
  <2>6. SoundAt(y, wire', log, r)
    BY <2>2, <2>3, <2>4, <2>5 DEF SoundAt
  <2> QED
    BY <1>2, <1>3, <2>1, <2>2, <2>6, RequestMoves
<1>5. CASE Replay!SlotRun(r)
  <2> DEFINE y == [x EXCEPT !.pc = "done", !.slot = FALSE]
  <2>1. /\ x.pc = "slot" /\ req' = [req EXCEPT ![r] = y]
        /\ IF x.slot THEN wire' = Append(wire, f) ELSE wire' = wire
    BY <1>5 DEF Replay!SlotRun, Replay!Update, WireInv, Replay!TypeOK
  <2>2. y \in Replay!Requests /\ y.method = x.method /\ y.pc = "done" /\ y.err = x.err /\ y.slot = FALSE
    BY <1>1 DEF Replay!Requests
  <2> HIDE DEF y
  <2>3. CASE x.slot
    <3>1. x.method = "session/new" /\ AnswersIn(wire, r) # {}
      BY <1>1, <2>1, <2>3 DEF SoundAt
    <3>2. /\ SentIn(wire', r) = SentIn(wire, r) \cup {Len(wire) + 1} /\ AnswersIn(wire', r) = AnswersIn(wire, r)
          /\ \A j \in DOMAIN wire : j < Len(wire) + 1
      <4> HIDE DEF f
      <4>1. wire' = Append(wire, f)
        BY <2>1, <2>3
      <4>2. \A j \in DOMAIN wire : j < Len(wire) + 1
        BY <1>1, <1>3, OneMore
      <4> QED
        BY <1>1, <1>3, <4>1, <4>2, OneMore
    <3>5. \A j \in AnswersIn(wire, r) : j < Len(wire) + 1
      BY <3>2 DEF AnswersIn
    <3>3. \A i \in SentIn(wire', r) : \E j \in AnswersIn(wire', r) : j < i
      BY <1>1, <3>1, <3>2, <3>5 DEF SoundAt
    <3>4. SoundAt(y, wire', log, r)
      BY <2>2, <3>1, <3>3 DEF SoundAt
    <3> QED
      BY <1>2, <1>3, <2>1, <2>2, <2>3, <3>4, RequestMoves
  <2>4. CASE ~x.slot
    <3>1. SoundAt(y, wire, log, r)
      BY <1>1, <2>1, <2>2 DEF SoundAt
    <3> QED
      BY <1>2, <2>1, <2>2, <2>4, <3>1, RequestMoves
  <2> QED
    BY <2>3, <2>4
<1> QED
  BY <1>4, <1>5

\* An answer: after everything a load shows, before anything a new session shows.
LEMMA AnswerKeeps ==
  ASSUME WireInv, NEW r \in Request, Replay!RecoverDispatch(r) \/ Replay!WriteResponse(r) PROVE WireInv'
<1> DEFINE x == req[r]
<1>1. /\ x \in Replay!Requests /\ SoundAt(x, wire, log, r)
      /\ log \in Seq(Replay!Lines) /\ wire \in Seq(Frames)
  BY DEF WireInv, Replay!TypeOK, Frames
<1>2. UNCHANGED <<phase, live, message, busq, log>> /\ phase = "serving" /\ x.pc \in {"panic", "respond"}
  BY DEF WireInv, LiveInv, Replay!TypeOK, Replay!RecoverDispatch, Replay!WriteResponse
<1>3. \A kind \in Replay!Answer : LET f == [kind |-> kind, id |-> <<r, Replay!NoId>>, text |-> <<>>] IN
        f \in Frames /\ f.id[1] = r /\ f.kind = kind
  BY FrameTypes
<1>4. AnswersIn(wire, r) = {}
  BY <1>1, <1>2 DEF SoundAt
<1>5. ASSUME NEW f \in Frames, f.id[1] = r, f.kind \in Replay!Answer, wire' = Append(wire, f)
      PROVE  /\ SentIn(wire', r) = SentIn(wire, r) /\ AnswersIn(wire', r) = {Len(wire) + 1}
             /\ wire'[Len(wire) + 1] = f
             /\ Complete(wire, log, r) => Complete(wire', log, r)
  <2>1. /\ SentIn(wire', r) = SentIn(wire, r) /\ AnswersIn(wire', r) = {Len(wire) + 1}
        /\ wire'[Len(wire) + 1] = f /\ \A i \in DOMAIN wire : wire'[i] = wire[i]
    BY <1>1, <1>4, <1>5, OneMore
  <2>2. \A i \in SentIn(wire, r) : wire'[i] = wire[i]
    BY <2>1 DEF SentIn
  <2> QED
    BY <2>1, <2>2, SameSent
<1>6. CASE Replay!RecoverDispatch(r)
  <2> DEFINE y == [x EXCEPT !.pc = "done"]
             f == [kind |-> "error", id |-> <<r, Replay!NoId>>, text |-> <<>>]
  <2>1. x.pc = "panic" /\ req' = [req EXCEPT ![r] = y] /\ wire' = Append(wire, f)
    BY <1>6 DEF Replay!RecoverDispatch, Replay!Respond, Replay!To, WireInv, Replay!TypeOK
  <2>2. y \in Replay!Requests /\ y.method = x.method /\ y.pc = "done" /\ y.err = x.err /\ y.slot = x.slot
    BY <1>1 DEF Replay!Requests
  <2>3. f \in Frames /\ f.id[1] = r /\ f.kind = "error" /\ f.kind \in Replay!Answer
    BY <1>3 DEF Replay!Answer
  <2> HIDE DEF y, f
  <2>4. SentIn(wire', r) = {} /\ AnswersIn(wire', r) = {Len(wire) + 1} /\ wire'[Len(wire) + 1].kind = "error"
    BY <1>1, <1>5, <2>1, <2>3 DEF SoundAt
  <2>5. SoundAt(y, wire', log, r)
    BY <1>1, <2>1, <2>2, <2>4 DEF SoundAt
  <2> QED
    BY <1>2, <2>1, <2>2, <2>3, <2>5, RequestMoves
<1>7. CASE Replay!WriteResponse(r)
  <2> DEFINE y == [x EXCEPT !.pc = "slot"]
             kind == IF x.err THEN "error" ELSE "result"
             f == [kind |-> kind, id |-> <<r, Replay!NoId>>, text |-> <<>>]
  <2>1. x.pc = "respond" /\ req' = [req EXCEPT ![r] = y] /\ wire' = Append(wire, f)
    BY <1>7 DEF Replay!WriteResponse, Replay!Respond, Replay!To, WireInv, Replay!TypeOK
  <2>2. y \in Replay!Requests /\ y.method = x.method /\ y.pc = "slot" /\ y.err = x.err /\ y.slot = x.slot
    BY <1>1 DEF Replay!Requests
  <2>3. f \in Frames /\ f.id[1] = r /\ f.kind = kind /\ f.kind \in Replay!Answer /\ (x.err => f.kind # "result")
    BY <1>3 DEF Replay!Answer
  <2> HIDE DEF y, f
  <2>4. /\ SentIn(wire', r) = SentIn(wire, r) /\ AnswersIn(wire', r) = {Len(wire) + 1}
        /\ wire'[Len(wire) + 1] = f /\ (Complete(wire, log, r) => Complete(wire', log, r))
    BY <1>5, <2>1, <2>3
  <2>5. x.method = "session/load" /\ ~x.err => Complete(wire', log, r)
    BY <1>1, <2>1, <2>4 DEF SoundAt
  <2>6. x.method = "session/new" => SentIn(wire', r) = {}
    BY <1>1, <2>1, <2>4 DEF SoundAt
  <2>7. x.slot => x.method = "session/new"
    BY <1>1 DEF SoundAt
  <2>8. SoundAt(y, wire', log, r)
    BY <2>2, <2>3, <2>4, <2>5, <2>6, <2>7 DEF SoundAt
  <2> QED
    BY <1>2, <2>1, <2>2, <2>3, <2>8, RequestMoves
<1> QED
  BY <1>6, <1>7

\* Every step keeps what was said of the wire.
LEMMA WireNext ==
  ASSUME Replay!WireAssumption, WireInv, [Replay!Next]_(Replay!vars) PROVE WireInv'
<1>1. CASE Replay!Next
  BY <1>1, LiveKeeps, HandlerKeeps, ReplayKeeps, CommandsKeep, AnswerKeeps DEF Replay!Next, Replay!Serving
<1>2. CASE UNCHANGED Replay!vars
  BY <1>2 DEF Replay!vars, WireInv, LiveInv, Replay!TypeOK
<1> QED
  BY <1>1, <1>2

\* The invariant holds of every run of the replay beside other requests.
THEOREM WireInvariance ==
  ASSUME Replay!WireAssumption PROVE Replay!Spec => []WireInv
BY WireInit, WireNext, PTL DEF Replay!Spec

\* The properties are those of the places where a request's frames are.
LEMMA WireInvImplies == WireInv => Replay!ResponseBeforeUpdates /\ Replay!LoadedMeansComplete
<1> SUFFICES ASSUME WireInv PROVE Replay!ResponseBeforeUpdates /\ Replay!LoadedMeansComplete
  OBVIOUS
<1>1. \A r : Replay!SentAt(r) = SentIn(wire, r) /\ Replay!AnswersAt(r) = AnswersIn(wire, r)
  BY DEF Replay!SentAt, Replay!AnswersAt, SentIn, AnswersIn
<1>2. ShownOf(log, Len(log)) = {k \in DOMAIN log : Replay!Framed(log[k])}
  BY DEF ShownOf, WireInv, Replay!TypeOK
<1>3. Replay!ResponseBeforeUpdates
  BY <1>1 DEF WireInv, SoundAt, Replay!ResponseBeforeUpdates
<1>4. ASSUME NEW r \in Request, Replay!Loaded(r) PROVE Complete(wire, log, r)
  BY <1>1, <1>4 DEF WireInv, SoundAt, Replay!Loaded
<1>5. ASSUME NEW r \in Request, Replay!Loaded(r)
      PROVE  LET shown == {k \in DOMAIN log : Replay!Framed(log[k])} IN
             \E at \in [shown -> Replay!SentAt(r)], final \in Replay!SentAt(r) :
               /\ \A j, k \in shown : j < k => at[j] < at[k]
               /\ \A k \in shown : /\ at[k] < final
                                   /\ wire[at[k]] = Replay!Addressed(r, Replay!ReplayLineFrame(log[k]))
               /\ wire[final] = Replay!Addressed(r, Replay!CommandsUpdate)
               /\ Replay!SentAt(r) = {at[k] : k \in shown} \cup {final}
  <2>1. PICK at \in [ShownOf(log, Len(log)) -> SentIn(wire, r)], final \in SentIn(wire, r) :
          /\ Follows(wire, log, r, Len(log), at)
          /\ \A k \in ShownOf(log, Len(log)) : at[k] < final
          /\ wire[final] = Replay!Addressed(r, Replay!CommandsUpdate)
          /\ SentIn(wire, r) = {at[k] : k \in ShownOf(log, Len(log))} \cup {final}
    BY <1>4, <1>5 DEF Complete
  <2>2. /\ \A j, k \in ShownOf(log, Len(log)) : j < k => at[j] < at[k]
        /\ \A k \in ShownOf(log, Len(log)) : wire[at[k]] = Replay!Addressed(r, Replay!ReplayLineFrame(log[k]))
    BY <2>1 DEF Follows
  <2> DEFINE shown == {k \in DOMAIN log : Replay!Framed(log[k])}
  <2>3. ShownOf(log, Len(log)) = shown /\ SentIn(wire, r) = Replay!SentAt(r)
    BY <1>1, <1>2
  <2> HIDE DEF shown
  <2>4. at \in [shown -> Replay!SentAt(r)] /\ final \in Replay!SentAt(r)
    BY <2>3
  <2>5. /\ \A j, k \in shown : j < k => at[j] < at[k]
        /\ \A k \in shown : at[k] < final /\ wire[at[k]] = Replay!Addressed(r, Replay!ReplayLineFrame(log[k]))
        /\ Replay!SentAt(r) = {at[k] : k \in shown} \cup {final}
    BY <2>1, <2>2, <2>3
  <2>6. \E at2 \in [shown -> Replay!SentAt(r)], final2 \in Replay!SentAt(r) :
          /\ \A j, k \in shown : j < k => at2[j] < at2[k]
          /\ \A k \in shown : /\ at2[k] < final2
                              /\ wire[at2[k]] = Replay!Addressed(r, Replay!ReplayLineFrame(log[k]))
          /\ wire[final2] = Replay!Addressed(r, Replay!CommandsUpdate)
          /\ Replay!SentAt(r) = {at2[k] : k \in shown} \cup {final2}
    BY <2>1, <2>4, <2>5
  <2> QED
    BY <2>6 DEF shown
<1>6. Replay!LoadedMeansComplete
  BY <1>5 DEF Replay!LoadedMeansComplete
<1> QED
  BY <1>3, <1>6

\* No frame of a new session precedes the answer that names it, and a load that
\* reports success has shown every line of the transcript in order, then the
\* commands, and nothing else (replay.go, server.go handleRequest).
THEOREM ReplayIsComplete ==
  ASSUME Replay!WireAssumption
  PROVE  Replay!Spec => [](Replay!ResponseBeforeUpdates /\ Replay!LoadedMeansComplete)
BY WireInvariance, WireInvImplies, PTL

=============================================================================
