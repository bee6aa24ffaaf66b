------------------------------- MODULE Qsbr --------------------------------
(***************************************************************************)
(* rte_rcu_qsbr: quiescent-state based reclamation.  v->token starts at 1, *)
(* v->acked_token at 0; each registered reader has a counter cnt, 0 while  *)
(* it is offline.                                                          *)
(*   thread_online:  t = load(token); store(cnt, t);                       *)
(*   thread_offline: store(cnt, 0);                                        *)
(*   quiescent:      t = load(token); if (t != cnt) store(cnt, t);         *)
(*   start:          return add_fetch(token, 1);                           *)
(*   check(t, wait): if t <= acked_token return 1; for each reader, in id  *)
(*                   order: c = load(cnt); while c != 0 and c < t, return  *)
(*                   0 unless wait, else reload; keep the least c != 0;    *)
(*                   store it in acked_token unless none; return 1.        *)
(* rte_rcu_qsbr_lock/unlock only count in RTE_LIBRTE_RCU_DEBUG builds; here *)
(* they bracket the caller's use of the shared pointer: lock loads it,     *)
(* unlock drops it.  A writer is the documented caller: it replaces the    *)
(* pointer, starts a grace period and queues the old object with its      *)
(* token; later it checks the oldest token and frees that object.         *)
(* Every reader is registered; check_all and check_selective then do the  *)
(* same.  Token and counters are uint64 and never wrap in practice.        *)
(***************************************************************************)
EXTENDS Naturals, Sequences

CONSTANTS
  NumReaders,  \* registered reader threads 1..NumReaders
  Writers,     \* threads that retire objects
  MaxObjs      \* bound: objects 1..MaxObjs, object 1 published at the start

Readers == 1..NumReaders
OFFLINE == 0                 \* __RTE_QSBR_CNT_THR_OFFLINE
CNT_MAX == MaxObjs + 1       \* __RTE_QSBR_CNT_MAX: above every token reached

VARIABLES
  token, acked,   \* v->token, v->acked_token
  cnt,            \* per reader: v->qsbr_cnt[id].cnt
  rt,             \* per reader: the token loaded by online/quiescent
  hold,           \* per reader: the object it dereferenced, 0 if none
  rpc,
  ptr, nextObj,   \* the shared pointer, the next fresh object
  freed,          \* objects given back
  wobj, pend,     \* per writer: object being retired; queue of [obj, tok]
  wait,           \* per writer: check's wait argument
  wi, wack,       \* per writer: reader being checked, least counter seen
  wpc

rvars == <<cnt, rt, hold, rpc>>
wvars == <<wobj, pend, wait, wi, wack, wpc>>
vars == <<token, acked, ptr, nextObj, freed, rvars, wvars>>

Init ==
  /\ token = 1 /\ acked = 0
  /\ cnt = [r \in Readers |-> OFFLINE]
  /\ rt = [r \in Readers |-> 0]
  /\ hold = [r \in Readers |-> 0]
  /\ rpc = [r \in Readers |-> "offline"]
  /\ ptr = 1 /\ nextObj = 2 /\ freed = {}
  /\ wobj = [w \in Writers |-> 0]
  /\ pend = [w \in Writers |-> <<>>]
  /\ wait = [w \in Writers |-> FALSE]
  /\ wi = [w \in Writers |-> 0]
  /\ wack = [w \in Writers |-> CNT_MAX]
  /\ wpc = [w \in Writers |-> "idle"]

RGoto(r, l) == rpc' = [rpc EXCEPT ![r] = l]
WGoto(w, l) == wpc' = [wpc EXCEPT ![w] = l]

\* rte_rcu_qsbr_thread_online: t = load(token) ...
Online(r) ==
  /\ rpc[r] = "offline"
  /\ rt' = [rt EXCEPT ![r] = token]
  /\ RGoto(r, "on_store")
  /\ UNCHANGED <<token, acked, ptr, nextObj, freed, cnt, hold, wvars>>

\* ... store(cnt, t); a full fence follows.
OnlineStore(r) ==
  /\ rpc[r] = "on_store"
  /\ cnt' = [cnt EXCEPT ![r] = rt[r]]
  /\ rt' = [rt EXCEPT ![r] = 0]
  /\ RGoto(r, "online")
  /\ UNCHANGED <<token, acked, ptr, nextObj, freed, hold, wvars>>

\* rte_rcu_qsbr_thread_offline, outside a read-side section.
Offline(r) ==
  /\ rpc[r] = "online" /\ hold[r] = 0
  /\ cnt' = [cnt EXCEPT ![r] = OFFLINE]
  /\ RGoto(r, "offline")
  /\ UNCHANGED <<token, acked, ptr, nextObj, freed, rt, hold, wvars>>

\* rte_rcu_qsbr_lock, then the caller dereferences the shared pointer.
Lock(r) ==
  /\ rpc[r] = "online" /\ hold[r] = 0
  /\ hold' = [hold EXCEPT ![r] = ptr]
  /\ UNCHANGED <<token, acked, ptr, nextObj, freed, cnt, rt, rpc, wvars>>

\* The caller is done with the object; rte_rcu_qsbr_unlock.
Unlock(r) ==
  /\ hold[r] # 0
  /\ hold' = [hold EXCEPT ![r] = 0]
  /\ UNCHANGED <<token, acked, ptr, nextObj, freed, cnt, rt, rpc, wvars>>

\* rte_rcu_qsbr_quiescent, outside a read-side section: t = load(token) ...
Quiescent(r) ==
  /\ rpc[r] = "online" /\ hold[r] = 0
  /\ rt' = [rt EXCEPT ![r] = token]
  /\ RGoto(r, "q_store")
  /\ UNCHANGED <<token, acked, ptr, nextObj, freed, cnt, hold, wvars>>

\* ... if (t != cnt) store(cnt, t).
QuiescentStore(r) ==
  /\ rpc[r] = "q_store"
  /\ cnt' = [cnt EXCEPT ![r] = IF rt[r] # cnt[r] THEN rt[r] ELSE cnt[r]]
  /\ rt' = [rt EXCEPT ![r] = 0]
  /\ RGoto(r, "online")
  /\ UNCHANGED <<token, acked, ptr, nextObj, freed, hold, wvars>>

\* The caller replaces the shared pointer, retiring the old object.
Retire(w) ==
  /\ wpc[w] = "idle" /\ nextObj <= MaxObjs
  /\ wobj' = [wobj EXCEPT ![w] = ptr]
  /\ ptr' = nextObj /\ nextObj' = nextObj + 1
  /\ WGoto(w, "start")
  /\ UNCHANGED <<token, acked, freed, rvars, pend, wait, wi, wack>>

\* Mutant: start returns the token before the increment (fetch_add).
StartFetchAdd(w) ==
  /\ wpc[w] = "start"
  /\ token' = token + 1
  /\ pend' = [pend EXCEPT ![w] = Append(@, [obj |-> wobj[w], tok |-> token])]
  /\ wobj' = [wobj EXCEPT ![w] = 0]
  /\ WGoto(w, "idle")
  /\ UNCHANGED <<acked, ptr, nextObj, freed, rvars, wait, wi, wack>>

\* rte_rcu_qsbr_start: t = add_fetch(token, 1); the caller queues the
\* object with t until a check of t succeeds.
Start(w) ==
  /\ wpc[w] = "start"
  /\ token' = token + 1
  /\ pend' = [pend EXCEPT ![w] = Append(@, [obj |-> wobj[w], tok |-> token + 1])]
  /\ wobj' = [wobj EXCEPT ![w] = 0]
  /\ WGoto(w, "idle")
  /\ UNCHANGED <<acked, ptr, nextObj, freed, rvars, wait, wi, wack>>

\* The token of the oldest object the writer has queued.
WT(w) == Head(pend[w]).tok

\* rte_rcu_qsbr_check(t, wait) for the oldest queued object: t <=
\* acked_token returns 1 at once; otherwise the scan starts at reader 1.
Check(w) ==
  /\ wpc[w] = "idle" /\ pend[w] # <<>>
  /\ \E b \in BOOLEAN : wait' = [wait EXCEPT ![w] = b]
  /\ IF WT(w) <= acked
       THEN WGoto(w, "free") /\ UNCHANGED <<wi, wack>>
       ELSE /\ WGoto(w, "scan")
            /\ wi' = [wi EXCEPT ![w] = 1]
            /\ wack' = [wack EXCEPT ![w] = CNT_MAX]
  /\ UNCHANGED <<token, acked, ptr, nextObj, freed, rvars, wobj, pend>>

\* The counter c of the reader being checked is behind t.
Behind(w, c) == c # OFFLINE /\ c < WT(w)

\* A reader behind and wait false: check returns 0; the caller tries later.
ScanBusy(w) ==
  /\ wpc[w] = "scan" /\ ~wait[w]
  /\ Behind(w, cnt[wi[w]])
  /\ WGoto(w, "idle")
  /\ wi' = [wi EXCEPT ![w] = 0]
  /\ wack' = [wack EXCEPT ![w] = CNT_MAX]
  /\ UNCHANGED <<token, acked, ptr, nextObj, freed, rvars, wobj, pend, wait>>

\* The least counter, other than offline, seen so far.
Least(w, c) == IF c # OFFLINE /\ c < wack[w] THEN c ELSE wack[w]

\* Mutant: the reader must be strictly past t (c > t).
ScanPastToken(w) ==
  /\ wpc[w] = "scan"
  /\ cnt[wi[w]] = OFFLINE \/ cnt[wi[w]] > WT(w)
  /\ wack' = [wack EXCEPT ![w] = Least(w, cnt[wi[w]])]
  /\ wi' = [wi EXCEPT ![w] = IF wi[w] < NumReaders THEN wi[w] + 1 ELSE 0]
  /\ WGoto(w, IF wi[w] < NumReaders THEN "scan" ELSE "ack")
  /\ UNCHANGED <<token, acked, ptr, nextObj, freed, rvars, wobj, pend, wait>>

\* c = load(cnt) is offline or at t: keep the least c, next reader.
\* (With wait, a reader behind is reloaded until it is not: no step.)
Scan(w) ==
  /\ wpc[w] = "scan"
  /\ ~Behind(w, cnt[wi[w]])
  /\ wack' = [wack EXCEPT ![w] = Least(w, cnt[wi[w]])]
  /\ wi' = [wi EXCEPT ![w] = IF wi[w] < NumReaders THEN wi[w] + 1 ELSE 0]
  /\ WGoto(w, IF wi[w] < NumReaders THEN "scan" ELSE "ack")
  /\ UNCHANGED <<token, acked, ptr, nextObj, freed, rvars, wobj, pend, wait>>

\* Mutant: the least counter is stored even when every reader was offline.
AckStoreAlways(w) ==
  /\ wpc[w] = "ack"
  /\ acked' = wack[w]
  /\ wack' = [wack EXCEPT ![w] = CNT_MAX]
  /\ WGoto(w, "free")
  /\ UNCHANGED <<token, ptr, nextObj, freed, rvars, wobj, pend, wait, wi>>

\* if (acked_token != MAX) store(acked_token); return 1.
AckStore(w) ==
  /\ wpc[w] = "ack"
  /\ acked' = IF wack[w] # CNT_MAX THEN wack[w] ELSE acked
  /\ wack' = [wack EXCEPT ![w] = CNT_MAX]
  /\ WGoto(w, "free")
  /\ UNCHANGED <<token, ptr, nextObj, freed, rvars, wobj, pend, wait, wi>>

\* check returned 1: the caller frees the object and dequeues it.
Free(w) ==
  /\ wpc[w] = "free"
  /\ freed' = freed \cup {Head(pend[w]).obj}
  /\ pend' = [pend EXCEPT ![w] = Tail(@)]
  /\ wait' = [wait EXCEPT ![w] = FALSE]
  /\ WGoto(w, "idle")
  /\ UNCHANGED <<token, acked, ptr, nextObj, rvars, wobj, wi, wack>>

RStep(r) == OnlineStore(r) \/ QuiescentStore(r) \/ Unlock(r)
RCall(r) == Online(r) \/ Offline(r) \/ Lock(r) \/ Quiescent(r)
WStep(w) == Start(w) \/ Check(w) \/ ScanBusy(w) \/ Scan(w) \/ AckStore(w) \/ Free(w)

Next ==
  \/ \E r \in Readers : RCall(r) \/ RStep(r)
  \/ \E w \in Writers : Retire(w) \/ WStep(w)

(* Calls in progress finish and read-side sections end, and a writer with *)
(* objects queued keeps calling check, as a defer queue's reclaim does    *)
(* (weak fairness).                                                       *)
(* A reader that stays online reports a quiescent state again and again,  *)
(* as the library requires of its readers; it may lock in between, so the *)
(* call is only intermittently enabled: strong fairness.                  *)
Spec ==
  /\ Init /\ [][Next]_vars
  /\ \A r \in Readers : WF_vars(RStep(r)) /\ SF_vars(Quiescent(r))
  /\ \A w \in Writers : WF_vars(WStep(w))

-----------------------------------------------------------------------------
TypeOK ==
  /\ token \in 1..MaxObjs /\ acked \in 0..MaxObjs
  /\ cnt \in [Readers -> 0..MaxObjs] /\ rt \in [Readers -> 0..MaxObjs]
  /\ hold \in [Readers -> 0..MaxObjs]
  /\ rpc \in [Readers -> {"offline", "on_store", "online", "q_store"}]
  /\ ptr \in 1..MaxObjs /\ nextObj \in 2..(MaxObjs + 1) /\ freed \subseteq 1..MaxObjs
  /\ wobj \in [Writers -> 0..MaxObjs]
  /\ pend \in [Writers -> Seq([obj : 1..MaxObjs, tok : 1..MaxObjs])]
  /\ wait \in [Writers -> BOOLEAN]
  /\ wi \in [Writers -> 0..NumReaders] /\ wack \in [Writers -> 0..CNT_MAX]
  /\ wpc \in [Writers -> {"idle", "start", "scan", "ack", "free"}]

(* The grace period is long enough: no object is freed while a reader that *)
(* dereferenced it before it was retired still uses it, however the       *)
(* readers' online, quiescent and offline calls interleave with start,     *)
(* check and the acked_token shortcut of one or more writers.              *)
NoUseAfterFree == \A r \in Readers : hold[r] \notin freed

(* Every grace period ends: an object a writer has retired and queued is *)
(* eventually freed, whether the writer checks with wait or keeps polling *)
(* without it, and however the readers go online and offline.            *)
GraceEnds ==
  \A w \in Writers, o \in 1..MaxObjs :
    (\E i \in DOMAIN pend[w] : pend[w][i].obj = o) ~> o \in freed

====
