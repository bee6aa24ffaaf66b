----------------------------- MODULE TicketLock -----------------------------
(***************************************************************************)
(* rte_ticketlock_recursive_t: an rte_ticketlock_t (a 32-bit word of two   *)
(* uint16 halves, current and next), the owner user and the nesting        *)
(* count.  The plain ticket lock calls are the steps the recursive calls   *)
(* make on the embedded lock:                                              *)
(*   rte_ticketlock_lock:    me = fetch_add(next, 1);                      *)
(*                           rte_wait_until_equal_16(current, me);         *)
(*   rte_ticketlock_trylock: old = load of the word; if old.next =         *)
(*                           old.current, CAS the word to next + 1;        *)
(*   rte_ticketlock_unlock:  i = load current; store current = i + 1.      *)
(* The halves are TicketBits wide (16 in the code).                        *)
(***************************************************************************)
EXTENDS Naturals, FiniteSets

CONSTANTS
  Threads,
  Nil,         \* user when no thread owns the lock (TICKET_LOCK_INVALID_ID)
  MaxDepth,    \* bound: nested acquisitions by the owner
  TicketBits   \* width of current and next

ASSUME TicketBits \in Nat \ {0}

TicketMod == 2 ^ TicketBits
Ticket == 0..(TicketMod - 1)

VARIABLES
  current,   \* tl.s.current: the ticket being served
  next,      \* tl.s.next: the next ticket to hand out
  user,      \* tlr->user
  count,     \* tlr->count
  me,        \* per thread: its ticket, or the value it loaded
  pc

vars == <<current, next, user, count, me, pc>>

Init ==
  /\ current = 0
  /\ next = 0
  /\ user = Nil
  /\ count = 0
  /\ me = [t \in Threads |-> 0]
  /\ pc = [t \in Threads |-> "idle"]

Busy(t) == pc[t] # "idle"

Bump(x) == (x + 1) % TicketMod

\* rte_ticketlock_recursive_lock / _trylock entry: if the load of user is
\* not the caller, take the ticket lock, else only count the nesting.
Lock(t) ==
  /\ pc[t] \in {"idle", "cs"}
  /\ pc[t] = "cs" => count < MaxDepth
  /\ pc' = [pc EXCEPT ![t] = IF user = t THEN "inc" ELSE "take"]
  /\ UNCHANGED <<current, next, user, count, me>>

TryLock(t) ==
  /\ pc[t] \in {"idle", "cs"}
  /\ pc[t] = "cs" => count < MaxDepth
  /\ pc' = [pc EXCEPT ![t] = IF user = t THEN "inc" ELSE "try_load"]
  /\ UNCHANGED <<current, next, user, count, me>>

\* me = fetch_add(&tl->s.next, 1).
Take(t) ==
  /\ pc[t] = "take"
  /\ me' = [me EXCEPT ![t] = next]
  /\ next' = Bump(next)
  /\ pc' = [pc EXCEPT ![t] = "wait"]
  /\ UNCHANGED <<current, user, count>>

\* rte_wait_until_equal_16(&tl->s.current, me).
Wait(t) ==
  /\ pc[t] = "wait"
  /\ current = me[t]
  /\ pc' = [pc EXCEPT ![t] = "set_user"]
  /\ UNCHANGED <<current, next, user, count, me>>

\* oldl = load of the word; only if oldl.s.next == oldl.s.current is the
\* CAS tried, else the call returns 0.  me keeps the loaded value.
TryLoad(t) ==
  /\ pc[t] = "try_load"
  /\ IF next = current
       THEN /\ me' = [me EXCEPT ![t] = next]
            /\ pc' = [pc EXCEPT ![t] = "try_cas"]
       ELSE /\ pc' = [pc EXCEPT ![t] = "idle"]
            /\ UNCHANGED me
  /\ UNCHANGED <<current, next, user, count>>

\* Mutant: the CAS compares only the current half of the word.
TryCasCurrentOnly(t) ==
  /\ pc[t] = "try_cas"
  /\ IF current = me[t]
       THEN /\ next' = Bump(next)
            /\ pc' = [pc EXCEPT ![t] = "set_user"]
       ELSE /\ pc' = [pc EXCEPT ![t] = "idle"]
            /\ UNCHANGED next
  /\ UNCHANGED <<current, user, count, me>>

\* CAS of the word from oldl to oldl with next + 1.
TryCas(t) ==
  /\ pc[t] = "try_cas"
  /\ IF current = me[t] /\ next = me[t]
       THEN /\ next' = Bump(next)
            /\ pc' = [pc EXCEPT ![t] = "set_user"]
       ELSE /\ pc' = [pc EXCEPT ![t] = "idle"]
            /\ UNCHANGED next
  /\ UNCHANGED <<current, user, count, me>>

SetUser(t) ==
  /\ pc[t] = "set_user"
  /\ user' = t
  /\ pc' = [pc EXCEPT ![t] = "inc"]
  /\ UNCHANGED <<current, next, count, me>>

Inc(t) ==
  /\ pc[t] = "inc"
  /\ count' = count + 1
  /\ pc' = [pc EXCEPT ![t] = "cs"]
  /\ UNCHANGED <<current, next, user, me>>

\* rte_ticketlock_recursive_unlock: if (--(tlr->count) == 0) release.
Unlock(t) ==
  /\ pc[t] = "cs"
  /\ count' = count - 1
  /\ pc' = [pc EXCEPT ![t] = IF count = 1 THEN "clear_user" ELSE "cs"]
  /\ UNCHANGED <<current, next, user, me>>

ClearUser(t) ==
  /\ pc[t] = "clear_user"
  /\ user' = Nil
  /\ pc' = [pc EXCEPT ![t] = "load_cur"]
  /\ UNCHANGED <<current, next, count, me>>

\* rte_ticketlock_unlock: i = load of current ...
LoadCur(t) ==
  /\ pc[t] = "load_cur"
  /\ me' = [me EXCEPT ![t] = current]
  /\ pc' = [pc EXCEPT ![t] = "store_cur"]
  /\ UNCHANGED <<current, next, user, count>>

\* Mutant: the increment is stored without the wrap of the 16-bit half.
StoreCurNoWrap(t) ==
  /\ pc[t] = "store_cur"
  /\ current' = me[t] + 1
  /\ pc' = [pc EXCEPT ![t] = "idle"]
  /\ UNCHANGED <<next, user, count, me>>

\* ... store current = i + 1: the next ticket is served.
StoreCur(t) ==
  /\ pc[t] = "store_cur"
  /\ current' = Bump(me[t])
  /\ pc' = [pc EXCEPT ![t] = "idle"]
  /\ UNCHANGED <<next, user, count, me>>

\* The owner's last unlock, which gives the lock back.
Leave(t) == Unlock(t) /\ count = 1

Call(t) == Lock(t) \/ TryLock(t)

Step(t) ==
  \/ Take(t) \/ Wait(t) \/ TryLoad(t) \/ TryCas(t) \/ SetUser(t) \/ Inc(t)
  \/ Unlock(t) \/ ClearUser(t) \/ LoadCur(t) \/ StoreCur(t)

Next == \E t \in Threads : Call(t) \/ Step(t)

\* Critical sections end: an owner that keeps nesting and unnesting still
\* makes its last unlock (strong fairness, as it is enabled only at depth 1).
Spec ==
  /\ Init /\ [][Next]_vars
  /\ \A t \in Threads : WF_vars(Step(t)) /\ SF_vars(Leave(t))

-----------------------------------------------------------------------------
TypeOK ==
  /\ current \in Ticket
  /\ next \in Ticket
  /\ user \in Threads \cup {Nil}
  /\ count \in 0..MaxDepth
  /\ me \in [Threads -> Ticket]
  /\ pc \in [Threads -> {"idle", "take", "wait", "try_load", "try_cas",
                         "set_user", "inc", "cs", "clear_user", "load_cur",
                         "store_cur"}]

\* Threads that hold a ticket: from fetch_add or a successful trylock CAS
\* until the store of current that serves the next one.
Ticketed == {t \in Threads : pc[t] \in {"wait", "set_user", "inc", "cs",
                                        "clear_user", "load_cur", "store_cur"}}

(* The tickets handed out and not yet served are exactly current,         *)
(* current + 1, ..., next - 1 (mod 2^TicketBits), one per thread that      *)
(* holds a ticket: fetch_add and the trylock CAS never hand out a ticket   *)
(* twice, and the unlock serves the owner's ticket and no other.          *)
TicketQueue ==
  /\ Cardinality(Ticketed) = (next - current) % TicketMod
  /\ {me[t] : t \in Ticketed} =
       {(current + i) % TicketMod : i \in 0..((next - current) % TicketMod) - 1}

Holder == IF count > 0 THEN user ELSE Nil

Abs == INSTANCE Lock WITH holder <- Holder, depth <- count

LockSpec == Abs!Spec

Waiting(t) == pc[t] \in {"take", "wait"}
Holding(t) == Holder = t

=============================================================================
