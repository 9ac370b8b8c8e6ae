------------------------------ MODULE RealTagQueue ------------------------------
(***************************************************************************)
(* The write queue WRITE_REAL_VAL_TAG of the IEC 104 master                *)
(* (IEC104_MASTER/v0.2.0/iec104_master.cpp).  Every collector thread turns *)
(* each sample it reads into a REAL_VAL_TAG and pushes it; when the queue  *)
(* already holds REAL_VAL_TAG_COUNT samples, push() calls pop() instead,   *)
(* which copies the whole queue into a local batch for one M_ME_TE frame.  *)
(*                                                                         *)
(* push() and pop() read `pos' before they take the mutex, so a thread is  *)
(* modelled at the granularity of its program counter: the unlocked reads, *)
(* the lock, each access made under the lock, and the unlock are steps of  *)
(* their own.  What pop() does with the batch (fill SendBuf, write to the  *)
(* socket) is the single step Send here and is refined in Iec104Master.       *)
(***************************************************************************)
EXTENDS Integers, SequencesExt

CONSTANTS
    Threads,    \* the threads that push: the collectors and the self check
    COUNT,      \* REAL_VAL_TAG_COUNT, the samples one frame can carry
    MaxTags,    \* bound: samples each thread makes
    NoTag,      \* a slot of `queue' as resize() leaves it
    Nobody      \* the mutex is free

ASSUME CountAssumption   == COUNT \in Nat \ {0}
ASSUME MaxTagsAssumption == MaxTags \in Nat
ASSUME NobodyAssumption  == Nobody \notin Threads

(* A sample is identified by its maker and its serial number. *)
Tag == Threads \X (1..MaxTags)

ASSUME NoTagAssumption == NoTag \notin Tag

VARIABLES
    pos,        \* int pos: samples in the queue
    queue,      \* std::vector<REAL_VAL_TAG> queue
    mutex,      \* pthread_mutex_t mutex: its owner
    pc,         \* where each thread is inside push() and pop()
    tag,        \* push()'s argument
    batch,      \* pop()'s Write_TAG
    made,       \* samples each thread has made so far
    accepted,   \* history: samples stored in the queue
    dropped,    \* history: samples whose push() became a pop()
    uploaded,   \* history: the samples copied out of the queue, in order
    raced       \* history: two threads have been in push() at the same time

vars == <<pos, queue, mutex, pc, tag, batch, made, accepted, dropped, uploaded, raced>>

PC == {"idle", "check", "lock", "store", "unlock", "popcheck", "poplock",
       "drain", "popunlock", "send", "abort"}

(* The steps a thread takes while it holds the mutex.  A thread that        *)
(* aborts inside queue.at() never releases it.                              *)
Critical == {"store", "unlock", "drain", "popunlock", "abort"}

Slot == 0..(COUNT - 1)

(* The samples waiting in the queue. *)
Waiting == {queue[k] : k \in {s \in Slot : s < pos}}

Uploaded == ToSet(uploaded)

Goto(t, label) == pc' = [pc EXCEPT ![t] = label]

Init ==
    /\ pos = 0
    /\ queue = [k \in Slot |-> NoTag]
    /\ mutex = Nobody
    /\ pc = [t \in Threads |-> "idle"]
    /\ tag = [t \in Threads |-> NoTag]
    /\ batch = [t \in Threads |-> <<>>]
    /\ made = [t \in Threads |-> 0]
    /\ accepted = {}
    /\ dropped = {}
    /\ uploaded = <<>>
    /\ raced = FALSE

-----------------------------------------------------------------------------
(* The collector: MAKE_REAL_TAG, then PUSH_REAL_VAL_TAG. *)
MakeTag(t) ==
    /\ pc[t] = "idle"
    /\ made[t] < MaxTags
    /\ made' = [made EXCEPT ![t] = @ + 1]
    /\ tag' = [tag EXCEPT ![t] = <<t, made[t] + 1>>]
    /\ Goto(t, "check")
    /\ raced' = (raced \/ \E u \in Threads \ {t} : pc[u] # "idle")
    /\ UNCHANGED <<pos, queue, mutex, batch, accepted, dropped, uploaded>>

(* push(): the test of `pos', made without the mutex. *)
Check(t) ==
    /\ pc[t] = "check"
    /\ \/ pos < COUNT /\ Goto(t, "lock")
       \/ pos >= COUNT /\ Goto(t, "popcheck")
    /\ UNCHANGED <<pos, queue, mutex, tag, batch, made, accepted, dropped, uploaded, raced>>

Lock(t) ==
    /\ pc[t] = "lock"
    /\ mutex = Nobody
    /\ mutex' = t
    /\ Goto(t, "store")
    /\ UNCHANGED <<pos, queue, tag, batch, made, accepted, dropped, uploaded, raced>>

(* queue.at (pos++) = tag *)
Store(t) ==
    /\ pc[t] = "store"
    /\ pos \in Slot
    /\ queue' = [queue EXCEPT ![pos] = tag[t]]
    /\ pos' = pos + 1
    /\ accepted' = accepted \cup {tag[t]}
    /\ Goto(t, "unlock")
    /\ UNCHANGED <<mutex, tag, batch, made, dropped, uploaded, raced>>

(* queue.at() throws std::out_of_range: `pos' is already incremented, the   *)
(* mutex stays locked, nobody catches the exception and the process ends in *)
(* SIGABRT (handle_abrt, pthread_quit).                                     *)
Overrun(t) ==
    /\ pc[t] = "store"
    /\ pos \notin Slot
    /\ pos' = pos + 1
    /\ Goto(t, "abort")
    /\ UNCHANGED <<queue, mutex, tag, batch, made, accepted, dropped, uploaded, raced>>

(* Mutant: push() returns with the mutex held. *)
UnlockForgotten(t) ==
    /\ pc[t] = "unlock"
    /\ Goto(t, "idle")
    /\ UNCHANGED <<pos, queue, mutex, tag, batch, made, accepted, dropped, uploaded, raced>>

Unlock(t) ==
    /\ pc[t] = "unlock"
    /\ mutex' = Nobody
    /\ Goto(t, "idle")
    /\ UNCHANGED <<pos, queue, tag, batch, made, accepted, dropped, uploaded, raced>>

(* pop(): its own unlocked test of `pos'.  When another thread has drained  *)
(* the queue meanwhile it sleeps and returns; the sample that push() was    *)
(* called with is gone either way.                                          *)
PopCheck(t) ==
    /\ pc[t] = "popcheck"
    /\ dropped' = dropped \cup {tag[t]}
    /\ \/ pos >= COUNT /\ Goto(t, "poplock")
       \/ pos < COUNT /\ Goto(t, "idle")
    /\ UNCHANGED <<pos, queue, mutex, tag, batch, made, accepted, uploaded, raced>>

PopLock(t) ==
    /\ pc[t] = "poplock"
    /\ mutex = Nobody
    /\ mutex' = t
    /\ batch' = [batch EXCEPT ![t] = <<>>]
    /\ Goto(t, "drain")
    /\ UNCHANGED <<pos, queue, tag, made, accepted, dropped, uploaded, raced>>

(* pos--; if (pos < 0) pos = 0; *)
PosBelow == IF pos - 1 < 0 THEN 0 ELSE pos - 1

(* Mutant: pop() reads the queue forwards while it counts `pos' down. *)
DrainForwards(t) ==
    /\ pc[t] = "drain"
    /\ Len(batch[t]) < COUNT
    /\ pos' = PosBelow
    /\ batch' = [batch EXCEPT ![t] = Append(@, queue[Len(batch[t])])]
    /\ uploaded' = Append(uploaded, queue[Len(batch[t])])
    /\ UNCHANGED <<queue, mutex, pc, tag, made, accepted, dropped, raced>>

(* One iteration of pop()'s loop: Write_TAG[i] = queue.at (pos). *)
Drain(t) ==
    /\ pc[t] = "drain"
    /\ Len(batch[t]) < COUNT
    /\ pos' = PosBelow
    /\ batch' = [batch EXCEPT ![t] = Append(@, queue[PosBelow])]
    /\ uploaded' = Append(uploaded, queue[PosBelow])
    /\ UNCHANGED <<queue, mutex, pc, tag, made, accepted, dropped, raced>>

(* Mutant: the loop of pop() stops one sample short. *)
DrainDoneEarly(t) ==
    /\ pc[t] = "drain"
    /\ Len(batch[t]) = COUNT - 1
    /\ Goto(t, "popunlock")
    /\ UNCHANGED <<pos, queue, mutex, tag, batch, made, accepted, dropped, uploaded, raced>>

DrainDone(t) ==
    /\ pc[t] = "drain"
    /\ Len(batch[t]) = COUNT
    /\ Goto(t, "popunlock")
    /\ UNCHANGED <<pos, queue, mutex, tag, batch, made, accepted, dropped, uploaded, raced>>

(* Mutant: pop() empties the slots it has copied. *)
PopUnlockClearing(t) ==
    /\ pc[t] = "popunlock"
    /\ queue' = [k \in Slot |-> NoTag]
    /\ mutex' = Nobody
    /\ Goto(t, "send")
    /\ UNCHANGED <<pos, tag, batch, made, accepted, dropped, uploaded, raced>>

PopUnlock(t) ==
    /\ pc[t] = "popunlock"
    /\ mutex' = Nobody
    /\ Goto(t, "send")
    /\ UNCHANGED <<pos, queue, tag, batch, made, accepted, dropped, uploaded, raced>>

(* The loop over the servers, lines 1615 to 1645: see Iec104Master. *)
Send(t) ==
    /\ pc[t] = "send"
    /\ Goto(t, "idle")
    /\ UNCHANGED <<pos, queue, mutex, tag, batch, made, accepted, dropped, uploaded, raced>>

Push(t) == Check(t) \/ Lock(t) \/ Store(t) \/ Overrun(t) \/ Unlock(t)

Pop(t) == PopCheck(t) \/ PopLock(t) \/ Drain(t) \/ DrainDone(t) \/ PopUnlock(t) \/ Send(t)

Next == \E t \in Threads : MakeTag(t) \/ Push(t) \/ Pop(t)

(* A thread inside push() keeps running; it need not make a new sample.     *)
Fairness == \A t \in Threads : WF_vars(Push(t) \/ Pop(t))

Spec == Init /\ [][Next]_vars /\ Fairness

-----------------------------------------------------------------------------
(* The values every variable keeps. *)
TypeOK ==
    /\ pos \in 0..(COUNT + 1)
    /\ queue \in [Slot -> Tag \cup {NoTag}]
    /\ mutex \in Threads \cup {Nobody}
    /\ pc \in [Threads -> PC]
    /\ tag \in [Threads -> Tag \cup {NoTag}]
    /\ batch \in [Threads -> Seq(Tag \cup {NoTag})]
    /\ made \in [Threads -> 0..MaxTags]
    /\ accepted \subseteq Tag
    /\ dropped \subseteq Tag
    /\ uploaded \in Seq(Tag \cup {NoTag})
    /\ raced \in BOOLEAN

(* A thread inside a critical section owns the mutex. *)
MutexInv == \A t \in Threads : pc[t] \in Critical => mutex = t

(* `pos' passes the end of the vector only when a thread aborts. *)
PosInv == pos > COUNT => \E t \in Threads : pc[t] = "abort"

(* A thread has a sample in hand from MAKE_REAL_TAG on. *)
TagInv == \A t \in Threads : pc[t] # "idle" => tag[t] \in Tag

(* Every slot below `pos' holds an accepted sample, and once a thread has   *)
(* seen the queue full every slot does, for ever.                           *)
SlotInv ==
    /\ \A k \in Slot : queue[k] \in accepted \cup {NoTag}
    /\ \A k \in Slot : k < pos => queue[k] \in accepted
    /\ (\E t \in Threads : pc[t] \in {"poplock", "drain"})
            => \A k \in Slot : queue[k] \in accepted

(* However the pushes and pops of the threads interleave, a sample that     *)
(* push() stored is never overwritten before pop() has copied it out: the   *)
(* unlocked tests of lines 1550 and 1599 can repeat samples, not lose them. *)
AcceptedNeverLost == accepted \subseteq Waiting \cup Uploaded

(* pop() never uploads a slot that no push() has filled: a frame carries    *)
(* samples the collectors made, even when two threads pop at once and the   *)
(* clamp of line 1607 makes the second read slot 0 again and again.         *)
OnlyAcceptedUploaded == Uploaded \subseteq accepted

(* The inductive invariant behind the two. *)
IInv == TypeOK /\ MutexInv /\ PosInv /\ TagInv /\ SlotInv
        /\ AcceptedNeverLost /\ OnlyAcceptedUploaded

(* No push() ever stores past the end of the vector. *)
NoOverrun == \A t \in Threads : pc[t] # "abort"

(* pop() hands out each sample once. *)
UploadedOnce == IsInjective(uploaded)

(* One pop() costs one sample: per sample lost, COUNT samples are uploaded. *)
OneLostPerBatch ==
    (\A t \in Threads : pc[t] = "idle") => Len(uploaded) = COUNT * Cardinality(dropped)

(* Until two threads have met in push(), the unlocked tests do no harm:     *)
(* nothing is stored past the end, no sample is uploaded twice, and only    *)
(* the sample that finds the queue full is lost.                            *)
ExactUntilRaced == ~raced => NoOverrun /\ UploadedOnce /\ OneLostPerBatch

(* Every call of push() returns, or the process has aborted. *)
PushReturns ==
    \A t \in Threads : pc[t] = "check" ~> (pc[t] = "idle" \/ ~NoOverrun)
=============================================================================
