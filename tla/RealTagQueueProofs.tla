--------------------------- MODULE RealTagQueueProofs ---------------------------
(***************************************************************************)
(* Proofs about RealTagQueue, for any number of threads, any capacity and  *)
(* any number of samples.  The argument is the inductive invariant IInv:   *)
(* the mutex makes every access to `queue' exclusive, so only the unlocked *)
(* tests of `pos' race, and those can make a thread store past the end     *)
(* (which aborts it inside the critical section) or drain a queue that is  *)
(* no longer full (which re-reads slots that have been filled before).     *)
(***************************************************************************)
EXTENDS RealTagQueue, FiniteSetTheorems, TLAPS

USE CountAssumption, MaxTagsAssumption, NobodyAssumption, NoTagAssumption

(* What Append adds to the range of a sequence. *)
LEMMA ToSetAppend ==
    ASSUME NEW S, NEW s \in Seq(S), NEW e
    PROVE  ToSet(Append(s, e)) = ToSet(s) \cup {e}
<1>1. DOMAIN Append(s, e) = DOMAIN s \cup {Len(s) + 1}
  OBVIOUS
<1>2. \A i \in DOMAIN s : Append(s, e)[i] = s[i]
  OBVIOUS
<1>3. Append(s, e)[Len(s) + 1] = e
  OBVIOUS
<1>4. QED
  BY <1>1, <1>2, <1>3 DEF ToSet

(* The slot pop() reads next is a slot of the vector. *)
LEMMA PosBelowInSlot ==
    ASSUME pos \in 0..COUNT
    PROVE  PosBelow \in Slot /\ PosBelow <= pos /\ pos - 1 <= PosBelow
BY DEF PosBelow, Slot

(* While one thread is in a critical section no thread has aborted, hence   *)
(* `pos' is within the vector or one past it.                               *)
LEMMA PosWithinQueue ==
    ASSUME IInv, NEW t \in Threads, pc[t] \in Critical \ {"abort"}
    PROVE  pos \in 0..COUNT
<1>1. \A u \in Threads : pc[u] # "abort"
  BY DEF IInv, MutexInv, Critical
<1>2. QED
  BY <1>1 DEF IInv, PosInv, TypeOK

(* Initially the queue is empty and every thread is outside push(). *)
LEMMA InitIInv == Init => IInv
<1> SUFFICES ASSUME Init PROVE IInv
  OBVIOUS
<1>1. TypeOK
  <2>1. raced \in BOOLEAN
    BY Zenon DEF Init
  <2>2. QED
    BY <2>1 DEF Init, TypeOK, PC, Slot
<1>2. MutexInv /\ PosInv /\ TagInv /\ SlotInv
  BY DEF Init, MutexInv, PosInv, TagInv, SlotInv, Critical
<1>3. Uploaded = {}
  BY DEF Init, Uploaded, ToSet
<1>4. QED
  BY <1>1, <1>2, <1>3 DEF IInv, Init, AcceptedNeverLost, OnlyAcceptedUploaded

(* TypeOK is kept by every step. *)
LEMMA TypeStep == IInv /\ [Next]_vars => TypeOK'
<1> SUFFICES ASSUME IInv, [Next]_vars PROVE TypeOK'
  OBVIOUS
<1> USE DEF IInv, TypeOK, PC, Goto
<1>1. ASSUME NEW t \in Threads, MakeTag(t) PROVE TypeOK'
  <2>1. <<t, made[t] + 1>> \in Tag
    BY <1>1 DEF MakeTag, Tag
  <2>2. raced' \in BOOLEAN
    <3>1. raced' = (raced \/ \E u \in Threads \ {t} : pc[u] # "idle")
      BY <1>1 DEF MakeTag
    <3>2. QED
      BY <3>1, Zenon
  <2>3. QED
    BY <1>1, <2>1, <2>2 DEF MakeTag
<1>2. ASSUME NEW t \in Threads, Check(t) PROVE TypeOK'
  BY <1>2 DEF Check
<1>3. ASSUME NEW t \in Threads, Lock(t) PROVE TypeOK'
  BY <1>3 DEF Lock
<1>4. ASSUME NEW t \in Threads, Store(t) PROVE TypeOK'
  <2>1. tag[t] \in Tag
    BY <1>4 DEF Store, TagInv
  <2>2. QED
    BY <1>4, <2>1 DEF Store, Slot
<1>5. ASSUME NEW t \in Threads, Overrun(t) PROVE TypeOK'
  <2>1. pos \in 0..COUNT
    BY <1>5, PosWithinQueue DEF Overrun, Critical
  <2>2. QED
    BY <1>5, <2>1 DEF Overrun
<1>6. ASSUME NEW t \in Threads, Unlock(t) PROVE TypeOK'
  BY <1>6 DEF Unlock
<1>7. ASSUME NEW t \in Threads, PopCheck(t) PROVE TypeOK'
  <2>1. tag[t] \in Tag
    BY <1>7 DEF PopCheck, TagInv
  <2>2. QED
    BY <1>7, <2>1 DEF PopCheck
<1>8. ASSUME NEW t \in Threads, PopLock(t) PROVE TypeOK'
  BY <1>8 DEF PopLock
<1>9. ASSUME NEW t \in Threads, Drain(t) PROVE TypeOK'
  <2>1. pos \in 0..COUNT
    BY <1>9, PosWithinQueue DEF Drain, Critical
  <2>2. PosBelow \in Slot
    BY <2>1, PosBelowInSlot
  <2>3. pos' \in 0..(COUNT + 1)
    BY <1>9, <2>2 DEF Drain, Slot
  <2>4. queue[PosBelow] \in Tag \cup {NoTag}
    BY <2>2
  <2>5. uploaded' \in Seq(Tag \cup {NoTag}) /\ batch' \in [Threads -> Seq(Tag \cup {NoTag})]
    BY <1>9, <2>4 DEF Drain
  <2>6. QED
    BY <1>9, <2>3, <2>5 DEF Drain
<1>10. ASSUME NEW t \in Threads, DrainDone(t) PROVE TypeOK'
  BY <1>10 DEF DrainDone
<1>11. ASSUME NEW t \in Threads, PopUnlock(t) PROVE TypeOK'
  BY <1>11 DEF PopUnlock
<1>12. ASSUME NEW t \in Threads, Send(t) PROVE TypeOK'
  BY <1>12 DEF Send
<1>13. CASE UNCHANGED vars
  BY <1>13 DEF vars
<1>14. QED
  BY <1>1, <1>2, <1>3, <1>4, <1>5, <1>6, <1>7, <1>8, <1>9, <1>10, <1>11, <1>12, <1>13
     DEF Next, Push, Pop

(* One thread at a time is inside a critical section. *)
LEMMA MutexStep == IInv /\ [Next]_vars => MutexInv'
<1> SUFFICES ASSUME IInv, [Next]_vars PROVE MutexInv'
  OBVIOUS
<1> USE DEF IInv, TypeOK, PC, Goto, MutexInv, Critical
<1>1. ASSUME NEW t \in Threads, MakeTag(t) PROVE MutexInv'
  BY <1>1 DEF MakeTag
<1>2. ASSUME NEW t \in Threads, Push(t) PROVE MutexInv'
  BY <1>2 DEF Push, Check, Lock, Store, Overrun, Unlock
<1>3. ASSUME NEW t \in Threads, Pop(t) PROVE MutexInv'
  BY <1>3 DEF Pop, PopCheck, PopLock, Drain, DrainDone, PopUnlock, Send
<1>4. CASE UNCHANGED vars
  BY <1>4 DEF vars
<1>5. QED
  BY <1>1, <1>2, <1>3, <1>4 DEF Next

(* `pos' leaves the vector only with the step that aborts. *)
LEMMA PosStep == IInv /\ [Next]_vars => PosInv'
<1> SUFFICES ASSUME IInv, [Next]_vars PROVE PosInv'
  OBVIOUS
<1> USE DEF IInv, TypeOK, PC, Goto, PosInv
<1>1. ASSUME NEW t \in Threads, MakeTag(t) PROVE PosInv'
  BY <1>1 DEF MakeTag
<1>2. ASSUME NEW t \in Threads, Push(t) PROVE PosInv'
  <2>1. CASE Store(t)
    BY <2>1 DEF Store, Slot
  <2>2. CASE Overrun(t)
    BY <2>2 DEF Overrun
  <2>3. QED
    BY <1>2, <2>1, <2>2 DEF Push, Check, Lock, Unlock
<1>3. ASSUME NEW t \in Threads, Pop(t) PROVE PosInv'
  <2>1. CASE Drain(t)
    <3>1. pos \in 0..COUNT
      BY <2>1, PosWithinQueue DEF Drain, Critical
    <3>2. QED
      BY <2>1, <3>1, PosBelowInSlot DEF Drain, Slot
  <2>2. QED
    BY <1>3, <2>1 DEF Pop, PopCheck, PopLock, DrainDone, PopUnlock, Send
<1>4. CASE UNCHANGED vars
  BY <1>4 DEF vars
<1>5. QED
  BY <1>1, <1>2, <1>3, <1>4 DEF Next

(* A thread keeps the sample it made until its push() returns. *)
LEMMA TagStep == IInv /\ [Next]_vars => TagInv'
<1> SUFFICES ASSUME IInv, [Next]_vars PROVE TagInv'
  OBVIOUS
<1> USE DEF IInv, TypeOK, PC, Goto, TagInv
<1>1. ASSUME NEW t \in Threads, MakeTag(t) PROVE TagInv'
  <2>1. <<t, made[t] + 1>> \in Tag
    BY <1>1 DEF MakeTag, Tag
  <2>2. raced' \in BOOLEAN
    <3>1. raced' = (raced \/ \E u \in Threads \ {t} : pc[u] # "idle")
      BY <1>1 DEF MakeTag
    <3>2. QED
      BY <3>1, Zenon
  <2>3. QED
    BY <1>1, <2>1, <2>2 DEF MakeTag
<1>2. ASSUME NEW t \in Threads, Push(t) PROVE TagInv'
  BY <1>2 DEF Push, Check, Lock, Store, Overrun, Unlock
<1>3. ASSUME NEW t \in Threads, Pop(t) PROVE TagInv'
  BY <1>3 DEF Pop, PopCheck, PopLock, Drain, DrainDone, PopUnlock, Send
<1>4. CASE UNCHANGED vars
  BY <1>4 DEF vars
<1>5. QED
  BY <1>1, <1>2, <1>3, <1>4 DEF Next

(* A thread that has seen the queue full has seen every slot filled; no    *)
(* step ever empties a slot.                                               *)
LEMMA SlotStep == IInv /\ [Next]_vars => SlotInv'
<1> SUFFICES ASSUME IInv, [Next]_vars PROVE SlotInv'
  OBVIOUS
<1> USE DEF IInv, TypeOK, PC, Goto, SlotInv
<1>1. ASSUME NEW t \in Threads, MakeTag(t) PROVE SlotInv'
  BY <1>1 DEF MakeTag
<1>2. ASSUME NEW t \in Threads, Push(t) PROVE SlotInv'
  <2>1. CASE Store(t)
    <3>1. pos \in Slot /\ pos' = pos + 1
          /\ queue' = [queue EXCEPT ![pos] = tag[t]]
          /\ accepted' = accepted \cup {tag[t]}
      BY <2>1 DEF Store
    <3>2. \A k \in Slot : queue'[k] \in accepted' \cup {NoTag}
      BY <3>1
    <3>3. \A k \in Slot : k < pos' => queue'[k] \in accepted'
      BY <3>1 DEF Slot
    <3>4. (\E u \in Threads : pc'[u] \in {"poplock", "drain"})
              => \A k \in Slot : queue'[k] \in accepted'
      BY <2>1, <3>1 DEF Store
    <3>5. QED
      BY <3>2, <3>3, <3>4 DEF Slot
  <2>2. CASE Overrun(t)
    <3>1. pos = COUNT
      BY <2>2, PosWithinQueue DEF Overrun, Critical, Slot
    <3>2. QED
      BY <2>2, <3>1 DEF Overrun, Slot
  <2>3. QED
    BY <1>2, <2>1, <2>2 DEF Push, Check, Lock, Unlock
<1>3. ASSUME NEW t \in Threads, Pop(t) PROVE SlotInv'
  <2>1. CASE PopCheck(t)
    <3>1. (pos >= COUNT) => \A k \in Slot : queue[k] \in accepted
      BY DEF Slot
    <3>2. QED
      BY <2>1, <3>1 DEF PopCheck
  <2>2. CASE Drain(t)
    BY <2>2 DEF Drain
  <2>3. QED
    BY <1>3, <2>1, <2>2 DEF Pop, PopLock, DrainDone, PopUnlock, Send
<1>4. CASE UNCHANGED vars
  BY <1>4 DEF vars
<1>5. QED
  BY <1>1, <1>2, <1>3, <1>4 DEF Next

(* push() stores above every waiting sample; pop() copies a sample out      *)
(* before it moves `pos' below it.                                          *)
LEMMA AcceptedStep == IInv /\ [Next]_vars => AcceptedNeverLost'
<1> SUFFICES ASSUME IInv, [Next]_vars PROVE AcceptedNeverLost'
  OBVIOUS
<1> USE DEF IInv, TypeOK, PC, Goto, AcceptedNeverLost, Waiting, Uploaded
<1>1. ASSUME NEW t \in Threads, MakeTag(t) PROVE AcceptedNeverLost'
  BY <1>1 DEF MakeTag
<1>2. ASSUME NEW t \in Threads, Push(t) PROVE AcceptedNeverLost'
  <2>1. CASE Store(t)
    <3>1. pos \in Slot /\ pos' = pos + 1 /\ uploaded' = uploaded
          /\ queue' = [queue EXCEPT ![pos] = tag[t]]
          /\ accepted' = accepted \cup {tag[t]}
      BY <2>1 DEF Store
    <3>2. queue'[pos] = tag[t] /\ \A k \in Slot : k < pos => queue'[k] = queue[k]
      BY <3>1 DEF Slot
    <3>3. Waiting \cup {tag[t]} \subseteq Waiting'
      <4>1. ASSUME NEW k \in Slot, k < pos PROVE queue[k] \in Waiting'
        <5>1. k < pos' /\ queue[k] = queue'[k]
          BY <3>1, <3>2, <4>1 DEF Slot
        <5>2. QED
          BY <5>1
      <4>2. pos < pos'
        BY <3>1 DEF Slot
      <4>3. pos \in {s \in Slot : s < pos'}
        BY <3>1, <4>2
      <4>4. queue'[pos] \in Waiting'
        BY <4>3, Zenon
      <4>5. tag[t] \in Waiting'
        BY <3>2, <4>4, Zenon
      <4>6. ASSUME NEW x \in Waiting PROVE x \in Waiting'
        <5>1. PICK k \in Slot : k < pos /\ x = queue[k]
          OBVIOUS
        <5>2. QED
          BY <4>1, <5>1, Zenon
      <4>7. QED
        BY <4>5, <4>6, Zenon
    <3>4. QED
      BY <3>1, <3>3
  <2>2. CASE Overrun(t)
    <3>1. pos' = pos + 1 /\ UNCHANGED <<queue, accepted, uploaded, raced>>
      BY <2>2 DEF Overrun
    <3>2. Waiting \subseteq Waiting'
      BY <3>1 DEF Slot
    <3>3. QED
      BY <3>1, <3>2
  <2>3. QED
    BY <1>2, <2>1, <2>2 DEF Push, Check, Lock, Unlock
<1>3. ASSUME NEW t \in Threads, Pop(t) PROVE AcceptedNeverLost'
  <2>1. CASE Drain(t)
    <3>1. pos' = PosBelow /\ uploaded' = Append(uploaded, queue[PosBelow])
          /\ UNCHANGED <<queue, accepted>>
      BY <2>1 DEF Drain
    <3>2. pos \in 0..COUNT
      BY <2>1, PosWithinQueue DEF Drain, Critical
    <3>3. PosBelow \in Slot /\ pos - 1 <= PosBelow
      BY <3>2, PosBelowInSlot
    <3>4. ToSet(uploaded') = ToSet(uploaded) \cup {queue[PosBelow]}
      BY <3>1, ToSetAppend
    <3>5. Waiting \subseteq Waiting' \cup {queue[PosBelow]}
      BY <3>1, <3>2, <3>3 DEF Slot
    <3>6. QED
      BY <3>1, <3>4, <3>5
  <2>2. QED
    BY <1>3, <2>1 DEF Pop, PopCheck, PopLock, DrainDone, PopUnlock, Send
<1>4. CASE UNCHANGED vars
  BY <1>4 DEF vars
<1>5. QED
  BY <1>1, <1>2, <1>3, <1>4 DEF Next

(* pop() reads only slots it knows to be filled. *)
LEMMA UploadedStep == IInv /\ [Next]_vars => OnlyAcceptedUploaded'
<1> SUFFICES ASSUME IInv, [Next]_vars PROVE OnlyAcceptedUploaded'
  OBVIOUS
<1> USE DEF IInv, TypeOK, PC, Goto, OnlyAcceptedUploaded, Uploaded
<1>1. ASSUME NEW t \in Threads, MakeTag(t) PROVE OnlyAcceptedUploaded'
  BY <1>1 DEF MakeTag
<1>2. ASSUME NEW t \in Threads, Push(t) PROVE OnlyAcceptedUploaded'
  BY <1>2 DEF Push, Check, Lock, Store, Overrun, Unlock
<1>3. ASSUME NEW t \in Threads, Pop(t) PROVE OnlyAcceptedUploaded'
  <2>1. CASE Drain(t)
    <3>1. uploaded' = Append(uploaded, queue[PosBelow]) /\ accepted' = accepted
      BY <2>1 DEF Drain
    <3>2. PosBelow \in Slot
      BY <2>1, PosWithinQueue, PosBelowInSlot DEF Drain, Critical
    <3>3. queue[PosBelow] \in accepted
      BY <2>1, <3>2 DEF Drain, SlotInv
    <3>4. ToSet(uploaded') = ToSet(uploaded) \cup {queue[PosBelow]}
      BY <3>1, ToSetAppend
    <3>5. QED
      BY <3>1, <3>3, <3>4
  <2>2. QED
    BY <1>3, <2>1 DEF Pop, PopCheck, PopLock, DrainDone, PopUnlock, Send
<1>4. CASE UNCHANGED vars
  BY <1>4 DEF vars
<1>5. QED
  BY <1>1, <1>2, <1>3, <1>4 DEF Next

(* The invariant is inductive. *)
LEMMA IInvStep == IInv /\ [Next]_vars => IInv'
BY TypeStep, MutexStep, PosStep, TagStep, SlotStep, AcceptedStep, UploadedStep DEF IInv

(* The inductive invariant of push() and pop() holds in every state, for   *)
(* any number of threads and any capacity of the queue.                    *)
THEOREM QueueInvariant == Spec => []IInv
<1>1. Init => IInv
  BY InitIInv
<1>2. IInv /\ [Next]_vars => IInv'
  BY IInvStep
<1>3. QED
  BY <1>1, <1>2, PTL DEF Spec

(* Every variable of the write queue keeps its type.                       *)
THEOREM TypeCorrect == Spec => []TypeOK
<1>1. IInv => TypeOK
  BY DEF IInv
<1>2. QED
  BY <1>1, QueueInvariant, PTL

(* A sample push() stored is in the queue or has been copied out: the      *)
(* races on `pos' never overwrite one.                                     *)
THEOREM NoAcceptedSampleLost == Spec => []AcceptedNeverLost
<1>1. IInv => AcceptedNeverLost
  BY DEF IInv
<1>2. QED
  BY <1>1, QueueInvariant, PTL

(* pop() uploads nothing but samples push() stored.                        *)
THEOREM OnlyRealSamplesUploaded == Spec => []OnlyAcceptedUploaded
<1>1. IInv => OnlyAcceptedUploaded
  BY DEF IInv
<1>2. QED
  BY <1>1, QueueInvariant, PTL

-----------------------------------------------------------------------------
(* A sample is made once, so the one a thread carries is new until push()  *)
(* has stored or given it up.                                              *)
Carrying == {"check", "lock", "store", "popcheck"}

FreshInv ==
    /\ \A t \in Threads : pc[t] \in Carrying =>
            tag[t] = <<t, made[t]>> /\ tag[t] \notin accepted \cup dropped
    /\ \A x \in accepted \cup dropped : x[2] <= made[x[1]]
    /\ IsFiniteSet(dropped)

(* As long as the threads have not met, at most one is inside push() ...   *)
Alone == \A t, u \in Threads : pc[t] # "idle" /\ pc[u] # "idle" => t = u

(* ... what it has seen of `pos' is still true ...                         *)
PosSeen ==
    /\ pos <= COUNT
    /\ \A t \in Threads :
        /\ pc[t] \in {"lock", "store"} => pos < COUNT
        /\ pc[t] \in {"popcheck", "poplock"} => pos = COUNT
        /\ pc[t] = "drain" => pos + Len(batch[t]) = COUNT

(* ... no sample is twice in the queue and in what has been uploaded ...   *)
OnceInv ==
    /\ IsInjective(uploaded)
    /\ \A j \in Slot : j < pos => queue[j] \notin Uploaded
    /\ \A j, k \in Slot : j < pos /\ k < pos /\ queue[j] = queue[k] => j = k

(* ... and every sample given up has had, or is having, a full queue sent. *)
Popping == {"poplock", "drain"}

CountInv ==
    /\ (\A t \in Threads : pc[t] \notin Popping) => Len(uploaded) = COUNT * Cardinality(dropped)
    /\ \A t \in Threads :
        /\ pc[t] = "poplock" => Len(uploaded) + COUNT = COUNT * Cardinality(dropped)
        /\ pc[t] = "drain" => Len(uploaded) + COUNT = COUNT * Cardinality(dropped) + Len(batch[t])

Exact == NoOverrun /\ Alone /\ PosSeen /\ OnceInv /\ CountInv

(* The inductive invariant behind ExactUntilRaced. *)
XInv == IInv /\ FreshInv /\ (~raced => Exact)

(* A sample carried by one thread is not the sample of another. *)
LEMMA FreshStep == IInv /\ FreshInv /\ [Next]_vars => FreshInv'
<1> SUFFICES ASSUME IInv, FreshInv, [Next]_vars PROVE FreshInv'
  OBVIOUS
<1> USE DEF IInv, TypeOK, PC, Goto, FreshInv, Carrying
<1>1. ASSUME NEW t \in Threads, MakeTag(t) PROVE FreshInv'
  <2>1. /\ made' = [made EXCEPT ![t] = @ + 1]
        /\ tag' = [tag EXCEPT ![t] = <<t, made[t] + 1>>]
        /\ pc' = [pc EXCEPT ![t] = "check"]
        /\ UNCHANGED <<accepted, dropped>>
    BY <1>1 DEF MakeTag
  <2>2. \A x \in accepted \cup dropped : x[1] \in Threads /\ x[2] \in 1..MaxTags
    BY DEF Tag
  <2>3. <<t, made[t] + 1>> \notin accepted \cup dropped
    <3>1. SUFFICES ASSUME <<t, made[t] + 1>> \in accepted \cup dropped PROVE FALSE
      OBVIOUS
    <3>2. made[t] + 1 <= made[t]
      BY <3>1
    <3>3. QED
      BY <3>2
  <2>4. \A u \in Threads : made[u] <= made'[u] /\ made[u] \in Nat /\ made'[u] \in Nat
    BY <2>1
  <2>5. \A x \in accepted' \cup dropped' : x[2] <= made'[x[1]]
    BY <2>1, <2>2, <2>4
  <2>6. \A u \in Threads : pc'[u] \in Carrying =>
            tag'[u] = <<u, made'[u]>> /\ tag'[u] \notin accepted' \cup dropped'
    BY <2>1, <2>3
  <2>7. QED
    BY <2>1, <2>5, <2>6
<1>2. ASSUME NEW t \in Threads, Push(t) PROVE FreshInv'
  <2>1. CASE Store(t)
    <3>1. /\ accepted' = accepted \cup {tag[t]}
          /\ pc' = [pc EXCEPT ![t] = "unlock"]
          /\ UNCHANGED <<tag, made, dropped>>
      BY <2>1 DEF Store
    <3>2. tag[t] = <<t, made[t]>>
      BY <2>1 DEF Store
    <3>3. \A u \in Threads \ {t} : tag[u] = <<u, made[u]>> => tag[u] # tag[t]
      BY <3>2
    <3>4. QED
      BY <3>1, <3>2, <3>3
  <2>2. QED
    BY <1>2, <2>1 DEF Push, Check, Lock, Overrun, Unlock
<1>3. ASSUME NEW t \in Threads, Pop(t) PROVE FreshInv'
  <2>1. CASE PopCheck(t)
    <3>1. /\ dropped' = dropped \cup {tag[t]}
          /\ pc' = [pc EXCEPT ![t] = "poplock"] \/ pc' = [pc EXCEPT ![t] = "idle"]
          /\ UNCHANGED <<tag, made, accepted>>
      BY <2>1 DEF PopCheck
    <3>2. tag[t] = <<t, made[t]>>
      BY <2>1 DEF PopCheck
    <3>3. \A u \in Threads \ {t} : tag[u] = <<u, made[u]>> => tag[u] # tag[t]
      BY <3>2
    <3>4. IsFiniteSet(dropped')
      BY <3>1, FS_AddElement
    <3>5. QED
      BY <3>1, <3>2, <3>3, <3>4
  <2>2. QED
    BY <1>3, <2>1 DEF Pop, PopLock, Drain, DrainDone, PopUnlock, Send
<1>4. CASE UNCHANGED vars
  BY <1>4 DEF vars
<1>5. QED
  BY <1>1, <1>2, <1>3, <1>4 DEF Next

(* A thread that makes a sample while the others are idle is alone; every  *)
(* other step is one of the thread that is inside push().                  *)
LEMMA AloneStep ==
    IInv /\ (~raced => Alone) /\ [Next]_vars => (~raced' => ~raced /\ Alone')
<1> SUFFICES ASSUME IInv, ~raced => Alone, [Next]_vars, ~raced' PROVE ~raced /\ Alone'
  OBVIOUS
<1> USE DEF IInv, TypeOK, PC, Goto
<1>1. ASSUME NEW t \in Threads, MakeTag(t) PROVE ~raced /\ Alone'
  <2>1. ~raced /\ \A u \in Threads \ {t} : pc[u] = "idle"
    <3>1. raced' = (raced \/ \E u \in Threads \ {t} : pc[u] # "idle")
      BY <1>1 DEF MakeTag
    <3>2. QED
      BY <3>1, Zenon
  <2>2. pc' = [pc EXCEPT ![t] = "check"]
    BY <1>1 DEF MakeTag
  <2>3. \A u \in Threads : pc'[u] # "idle" => u = t
    BY <2>1, <2>2
  <2>4. QED
    BY <2>1, <2>3 DEF Alone
<1>2. ASSUME NEW t \in Threads, Push(t) PROVE ~raced /\ Alone'
  <2>1. ~raced
    BY <1>2 DEF Push, Check, Lock, Store, Overrun, Unlock
  <2>2. pc[t] # "idle" /\ \A u \in Threads \ {t} : pc'[u] = pc[u]
    BY <1>2 DEF Push, Check, Lock, Store, Overrun, Unlock
  <2>3. QED
    BY <2>1, <2>2 DEF Alone
<1>3. ASSUME NEW t \in Threads, Pop(t) PROVE ~raced /\ Alone'
  <2>1. ~raced
    BY <1>3 DEF Pop, PopCheck, PopLock, Drain, DrainDone, PopUnlock, Send
  <2>2. pc[t] # "idle" /\ \A u \in Threads \ {t} : pc'[u] = pc[u]
    BY <1>3 DEF Pop, PopCheck, PopLock, Drain, DrainDone, PopUnlock, Send
  <2>3. QED
    BY <2>1, <2>2 DEF Alone
<1>4. CASE UNCHANGED vars
  BY <1>4 DEF vars, Alone
<1>5. QED
  BY <1>1, <1>2, <1>3, <1>4 DEF Next

(* The only thread inside push() is the only one that moves `pos'. *)
LEMMA PosSeenStep ==
    ASSUME IInv, Alone, PosSeen, NoOverrun, [Next]_vars
    PROVE  PosSeen' /\ NoOverrun'
<1> USE DEF IInv, TypeOK, PC, Goto, PosSeen, NoOverrun
<1>1. ASSUME NEW t \in Threads, MakeTag(t) PROVE PosSeen' /\ NoOverrun'
  BY <1>1 DEF MakeTag
<1>2. ASSUME NEW t \in Threads, Push(t) PROVE PosSeen' /\ NoOverrun'
  <2>1. \A u \in Threads \ {t} : pc[u] = "idle" /\ pc'[u] = "idle"
    BY <1>2 DEF Push, Check, Lock, Store, Overrun, Unlock, Alone
  <2>2. CASE Check(t)
    BY <2>1, <2>2 DEF Check
  <2>3. CASE Lock(t)
    BY <2>1, <2>3 DEF Lock
  <2>4. CASE Store(t)
    <3>1. pos' = pos + 1 /\ pos < COUNT /\ pc' = [pc EXCEPT ![t] = "unlock"]
      BY <2>4 DEF Store, Slot
    <3>2. pos' <= COUNT /\ pc'[t] = "unlock"
      BY <3>1
    <3>3. QED
      BY <2>1, <3>2
  <2>5. ~Overrun(t)
    BY DEF Overrun, Slot
  <2>6. CASE Unlock(t)
    BY <2>1, <2>6 DEF Unlock
  <2>7. QED
    BY <1>2, <2>2, <2>3, <2>4, <2>5, <2>6 DEF Push
<1>3. ASSUME NEW t \in Threads, Pop(t) PROVE PosSeen' /\ NoOverrun'
  <2>1. \A u \in Threads \ {t} : pc[u] = "idle" /\ pc'[u] = "idle"
    BY <1>3 DEF Pop, PopCheck, PopLock, Drain, DrainDone, PopUnlock, Send, Alone
  <2>2. CASE Drain(t)
    <3>1. /\ pos' = PosBelow
          /\ batch' = [batch EXCEPT ![t] = Append(@, queue[PosBelow])]
          /\ pc' = pc /\ pc[t] = "drain" /\ Len(batch[t]) < COUNT
      BY <2>2 DEF Drain
    <3>2. pos + Len(batch[t]) = COUNT /\ Len(batch[t]) \in Nat
      BY <3>1
    <3>3. pos' = pos - 1
      BY <3>1, <3>2 DEF PosBelow
    <3>4. PosBelow \in Slot
      BY <3>1, <3>2, <3>3 DEF Slot
    <3>5. Len(batch'[t]) = Len(batch[t]) + 1
      BY <3>1, <3>4
    <3>6. pos' + Len(batch'[t]) = COUNT /\ pos' <= COUNT
      BY <3>2, <3>3, <3>5
    <3>7. QED
      BY <2>1, <3>1, <3>6
  <2>3. CASE PopLock(t)
    BY <2>1, <2>3 DEF PopLock
  <2>4. QED
    BY <1>3, <2>1, <2>2, <2>3 DEF Pop, PopCheck, DrainDone, PopUnlock, Send
<1>4. CASE UNCHANGED vars
  BY <1>4 DEF vars
<1>5. QED
  BY <1>1, <1>2, <1>3, <1>4 DEF Next

(* What Append keeps of an injective sequence. *)
LEMMA AppendOnce ==
    ASSUME NEW S, NEW s \in Seq(S), NEW e \in S, IsInjective(s), e \notin ToSet(s)
    PROVE  IsInjective(Append(s, e))
<1>1. DOMAIN s = 1..Len(s) /\ DOMAIN Append(s, e) = 1..(Len(s) + 1) /\ Len(s) \in Nat
  OBVIOUS
<1>2. \A n \in 1..Len(s) : Append(s, e)[n] = s[n] /\ s[n] \in ToSet(s)
  BY <1>1 DEF ToSet
<1>3. Append(s, e)[Len(s) + 1] = e
  OBVIOUS
<1>4. \A m, n \in 1..Len(s) : s[m] = s[n] => m = n
  BY <1>1 DEF IsInjective
<1>5. ASSUME NEW m \in 1..(Len(s) + 1), NEW n \in 1..(Len(s) + 1),
             Append(s, e)[m] = Append(s, e)[n]
      PROVE  m = n
  BY <1>1, <1>2, <1>3, <1>4, <1>5
<1>6. QED
  BY <1>1, <1>5 DEF IsInjective

(* push() stores a sample that is neither queued nor uploaded; pop() takes *)
(* the last of the queue out of it.                                        *)
LEMMA OnceStep ==
    ASSUME IInv, FreshInv, PosSeen, OnceInv, NoOverrun, [Next]_vars
    PROVE  OnceInv'
<1> USE DEF IInv, TypeOK, OnceInv, Uploaded
<1>1. ASSUME NEW t \in Threads, MakeTag(t) PROVE OnceInv'
  BY <1>1 DEF MakeTag
<1>2. ASSUME NEW t \in Threads, Push(t) PROVE OnceInv'
  <2>1. CASE Store(t)
    <3>1. /\ pos \in Slot /\ pos' = pos + 1
          /\ queue' = [queue EXCEPT ![pos] = tag[t]]
          /\ uploaded' = uploaded
      BY <2>1 DEF Store
    <3>2. tag[t] \notin accepted
      BY <2>1 DEF Store, FreshInv, Carrying
    <3>3. \A j \in Slot : j < pos => queue[j] \in accepted
      BY DEF SlotInv
    <3>4. ToSet(uploaded) \subseteq accepted
      BY DEF OnlyAcceptedUploaded
    <3>5. \A j \in Slot : j < pos' => j = pos \/ (j < pos /\ queue'[j] = queue[j])
      BY <3>1 DEF Slot
    <3>6. queue'[pos] = tag[t]
      BY <3>1
    <3>7. \A j \in Slot : j < pos' => queue'[j] \notin ToSet(uploaded')
      BY <3>1, <3>2, <3>4, <3>5, <3>6
    <3>8. \A j, l \in Slot : j < pos' /\ l < pos' /\ queue'[j] = queue'[l] => j = l
      BY <3>2, <3>3, <3>5, <3>6
    <3>9. QED
      BY <3>1, <3>7, <3>8 DEF Slot
  <2>2. CASE Overrun(t)
    <3>1. pos = COUNT
      BY <2>2, PosWithinQueue DEF Overrun, Critical, Slot
    <3>2. QED
      BY <2>2, <3>1 DEF Overrun, Slot
  <2>3. QED
    BY <1>2, <2>1, <2>2 DEF Push, Check, Lock, Unlock
<1>3. ASSUME NEW t \in Threads, Pop(t) PROVE OnceInv'
  <2>1. CASE Drain(t)
    <3>1. /\ pos' = PosBelow /\ uploaded' = Append(uploaded, queue[PosBelow])
          /\ queue' = queue /\ Len(batch[t]) < COUNT
      BY <2>1 DEF Drain
    <3>2. pos + Len(batch[t]) = COUNT /\ Len(batch[t]) \in Nat
      BY <2>1 DEF Drain, PosSeen
    <3>3. PosBelow = pos - 1 /\ PosBelow \in Slot /\ pos \in Int
      BY <3>1, <3>2 DEF PosBelow, Slot
    <3>4. queue[PosBelow] \in Tag \cup {NoTag} /\ queue[PosBelow] \notin ToSet(uploaded)
      BY <3>3
    <3>5. IsInjective(uploaded')
      <4>1. uploaded \in Seq(Tag \cup {NoTag}) /\ IsInjective(uploaded)
        OBVIOUS
      <4>2. IsInjective(Append(uploaded, queue[PosBelow]))
        BY <3>4, <4>1, AppendOnce
      <4>3. QED
        BY <3>1, <4>2
    <3>6. ToSet(uploaded') = ToSet(uploaded) \cup {queue[PosBelow]}
      BY <3>1, ToSetAppend
    <3>7. \A j \in Slot : j < pos' => j < pos /\ queue[j] # queue[PosBelow]
      BY <3>1, <3>3 DEF Slot
    <3>8. QED
      BY <3>1, <3>5, <3>6, <3>7 DEF Slot
  <2>2. QED
    BY <1>3, <2>1 DEF Pop, PopCheck, PopLock, DrainDone, PopUnlock, Send
<1>4. CASE UNCHANGED vars
  BY <1>4 DEF vars
<1>5. QED
  BY <1>1, <1>2, <1>3, <1>4 DEF Next

(* Every sample given up is followed by COUNT that are uploaded. *)
LEMMA CountStep ==
    ASSUME IInv, FreshInv, Alone, PosSeen, CountInv, NoOverrun, [Next]_vars
    PROVE  CountInv'
<1> DEFINE D == Cardinality(dropped)
<1> USE DEF IInv, TypeOK, PC, Goto, CountInv, Popping
<1>1. D \in Nat /\ Len(uploaded) \in Nat
  BY FS_CardinalityType DEF FreshInv
<1>2. ASSUME NEW t \in Threads, MakeTag(t) PROVE CountInv'
  BY <1>2 DEF MakeTag
<1>3. ASSUME NEW t \in Threads, Push(t) PROVE CountInv'
  <2>1. pc[t] \notin Popping /\ pc'[t] \notin Popping /\ UNCHANGED <<batch, dropped, uploaded>>
    BY <1>3 DEF Push, Check, Lock, Store, Overrun, Unlock
  <2>2. \A u \in Threads \ {t} : pc[u] = pc'[u]
    BY <1>3 DEF Push, Check, Lock, Store, Overrun, Unlock
  <2>3. QED
    BY <2>1, <2>2
<1>4. ASSUME NEW t \in Threads, Pop(t) PROVE CountInv'
  <2>0. \A u \in Threads \ {t} : pc[u] = "idle" /\ pc'[u] = "idle" /\ batch'[u] = batch[u]
    BY <1>4 DEF Pop, PopCheck, PopLock, Drain, DrainDone, PopUnlock, Send, Alone
  <2>1. CASE PopCheck(t)
    <3>1. /\ pc[t] = "popcheck" /\ pc' = [pc EXCEPT ![t] = "poplock"]
          /\ dropped' = dropped \cup {tag[t]} /\ uploaded' = uploaded
      BY <2>1 DEF PopCheck, PosSeen
    <3>2. tag[t] \notin dropped
      BY <3>1 DEF FreshInv, Carrying
    <3>3. Cardinality(dropped') = D + 1
      BY <3>1, <3>2, FS_AddElement DEF FreshInv
    <3>4. COUNT * (D + 1) = COUNT * D + COUNT
      BY <1>1
    <3>5. Len(uploaded) = COUNT * D
      BY <2>0, <3>1
    <3>6. pc'[t] = "poplock"
      BY <3>1
    <3>7. Len(uploaded') + COUNT = COUNT * Cardinality(dropped')
      BY <3>1, <3>3, <3>4, <3>5
    <3>8. QED
      BY <2>0, <3>6, <3>7
  <2>2. CASE PopLock(t)
    <3>1. pc[t] = "poplock" /\ pc'[t] = "drain" /\ batch'[t] = <<>>
          /\ UNCHANGED <<dropped, uploaded>>
      BY <2>2 DEF PopLock
    <3>2. Len(uploaded') + COUNT = COUNT * Cardinality(dropped') + Len(batch'[t])
      BY <1>1, <3>1
    <3>3. QED
      BY <2>0, <3>1, <3>2
  <2>3. CASE Drain(t)
    <3>1. /\ uploaded' = Append(uploaded, queue[PosBelow])
          /\ batch' = [batch EXCEPT ![t] = Append(@, queue[PosBelow])]
          /\ UNCHANGED <<pc, dropped>> /\ pc[t] = "drain"
      BY <2>3 DEF Drain
    <3>2. queue[PosBelow] \in Tag \cup {NoTag}
      BY <2>3, PosWithinQueue, PosBelowInSlot DEF Drain, Critical
    <3>3. Len(uploaded') = Len(uploaded) + 1 /\ Len(batch'[t]) = Len(batch[t]) + 1
      BY <3>1, <3>2
    <3>4. COUNT * D \in Nat /\ Len(batch[t]) \in Nat
      BY <1>1
    <3>5. Len(uploaded) + COUNT = COUNT * D + Len(batch[t])
      BY <3>1
    <3>6. Len(uploaded') + COUNT = COUNT * D + Len(batch'[t])
      BY <1>1, <3>3, <3>4, <3>5
    <3>7. QED
      BY <2>0, <3>1, <3>6
  <2>4. CASE DrainDone(t)
    <3>1. pc[t] = "drain" /\ pc'[t] = "popunlock" /\ Len(batch[t]) = COUNT
          /\ UNCHANGED <<batch, dropped, uploaded>>
      BY <2>4 DEF DrainDone
    <3>2. COUNT * D \in Nat
      BY <1>1
    <3>3. Len(uploaded) = COUNT * D
      BY <1>1, <3>1, <3>2
    <3>4. QED
      BY <2>0, <3>1, <3>3
  <2>5. CASE PopUnlock(t) \/ Send(t)
    <3>1. pc[t] \notin Popping /\ pc'[t] \notin Popping /\ UNCHANGED <<batch, dropped, uploaded>>
      BY <2>5 DEF PopUnlock, Send
    <3>2. QED
      BY <2>0, <3>1
  <2>6. QED
    BY <1>4, <2>1, <2>2, <2>3, <2>4, <2>5 DEF Pop
<1>5. CASE UNCHANGED vars
  BY <1>5 DEF vars
<1>6. QED
  BY <1>2, <1>3, <1>4, <1>5 DEF Next

(* The strengthened invariant holds at first ... *)
LEMMA InitXInv == Init => XInv
<1> SUFFICES ASSUME Init PROVE XInv
  OBVIOUS
<1> USE DEF Init
<1>1. FreshInv
  BY FS_EmptySet DEF FreshInv, Carrying
<1>2. Uploaded = {} /\ IsInjective(uploaded) /\ Len(uploaded) = 0
  BY DEF Uploaded, ToSet, IsInjective
<1>3. OnceInv
  BY <1>2 DEF OnceInv, Slot
<1>4. CountInv
  BY <1>2, FS_EmptySet DEF CountInv, Popping
<1>5. QED
  BY <1>1, <1>3, <1>4, InitIInv DEF XInv, Exact, NoOverrun, Alone, PosSeen

(* ... and is kept by every step. *)
LEMMA XInvStep == XInv /\ [Next]_vars => XInv'
<1> SUFFICES ASSUME XInv, [Next]_vars PROVE XInv'
  OBVIOUS
<1>1. IInv /\ FreshInv /\ IInv' /\ FreshInv'
  BY IInvStep, FreshStep DEF XInv
<1>2. ASSUME ~raced' PROVE Exact'
  <2>1. ~raced => Alone
    BY DEF XInv, Exact
  <2>2. ~raced /\ Alone'
    BY <1>1, <1>2, <2>1, AloneStep
  <2>3. NoOverrun /\ Alone /\ PosSeen /\ OnceInv /\ CountInv
    BY <2>2 DEF XInv, Exact
  <2>4. PosSeen' /\ NoOverrun'
    BY <1>1, <2>3, PosSeenStep
  <2>5. OnceInv'
    BY <1>1, <2>3, OnceStep
  <2>6. CountInv'
    BY <1>1, <2>3, CountStep
  <2>7. QED
    BY <2>2, <2>4, <2>5, <2>6 DEF Exact
<1>3. QED
  BY <1>1, <1>2 DEF XInv

(* Until two threads have met in push(), no store passes the end of the    *)
(* vector, no sample is uploaded twice, and each sample that is given up   *)
(* goes with a full queue that is uploaded.                                *)
THEOREM ExactWithoutRace == Spec => []ExactUntilRaced
<1>1. Init => XInv
  BY InitXInv
<1>2. XInv /\ [Next]_vars => XInv'
  BY XInvStep
<1>3. XInv => ExactUntilRaced
  <2> SUFFICES ASSUME XInv, ~raced PROVE NoOverrun /\ UploadedOnce /\ OneLostPerBatch
    BY DEF ExactUntilRaced
  <2>1. NoOverrun /\ OnceInv /\ CountInv
    BY DEF XInv, Exact
  <2>2. OneLostPerBatch
    BY <2>1 DEF CountInv, OneLostPerBatch, Popping
  <2>3. QED
    BY <2>1, <2>2 DEF OnceInv, UploadedOnce
<1>4. QED
  BY <1>1, <1>2, <1>3, PTL DEF Spec
=============================================================================
