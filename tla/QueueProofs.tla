----------------------------- MODULE QueueProofs -----------------------------
(***************************************************************************)
(* Proofs about Queue, for any producers, workers and items: the type      *)
(* invariant, the two safety invariants, and the refinement of FifoQueue.  *)
(***************************************************************************)
EXTENDS Queue, SequenceTheorems, TLAPS

(* Who holds modify_mutex is exactly who is between its lock and unlock. *)
MutexInv ==
  \A t \in Threads : pc[t] \in AddSection \union GetSection <=> modify = t

(* What a thread's position says of its local variables. *)
LocalInv ==
  /\ \A p \in Producers :
       /\ pc[p] \in {"addLock", "link", "publish"} => node[p] # NULL
       /\ pc[p] \in {"idle", "addUnlock", "addSignal"} => node[p] = NULL
       /\ pc[p] = "publish" => link[p] = items
       /\ pc[p] \in {"idle", "addLock", "addSignal"} \union AddSection
  /\ \A c \in Consumers :
       /\ pc[c] \in {"getSignal", "getUnlock", "work"} <=> got[c] # NULL
       /\ pc[c] = "unlink" => items # <<>>
       /\ pc[c] \in {"idle", "getLock", "null", "work"} \union GetSection

(***************************************************************************)
(* The inductive invariant.  OneOwner needs LocalInv to know that the item *)
(* published is not NULL, CountIsLength needs MutexInv to know that the    *)
(* list a producer read is still the list when it writes, and NoLostWakeup *)
(* needs CountIsLength to know that the decision to hand read_mutex on     *)
(* agrees with the list.                                                   *)
(***************************************************************************)
IInv ==
  /\ TypeOK
  /\ MutexInv
  /\ LocalInv
  /\ CountIsLength
  /\ OneOwner
  /\ NoLostWakeup

-----------------------------------------------------------------------------
(* Sequences *)

LEMMA FrontProperties ==
  ASSUME NEW S, NEW s \in Seq(S), s # <<>>
  PROVE  /\ Front(s) \in Seq(S)
         /\ Len(Front(s)) = Len(s) - 1
         /\ \A i \in 1..Len(s)-1 : Front(s)[i] = s[i]
         /\ Last(s) \in S
<1> DEFINE n == Len(s) - 1
<1>1. n \in Nat /\ n + 1 = Len(s) /\ \A i \in 1..Len(s) : s[i] \in S
  BY EmptySeq, ElementOfSeq
<1>2. \A i \in 1..n : s[i] \in S
  BY <1>1
<1>3. /\ SubSeq(s, 1, n) \in Seq(S)
      /\ Len(SubSeq(s, 1, n)) = IF 1 <= n THEN n - 1 + 1 ELSE 0
      /\ \A i \in 1..n-1+1 : SubSeq(s, 1, n)[i] = s[1+i-1]
  <2> HIDE DEF n
  <2> QED
    BY <1>1, <1>2, SubSeqProperties
<1>4. /\ Len(SubSeq(s, 1, n)) = n
      /\ \A i \in 1..n : SubSeq(s, 1, n)[i] = s[i]
  <2> HIDE DEF n
  <2> QED
    BY <1>1, <1>3
<1> QED
  BY <1>1, <1>3, <1>4 DEF Front, Last

LEMMA ConsProperties ==
  ASSUME NEW S, NEW s \in Seq(S), NEW e \in S
  PROVE  /\ <<e>> \o s \in Seq(S)
         /\ Len(<<e>> \o s) = Len(s) + 1
         /\ (<<e>> \o s)[1] = e
         /\ \A i \in 2..Len(s)+1 : (<<e>> \o s)[i] = s[i-1]
<1>1. <<e>> \in Seq(S) /\ Len(<<e>>) = 1 /\ <<e>>[1] = e
  OBVIOUS
<1> QED
  BY <1>1, ConcatProperties, LenProperties

LEMMA ReverseProperties ==
  ASSUME NEW S, NEW s \in Seq(S)
  PROVE  /\ Reverse(s) \in Seq(S)
         /\ Len(Reverse(s)) = Len(s)
         /\ \A i \in 1..Len(s) : Reverse(s)[i] = s[Len(s) - i + 1]
<1>1. Len(s) \in Nat /\ \A i \in 1..Len(s) : s[Len(s) - i + 1] \in S
  BY LenProperties, ElementOfSeq
<1>2. Reverse(s) \in [1..Len(s) -> S]
  BY <1>1 DEF Reverse
<1>3. Reverse(s) \in Seq(S)
  BY <1>1, <1>2, SeqDef
<1> QED
  BY <1>1, <1>2, <1>3, LenProperties DEF Reverse

(* The item that Get_Queue_Item walks to is the oldest one... *)
LEMMA ReverseFront ==
  ASSUME NEW S, NEW s \in Seq(S), s # <<>>
  PROVE  /\ Reverse(s) # <<>>
         /\ Head(Reverse(s)) = Last(s)
         /\ Reverse(Front(s)) = Tail(Reverse(s))
<1>1. Len(s) \in Nat \ {0}
  BY EmptySeq
<1>2. /\ Front(s) \in Seq(S)
      /\ Len(Front(s)) = Len(s) - 1
      /\ \A i \in 1..Len(s)-1 : Front(s)[i] = s[i]
  BY FrontProperties
<1>3. /\ Reverse(s) \in Seq(S)
      /\ Len(Reverse(s)) = Len(s)
      /\ \A i \in 1..Len(s) : Reverse(s)[i] = s[Len(s) - i + 1]
  BY ReverseProperties
<1>4. /\ Reverse(Front(s)) \in Seq(S)
      /\ Len(Reverse(Front(s))) = Len(s) - 1
      /\ \A i \in 1..Len(s)-1 : Reverse(Front(s))[i] = Front(s)[Len(s) - 1 - i + 1]
  BY <1>2, ReverseProperties
<1>5. Reverse(s) # <<>>
  BY <1>1, <1>3
<1>6. /\ Tail(Reverse(s)) \in Seq(S)
      /\ Len(Tail(Reverse(s))) = Len(s) - 1
      /\ \A i \in 1..Len(s)-1 : Tail(Reverse(s))[i] = Reverse(s)[i+1]
  BY <1>3, <1>5, HeadTailProperties
<1>7. ASSUME NEW i \in 1..Len(s)-1
      PROVE  Reverse(Front(s))[i] = Tail(Reverse(s))[i]
  <2>1. Reverse(Front(s))[i] = s[Len(s) - i]
    BY <1>1, <1>2, <1>4
  <2>2. Tail(Reverse(s))[i] = s[Len(s) - i]
    BY <1>1, <1>3, <1>6
  <2> QED
    BY <2>1, <2>2
<1>8. Reverse(Front(s)) = Tail(Reverse(s))
  BY <1>1, <1>4, <1>6, <1>7, SeqEqual
<1>9. Head(Reverse(s)) = Last(s)
  BY <1>1, <1>3, <1>5 DEF Last
<1> QED
  BY <1>5, <1>8, <1>9

(* ... and the one that Add_Queue_Item prepends is the newest. *)
LEMMA ReverseCons ==
  ASSUME NEW S, NEW s \in Seq(S), NEW e \in S
  PROVE  Reverse(<<e>> \o s) = Append(Reverse(s), e)
<1> DEFINE n == Len(s)
           t == <<e>> \o s
<1>1. n \in Nat
  BY LenProperties
<1>2. t \in Seq(S) /\ Len(t) = n + 1 /\ t[1] = e /\ \A i \in 2..n+1 : t[i] = s[i-1]
  BY ConsProperties
<1>3. /\ Reverse(s) \in Seq(S)
      /\ Len(Reverse(s)) = n
      /\ \A i \in 1..n : Reverse(s)[i] = s[n - i + 1]
  BY ReverseProperties
<1>4. /\ Append(Reverse(s), e) \in Seq(S)
      /\ Len(Append(Reverse(s), e)) = n + 1
      /\ \A i \in 1..n : Append(Reverse(s), e)[i] = Reverse(s)[i]
      /\ Append(Reverse(s), e)[n+1] = e
  BY <1>3, AppendProperties
<1> HIDE DEF n, t
<1>5. /\ Reverse(t) \in Seq(S)
      /\ Len(Reverse(t)) = n + 1
      /\ \A i \in 1..n+1 : Reverse(t)[i] = t[n + 1 - i + 1]
  <2>1. /\ Reverse(t) \in Seq(S)
        /\ Len(Reverse(t)) = Len(t)
        /\ \A i \in 1..Len(t) : Reverse(t)[i] = t[Len(t) - i + 1]
    BY <1>2, ReverseProperties
  <2> QED
    BY <2>1, <1>1, <1>2
<1>6. ASSUME NEW i \in 1..n+1
      PROVE  Reverse(t)[i] = Append(Reverse(s), e)[i]
  <2>1. CASE i = n + 1
    BY <2>1, <1>1, <1>2, <1>4, <1>5
  <2>2. CASE i \in 1..n
    <3>1. n + 1 - i + 1 \in 2..n+1 /\ n + 1 - i + 1 - 1 = n - i + 1
      BY <2>2, <1>1
    <3>2. Reverse(t)[i] = s[n - i + 1]
      BY <2>2, <3>1, <1>1, <1>2, <1>5
    <3> QED
      BY <2>2, <3>2, <1>3, <1>4
  <2>3. i = n + 1 \/ i \in 1..n
    BY <1>1
  <2> QED
    BY <2>1, <2>2, <2>3
<1>7. Reverse(t) = Append(Reverse(s), e)
  BY <1>1, <1>4, <1>5, <1>6, SeqEqual
<1> QED
  BY <1>7 DEF t

-----------------------------------------------------------------------------
(* Each part of the invariant is kept by every step. *)

LEMMA TypeStep == IInv /\ [Next]_vars => TypeOK'
<1> SUFFICES ASSUME IInv, [Next]_vars PROVE TypeOK'
  OBVIOUS
<1> USE DEF IInv, TypeOK, Goto, LockModify, AddSection, GetSection, Threads
<1>1. ASSUME NEW p \in Producers, AddAlloc(p) PROVE TypeOK'
  BY <1>1 DEF AddAlloc
<1>2. ASSUME NEW p \in Producers, AddLock(p) \/ AddLink(p) \/ AddUnlock(p) \/ AddSignal(p)
      PROVE TypeOK'
  BY <1>2 DEF AddLock, AddLink, AddUnlock, AddSignal
<1>3. ASSUME NEW p \in Producers, AddPublish(p) PROVE TypeOK'
  <2>1. node[p] \in Nodes /\ link[p] \in Seq(Nodes)
    BY <1>3 DEF AddPublish, LocalInv
  <2>2. items' \in Seq(Nodes)
    BY <1>3, <2>1, ConsProperties DEF AddPublish
  <2> QED
    BY <1>3, <2>2 DEF AddPublish
<1>4. ASSUME NEW c \in Consumers,
             \/ GetLockRead(c) \/ GetLockModify(c) \/ GetEmpty(c) \/ GetTest(c)
             \/ GetSignal(c) \/ GetUnlock(c) \/ Free(c) \/ DerefNull(c)
      PROVE TypeOK'
  BY <1>4 DEF GetLockRead, GetLockModify, GetEmpty, GetTest, GetSignal, GetUnlock, Free, DerefNull
<1>5. ASSUME NEW c \in Consumers, GetUnlink(c) PROVE TypeOK'
  <2>1. items # <<>> /\ numitems \in Nat \ {0}
    BY <1>5, EmptySeq DEF GetUnlink, LocalInv, CountIsLength
  <2>2. Front(items) \in Seq(Nodes) /\ Last(items) \in Nodes
    BY <2>1, FrontProperties
  <2>3. items' \in Seq(Nodes)
    BY <1>5, <2>2, EmptySeq DEF GetUnlink
  <2> QED
    BY <1>5, <2>1, <2>2, <2>3 DEF GetUnlink
<1>6. CASE UNCHANGED vars
  BY <1>6 DEF vars
<1> QED
  BY <1>1, <1>2, <1>3, <1>4, <1>5, <1>6 DEF Next, AddStep, GetStep, AddNoMemory

LEMMA MutexStep == IInv /\ [Next]_vars => MutexInv'
<1> SUFFICES ASSUME IInv, [Next]_vars PROVE MutexInv'
  OBVIOUS
<1> USE QueueAssumption DEF IInv, MutexInv, TypeOK, Goto, LockModify, AddSection, GetSection, Threads
<1>1. ASSUME NEW p \in Producers, AddAlloc(p) \/ AddStep(p) PROVE MutexInv'
  BY <1>1 DEF AddStep, AddAlloc, AddLock, AddLink, AddPublish, AddUnlock, AddSignal
<1>2. ASSUME NEW c \in Consumers, GetLockRead(c) \/ GetLockModify(c) \/ GetEmpty(c)
      PROVE MutexInv'
  BY <1>2 DEF GetLockRead, GetLockModify, GetEmpty
<1>3. ASSUME NEW c \in Consumers, GetTest(c) \/ GetUnlink(c) \/ GetSignal(c) \/ GetUnlock(c)
      PROVE MutexInv'
  <2>1. CASE GetTest(c)
    BY <2>1 DEF GetTest
  <2>2. CASE GetUnlink(c)
    BY <2>2 DEF GetUnlink
  <2>3. CASE GetSignal(c)
    BY <2>3 DEF GetSignal
  <2>4. CASE GetUnlock(c)
    BY <2>4 DEF GetUnlock
  <2> QED
    BY <1>3, <2>1, <2>2, <2>3, <2>4
<1>4. ASSUME NEW c \in Consumers, Free(c) \/ DerefNull(c) PROVE MutexInv'
  BY <1>4 DEF Free, DerefNull
<1>5. CASE UNCHANGED vars
  BY <1>5 DEF vars
<1> HIDE DEF IInv, MutexInv, TypeOK, Goto, LockModify, AddSection, GetSection, Threads
<1> QED
  BY <1>1, <1>2, <1>3, <1>4, <1>5 DEF Next, GetStep, AddNoMemory

LEMMA LocalStep == IInv /\ [Next]_vars => LocalInv'
<1> SUFFICES ASSUME IInv, [Next]_vars PROVE LocalInv'
  OBVIOUS
<1> USE QueueAssumption DEF IInv, LocalInv, MutexInv, TypeOK, Goto, LockModify, AddSection, GetSection, Threads
<1>1. ASSUME NEW p \in Producers, AddAlloc(p) PROVE LocalInv'
  BY <1>1 DEF AddAlloc
<1>2. ASSUME NEW p \in Producers, AddLock(p) PROVE LocalInv'
  BY <1>2 DEF AddLock
<1>3. ASSUME NEW p \in Producers, AddLink(p) PROVE LocalInv'
  BY <1>3 DEF AddLink
<1>4. ASSUME NEW p \in Producers, AddPublish(p) PROVE LocalInv'
  <2>1. /\ \A q \in Producers : q # p => pc[q] # "publish"
        /\ \A c \in Consumers : pc[c] # "unlink"
    BY <1>4 DEF AddPublish
  <2> QED
    BY <1>4, <2>1 DEF AddPublish
<1>5. ASSUME NEW p \in Producers, AddUnlock(p) \/ AddSignal(p) PROVE LocalInv'
  BY <1>5 DEF AddUnlock, AddSignal
<1>6. ASSUME NEW c \in Consumers, GetLockRead(c) \/ GetLockModify(c) PROVE LocalInv'
  BY <1>6 DEF GetLockRead, GetLockModify
<1>7. ASSUME NEW c \in Consumers, GetEmpty(c) \/ GetTest(c) PROVE LocalInv'
  BY <1>7 DEF GetEmpty, GetTest
<1>8. ASSUME NEW c \in Consumers, GetUnlink(c) PROVE LocalInv'
  <2>1. /\ \A p \in Producers : pc[p] # "publish"
        /\ \A d \in Consumers : d # c => pc[d] # "unlink"
    BY <1>8 DEF GetUnlink
  <2>2. Last(items) \in Nodes
    BY <1>8, FrontProperties DEF GetUnlink
  <2> QED
    BY <1>8, <2>1, <2>2 DEF GetUnlink
<1>9. ASSUME NEW c \in Consumers, GetSignal(c) \/ GetUnlock(c) PROVE LocalInv'
  BY <1>9 DEF GetSignal, GetUnlock
<1>10. ASSUME NEW c \in Consumers, Free(c) \/ DerefNull(c) PROVE LocalInv'
  BY <1>10 DEF Free, DerefNull
<1>11. CASE UNCHANGED vars
  BY <1>11 DEF vars
<1> HIDE DEF IInv, LocalInv, MutexInv, TypeOK, Goto, LockModify, AddSection, GetSection, Threads
<1> QED
  BY <1>1, <1>2, <1>3, <1>4, <1>5, <1>6, <1>7, <1>8, <1>9, <1>10, <1>11
     DEF Next, AddStep, GetStep, AddNoMemory

(* A producer publishes in front of the list as it is, a worker takes the last item. *)
LEMMA PublishStep ==
  ASSUME IInv, NEW p \in Producers, AddPublish(p)
  PROVE  /\ items' = <<node[p]>> \o items
         /\ node[p] \in Nodes
BY DEF IInv, TypeOK, LocalInv, AddPublish, Goto

LEMMA UnlinkStep ==
  ASSUME IInv, NEW c \in Consumers, GetUnlink(c)
  PROVE  /\ items # <<>>
         /\ items' = Front(items)
<1>1. items \in Seq(Nodes) /\ items # <<>>
  BY DEF IInv, TypeOK, LocalInv, GetUnlink, Goto
<1>2. numitems = Len(items) /\ Len(items) \in Nat \ {0}
  BY <1>1, EmptySeq DEF IInv, CountIsLength
<1>3. CASE numitems = 1
  <2>1. Front(items) \in Seq(Nodes) /\ Len(Front(items)) = Len(items) - 1
    BY <1>1, FrontProperties
  <2>2. Len(Front(items)) = 0
    <3>1. Len(items) = 1
      BY <1>2, <1>3
    <3> QED
      BY <3>1, <2>1
  <2>3. Front(items) = <<>>
    BY <2>1, <2>2, EmptySeq
  <2> QED
    BY <1>1, <1>3, <2>3 DEF GetUnlink
<1>4. CASE numitems # 1
  BY <1>1, <1>2, <1>4 DEF GetUnlink
<1> QED
  BY <1>3, <1>4

LEMMA CountStep == IInv /\ [Next]_vars => CountIsLength'
<1> SUFFICES ASSUME IInv, [Next]_vars PROVE CountIsLength'
  OBVIOUS
<1> USE DEF CountIsLength
<1>1. ASSUME NEW p \in Producers, AddPublish(p) PROVE CountIsLength'
  <2>1. items \in Seq(Nodes) /\ node[p] \in Nodes /\ items' = <<node[p]>> \o items
    BY <1>1, PublishStep DEF IInv, TypeOK
  <2>2. Len(items') = Len(items) + 1
    BY <2>1, ConsProperties
  <2> QED
    BY <1>1, <2>2 DEF IInv, AddPublish
<1>2. ASSUME NEW c \in Consumers, GetUnlink(c) PROVE CountIsLength'
  <2>1. items \in Seq(Nodes) /\ items # <<>> /\ items' = Front(items)
    BY <1>2, UnlinkStep DEF IInv, TypeOK
  <2>2. Len(items') = Len(items) - 1
    BY <2>1, FrontProperties
  <2> QED
    BY <1>2, <2>2 DEF IInv, GetUnlink
<1>3. CASE UNCHANGED <<items, numitems>>
  BY <1>3 DEF IInv
<1> QED
  BY <1>1, <1>2, <1>3 DEF Next, AddStep, GetStep, AddNoMemory, AddAlloc, AddLock, AddLink, AddUnlock,
     AddSignal, GetLockRead, GetLockModify, GetEmpty, GetTest, GetSignal, GetUnlock, Free, DerefNull, vars

LEMMA OwnerStep == IInv /\ [Next]_vars => OneOwner'
<1> SUFFICES ASSUME IInv, [Next]_vars PROVE OneOwner'
  OBVIOUS
<1>0. /\ OneOwner /\ QueueAssumption
      /\ items \in Seq(Nodes) /\ Len(items) \in Nat /\ DOMAIN items = 1..Len(items)
      /\ node \in [Producers -> Nodes \union {NULL}]
      /\ got \in [Consumers -> Nodes \union {NULL}]
      /\ \A i \in 1..Len(items) : items[i] \in Nodes
  BY QueueAssumption, LenProperties, ElementOfSeq DEF IInv, TypeOK
<1>1. ASSUME NEW p \in Producers, AddAlloc(p) PROVE OneOwner'
  <2>1. PICK n \in Nodes \ InUse : node' = [node EXCEPT ![p] = n]
    BY <1>1 DEF AddAlloc
  <2>2. /\ \A i \in 1..Len(items) : items[i] # n
        /\ \A q \in Producers : node[q] # n
        /\ \A c \in Consumers : got[c] # n
    BY <1>0, <2>1 DEF InUse, ToSet
  <2>3. items' = items /\ got' = got
    BY <1>1 DEF AddAlloc
  <2> QED
    BY <1>0, <2>1, <2>2, <2>3 DEF OneOwner, QueueAssumption
<1>2. ASSUME NEW p \in Producers, AddPublish(p) PROVE OneOwner'
  <2> DEFINE n == Len(items)
             e == node[p]
  <2>1. n \in Nat /\ e \in Nodes /\ items' = <<e>> \o items
    BY <1>0, <1>2, PublishStep
  <2>2. /\ Len(items') = n + 1
        /\ items'[1] = e
        /\ \A i \in 2..n+1 : items'[i] = items[i-1]
    BY <1>0, <2>1, ConsProperties
  <2>3. node' = [node EXCEPT ![p] = NULL] /\ got' = got
    BY <1>2 DEF AddPublish
  <2>4. /\ \A i \in 1..n : items[i] # e
        /\ \A q \in Producers : q # p => node[q] # e
        /\ \A c \in Consumers : got[c] # e
    BY <1>0, <2>1 DEF OneOwner, QueueAssumption
  <2>5. \A i \in 1..n+1 : i = 1 \/ (i \in 2..n+1 /\ i - 1 \in 1..n)
    BY <2>1
  <2> HIDE DEF n, e
  <2>6. \A i, j \in 1..n+1 : items'[i] = items'[j] => i = j
    <3> SUFFICES ASSUME NEW i \in 1..n+1, NEW j \in 1..n+1, items'[i] = items'[j] PROVE i = j
      OBVIOUS
    <3>1. CASE i = 1 /\ j = 1
      BY <3>1
    <3>2. CASE i # 1 /\ j # 1
      BY <3>2, <1>0, <2>1, <2>2, <2>5 DEF OneOwner, n
    <3>3. CASE i = 1 /\ j # 1
      BY <3>3, <2>2, <2>4, <2>5
    <3>4. CASE i # 1 /\ j = 1
      BY <3>4, <2>2, <2>4, <2>5
    <3> QED
      BY <3>1, <3>2, <3>3, <3>4
  <2>7. ASSUME NEW i \in 1..n+1
        PROVE  /\ \A q \in Producers : node'[q] # items'[i]
               /\ \A c \in Consumers : got'[c] # items'[i]
    <3>1. CASE i = 1
      BY <3>1, <1>0, <2>1, <2>2, <2>3, <2>4 DEF QueueAssumption
    <3>2. CASE i # 1
      <4>1. i - 1 \in 1..n /\ items'[i] = items[i-1] /\ items[i-1] # NULL
        BY <3>2, <1>0, <2>2, <2>5 DEF QueueAssumption, n
      <4> QED
        BY <4>1, <1>0, <2>3 DEF OneOwner, n
    <3> QED
      BY <3>1, <3>2
  <2>8. /\ \A q, r \in Producers : node'[q] = node'[r] /\ node'[q] # NULL => q = r
        /\ \A c, d \in Consumers : got'[c] = got'[d] /\ got'[c] # NULL => c = d
        /\ \A q \in Producers, c \in Consumers : node'[q] = got'[c] => got'[c] = NULL
    BY <1>0, <2>3 DEF OneOwner
  <2> QED
    BY <2>2, <2>6, <2>7, <2>8 DEF OneOwner
<1>3. ASSUME NEW c \in Consumers, GetUnlink(c) PROVE OneOwner'
  <2> DEFINE n == Len(items)
             e == Last(items)
  <2>1. items # <<>> /\ items' = Front(items)
    BY <1>3, UnlinkStep
  <2>2. n \in Nat \ {0} /\ e = items[n] /\ e \in Nodes
    BY <1>0, <2>1, EmptySeq DEF Last
  <2>3. /\ Len(items') = n - 1
        /\ \A i \in 1..n-1 : items'[i] = items[i]
    BY <1>0, <2>1, FrontProperties
  <2>4. got' = [got EXCEPT ![c] = e] /\ node' = node
    BY <1>3 DEF GetUnlink
  <2> HIDE DEF e
  <2>5. /\ \A i \in 1..n-1 : items[i] # e
        /\ \A p \in Producers : node[p] # e
        /\ \A d \in Consumers : got[d] # e
    BY <1>0, <2>2 DEF OneOwner
  <2>6. \A i \in 1..n-1 : i \in 1..n
    BY <2>2
  <2> HIDE DEF n
  <2>7. /\ \A i, j \in 1..n-1 : items'[i] = items'[j] => i = j
        /\ \A i \in 1..n-1 :
             /\ \A p \in Producers : node'[p] # items'[i]
             /\ \A d \in Consumers : got'[d] # items'[i]
    BY <1>0, <2>3, <2>4, <2>5, <2>6 DEF OneOwner, n
  <2>8. /\ \A p, q \in Producers : node'[p] = node'[q] /\ node'[p] # NULL => p = q
        /\ \A d, f \in Consumers : got'[d] = got'[f] /\ got'[d] # NULL => d = f
        /\ \A p \in Producers, d \in Consumers : node'[p] = got'[d] => got'[d] = NULL
    BY <1>0, <2>4, <2>5 DEF OneOwner
  <2> QED
    BY <2>3, <2>7, <2>8 DEF OneOwner
<1>4. ASSUME NEW c \in Consumers, Free(c) PROVE OneOwner'
  BY <1>0, <1>4 DEF Free, OneOwner, QueueAssumption
<1>5. CASE UNCHANGED <<items, node, got>>
  BY <1>0, <1>5 DEF OneOwner
<1> QED
  BY <1>1, <1>2, <1>3, <1>4, <1>5 DEF Next, AddStep, GetStep, AddNoMemory, AddLock, AddLink, AddUnlock,
     AddSignal, GetLockRead, GetLockModify, GetEmpty, GetTest, GetSignal, GetUnlock, DerefNull, vars

LEMMA WakeStep == IInv /\ [Next]_vars => NoLostWakeup'
<1> SUFFICES ASSUME IInv, [Next]_vars PROVE NoLostWakeup'
  OBVIOUS
<1>0. /\ NoLostWakeup /\ CountIsLength /\ LocalInv /\ items \in Seq(Nodes)
      /\ pc \in [Threads -> {"idle", "addLock", "addSignal", "getLock", "null", "work"}
                               \union AddSection \union GetSection]
  BY DEF IInv, TypeOK
<1> USE DEF NoLostWakeup, Goto, Threads
<1>1. ASSUME NEW p \in Producers, AddAlloc(p) \/ AddLock(p) \/ AddLink(p) \/ AddUnlock(p)
      PROVE NoLostWakeup'
  BY <1>0, <1>1, QueueAssumption DEF AddAlloc, AddLock, AddLink, AddUnlock, QueueAssumption
<1>2. ASSUME NEW p \in Producers, AddPublish(p) PROVE NoLostWakeup'
  BY <1>0, <1>2 DEF AddPublish
<1>3. ASSUME NEW p \in Producers, AddSignal(p) PROVE NoLostWakeup'
  BY <1>3 DEF AddSignal
<1>4. ASSUME NEW c \in Consumers, GetLockRead(c) \/ GetLockModify(c) \/ GetEmpty(c) \/ GetTest(c)
      PROVE NoLostWakeup'
  BY <1>0, <1>4, QueueAssumption DEF GetLockRead, GetLockModify, GetEmpty, GetTest, QueueAssumption
<1>5. ASSUME NEW c \in Consumers, GetUnlink(c) PROVE NoLostWakeup'
  BY <1>0, <1>5 DEF GetUnlink
<1>6. ASSUME NEW c \in Consumers, GetSignal(c) PROVE NoLostWakeup'
  <2>1. CASE numitems > 0
    BY <1>6, <2>1 DEF GetSignal
  <2>2. CASE ~(numitems > 0)
    <3>1. items = <<>>
      BY <1>0, <2>2, EmptySeq DEF CountIsLength
    <3> QED
      BY <1>6, <3>1 DEF GetSignal
  <2> QED
    BY <2>1, <2>2
<1>7. ASSUME NEW c \in Consumers, GetUnlock(c) \/ Free(c) \/ DerefNull(c) PROVE NoLostWakeup'
  BY <1>0, <1>7, QueueAssumption DEF GetUnlock, Free, DerefNull, QueueAssumption
<1>8. CASE UNCHANGED vars
  BY <1>0, <1>8 DEF vars
<1> HIDE DEF NoLostWakeup, Goto, Threads
<1> QED
  BY <1>1, <1>2, <1>3, <1>4, <1>5, <1>6, <1>7, <1>8 DEF Next, AddStep, GetStep, AddNoMemory

LEMMA InitInv == Init => IInv
<1> SUFFICES ASSUME Init PROVE IInv
  OBVIOUS
<1> USE QueueAssumption DEF Init
<1>1. TypeOK
  <2>1. items \in Seq(Nodes) /\ numitems \in Nat /\ link \in [Producers -> Seq(Nodes)]
    BY EmptySeq
  <2>2. /\ node \in [Producers -> Nodes \union {NULL}]
        /\ got \in [Consumers -> Nodes \union {NULL}]
    OBVIOUS
  <2>3. pc \in [Threads -> {"idle", "addLock", "addSignal", "getLock", "null", "work"}
                             \union AddSection \union GetSection]
    OBVIOUS
  <2> QED
    BY <2>1, <2>2, <2>3 DEF TypeOK
<1>2. MutexInv
  BY DEF MutexInv, AddSection, GetSection, Threads
<1>3. LocalInv
  BY DEF LocalInv, AddSection, GetSection, Threads
<1>4. Len(items) = 0
  BY EmptySeq
<1>5. CountIsLength /\ NoLostWakeup
  BY <1>4 DEF CountIsLength, NoLostWakeup
<1>6. OneOwner
  BY <1>4 DEF OneOwner
<1> QED
  BY <1>1, <1>2, <1>3, <1>5, <1>6 DEF IInv

LEMMA Inductive == IInv /\ [Next]_vars => IInv'
BY TypeStep, MutexStep, LocalStep, CountStep, OwnerStep, WakeStep DEF IInv

-----------------------------------------------------------------------------
(* The inductive invariant holds in every reachable state. *)
THEOREM QueueInvariant == Spec => []IInv
BY InitInv, Inductive, PTL DEF Spec

(* Every variable of queue.c keeps its type. *)
THEOREM QueueTypeOK == Spec => []TypeOK
BY QueueInvariant, PTL DEF IInv

(* queue.c: the counter is the length of the list and an item has one owner. *)
THEOREM QueueListConsistent == Spec => []ListConsistent
<1>1. IInv => ListConsistent
  BY DEF IInv, ListConsistent
<1> QED
  BY <1>1, QueueInvariant, PTL

(* queue.c: while an item waits, some worker can be or will be woken. *)
THEOREM QueueNoLostWakeup == Spec => []NoLostWakeup
<1>1. IInv => NoLostWakeup
  BY DEF IInv
<1> QED
  BY <1>1, QueueInvariant, PTL

(***************************************************************************)
(* queue.c implements FifoQueue: linking in front is Put, unlinking the    *)
(* last item is Take, freeing it is Release, and every other step stutters.*)
(***************************************************************************)
THEOREM QueueImplementsFifo == Spec => ImplementsFifo
<1>1. Init => Fifo!Init
  <2> SUFFICES ASSUME Init PROVE Fifo!Init
    OBVIOUS
  <2>1. items \in Seq(Nodes) /\ Len(items) = 0
    BY EmptySeq DEF Init
  <2>2. Reverse(items) = <<>>
    BY <2>1, ReverseProperties, EmptySeq
  <2> QED
    BY <2>2 DEF Init, Fifo!Init
<1>2. IInv /\ [Next]_vars => [Fifo!Next]_Fifo!fifoVars
  <2> SUFFICES ASSUME IInv, [Next]_vars PROVE [Fifo!Next]_Fifo!fifoVars
    OBVIOUS
  <2>0. items \in Seq(Nodes) /\ got \in [Consumers -> Nodes \union {NULL}] /\ OneOwner
    BY DEF IInv, TypeOK
  <2>1. ASSUME NEW p \in Producers, AddPublish(p) PROVE Fifo!Put(node[p])
    <3>1. items' = <<node[p]>> \o items /\ node[p] \in Nodes
      BY <2>1, PublishStep
    <3>2. Reverse(items') = Append(Reverse(items), node[p])
      BY <2>0, <3>1, ReverseCons
    <3>3. node[p] \notin Fifo!ToSet(Reverse(items))
      <4>1. /\ Reverse(items) \in Seq(Nodes)
            /\ Len(Reverse(items)) = Len(items)
            /\ \A i \in 1..Len(items) : Reverse(items)[i] = items[Len(items) - i + 1]
        BY <2>0, ReverseProperties
      <4>2. DOMAIN Reverse(items) = 1..Len(items) /\ Len(items) \in Nat
        BY <2>0, <4>1, LenProperties
      <4>3. \A i \in 1..Len(items) : Len(items) - i + 1 \in 1..Len(items)
        BY <4>2
      <4>4. \A i \in 1..Len(items) : items[i] # node[p]
        BY <2>0 DEF OneOwner
      <4>5. \A i \in DOMAIN Reverse(items) : Reverse(items)[i] # node[p]
        BY <4>1, <4>2, <4>3, <4>4
      <4> QED
        BY <4>5 DEF Fifo!ToSet
    <3>4. node[p] \notin Fifo!Held
      BY <2>0, <3>1, QueueAssumption DEF OneOwner, Fifo!Held, QueueAssumption
    <3> QED
      BY <2>1, <3>2, <3>3, <3>4 DEF Fifo!Put, AddPublish
  <2>2. ASSUME NEW c \in Consumers, GetUnlink(c) PROVE Fifo!Take(c)
    <3>1. items # <<>> /\ items' = Front(items)
      BY <2>2, UnlinkStep
    <3>2. /\ Reverse(items) # <<>>
          /\ Head(Reverse(items)) = Last(items)
          /\ Reverse(items') = Tail(Reverse(items))
      BY <2>0, <3>1, ReverseFront
    <3>3. got[c] = NULL
      BY <2>2 DEF IInv, LocalInv, GetUnlink, Goto
    <3> QED
      BY <2>2, <3>2, <3>3 DEF Fifo!Take, GetUnlink
  <2>3. ASSUME NEW c \in Consumers, Free(c) PROVE Fifo!Release(c)
    BY <2>3 DEF Free, Goto, Fifo!Release, IInv, LocalInv
  <2>4. CASE UNCHANGED <<items, got>>
    BY <2>4 DEF Fifo!fifoVars
  <2>5. \A p \in Producers : AddPublish(p) => node[p] \in Nodes
    BY PublishStep
  <2> QED
    BY <2>1, <2>2, <2>3, <2>4, <2>5 DEF Fifo!Next, Next, AddStep, GetStep, AddNoMemory, AddAlloc, AddLock,
       AddLink, AddUnlock, AddSignal, GetLockRead, GetLockModify, GetEmpty, GetTest, GetSignal,
       GetUnlock, DerefNull, vars
<1> QED
  BY <1>1, <1>2, QueueInvariant, PTL DEF Spec, ImplementsFifo, Fifo!Spec

=============================================================================
