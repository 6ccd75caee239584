------------------------------ MODULE QueueLemmas ------------------------------
(* Facts about sequences used as first-in first-out queues.                 *)
EXTENDS Sequences, Integers, TLAPS

\* A job pushed onto the channel is in it, behind the others.
LEMMA PushedJobs ==
    ASSUME NEW S, NEW js \in Seq(S), NEW x \in S
    PROVE  \A j \in S : (\E i \in DOMAIN Append(js, x) : Append(js, x)[i] = j)
                            <=> j = x \/ \E i \in DOMAIN js : js[i] = j
<1> SUFFICES ASSUME NEW j \in S
             PROVE  (\E i \in DOMAIN Append(js, x) : Append(js, x)[i] = j)
                       <=> j = x \/ \E i \in DOMAIN js : js[i] = j
  OBVIOUS
<1>1. /\ DOMAIN js = 1 .. Len(js) /\ Len(js) \in Nat
      /\ DOMAIN Append(js, x) = 1 .. Len(js) + 1
      /\ \A i \in 1 .. Len(js) : Append(js, x)[i] = js[i]
      /\ Append(js, x)[Len(js) + 1] = x
  OBVIOUS
<1> QED
  BY <1>1

\* Taking the first job leaves the others.
LEMMA TakenJobs ==
    ASSUME NEW S, NEW js \in Seq(S), js # <<>>
    PROVE  \A j \in S : (\E i \in DOMAIN js : js[i] = j)
                            <=> j = Head(js) \/ \E i \in DOMAIN Tail(js) : Tail(js)[i] = j
<1> SUFFICES ASSUME NEW j \in S
             PROVE  (\E i \in DOMAIN js : js[i] = j)
                       <=> j = Head(js) \/ \E i \in DOMAIN Tail(js) : Tail(js)[i] = j
  OBVIOUS
<1>1. /\ DOMAIN js = 1 .. Len(js) /\ Len(js) \in Nat /\ Len(js) > 0
      /\ DOMAIN Tail(js) = 1 .. Len(js) - 1
      /\ \A i \in 1 .. Len(js) - 1 : Tail(js)[i] = js[i + 1]
      /\ Head(js) = js[1]
  OBVIOUS
<1>2. ASSUME NEW i \in DOMAIN js, js[i] = j
      PROVE  j = Head(js) \/ \E k \in DOMAIN Tail(js) : Tail(js)[k] = j
  <2>1. CASE i = 1
    BY <1>1, <1>2, <2>1
  <2>2. CASE i # 1
    <3>1. i - 1 \in DOMAIN Tail(js) /\ Tail(js)[i - 1] = j
      BY <1>1, <1>2, <2>2
    <3> QED
      BY <3>1
  <2> QED
    BY <2>1, <2>2
<1>3. ASSUME NEW k \in DOMAIN Tail(js), Tail(js)[k] = j
      PROVE  \E i \in DOMAIN js : js[i] = j
  <2>1. k + 1 \in DOMAIN js /\ js[k + 1] = j
    BY <1>1, <1>3
  <2> QED
    BY <2>1
<1>4. Head(js) = js[1] /\ 1 \in DOMAIN js
  BY <1>1
<1> QED
  BY <1>2, <1>3, <1>4

\* A queue that holds at most one job of a kind, as jobs come and go.
AtMostOne(js, T) == \A i, k \in DOMAIN js : js[i] \in T /\ js[k] \in T => i = k

LEMMA PushedOnce ==
    ASSUME NEW S, NEW js \in Seq(S), NEW x \in S, NEW T, AtMostOne(js, T),
           x \in T => \A i \in DOMAIN js : js[i] \notin T
    PROVE  AtMostOne(Append(js, x), T)
<1>1. /\ DOMAIN js = 1 .. Len(js) /\ Len(js) \in Nat
      /\ DOMAIN Append(js, x) = 1 .. Len(js) + 1
      /\ \A i \in 1 .. Len(js) : Append(js, x)[i] = js[i]
      /\ Append(js, x)[Len(js) + 1] = x
  OBVIOUS
<1> QED
  BY <1>1 DEF AtMostOne

LEMMA TakenOnce ==
    ASSUME NEW S, NEW js \in Seq(S), js # <<>>, NEW T, AtMostOne(js, T)
    PROVE  /\ AtMostOne(Tail(js), T)
           /\ Head(js) \in T => \A i \in DOMAIN Tail(js) : Tail(js)[i] \notin T
<1>1. /\ DOMAIN js = 1 .. Len(js) /\ Len(js) \in Nat /\ Len(js) > 0
      /\ DOMAIN Tail(js) = 1 .. Len(js) - 1
      /\ \A i \in 1 .. Len(js) - 1 : Tail(js)[i] = js[i + 1]
      /\ Head(js) = js[1]
  OBVIOUS
<1> QED
  BY <1>1 DEF AtMostOne
=============================================================================
